-------------------------- MODULE TodoLedgerProofs --------------------------
(***************************************************************************)
(* What a reader may conclude from the feed holds in every behaviour of    *)
(* the abstract ledger, whatever ids, jobs and event numbers there are.    *)
(***************************************************************************)
EXTENDS TodoLedger, TLAPS

(***************************************************************************)
(* LastWord and AuditChain are inductive once three facts are added: event *)
(* numbers are unique, an id without a row has no events, and the events   *)
(* on a todo, if any, have a newest one.                                   *)
(***************************************************************************)
UniqueNumbers == \A e, f \in events : e.n = f.n => e = f

UnbornIsUnheard == \A i \in Ids : row[i] = "unborn" => On(i) = {}

Newest(i, e) == e \in On(i) /\ \A f \in On(i) : f.n <= e.n

NewestExists == \A i \in Ids : On(i) # {} => \E e \in On(i) : Newest(i, e)

LedgerInv ==
    /\ LedgerTypeOK
    /\ UniqueNumbers
    /\ UnbornIsUnheard
    /\ NewestExists
    /\ LastWord
    /\ AuditChain
    /\ JobIffEvent

\* What one command adds: an event with an unused number, the largest on its
\* subject.
Appended(e) ==
    /\ e \in Event
    /\ events' = events \cup {e}
    /\ \A f \in events : f.n # e.n /\ (f.about = e.about /\ e.about \in Ids => f.n < e.n)

LEMMA AppendAppends ==
    ASSUME NEW about \in Ids \cup Jobs \cup {Nothing}, NEW what \in Whats,
           Append(about, what)
    PROVE  \E e \in Event : e.about = about /\ e.what = what /\ Appended(e)
<1>1. PICK n \in EventIds :
        /\ \A f \in events : f.n # n /\ (f.about = about /\ about \in Ids => f.n < n)
        /\ events' = events \cup {[n |-> n, about |-> about, what |-> what]}
  BY DEF Append
<1>. DEFINE e == [n |-> n, about |-> about, what |-> what]
<1>2. e \in Event /\ e.about = about /\ e.what = what /\ e.n = n
  BY DEF Event
<1>. QED
  BY <1>1, <1>2 DEF Appended

\* Appending keeps numbers unique and gives the subject a newest event, the new
\* one; the events on every other todo are what they were.
LEMMA AppendedFeed ==
    ASSUME LedgerAssumption, LedgerInv, NEW e \in Event, Appended(e)
    PROVE  /\ UniqueNumbers'
           /\ NewestExists'
           /\ \A i \in Ids : e.about # i => On(i)' = On(i)
           /\ \A i \in Ids : e.about = i =>
                /\ On(i)' = On(i) \cup {e}
                /\ \A f \in On(i) : f.n < e.n
<1>. USE DEF LedgerAssumption, Appended
<1>1. UniqueNumbers'
  BY DEF LedgerInv, UniqueNumbers
<1>2. \A i \in Ids : e.about # i => On(i)' = On(i)
  BY DEF On
<1>3. \A i \in Ids : e.about = i =>
        On(i)' = On(i) \cup {e} /\ \A f \in On(i) : f.n < e.n
  BY DEF On
<1>4. \A f \in events \cup {e} : f.n \in Nat
  BY DEF LedgerInv, LedgerTypeOK, Event
<1>5. ASSUME NEW i \in Ids, On(i)' # {} PROVE \E f \in On(i)' : Newest(i, f)'
  <2>1. CASE e.about = i
    <3>1. e \in On(i)' /\ \A f \in On(i)' : f.n <= e.n
      BY <1>3, <1>4, <2>1 DEF On
    <3>. QED
      BY <3>1 DEF Newest
  <2>2. CASE e.about # i
    BY <1>2, <1>5, <2>2 DEF LedgerInv, NewestExists, Newest
  <2>. QED
    BY <2>1, <2>2
<1>. QED
  BY <1>1, <1>2, <1>3, <1>5 DEF NewestExists

\* The feed's history does not change: an event on a todo keeps its predecessor,
\* and the predecessor of a new one is the newest event before it.
LEMMA AppendedPrecedes ==
    ASSUME LedgerAssumption, LedgerInv, NEW e \in Event, Appended(e)
    PROVE  /\ \A f, g \in events : f.about \in Ids => (Precedes(g, f)' <=> Precedes(g, f))
           /\ \A f \in events : f.about \in Ids => ~Precedes(e, f)'
           /\ ~Precedes(e, e)'
           /\ e.about \in Ids =>
                \A g \in events : Precedes(g, e)' <=> Newest(e.about, g)
<1>. USE DEF LedgerAssumption, Appended
<1>1. \A f \in events \cup {e} : f.n \in Nat
  BY DEF LedgerInv, LedgerTypeOK, Event
<1>2. \A f, g \in events : f.about \in Ids => (Precedes(g, f)' <=> Precedes(g, f))
  BY <1>1 DEF Precedes
<1>3. \A f \in events : f.about \in Ids => ~Precedes(e, f)'
  BY <1>1 DEF Precedes
<1>4. ~Precedes(e, e)'
  BY <1>1 DEF Precedes
<1>5. ASSUME e.about \in Ids, NEW g \in events
      PROVE  Precedes(g, e)' <=> Newest(e.about, g)
  BY <1>1, <1>5 DEF Precedes, Newest, On
<1>. QED
  BY <1>2, <1>3, <1>4, <1>5

\* What AuditChain says of one event.
Legal(f) ==
    /\ f.what \in {"created", "open", "done", "deleted"}
    /\ f.what \in {"created", "open"} /\ (\A e \in events : ~Precedes(e, f))
           => f.what = "created"
    /\ \A e \in events : Precedes(e, f) =>
        CASE f.what = "done"    -> LeftBy(e.what) = "open"
          [] f.what = "open"    -> e.what = "done"
          [] f.what = "deleted" -> e.what # "deleted"
          [] OTHER              -> FALSE

\* An event on a todo is legal when it fits the row's state before it.
Fits(e) ==
    \/ e.what = "created" /\ row[e.about] = "unborn"
    \/ e.what = "done" /\ row[e.about] = "open"
    \/ e.what = "open" /\ row[e.about] = "done"
    \/ e.what = "deleted" /\ row[e.about] \in {"open", "done"}

LEMMA AppendedChain ==
    ASSUME LedgerAssumption, LedgerInv, NEW e \in Event, Appended(e), e.about \in Ids => Fits(e)
    PROVE  AuditChain'
<1>. USE DEF Appended
<1>1. ASSUME NEW f \in events, f.about \in Ids PROVE Legal(f)'
  <2>1. Legal(f)
    BY <1>1 DEF LedgerInv, AuditChain, Legal
  <2>2. /\ \A g \in events : Precedes(g, f)' <=> Precedes(g, f)
        /\ ~Precedes(e, f)'
    BY <1>1, AppendedPrecedes
  <2>3. \A g \in events' : Precedes(g, f)' => g \in events /\ Precedes(g, f)
    BY <2>2
  <2>4. (\A g \in events' : ~Precedes(g, f)') => \A g \in events : ~Precedes(g, f)
    BY <2>2
  <2>. QED
    BY <2>1, <2>3, <2>4 DEF Legal, LeftBy
<1>2. ASSUME e.about \in Ids PROVE Legal(e)'
  <2>. DEFINE i == e.about
  <2>1. \A g \in events' : Precedes(g, e)' => g \in On(i) /\ Newest(i, g)
    BY <1>2, AppendedPrecedes DEF Newest
  <2>2. \A g \in On(i) : Newest(i, g) => row[i] = LeftBy(g.what)
    BY <1>2 DEF LedgerInv, LastWord, Newest
  <2>3. Fits(e)
    BY <1>2
  <2>4. e.what \in {"created", "open", "done", "deleted"}
    BY <2>3 DEF Fits
  <2>5. CASE e.what = "created"
    <3>1. On(i) = {}
      BY <1>2, <2>3, <2>5 DEF Fits, LedgerInv, UnbornIsUnheard
    <3>. QED
      BY <2>1, <2>5, <3>1 DEF Legal
  <2>6. CASE e.what = "open"
    <3>1. row[i] = "done" /\ On(i) # {}
      BY <1>2, <2>3, <2>6 DEF Fits, LedgerInv, LastWord
    <3>2. PICK g \in On(i) : Newest(i, g)
      BY <1>2, <3>1 DEF LedgerInv, NewestExists
    <3>3. g \in events /\ Precedes(g, e)'
      BY <1>2, <3>2, AppendedPrecedes DEF On
    <3>4. \A h \in events' : Precedes(h, e)' => h.what = "done"
      BY <2>1, <2>2, <3>1 DEF LeftBy
    <3>. QED
      BY <2>6, <3>3, <3>4 DEF Legal
  <2>7. CASE e.what = "done"
    <3>1. row[i] = "open"
      BY <2>3, <2>7 DEF Fits
    <3>. QED
      BY <2>1, <2>2, <2>7, <3>1 DEF Legal, LeftBy
  <2>8. CASE e.what = "deleted"
    <3>1. row[i] \in {"open", "done"}
      BY <2>3, <2>8 DEF Fits
    <3>. QED
      BY <2>1, <2>2, <2>8, <3>1 DEF Legal, LeftBy
  <2>. QED
    BY <2>4, <2>5, <2>6, <2>7, <2>8
<1>3. \A f \in events' : f.about \in Ids => Legal(f)'
  BY <1>1, <1>2
<1>. QED
  BY <1>3 DEF AuditChain, Legal

\* A command on one todo: the event fits the row and tells the row's new state.
LEMMA TodoCommand ==
    ASSUME LedgerAssumption, LedgerInv, NEW i \in Ids, NEW e \in Event,
           Appended(e), e.about = i, Fits(e),
           row' = [row EXCEPT ![i] = LeftBy(e.what)], jobs' = jobs
    PROVE  LedgerInv'
<1>. USE DEF LedgerAssumption, LedgerInv
<1>1. LeftBy(e.what) \in RowStates /\ LeftBy(e.what) # "unborn"
  BY DEF Fits, LeftBy, RowStates
<1>2. LedgerTypeOK'
  BY <1>1 DEF LedgerTypeOK, Appended
<1>3. UniqueNumbers' /\ NewestExists'
  BY AppendedFeed
<1>4. /\ \A j \in Ids : j # i => On(j)' = On(j) /\ row'[j] = row[j]
      /\ On(i)' = On(i) \cup {e}
      /\ \A f \in On(i) : f.n < e.n
      /\ row'[i] = LeftBy(e.what)
  BY AppendedFeed DEF LedgerTypeOK
<1>5. UnbornIsUnheard'
  BY <1>1, <1>4 DEF UnbornIsUnheard
<1>6. LastWord'
  <2>0. \A f \in On(i)' : f.n \in Nat
    BY <1>2 DEF LedgerTypeOK, Event, On
  <2>1. \A f \in On(i)' : (\A g \in On(i)' : g.n <= f.n) => f = e
    BY <1>4, <2>0
  <2>. QED
    BY <1>4, <2>1 DEF LastWord
<1>7. AuditChain'
  BY AppendedChain
<1>8. JobIffEvent'
  BY DEF JobIffEvent, Appended
<1>. QED
  BY <1>2, <1>3, <1>5, <1>6, <1>7, <1>8

\* A command on no todo: rows may only be born, open and without an event.
LEMMA OtherCommand ==
    ASSUME LedgerAssumption, LedgerInv, NEW e \in Event, Appended(e), e.about \notin Ids,
           row' \in [Ids -> RowStates],
           \A i \in Ids : row'[i] = row[i] \/ (row[i] = "unborn" /\ row'[i] = "open"),
           jobs' \in SUBSET Jobs,
           \A j \in Jobs : j \in jobs' <=>
                j \in jobs \/ (e.about = j /\ e.what = "enqueued")
    PROVE  LedgerInv'
<1>. USE DEF LedgerAssumption, LedgerInv
<1>1. LedgerTypeOK'
  BY DEF LedgerTypeOK, Appended
<1>2. UniqueNumbers' /\ NewestExists'
  BY AppendedFeed
<1>3. \A i \in Ids : On(i)' = On(i)
  BY AppendedFeed
<1>4. UnbornIsUnheard'
  BY <1>3 DEF UnbornIsUnheard
<1>5. LastWord'
  BY <1>3 DEF LastWord, UnbornIsUnheard
<1>6. AuditChain'
  BY AppendedChain
<1>7. JobIffEvent'
  <2>1. \A j \in Jobs : j \in jobs <=> \E f \in events : f.about = j /\ f.what = "enqueued"
    BY DEF JobIffEvent
  <2>2. events' = events \cup {e}
    BY DEF Appended
  <2>. QED
    BY <2>1, <2>2 DEF JobIffEvent
<1>. QED
  BY <1>1, <1>2, <1>4, <1>5, <1>6, <1>7

\* LedgerInv is inductive.
LEMMA LedgerStep ==
    ASSUME LedgerAssumption, LedgerInv, [LedgerNext]_ledgerVars
    PROVE  LedgerInv'
<1>. USE DEF LedgerAssumption
<1>1. CASE UNCHANGED ledgerVars
  BY <1>1 DEF ledgerVars, LedgerInv, LedgerTypeOK, UniqueNumbers, UnbornIsUnheard,
     NewestExists, Newest, LastWord, AuditChain, JobIffEvent, On, Precedes
<1>2. ASSUME NEW i \in Ids, Create(i) PROVE LedgerInv'
  <2>1. PICK e \in Event : e.about = i /\ e.what = "created" /\ Appended(e)
    BY <1>2, AppendAppends DEF Create, Whats
  <2>. QED
    BY <1>2, <2>1, TodoCommand DEF Create, Fits, LeftBy
<1>3. ASSUME NEW i \in Ids, Toggle(i) PROVE LedgerInv'
  <2>1. Flipped(row[i]) \in Whats
    BY DEF Flipped, Whats
  <2>2. PICK e \in Event : e.about = i /\ e.what = Flipped(row[i]) /\ Appended(e)
    BY <1>3, <2>1, AppendAppends DEF Toggle
  <2>3. Fits(e) /\ LeftBy(e.what) = Flipped(row[i])
    BY <1>3, <2>2 DEF Toggle, Live, Fits, Flipped, LeftBy
  <2>. QED
    BY <1>3, <2>2, <2>3, TodoCommand DEF Toggle
<1>4. ASSUME NEW i \in Ids, Delete(i) PROVE LedgerInv'
  <2>1. PICK e \in Event : e.about = i /\ e.what = "deleted" /\ Appended(e)
    BY <1>4, AppendAppends DEF Delete, Whats
  <2>. QED
    BY <1>4, <2>1, TodoCommand DEF Delete, Live, Fits, LeftBy
<1>5. ASSUME NEW new \in SUBSET Ids, Seed(new) PROVE LedgerInv'
  <2>1. PICK e \in Event : e.about = Nothing /\ e.what = "seeded" /\ Appended(e)
    BY <1>5, AppendAppends DEF Seed, Whats
  <2>2. /\ row' \in [Ids -> RowStates]
        /\ \A i \in Ids : row'[i] = row[i] \/ (row[i] = "unborn" /\ row'[i] = "open")
    <3>1. row \in [Ids -> RowStates] /\ "open" \in RowStates
      BY DEF LedgerInv, LedgerTypeOK, RowStates
    <3>. QED
      BY <1>5, <3>1 DEF Seed
  <2>3. e.about \notin Ids \cup Jobs /\ jobs' = jobs /\ jobs \in SUBSET Jobs
    BY <1>5, <2>1 DEF Seed, LedgerInv, LedgerTypeOK
  <2>. QED
    BY <2>1, <2>2, <2>3, OtherCommand
<1>6. ASSUME NEW j \in Jobs, Enqueue(j) PROVE LedgerInv'
  <2>1. PICK e \in Event : e.about = j /\ e.what = "enqueued" /\ Appended(e)
    BY <1>6, AppendAppends DEF Enqueue, Whats
  <2>2. /\ e.about \notin Ids /\ jobs' = jobs \cup {j} /\ jobs' \in SUBSET Jobs
        /\ row' = row /\ row \in [Ids -> RowStates]
    BY <1>6, <2>1 DEF Enqueue, LedgerInv, LedgerTypeOK
  <2>. QED
    BY <2>1, <2>2, OtherCommand
<1>7. CASE Pulse
  <2>1. PICK e \in Event : e.about = Nothing /\ e.what = "pulse" /\ Appended(e)
    BY <1>7, AppendAppends DEF Pulse, Whats
  <2>2. /\ e.about \notin Ids \cup Jobs /\ jobs' = jobs /\ jobs \in SUBSET Jobs
        /\ row' = row /\ row \in [Ids -> RowStates]
    BY <1>7, <2>1 DEF Pulse, LedgerInv, LedgerTypeOK
  <2>. QED
    BY <2>1, <2>2, OtherCommand
<1>. QED
  BY <1>1, <1>2, <1>3, <1>4, <1>5, <1>6, <1>7 DEF LedgerNext

LEMMA LedgerStart ==
    ASSUME LedgerAssumption, LedgerInit
    PROVE  LedgerInv
BY DEF LedgerAssumption, LedgerInit, LedgerInv, LedgerTypeOK, RowStates, UniqueNumbers, UnbornIsUnheard,
    NewestExists, Newest, LastWord, AuditChain, JobIffEvent, On, Precedes

\* In the abstract ledger the newest event on a todo tells its state, the events
\* on a todo are a possible life of it, and jobs and their events go together.
THEOREM LedgerIsTruthful ==
    ASSUME LedgerAssumption
    PROVE  LedgerSpec => [](LastWord /\ AuditChain /\ JobIffEvent)
<1>1. LedgerInv => LastWord /\ AuditChain /\ JobIffEvent
  BY DEF LedgerInv
<1>2. LedgerInit => LedgerInv
  BY LedgerStart
<1>3. LedgerInv /\ [LedgerNext]_ledgerVars => LedgerInv'
  BY LedgerStep
<1>. QED
  BY <1>1, <1>2, <1>3, PTL DEF LedgerSpec
=============================================================================
