----------------------------- MODULE TodoLedger -----------------------------
(***************************************************************************)
(* What the todo list and its activity feed promise: every command that    *)
(* takes effect does so in one indivisible step, which changes the rows it *)
(* is about and appends exactly one event saying so.  Events are numbered, *)
(* and on any one todo the numbers grow in the order things happened.      *)
(***************************************************************************)
EXTENDS Integers

CONSTANTS Ids,        \* ids a todo row may ever have (random UUIDs)
          Jobs,       \* River jobs
          EventIds,   \* what the bigserial of app_events hands out
          Nothing     \* what a feed entry about no todo and no job is about

\* What TodoLedgerProofs assumes, and TodoStoreProofs proves of the program.
LedgerAssumption ==
    /\ EventIds \subseteq Nat
    /\ Nothing \notin Ids \cup Jobs
    /\ Ids \cap Jobs = {}

VARIABLES row,      \* each id: never inserted, open, done, or deleted for good
          events,   \* rows of app_events
          jobs      \* rows of river_job

ledgerVars == <<row, events, jobs>>

RowStates == {"unborn", "open", "done", "deleted"}
Whats == {"created", "open", "done", "deleted", "seeded", "pulse", "enqueued"}
Event == [n : EventIds, about : Ids \cup Jobs \cup {Nothing}, what : Whats]

Live(i) == row[i] \in {"open", "done"}

LedgerTypeOK ==
    /\ row \in [Ids -> RowStates]
    /\ events \in SUBSET Event
    /\ jobs \in SUBSET Jobs

\* A freshly migrated database: some open todos that no event created.
LedgerInit ==
    /\ row \in [Ids -> {"unborn", "open"}]
    /\ events = {}
    /\ jobs = {}

-----------------------------------------------------------------------------
\* Append an event whose number is unused and is the largest for its subject.
Append(about, what) ==
    \E n \in EventIds :
        /\ \A f \in events : f.n # n /\ (f.about = about /\ about \in Ids => f.n < n)
        /\ events' = events \cup {[n |-> n, about |-> about, what |-> what]}

Create(i) ==
    /\ row[i] = "unborn"
    /\ row' = [row EXCEPT ![i] = "open"]
    /\ Append(i, "created")
    /\ jobs' = jobs

Flipped(state) == IF state = "open" THEN "done" ELSE "open"

Toggle(i) ==
    /\ Live(i)
    /\ row' = [row EXCEPT ![i] = Flipped(@)]
    /\ Append(i, Flipped(row[i]))
    /\ jobs' = jobs

Delete(i) ==
    /\ Live(i)
    /\ row' = [row EXCEPT ![i] = "deleted"]
    /\ Append(i, "deleted")
    /\ jobs' = jobs

Seed(new) ==
    /\ \A i \in new : row[i] = "unborn"
    /\ row' = [i \in Ids |-> IF i \in new THEN "open" ELSE row[i]]
    /\ Append(Nothing, "seeded")
    /\ jobs' = jobs

Enqueue(j) ==
    /\ j \notin jobs
    /\ jobs' = jobs \cup {j}
    /\ Append(j, "enqueued")
    /\ row' = row

Pulse == Append(Nothing, "pulse") /\ UNCHANGED <<row, jobs>>

LedgerNext ==
    \/ \E i \in Ids : Create(i) \/ Toggle(i) \/ Delete(i)
    \/ \E new \in SUBSET Ids : Seed(new)
    \/ \E j \in Jobs : Enqueue(j)
    \/ Pulse

LedgerSpec == LedgerInit /\ [][LedgerNext]_ledgerVars

-----------------------------------------------------------------------------
(* What a reader of the feed may conclude                                  *)

On(i) == {e \in events : e.about = i}

\* e is the event on its subject with the largest number below f's.
Precedes(e, f) ==
    /\ e.about = f.about
    /\ e.n < f.n
    /\ \A g \in events : g.about = f.about /\ g.n < f.n => g.n <= e.n

\* The state in which each kind of event leaves its todo.
LeftBy(what) == IF what = "created" THEN "open" ELSE what

\* The newest event on a todo tells the todo's present state; a todo without
\* any event was never touched (app.go:244-256, 274-281, 217-223).
LastWord ==
    \A i \in Ids :
        /\ \A e \in On(i) : (\A f \in On(i) : f.n <= e.n) => row[i] = LeftBy(e.what)
        /\ On(i) = {} => row[i] \in {"unborn", "open"}

\* Read in the order of their numbers, the events on one todo are a possible
\* life: created first if at all, done and open in turn, deleted last.
AuditChain ==
    \A f \in events : f.about \in Ids =>
        /\ f.what \in {"created", "open", "done", "deleted"}
        /\ f.what \in {"created", "open"} /\ (\A e \in events : ~Precedes(e, f))
               => f.what = "created"
        /\ \A e \in events : Precedes(e, f) =>
            CASE f.what = "done"    -> LeftBy(e.what) = "open"
              [] f.what = "open"    -> e.what = "done"
              [] f.what = "deleted" -> e.what # "deleted"
              [] OTHER              -> FALSE

\* A job is enqueued exactly when the feed says so (app.go:303-324).
JobIffEvent ==
    \A j \in Jobs : j \in jobs <=> \E e \in events : e.about = j /\ e.what = "enqueued"
=============================================================================
