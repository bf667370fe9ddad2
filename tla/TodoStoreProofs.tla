--------------------------- MODULE TodoStoreProofs ---------------------------
(***************************************************************************)
(* The transactions of TodoStore implement the indivisible commands of     *)
(* TodoLedger, for any number of requests, todos and connections; so what  *)
(* a reader may conclude from the feed holds of the program's database.    *)
(***************************************************************************)
EXTENDS TodoStore, TLAPS

-----------------------------------------------------------------------------
(* Type correctness                                                        *)

\* Ending a transaction and answering keep the types.
LEMMA EndTxTypes ==
    ASSUME TypeOK, NEW r \in Requests, EndTx(r)
    PROVE  /\ touched' \in [Requests -> SUBSET Ids]
           /\ target' \in [Requests -> RowStates \ {"unborn"}]
           /\ entry' \in [Requests -> SUBSET Event]
           /\ job' \in [Requests -> BOOLEAN]
  BY DEF TypeOK, EndTx

LEMMA FinishTypes ==
    ASSUME TypeOK, NEW r \in Requests,
           NEW result \in {"none", "ok", "error", "missing", "refused"}, Finish(r, result)
    PROVE  /\ pc' \in [Requests -> {"idle", "begin", "work", "seed", "log", "commit",
                                    "rollback", "publish", "served"}]
           /\ answer' \in [Requests -> {"none", "ok", "error", "missing", "refused"}]
           /\ conns' \in SUBSET Requests
  BY DEF TypeOK, Finish, Go

LEMMA ApplyTypes ==
    ASSUME TypeOK, NEW r \in Requests, Apply(r)
    PROVE  /\ row' \in [Ids -> RowStates]
           /\ events' \in SUBSET Event
           /\ jobs' \in SUBSET Requests
           /\ committed' \in SUBSET Requests
  BY DEF TypeOK, Apply

LEMMA InsertTypes ==
    ASSUME TypeOK, NEW r \in Requests, NEW text \in Items \cup {Typed}, Insert(r, text)
    PROVE  /\ touched' \in [Requests -> SUBSET Ids]
           /\ target' \in [Requests -> RowStates \ {"unborn"}]
           /\ body' \in [Ids -> Items \cup {Typed}]
<1>1. "open" \in RowStates \ {"unborn"}
  BY DEF RowStates
<1>2. PICK i \in Ids : /\ touched' = [touched EXCEPT ![r] = @ \cup {i}]
                       /\ target' = [target EXCEPT ![r] = "open"]
                       /\ body' = [body EXCEPT ![i] = text]
  BY DEF Insert
<1>. QED
  BY <1>1, <1>2 DEF TypeOK

\* The event a request inserts is one the feed can hold.
LEMMA NewEventTypes ==
    ASSUME TypeOK, NEW r \in Requests, nextEvent \in EventIds, NEW about \in About(r)
    PROVE  [n |-> nextEvent, about |-> about, what |-> What(r)] \in Event
<1>1. What(r) \in Whats
  BY DEF TypeOK, What, Whats, RowStates, OnRow
<1>2. about \in Ids \cup Requests \cup {Nothing}
  BY DEF TypeOK, About
<1>. QED
  BY <1>1, <1>2 DEF Event

\* Every step of a handler or of the server keeps the types.
LEMMA TypeOKStep == TypeOK /\ [Next]_vars => TypeOK'
<1>. SUFFICES ASSUME TypeOK, [Next]_vars PROVE TypeOK'
  OBVIOUS
<1>1. CASE UNCHANGED vars
  BY <1>1 DEF vars, tables, txVars, TypeOK
<1>2. ASSUME NEW r \in Requests, Receive(r) PROVE TypeOK'
  <2>0. PICK op \in Ops : \E i \in (IF op \in OnRow THEN Ids ELSE {Nothing}) :
            cmd' = [cmd EXCEPT ![r] = [op |-> op, id |-> i]]
    BY <1>2 DEF Receive
  <2>1. PICK i \in (IF op \in OnRow THEN Ids ELSE {Nothing}) :
            cmd' = [cmd EXCEPT ![r] = [op |-> op, id |-> i]]
    BY <2>0
  <2>2. [op |-> op, id |-> i] \in Command
    BY <2>1, StoreAssumption DEF Command
  <2>3. cmd' \in [Requests -> Command]
    BY <2>1, <2>2 DEF TypeOK
  <2>. QED
    BY <1>2, <2>3 DEF Receive, Go, TypeOK, tables, txVars
<1>3. ASSUME NEW r \in Requests, Refuse(r) \/ BeginFails(r) PROVE TypeOK'
  BY <1>3, FinishTypes DEF Refuse, BeginFails, TypeOK, tables, txVars
<1>4. ASSUME NEW r \in Requests, Begin(r) PROVE TypeOK'
  BY <1>4 DEF Begin, Go, TypeOK, tables, txVars
<1>5. ASSUME NEW r \in Requests, CreateTodo(r) PROVE TypeOK'
  BY <1>5, InsertTypes DEF CreateTodo, Go, TypeOK, tables
<1>6. ASSUME NEW r \in Requests, ChangeTodo(r) PROVE TypeOK'
  <2>1. cmd[r].id \in Ids
    BY <1>6 DEF ChangeTodo, TypeOK, Command, Op
  <2>2. Changed(Op(r), row[cmd[r].id]) \in RowStates \ {"unborn"}
    BY DEF Changed, RowStates
  <2>. QED
    BY <1>6, <2>1, <2>2 DEF ChangeTodo, Go, TypeOK, tables
<1>7. ASSUME NEW r \in Requests, NoSuchTodo(r) \/ StatementFails(r) PROVE TypeOK'
  <2>1. CASE NoSuchTodo(r)
    BY <2>1 DEF NoSuchTodo, Go, TypeOK, tables, txVars
  <2>2. CASE StatementFails(r)
    BY <2>2 DEF StatementFails, Go, TypeOK, tables, txVars
  <2>. QED
    BY <1>7, <2>1, <2>2
<1>8. ASSUME NEW r \in Requests, SeedRead(r) \/ SeedInserted(r) PROVE TypeOK'
  <2>1. PICK items \in SUBSET Items :
            missing' = missing \/ missing' = [missing EXCEPT ![r] = items]
    <3>1. Items \ LiveBodies \in SUBSET Items
      OBVIOUS
    <3>. QED
      BY <1>8, <3>1 DEF SeedRead, SeedInserted
  <2>2. missing' \in [Requests -> SUBSET Items]
    <3>1. missing \in [Requests -> SUBSET Items]
      BY DEF TypeOK
    <3>. QED
      BY <2>1, <3>1
  <2>3. pc' \in [Requests -> {"idle", "begin", "work", "seed", "log", "commit",
                                 "rollback", "publish", "served"}]
    BY <1>8 DEF SeedRead, SeedInserted, Go, TypeOK
  <2>4. UNCHANGED <<tables, body, txVars, orphan, nextEvent, cmd, conns, answer, committed>>
    BY <1>8 DEF SeedRead, SeedInserted
  <2>. QED
    BY <2>2, <2>3, <2>4 DEF TypeOK, tables, txVars
<1>9. ASSUME NEW r \in Requests, SeedInsert(r) PROVE TypeOK'
  <2>1. PICK item \in missing[r] :
            Insert(r, item) /\ missing' = [missing EXCEPT ![r] = @ \ {item}]
    BY <1>9 DEF SeedInsert
  <2>2. item \in Items
    BY <2>1 DEF TypeOK
  <2>. QED
    BY <1>9, <2>1, <2>2, InsertTypes DEF SeedInsert, TypeOK, tables
<1>10. ASSUME NEW r \in Requests, InsertJob(r) PROVE TypeOK'
  BY <1>10 DEF InsertJob, Go, TypeOK, tables
<1>11. ASSUME NEW r \in Requests, InsertEvent(r) PROVE TypeOK'
  <2>1. PICK about \in About(r) : entry' = [entry EXCEPT ![r] =
                     {[n |-> nextEvent, about |-> about, what |-> What(r)]}]
    BY <1>11 DEF InsertEvent
  <2>2. [n |-> nextEvent, about |-> about, what |-> What(r)] \in Event
    BY <1>11, NewEventTypes DEF InsertEvent
  <2>3. entry' \in [Requests -> SUBSET Event]
    BY <2>1, <2>2 DEF TypeOK
  <2>4. nextEvent' \in Nat \ {0}
    <3>1. nextEvent \in Nat \ {0}
      BY DEF TypeOK
    <3>2. nextEvent' = nextEvent + 1
      BY <1>11 DEF InsertEvent
    <3>. QED
      BY <3>1, <3>2
  <2>. QED
    BY <1>11, <2>3, <2>4 DEF InsertEvent, Go, TypeOK, tables
<1>12. ASSUME NEW r \in Requests, Rollback(r) PROVE TypeOK'
  <2>1. answer[r] \in {"none", "ok", "error", "missing", "refused"}
    BY DEF TypeOK
  <2>2. EndTx(r) /\ Finish(r, answer[r])
    BY <1>12 DEF Rollback
  <2>3. UNCHANGED <<tables, body, orphan, nextEvent, cmd, missing, committed>>
    BY <1>12 DEF Rollback
  <2>4. /\ pc' \in [Requests -> {"idle", "begin", "work", "seed", "log", "commit",
                                  "rollback", "publish", "served"}]
        /\ answer' \in [Requests -> {"none", "ok", "error", "missing", "refused"}]
        /\ conns' \in SUBSET Requests
    BY <2>1, <2>2, FinishTypes
  <2>. QED
    BY <2>2, <2>3, <2>4, EndTxTypes DEF TypeOK, tables
<1>13. ASSUME NEW r \in Requests, Commit(r) PROVE TypeOK'
  BY <1>13, EndTxTypes, ApplyTypes DEF Commit, Go, TypeOK
<1>14. ASSUME NEW r \in Requests, CommitFails(r) PROVE TypeOK'
  BY <1>14, EndTxTypes, FinishTypes DEF CommitFails, TypeOK, tables
<1>15. ASSUME NEW r \in Requests, Abandon(r) PROVE TypeOK'
  BY <1>15, FinishTypes DEF Abandon, TypeOK, tables, txVars
<1>16. ASSUME NEW r \in Requests, OrphanAborts(r) PROVE TypeOK'
  BY <1>16, EndTxTypes DEF OrphanAborts, TypeOK, tables
<1>17. ASSUME NEW r \in Requests, OrphanCommits(r) PROVE TypeOK'
  BY <1>17, EndTxTypes, ApplyTypes DEF OrphanCommits, TypeOK
<1>18. ASSUME NEW r \in Requests, Publish(r) PROVE TypeOK'
  BY <1>18, FinishTypes DEF Publish, TypeOK, tables, txVars
<1>. QED
  BY <1>1, <1>2, <1>3, <1>4, <1>5, <1>6, <1>7, <1>8, <1>9, <1>10, <1>11, <1>12,
     <1>13, <1>14, <1>15, <1>16, <1>17, <1>18
  DEF Next, Step, Work, Finished

LEMMA TypeOKStart == Init => TypeOK
<1>1. [op |-> "pulse", id |-> Nothing] \in Command
  BY DEF Command, AllOps, OnRow
<1>2. "open" \in RowStates \ {"unborn"} /\ "unborn" \in RowStates
  BY DEF RowStates
<1>. QED
  BY <1>1, <1>2 DEF Init, TypeOK

\* TodoStore's variables keep their types in every behaviour.
THEOREM TypeCorrect == Spec => []TypeOK
BY TypeOKStart, TypeOKStep, PTL DEF Spec
-----------------------------------------------------------------------------
(***************************************************************************)
(* The inductive invariant.  Row locks keep the transactions in flight     *)
(* apart, so that what one has prepared still fits the tables when it      *)
(* commits, and the sequence keeps its event's number above those of all   *)
(* events on its todo.                                                     *)
(***************************************************************************)

\* Nothing is open on behalf of r.
NoTx(r) == touched[r] = {} /\ entry[r] = {} /\ ~job[r]

\* The transaction of r, or what is left of it, may yet commit.
MayCommit(r) == pc[r] = "commit" \/ orphan[r] = "may commit"

\* r has prepared some or all of its change to the tables.
Preparing(r) == pc[r] \in {"seed", "log"} \/ MayCommit(r)

\* Where a handler is tells what its transaction holds.
Placed(r) ==
    /\ orphan[r] # "no" => pc[r] = "served"
    /\ pc[r] \in {"idle", "begin", "work", "publish"} => NoTx(r)
    /\ pc[r] = "served" /\ orphan[r] = "no" => NoTx(r)
    /\ entry[r] # {} => MayCommit(r)
    /\ pc[r] = "seed" => Op(r) = "seed"
    /\ r \in jobs => pc[r] \in {"publish", "served"} /\ orphan[r] = "no"

\* What r has prepared is its command, for the rows as they are committed.
Prepared(r) ==
    /\ Op(r) = "create" =>
        \E i \in Ids : touched[r] = {i} /\ row[i] = "unborn" /\ target[r] = "open"
    /\ Op(r) \in OnRow =>
        LET i == cmd[r].id
        IN  touched[r] = {i} /\ Live(i) /\ target[r] = Changed(Op(r), row[i])
    /\ Op(r) = "seed" => \A i \in touched[r] : row[i] = "unborn" /\ target[r] = "open"
    /\ Op(r) \in {"enqueue", "pulse"} => touched[r] = {}
    /\ pc[r] # "seed" => (job[r] <=> Op(r) = "enqueue")
    /\ pc[r] = "seed" => ~job[r]

\* The event r has inserted is the event of its command.
Told(r) == \E e \in Event : entry[r] = {e} /\ e.about \in About(r) /\ e.what = What(r)

Sound(r) ==
    /\ Placed(r)
    /\ Preparing(r) => Prepared(r)
    /\ MayCommit(r) => Told(r)

\* No row is changed by two open transactions.
Apart == \A r, q \in Requests : r # q => touched[r] \cap touched[q] = {}

\* Event e, not yet committed, would be new and the newest on its todo.
NumberedAfter(e) ==
    \A f \in events : f.n # e.n /\ (f.about = e.about /\ e.about \in Ids => f.n < e.n)

Numbers ==
    /\ \A e \in events : e.n < nextEvent
    /\ \A r \in Requests : \A e \in entry[r] :
        /\ e.n < nextEvent
        /\ NumberedAfter(e)
        /\ \A q \in Requests : \A f \in entry[q] : q # r => f.n # e.n

StoreInv == TypeOK /\ (\A r \in Requests : Sound(r)) /\ Apart /\ Numbers

LEMMA StoreInvStart == Init => StoreInv
<1>1. Init => TypeOK
  BY TypeOKStart
<1>. QED
  BY <1>1 DEF Init, StoreInv, Sound, Placed, NoTx, MayCommit, Preparing, Apart,
     Numbers, Op

-----------------------------------------------------------------------------
(* StoreInv is inductive                                                   *)

\* A step leaves request q, and the rows its transaction has changed, alone.
Undisturbed(q) ==
    /\ touched'[q] = touched[q] /\ target'[q] = target[q]
    /\ entry'[q] = entry[q] /\ job'[q] = job[q]
    /\ orphan'[q] = orphan[q] /\ pc'[q] = pc[q] /\ cmd'[q] = cmd[q]
    /\ \A i \in touched[q] : row'[i] = row[i]
    /\ q \in jobs' <=> q \in jobs

LEMMA UndisturbedIsSound ==
    ASSUME NEW q \in Requests, Sound(q), Undisturbed(q)
    PROVE  Sound(q)'
<1>. USE DEF Undisturbed
<1>1. MayCommit(q)' <=> MayCommit(q)
  BY DEF MayCommit
<1>2. Op(q)' = Op(q) /\ About(q)' = About(q) /\ What(q)' = What(q)
  BY DEF Op, About, What
<1>3. Placed(q)'
  BY <1>1, <1>2 DEF Sound, Placed, NoTx
<1>4. Preparing(q)' <=> Preparing(q)
  BY <1>1 DEF Preparing
<1>5. Prepared(q) => Prepared(q)'
  BY <1>2 DEF Prepared, Live
<1>6. Told(q) => Told(q)'
  BY <1>2 DEF Told
<1>. QED
  BY <1>1, <1>3, <1>4, <1>5, <1>6 DEF Sound

\* The requests' variables are functions on Requests, whatever they map to.
LEMMA Functions ==
    ASSUME TypeOK
    PROVE  /\ pc = [q \in Requests |-> pc[q]]
           /\ cmd = [q \in Requests |-> cmd[q]]
           /\ orphan = [q \in Requests |-> orphan[q]]
           /\ touched = [q \in Requests |-> touched[q]]
           /\ target = [q \in Requests |-> target[q]]
           /\ job = [q \in Requests |-> job[q]]
  BY DEF TypeOK

\* A step of r changes nothing that another transaction is about.
LEMMA OneSteps ==
    ASSUME StoreInv, TypeOK', NEW r \in Requests,
           \A q \in Requests \ {r} : Undisturbed(q),
           Sound(r)', Apart', Numbers'
    PROVE  StoreInv'
  BY UndisturbedIsSound DEF StoreInv

\* Transactions that only end or stay as they are keep apart and in order.
LEMMA FewerLocks ==
    ASSUME StoreInv,
           \A q \in Requests : touched'[q] \subseteq touched[q] /\ entry'[q] \subseteq entry[q],
           events' = events, nextEvent' = nextEvent
    PROVE  Apart' /\ Numbers'
  BY DEF StoreInv, Apart, Numbers, NumberedAfter

\* Steps outside the transaction of r: it is not opened, or is not changed.
LEMMA QuietSteps ==
    ASSUME StoreInv, NEW r \in Requests,
           \/ Receive(r) \/ Refuse(r) \/ Begin(r) \/ BeginFails(r) \/ NoSuchTodo(r)
           \/ SeedRead(r) \/ SeedInserted(r) \/ StatementFails(r) \/ Abandon(r)
           \/ Publish(r)
    PROVE  StoreInv'
<1>. USE DEF At, Go, Finish
<1>1. TypeOK /\ TypeOK' /\ Sound(r)
  BY TypeOKStep DEF StoreInv, Next, Step, Work
<1>2. UNCHANGED <<tables, txVars, nextEvent>>
  BY DEF Receive, Refuse, Begin, BeginFails, NoSuchTodo, SeedRead, SeedInserted,
     StatementFails, Abandon, Publish
<1>3. \A q \in Requests \ {r} : Undisturbed(q)
  <2>1. \A q \in Requests \ {r} : pc'[q] = pc[q]
    <3>1. pc' = pc \/ \E to : pc' = [pc EXCEPT ![r] = to]
      BY DEF Receive, Refuse, Begin, BeginFails, NoSuchTodo, SeedRead,
         SeedInserted, StatementFails, Abandon, Publish
    <3>. QED
      BY <1>1, <3>1 DEF TypeOK
  <2>2. \A q \in Requests \ {r} : cmd'[q] = cmd[q]
    <3>1. cmd' = cmd \/ \E c : cmd' = [cmd EXCEPT ![r] = c]
      BY DEF Receive, Refuse, Begin, BeginFails, NoSuchTodo, SeedRead,
         SeedInserted, StatementFails, Abandon, Publish
    <3>. QED
      BY <1>1, <3>1 DEF TypeOK
  <2>3. \A q \in Requests \ {r} : orphan'[q] = orphan[q]
    <3>1. orphan' = orphan \/ \E how : orphan' = [orphan EXCEPT ![r] = how]
      BY DEF Receive, Refuse, Begin, BeginFails, NoSuchTodo, SeedRead,
         SeedInserted, StatementFails, Abandon, Publish
    <3>. QED
      BY <1>1, <3>1 DEF TypeOK
  <2>. QED
    BY <1>2, <2>1, <2>2, <2>3 DEF Undisturbed, tables, txVars
<1>4. Apart' /\ Numbers'
  BY <1>2, FewerLocks DEF tables, txVars
<1>5. Sound(r)'
  <2>. USE <1>1, <1>2 DEF Sound, tables, txVars
  <2>1. CASE Receive(r)
    BY <2>1, Functions DEF Receive, Placed, NoTx, MayCommit, Preparing
  <2>2. CASE Refuse(r) \/ BeginFails(r)
    BY <2>2, Functions DEF Refuse, BeginFails, Placed, NoTx, MayCommit, Preparing
  <2>3. CASE Begin(r)
    BY <2>3, Functions DEF Begin, Placed, NoTx, MayCommit, Preparing, Prepared, Op, OnRow
  <2>4. CASE NoSuchTodo(r) \/ StatementFails(r)
    BY <2>4, Functions DEF NoSuchTodo, StatementFails, Placed, NoTx, MayCommit, Preparing
  <2>5. CASE SeedRead(r)
    BY <2>5, Functions DEF SeedRead, Placed, NoTx, MayCommit, Preparing, Prepared, Op, OnRow
  <2>6. CASE SeedInserted(r)
    <3>1. /\ pc[r] = "seed" /\ pc'[r] = "log" /\ orphan' = orphan
          /\ cmd' = cmd /\ Op(r) = "seed" /\ Op(r)' = Op(r)
      BY <2>6, Functions DEF SeedInserted, Placed, Op
    <3>2. Placed(r)' /\ ~MayCommit(r)'
      BY <3>1 DEF Placed, NoTx, MayCommit
    <3>3. Prepared(r)'
      BY <3>1 DEF Preparing, Prepared, OnRow
    <3>. QED
      BY <3>2, <3>3
  <2>7. CASE Abandon(r)
    <3>1. MayCommit(r)' <=> pc[r] = "commit"
      BY <2>7, Functions DEF Abandon, MayCommit, Placed
    <3>2. Op(r)' = Op(r) /\ About(r)' = About(r) /\ What(r)' = What(r)
      BY <2>7 DEF Abandon, Op, About, What
    <3>3. Placed(r)'
      BY <2>7, <3>1, <3>2, Functions DEF Abandon, Placed, NoTx, MayCommit
    <3>4. Preparing(r)' => Prepared(r)'
      <4>1. Preparing(r)' => pc[r] = "commit" /\ pc'[r] = "served"
        BY <2>7, <3>1, Functions DEF Abandon, Preparing
      <4>2. cmd' = cmd
        BY <2>7 DEF Abandon
      <4>. QED
        BY <3>2, <4>1, <4>2 DEF Preparing, MayCommit, Prepared, Live
    <3>5. MayCommit(r)' => Told(r)'
      BY <2>7, <3>1, <3>2 DEF MayCommit, Told
    <3>. QED
      BY <3>3, <3>4, <3>5
  <2>8. CASE Publish(r)
    BY <2>8, Functions DEF Publish, Placed, NoTx, MayCommit, Preparing
  <2>. QED
    BY <2>1, <2>2, <2>3, <2>4, <2>5, <2>6, <2>7, <2>8
<1>. QED
  BY <1>1, <1>3, <1>4, <1>5, OneSteps

\* Statements that change rows of the transaction of r, or its job.
LEMMA WritingSteps ==
    ASSUME StoreInv, NEW r \in Requests,
           CreateTodo(r) \/ ChangeTodo(r) \/ SeedInsert(r) \/ InsertJob(r)
    PROVE  StoreInv'
<1>. USE DEF At, Go
<1>1. TypeOK /\ TypeOK' /\ Sound(r)
  BY TypeOKStep DEF StoreInv, Next, Step, Work
<1>2. UNCHANGED <<tables, entry, orphan, nextEvent, cmd>>
  BY DEF CreateTodo, ChangeTodo, SeedInsert, InsertJob
<1>3. /\ \A q \in Requests \ {r} : touched'[q] = touched[q]
      /\ \A i \in touched'[r] : i \in touched[r] \/ ~Locked(i)
  <2>. USE <1>1, Functions
  <2>1. CASE CreateTodo(r) \/ SeedInsert(r)
    <3>1. PICK i \in Ids : Fresh(i) /\ touched' = [touched EXCEPT ![r] = @ \cup {i}]
      BY <2>1 DEF CreateTodo, SeedInsert, Insert
    <3>. QED
      BY <3>1 DEF Fresh
  <2>2. CASE ChangeTodo(r)
    BY <2>2 DEF ChangeTodo, RowFree
  <2>3. CASE InsertJob(r)
    BY <2>3 DEF InsertJob
  <2>. QED
    BY <2>1, <2>2, <2>3
<1>4. \A q \in Requests \ {r} : Undisturbed(q)
  <2>1. \A q \in Requests \ {r} : pc'[q] = pc[q] /\ target'[q] = target[q] /\ job'[q] = job[q]
    BY <1>1, Functions DEF CreateTodo, ChangeTodo, SeedInsert, InsertJob, Insert
  <2>. QED
    BY <1>2, <1>3, <2>1 DEF Undisturbed, tables
<1>5. Apart'
  <2>1. \A q \in Requests \ {r} : touched'[r] \cap touched'[q] = {}
    <3>1. \A q \in Requests \ {r} : touched[r] \cap touched[q] = {}
      BY DEF StoreInv, Apart
    <3>2. \A i \in touched'[r] : i \in touched[r] \/ \A q \in Requests : i \notin touched[q]
      BY <1>3 DEF Locked
    <3>. QED
      BY <1>3, <3>1, <3>2
  <2>2. \A p, q \in Requests \ {r} : p # q => touched'[p] \cap touched'[q] = {}
    BY <1>3 DEF StoreInv, Apart
  <2>. QED
    BY <2>1, <2>2 DEF Apart
<1>6. Numbers'
  BY <1>2 DEF StoreInv, Numbers, NumberedAfter, tables
<1>7. ~MayCommit(r) /\ ~MayCommit(r)'
  BY <1>1, <1>2, Functions DEF CreateTodo, ChangeTodo, SeedInsert, InsertJob,
     MayCommit, Sound, Placed
<1>8. Placed(r)'
  BY <1>1, <1>2, <1>7, Functions DEF Sound, Placed, NoTx, CreateTodo, ChangeTodo,
     SeedInsert, InsertJob, tables, Op
<1>9. Prepared(r)'
  <2>. USE <1>1, <1>2 DEF tables
  <2>1. CASE CreateTodo(r)
    <3>1. touched[r] = {} /\ ~job[r] /\ Op(r)' = "create" /\ job' = job /\ pc'[r] = "log"
      BY <2>1 DEF CreateTodo, Sound, Placed, NoTx, Op, TypeOK
    <3>2. PICK i \in Ids : /\ Fresh(i) /\ touched' = [touched EXCEPT ![r] = @ \cup {i}]
                           /\ target' = [target EXCEPT ![r] = "open"]
      BY <2>1 DEF CreateTodo, Insert
    <3>3. touched'[r] = {i} /\ row'[i] = "unborn" /\ target'[r] = "open"
      BY <3>1, <3>2 DEF Fresh, TypeOK
    <3>. QED
      BY <3>1, <3>3 DEF Prepared, OnRow
  <2>2. CASE ChangeTodo(r)
    <3>1. ~job[r] /\ Op(r)' = Op(r) /\ Op(r) \in OnRow /\ job' = job /\ pc'[r] = "log"
      BY <2>2 DEF ChangeTodo, Sound, Placed, NoTx, Op, TypeOK
    <3>2. /\ touched'[r] = {cmd[r].id}
          /\ Live(cmd[r].id)
          /\ target'[r] = Changed(Op(r), row[cmd[r].id])
      BY <2>2 DEF ChangeTodo, TypeOK
    <3>. QED
      BY <3>1, <3>2 DEF Prepared, OnRow, Live
  <2>3. CASE SeedInsert(r)
    <3>1. /\ Op(r)' = "seed" /\ job' = job /\ pc'[r] = "seed" /\ ~job[r]
          /\ \A j \in touched[r] : row[j] = "unborn"
      BY <2>3 DEF SeedInsert, Sound, Placed, Preparing, Prepared, Op
    <3>2. PICK i \in Ids : /\ Fresh(i) /\ touched' = [touched EXCEPT ![r] = @ \cup {i}]
                           /\ target' = [target EXCEPT ![r] = "open"]
      BY <2>3 DEF SeedInsert, Insert
    <3>3. \A j \in touched'[r] : row'[j] = "unborn" /\ target'[r] = "open"
      BY <3>1, <3>2 DEF Fresh, TypeOK
    <3>. QED
      BY <3>1, <3>3 DEF Prepared, OnRow
  <2>4. CASE InsertJob(r)
    <3>1. touched[r] = {} /\ Op(r)' = "enqueue" /\ touched' = touched /\ job'[r] /\ pc'[r] = "log"
      BY <2>4 DEF InsertJob, Sound, Placed, NoTx, Op, TypeOK
    <3>. QED
      BY <3>1 DEF Prepared, OnRow
  <2>. QED
    BY <2>1, <2>2, <2>3, <2>4
<1>10. Sound(r)'
  BY <1>7, <1>8, <1>9 DEF Sound
<1>. QED
  BY <1>1, <1>4, <1>5, <1>6, <1>10, OneSteps

\* The event takes the next number, above all that are in use.
LEMMA EventStep ==
    ASSUME StoreInv, NEW r \in Requests, InsertEvent(r)
    PROVE  StoreInv'
<1>. USE DEF At, Go
<1>1. TypeOK /\ TypeOK' /\ Sound(r)
  BY TypeOKStep DEF StoreInv, Next, Step, Work
<1>2. UNCHANGED <<tables, touched, target, job, orphan, cmd>>
  BY DEF InsertEvent
<1>3. PICK e \in Event : /\ entry' = [entry EXCEPT ![r] = {e}]
                         /\ e.n = nextEvent /\ e.about \in About(r) /\ e.what = What(r)
  <2>1. PICK about \in About(r) : entry' = [entry EXCEPT ![r] =
                     {[n |-> nextEvent, about |-> about, what |-> What(r)]}]
    BY DEF InsertEvent
  <2>2. [n |-> nextEvent, about |-> about, what |-> What(r)] \in Event
    BY <1>1, NewEventTypes DEF InsertEvent
  <2>. QED
    BY <2>1, <2>2
<1>4. \A q \in Requests \ {r} : Undisturbed(q)
  <2>1. \A q \in Requests \ {r} : pc'[q] = pc[q]
    BY <1>1 DEF TypeOK, InsertEvent
  <2>2. \A q \in Requests \ {r} : entry'[q] = entry[q]
    BY <1>1, <1>3 DEF TypeOK
  <2>. QED
    BY <1>2, <2>1, <2>2 DEF Undisturbed, tables
<1>5. Apart'
  BY <1>2 DEF StoreInv, Apart
<1>6. Numbers'
  <2>1. nextEvent \in Nat /\ nextEvent' = nextEvent + 1
    BY <1>1 DEF TypeOK, InsertEvent
  <2>2. \A f \in events : f.n \in Nat /\ f.n < nextEvent
    BY <1>1, StoreAssumption DEF TypeOK, Event, StoreInv, Numbers
  <2>3. ASSUME NEW q \in Requests, NEW f \in entry[q]
        PROVE  f.n \in Nat /\ f.n < nextEvent
    <3>1. f \in Event
      BY <1>1 DEF TypeOK
    <3>. QED
      BY <3>1, StoreAssumption DEF Event, StoreInv, Numbers
  <2>4. entry'[r] = {e} /\ \A q \in Requests \ {r} : entry'[q] = entry[q]
    BY <1>1, <1>3 DEF TypeOK
  <2>5. \A f \in events : f.n < nextEvent'
    BY <2>1, <2>2
  <2>6. \A q \in Requests : \A f \in entry'[q] : f.n < nextEvent' /\ NumberedAfter(f)'
    <3>1. NumberedAfter(e)'
      BY <1>2, <1>3, <2>1, <2>2 DEF NumberedAfter, tables
    <3>2. \A q \in Requests : \A f \in entry[q] : NumberedAfter(f)'
      BY <1>2 DEF StoreInv, Numbers, NumberedAfter, tables
    <3>. QED
      BY <1>3, <2>1, <2>3, <2>4, <3>1, <3>2
  <2>7. \A p, q \in Requests : \A f \in entry'[p] : \A g \in entry'[q] : p # q => f.n # g.n
    BY <1>3, <2>1, <2>3, <2>4 DEF StoreInv, Numbers
  <2>. QED
    BY <1>2, <2>5, <2>6, <2>7 DEF Numbers, tables
<1>7. Sound(r)'
  <2>1. /\ pc[r] = "log" /\ pc'[r] = "commit" /\ orphan[r] = "no"
        /\ Op(r)' = Op(r) /\ entry'[r] = {e}
    BY <1>1, <1>2, <1>3 DEF InsertEvent, TypeOK, Sound, Placed, Op
  <2>2. Placed(r)'
    BY <1>1, <1>2, <2>1 DEF Sound, Placed, NoTx, MayCommit, tables
  <2>3. Prepared(r)'
    BY <1>1, <1>2, <2>1 DEF Sound, Preparing, Prepared, Live, tables
  <2>4. Told(r)'
    BY <1>2, <1>3, <2>1 DEF Told, About, What
  <2>. QED
    BY <2>2, <2>3, <2>4 DEF Sound
<1>. QED
  BY <1>1, <1>4, <1>5, <1>6, <1>7, OneSteps

\* The transaction of r ends without effect.
LEMMA AbortingSteps ==
    ASSUME StoreInv, NEW r \in Requests, Rollback(r) \/ CommitFails(r) \/ OrphanAborts(r)
    PROVE  StoreInv'
<1>. USE DEF At, Go, Finish
<1>1. TypeOK /\ TypeOK' /\ Sound(r)
  BY TypeOKStep DEF StoreInv, Next, Step, Work
<1>2. UNCHANGED <<tables, nextEvent, cmd, target>> /\ EndTx(r)
  BY DEF Rollback, CommitFails, OrphanAborts, EndTx
<1>3. \A q \in Requests \ {r} : Undisturbed(q)
  <2>1. \A q \in Requests \ {r} : pc'[q] = pc[q] /\ orphan'[q] = orphan[q]
    BY <1>1 DEF TypeOK, Rollback, CommitFails, OrphanAborts
  <2>2. \A q \in Requests \ {r} :
            touched'[q] = touched[q] /\ entry'[q] = entry[q] /\ job'[q] = job[q]
    BY <1>1, <1>2 DEF TypeOK, EndTx
  <2>. QED
    BY <1>2, <2>1, <2>2 DEF Undisturbed, tables
<1>4. NoTx(r)'
  BY <1>1, <1>2 DEF EndTx, TypeOK, NoTx
<1>5. Apart' /\ Numbers'
  <2>1. \A q \in Requests : touched'[q] \subseteq touched[q] /\ entry'[q] \subseteq entry[q]
    BY <1>1, <1>2 DEF EndTx, TypeOK
  <2>. QED
    BY <1>2, <2>1, FewerLocks DEF tables
<1>6. Sound(r)'
  <2>1. /\ pc'[r] = "served" /\ orphan'[r] = "no"
        /\ r \in jobs => pc[r] \in {"publish", "served"} /\ orphan[r] = "no"
    BY <1>1 DEF Rollback, CommitFails, OrphanAborts, TypeOK, Sound, Placed
  <2>2. ~MayCommit(r)' /\ ~Preparing(r)'
    BY <2>1 DEF MayCommit, Preparing
  <2>3. r \notin jobs'
    BY <1>1, <1>2 DEF Rollback, CommitFails, OrphanAborts, Sound, Placed, tables
  <2>. QED
    BY <1>4, <2>1, <2>2, <2>3 DEF Sound, Placed, NoTx
<1>. QED
  BY <1>1, <1>3, <1>5, <1>6, OneSteps

\* The transaction of r commits: only its own rows and its own event are new,
\* and every other transaction is about other rows and a later event.
LEMMA CommittingSteps ==
    ASSUME StoreInv, NEW r \in Requests, Commit(r) \/ OrphanCommits(r)
    PROVE  StoreInv'
<1>. USE DEF At, Go
<1>1. TypeOK /\ TypeOK' /\ Sound(r) /\ MayCommit(r)
  BY TypeOKStep DEF StoreInv, Next, Step, Work, Commit, OrphanCommits, MayCommit
<1>2. UNCHANGED <<nextEvent, cmd, target>> /\ EndTx(r) /\ Apply(r)
  BY DEF Commit, OrphanCommits, EndTx
<1>3. PICK e \in Event : entry[r] = {e} /\ e.about \in About(r)
  BY <1>1 DEF Sound, Told
<1>4. /\ \A i \in Ids : i \notin touched[r] => row'[i] = row[i]
      /\ events' = events \cup {e}
      /\ jobs' \subseteq jobs \cup {r} /\ jobs \subseteq jobs'
  BY <1>2, <1>3 DEF Apply
<1>5. /\ touched'[r] = {} /\ entry'[r] = {} /\ ~job'[r]
      /\ \A q \in Requests \ {r} :
            touched'[q] = touched[q] /\ entry'[q] = entry[q] /\ job'[q] = job[q]
  BY <1>1, <1>2 DEF EndTx, TypeOK
<1>6. \A q \in Requests \ {r} : Undisturbed(q)
  <2>1. \A q \in Requests \ {r} : pc'[q] = pc[q] /\ orphan'[q] = orphan[q]
    BY <1>1 DEF TypeOK, Commit, OrphanCommits
  <2>2. \A q \in Requests \ {r} : \A i \in touched[q] : i \in Ids /\ i \notin touched[r]
    BY <1>1 DEF StoreInv, Apart, TypeOK
  <2>. QED
    BY <1>2, <1>4, <1>5, <2>1, <2>2 DEF Undisturbed
<1>7. Apart'
  BY <1>5 DEF StoreInv, Apart
<1>8. Numbers'
  <2>1. \A f \in events' : f.n < nextEvent'
    BY <1>2, <1>3, <1>4 DEF StoreInv, Numbers
  <2>2. ASSUME NEW q \in Requests \ {r}, NEW f \in entry[q]
        PROVE  e.n # f.n /\ (e.about = f.about /\ f.about \in Ids => e.n < f.n)
    <3>1. e.n # f.n
      BY <1>3 DEF StoreInv, Numbers
    <3>2. ASSUME e.about = f.about, f.about \in Ids PROVE FALSE
      <4>1. MayCommit(q) /\ Told(q)
        BY <2>2 DEF StoreInv, Sound, Placed
      <4>2. f.about \in About(q)
        BY <2>2, <4>1 DEF Told
      <4>3. f.about \in touched[q] /\ f.about \in touched[r]
        BY <1>3, <3>2, <4>2, StoreAssumption DEF About
      <4>. QED
        BY <4>3 DEF StoreInv, Apart
    <3>. QED
      BY <3>1, <3>2
  <2>3. ASSUME NEW q \in Requests, NEW f \in entry'[q]
        PROVE  /\ f.n < nextEvent'
               /\ NumberedAfter(f)'
               /\ \A p \in Requests : \A g \in entry'[p] : p # q => g.n # f.n
    <3>1. q # r /\ f \in entry[q]
      BY <1>5, <2>3
    <3>2. NumberedAfter(f)'
      BY <1>4, <2>2, <3>1 DEF StoreInv, Numbers, NumberedAfter
    <3>. QED
      BY <1>2, <1>5, <3>1, <3>2 DEF StoreInv, Numbers
  <2>. QED
    BY <2>1, <2>3 DEF Numbers
<1>9. Sound(r)'
  <2>1. pc'[r] \in {"publish", "served"} /\ orphan'[r] = "no"
    BY <1>1 DEF Commit, OrphanCommits, TypeOK, Sound, Placed
  <2>2. ~MayCommit(r)' /\ ~Preparing(r)'
    BY <2>1 DEF MayCommit, Preparing
  <2>. QED
    BY <1>5, <2>1, <2>2 DEF Sound, Placed, NoTx
<1>. QED
  BY <1>1, <1>6, <1>7, <1>8, <1>9, OneSteps

LEMMA StoreInvStep == StoreInv /\ [Next]_vars => StoreInv'
<1>. SUFFICES ASSUME StoreInv, [Next]_vars PROVE StoreInv'
  OBVIOUS
<1>1. CASE UNCHANGED vars
  <2>1. TypeOK'
    BY <1>1, TypeOKStep DEF StoreInv
  <2>2. \A r \in Requests : Undisturbed(r)
    BY <1>1 DEF Undisturbed, vars, tables, txVars
  <2>3. Apart' /\ Numbers'
    BY <1>1, FewerLocks DEF vars, tables, txVars
  <2>. QED
    BY <2>1, <2>2, <2>3, UndisturbedIsSound DEF StoreInv
<1>2. CASE \E r \in Requests : Step(r)
  BY <1>2, QuietSteps, WritingSteps, EventStep, AbortingSteps, CommittingSteps
  DEF Step, Work
<1>. QED
  BY <1>1, <1>2 DEF Next, Finished

-----------------------------------------------------------------------------
(* Refinement                                                              *)

\* A commit is one command of the ledger.
LEMMA ApplyIsACommand ==
    ASSUME StoreInv, NEW r \in Requests, MayCommit(r), Apply(r)
    PROVE  Ledger!LedgerNext
<1>. USE DEF StoreInv
<1>1. PICK e \in Event : entry[r] = {e} /\ e.about \in About(r) /\ e.what = What(r)
  BY DEF Sound, Told
<1>2. Prepared(r) /\ pc[r] # "seed"
  BY DEF Sound, Preparing, MayCommit, Placed
<1>3. /\ row' = [i \in Ids |-> IF i \in touched[r] THEN target[r] ELSE row[i]]
      /\ events' = events \cup {e}
      /\ jobs' = IF job[r] THEN jobs \cup {r} ELSE jobs
      /\ row \in [Ids -> RowStates]
  BY <1>1 DEF Apply, TypeOK
<1>4. Ledger!Append(e.about, e.what)
  <2>1. NumberedAfter(e) /\ e.n \in EventIds
    BY <1>1 DEF Numbers, Event
  <2>2. e = [n |-> e.n, about |-> e.about, what |-> e.what]
    BY DEF Event
  <2>. QED
    BY <1>3, <2>1, <2>2 DEF Ledger!Append, NumberedAfter
<1>5. Op(r) \in AllOps
  BY DEF TypeOK, Command, Op, AllOps, OnRow
<1>6. CASE Op(r) = "create"
  <2>1. PICK i \in Ids : touched[r] = {i} /\ row[i] = "unborn" /\ target[r] = "open"
    BY <1>2, <1>6 DEF Prepared
  <2>2. e.about = i /\ e.what = "created" /\ ~job[r]
    BY <1>1, <1>2, <1>6, <2>1 DEF About, What, Prepared, OnRow
  <2>3. row' = [row EXCEPT ![i] = "open"] /\ jobs' = jobs
    BY <1>3, <2>1, <2>2
  <2>4. Ledger!Create(i)
    BY <1>4, <2>1, <2>2, <2>3 DEF Ledger!Create
  <2>. QED
    BY <2>4 DEF Ledger!LedgerNext
<1>7. CASE Op(r) \in OnRow
  <2>. DEFINE i == cmd[r].id
  <2>1. i \in Ids
    BY <1>7 DEF TypeOK, Command, Op
  <2>2. touched[r] = {i} /\ Live(i) /\ target[r] = Changed(Op(r), row[i])
    BY <1>2, <1>7 DEF Prepared
  <2>3. e.about = i /\ e.what = target[r] /\ ~job[r]
    BY <1>1, <1>2, <1>7, <2>2 DEF About, What, Prepared, OnRow
  <2>4. row' = [row EXCEPT ![i] = target[r]] /\ jobs' = jobs
    BY <1>3, <2>2, <2>3
  <2>5. CASE Op(r) = "delete"
    <3>1. Ledger!Delete(i)
      BY <1>4, <2>2, <2>3, <2>4, <2>5 DEF Ledger!Delete, Ledger!Live, Live, Changed
    <3>. QED
      BY <2>1, <3>1 DEF Ledger!LedgerNext
  <2>6. CASE Op(r) = "toggle"
    <3>1. target[r] = Ledger!Flipped(row[i])
      BY <2>2, <2>6 DEF Changed, Ledger!Flipped
    <3>2. row' = [row EXCEPT ![i] = Ledger!Flipped(row[i])]
      BY <2>4, <3>1
    <3>3. Ledger!Toggle(i)
      BY <1>4, <2>2, <2>3, <2>4, <3>1, <3>2 DEF Ledger!Toggle, Ledger!Live, Live
    <3>. QED
      BY <2>1, <3>3 DEF Ledger!LedgerNext
  <2>. QED
    BY <1>7, <2>5, <2>6 DEF OnRow
<1>8. CASE Op(r) = "seed"
  <2>1. e.about = Nothing /\ e.what = "seeded" /\ ~job[r]
    BY <1>1, <1>2, <1>8 DEF About, What, Prepared, OnRow
  <2>2. touched[r] \in SUBSET Ids /\ \A i \in touched[r] : row[i] = "unborn"
    BY <1>2, <1>8 DEF Prepared, TypeOK
  <2>3. row' = [i \in Ids |-> IF i \in touched[r] THEN "open" ELSE row[i]]
    BY <1>2, <1>3, <1>8 DEF Prepared
  <2>4. Ledger!Seed(touched[r])
    BY <1>3, <1>4, <2>1, <2>2, <2>3 DEF Ledger!Seed
  <2>. QED
    BY <2>2, <2>4 DEF Ledger!LedgerNext
<1>9. CASE Op(r) = "enqueue"
  <2>1. e.about = r /\ e.what = "enqueued" /\ job[r] /\ touched[r] = {}
    BY <1>1, <1>2, <1>9 DEF About, What, Prepared, OnRow
  <2>2. r \notin jobs
    BY DEF Sound, Placed, MayCommit
  <2>3. row' = row /\ jobs' = jobs \cup {r}
    BY <1>3, <2>1
  <2>4. Ledger!Enqueue(r)
    BY <1>4, <2>1, <2>2, <2>3 DEF Ledger!Enqueue
  <2>. QED
    BY <2>4 DEF Ledger!LedgerNext
<1>10. CASE Op(r) = "pulse"
  <2>1. e.about = Nothing /\ e.what = "pulse" /\ ~job[r] /\ touched[r] = {}
    BY <1>1, <1>2, <1>10 DEF About, What, Prepared, OnRow
  <2>2. row' = row /\ jobs' = jobs
    BY <1>3, <2>1
  <2>3. Ledger!Pulse
    BY <1>4, <2>1, <2>2 DEF Ledger!Pulse
  <2>. QED
    BY <2>3 DEF Ledger!LedgerNext
<1>. QED
  BY <1>5, <1>6, <1>7, <1>8, <1>9, <1>10 DEF AllOps, OnRow

\* Only a commit changes the tables.
LEMMA StepRefines ==
    ASSUME StoreInv, [Next]_vars
    PROVE  [Ledger!LedgerNext]_(Ledger!ledgerVars)
<1>1. CASE UNCHANGED vars
  BY <1>1 DEF vars, tables, Ledger!ledgerVars
<1>2. ASSUME NEW r \in Requests, Commit(r) \/ OrphanCommits(r)
      PROVE  Ledger!LedgerNext
  BY <1>2, ApplyIsACommand DEF Commit, OrphanCommits, MayCommit, At
<1>3. ASSUME NEW r \in Requests,
             \/ Receive(r) \/ Refuse(r) \/ Begin(r) \/ BeginFails(r)
             \/ Work(r) \/ StatementFails(r) \/ Rollback(r)
             \/ CommitFails(r) \/ Abandon(r) \/ OrphanAborts(r) \/ Publish(r)
      PROVE  UNCHANGED tables
  BY <1>3 DEF Receive, Refuse, Begin, BeginFails, Work, CreateTodo, ChangeTodo,
     NoSuchTodo, SeedRead, SeedInsert, SeedInserted, InsertJob, InsertEvent,
     StatementFails, Rollback, CommitFails, Abandon, OrphanAborts, Publish
<1>. QED
  BY <1>1, <1>2, <1>3 DEF Next, Step, Finished, tables, Ledger!ledgerVars

LEMMA StartRefines == Init => Ledger!LedgerInit
BY DEF Init, Ledger!LedgerInit

\* The program's transactions implement the ledger's indivisible commands.
THEOREM Refinement == Spec => ImplementsLedger
<1>1. Init => StoreInv /\ Ledger!LedgerInit
  BY StoreInvStart, StartRefines
<1>2. StoreInv /\ [Next]_vars => StoreInv' /\ [Ledger!LedgerNext]_(Ledger!ledgerVars)
  BY StoreInvStep, StepRefines
<1>. QED
  BY <1>1, <1>2, PTL DEF Spec, ImplementsLedger, Ledger!LedgerSpec

-----------------------------------------------------------------------------
(* What a reader may conclude from the feed                                *)

Feed == INSTANCE TodoLedgerProofs WITH Jobs <- Requests

LEMMA FeedAssumption == Feed!LedgerAssumption
BY StoreAssumption DEF Feed!LedgerAssumption

LEMMA FeedSteps ==
    /\ Init => Feed!LedgerInv
    /\ StoreInv /\ Feed!LedgerInv /\ [Next]_vars => Feed!LedgerInv'
<1>1. Ledger!LedgerInit => Feed!LedgerInit
  BY DEF Ledger!LedgerInit, Feed!LedgerInit
<1>2. Init => Feed!LedgerInv
  BY <1>1, StartRefines, FeedAssumption, Feed!LedgerStart
<1>3. [Ledger!LedgerNext]_(Ledger!ledgerVars) => [Feed!LedgerNext]_(Feed!ledgerVars)
  BY DEF Ledger!LedgerNext, Feed!LedgerNext, Ledger!ledgerVars, Feed!ledgerVars,
     Ledger!Create, Feed!Create, Ledger!Toggle, Feed!Toggle, Ledger!Delete, Feed!Delete,
     Ledger!Seed, Feed!Seed, Ledger!Enqueue, Feed!Enqueue, Ledger!Pulse, Feed!Pulse,
     Ledger!Append, Feed!Append, Ledger!Live, Feed!Live, Ledger!Flipped, Feed!Flipped
<1>4. StoreInv /\ Feed!LedgerInv /\ [Next]_vars => Feed!LedgerInv'
  BY <1>3, StepRefines, FeedAssumption, Feed!LedgerStep
<1>. QED
  BY <1>2, <1>4

\* In the program's database the newest event on a todo tells its state, the
\* events on a todo are a possible life of it, and jobs and events go together.
THEOREM FeedIsTruthful == Spec => [](LastWord /\ AuditChain /\ JobIffEvent)
<1>1. Init => StoreInv /\ Feed!LedgerInv
  BY StoreInvStart, FeedSteps
<1>2. StoreInv /\ Feed!LedgerInv /\ [Next]_vars => (StoreInv /\ Feed!LedgerInv)'
  BY StoreInvStep, FeedSteps
<1>3. Feed!LedgerInv => LastWord /\ AuditChain /\ JobIffEvent
  <2>1. Feed!LastWord => LastWord
    BY DEF Feed!LastWord, LastWord, Ledger!LastWord, Feed!On, Ledger!On,
       Feed!LeftBy, Ledger!LeftBy
  <2>2. Feed!AuditChain => AuditChain
    BY DEF Feed!AuditChain, AuditChain, Ledger!AuditChain, Feed!Precedes,
       Ledger!Precedes, Feed!LeftBy, Ledger!LeftBy
  <2>3. Feed!JobIffEvent => JobIffEvent
    BY DEF Feed!JobIffEvent, JobIffEvent, Ledger!JobIffEvent
  <2>. QED
    BY <2>1, <2>2, <2>3 DEF Feed!LedgerInv
<1>. QED
  BY <1>1, <1>2, <1>3, PTL DEF Spec

\* On its own: a job is enqueued exactly when the feed says so, whatever
\* transactions overlap, abort or lose their client (app.go:303-324).
THEOREM JobsAreAnnounced == Spec => []JobIffEvent
BY FeedIsTruthful, PTL

-----------------------------------------------------------------------------
(* What requests are told                                                  *)

\* An answer is settled when the fate of the transaction is, except that an
\* error says nothing; until its commit a request has no effect.
Answered(r) ==
    /\ pc[r] \notin {"rollback", "served"} => answer[r] = "none"
    /\ pc[r] = "rollback" => answer[r] \in {"missing", "error"}
    /\ pc[r] = "served" => answer[r] # "none"
    /\ orphan[r] # "no" => answer[r] = "error" /\ r \notin committed
    /\ pc[r] = "publish" => r \in committed
    /\ pc[r] \notin {"publish", "served"} => r \notin committed
    /\ answer[r] = "ok" => r \in committed
    /\ answer[r] \in {"missing", "refused"} => r \notin committed

AnswersInv == \A r \in Requests : Answered(r)

\* Nobody else's step answers, or decides about, a request.
LEMMA OthersUnanswered ==
    ASSUME TypeOK, NEW r \in Requests, Step(r), NEW q \in Requests, q # r
    PROVE  /\ pc'[q] = pc[q] /\ answer'[q] = answer[q] /\ orphan'[q] = orphan[q]
           /\ q \in committed' <=> q \in committed
<1>1. pc'[q] = pc[q]
  <2>1. pc' = pc \/ \E to : pc' = [pc EXCEPT ![r] = to]
    BY DEF Step, Work, Receive, Refuse, Begin, BeginFails, CreateTodo, ChangeTodo,
       NoSuchTodo, SeedRead, SeedInsert, SeedInserted, InsertJob, InsertEvent,
       StatementFails, Rollback, Commit, CommitFails, Abandon, OrphanAborts,
       OrphanCommits, Publish, Finish, Go
  <2>. QED
    BY <2>1 DEF TypeOK
<1>2. answer'[q] = answer[q]
  <2>1. answer' = answer \/ \E to : answer' = [answer EXCEPT ![r] = to]
    BY DEF Step, Work, Receive, Refuse, Begin, BeginFails, CreateTodo, ChangeTodo,
       NoSuchTodo, SeedRead, SeedInsert, SeedInserted, InsertJob, InsertEvent,
       StatementFails, Rollback, Commit, CommitFails, Abandon, OrphanAborts,
       OrphanCommits, Publish, Finish
  <2>. QED
    BY <2>1 DEF TypeOK
<1>3. orphan'[q] = orphan[q]
  <2>1. orphan' = orphan \/ \E to : orphan' = [orphan EXCEPT ![r] = to]
    BY DEF Step, Work, Receive, Refuse, Begin, BeginFails, CreateTodo, ChangeTodo,
       NoSuchTodo, SeedRead, SeedInsert, SeedInserted, InsertJob, InsertEvent,
       StatementFails, Rollback, Commit, CommitFails, Abandon, OrphanAborts,
       OrphanCommits, Publish
  <2>. QED
    BY <2>1 DEF TypeOK
<1>4. q \in committed' <=> q \in committed
  <2>1. committed' = committed \/ committed' = committed \cup {r}
    BY DEF Step, Work, Receive, Refuse, Begin, BeginFails, CreateTodo, ChangeTodo,
       NoSuchTodo, SeedRead, SeedInsert, SeedInserted, InsertJob, InsertEvent,
       StatementFails, Rollback, Commit, CommitFails, Abandon, OrphanAborts,
       OrphanCommits, Publish, Apply
  <2>. QED
    BY <2>1
<1>. QED
  BY <1>1, <1>2, <1>3, <1>4

\* Its own steps keep what it is told true.
LEMMA OwnAnswer ==
    ASSUME TypeOK, NEW r \in Requests, Placed(r), Answered(r), Step(r)
    PROVE  Answered(r)'
<1>. USE DEF TypeOK, At, Go, Finish
<1>1. CASE Receive(r) \/ Begin(r) \/ Refuse(r) \/ BeginFails(r)
  BY <1>1 DEF Answered, Placed, Receive, Begin, Refuse, BeginFails
<1>2. CASE CreateTodo(r) \/ ChangeTodo(r) \/ InsertJob(r) \/ InsertEvent(r)
  BY <1>2 DEF Answered, Placed, CreateTodo, ChangeTodo, InsertJob, InsertEvent
<1>3. CASE SeedRead(r) \/ SeedInsert(r) \/ SeedInserted(r)
  BY <1>3 DEF Answered, Placed, SeedRead, SeedInsert, SeedInserted
<1>4. CASE NoSuchTodo(r) \/ StatementFails(r) \/ Rollback(r)
  BY <1>4 DEF Answered, Placed, NoSuchTodo, StatementFails, Rollback
<1>5. CASE Commit(r)
  BY <1>5 DEF Answered, Placed, Commit, Apply
<1>6. CASE CommitFails(r) \/ Abandon(r) \/ OrphanAborts(r) \/ Publish(r)
  BY <1>6 DEF Answered, Placed, CommitFails, Abandon, OrphanAborts, Publish
<1>7. CASE OrphanCommits(r)
  BY <1>7 DEF Answered, Placed, OrphanCommits, Apply
<1>. QED
  BY <1>1, <1>2, <1>3, <1>4, <1>5, <1>6, <1>7 DEF Step, Work

LEMMA AnswersInvStep == StoreInv /\ AnswersInv /\ [Next]_vars => AnswersInv'
<1>. SUFFICES ASSUME StoreInv, AnswersInv, [Next]_vars, NEW q \in Requests
              PROVE  Answered(q)'
  BY DEF AnswersInv
<1>1. Answered(q) /\ TypeOK /\ Placed(q)
  BY DEF AnswersInv, StoreInv, Sound
<1>2. CASE UNCHANGED vars
  BY <1>1, <1>2 DEF vars, Answered
<1>3. ASSUME NEW r \in Requests, Step(r) PROVE Answered(q)'
  <2>1. CASE q = r
    BY <1>1, <1>3, <2>1, OwnAnswer
  <2>2. CASE q # r
    BY <1>1, <1>3, <2>2, OthersUnanswered DEF Answered
  <2>. QED
    BY <2>1, <2>2
<1>. QED
  BY <1>2, <1>3 DEF Next, Finished

\* Every answer is true: "ok" was committed, "not found" and a refusal changed
\* nothing and never will, and only a request told of an error can have taken
\* effect without being published (app.go:204-294).
THEOREM AnswersTrue == Spec => []AnswersAreTrue
<1>1. Init => StoreInv /\ AnswersInv
  BY StoreInvStart DEF Init, AnswersInv, Answered
<1>2. StoreInv /\ AnswersInv /\ [Next]_vars => (StoreInv /\ AnswersInv)'
  BY StoreInvStep, AnswersInvStep
<1>3. StoreInv /\ AnswersInv => AnswersAreTrue
  <2>. SUFFICES ASSUME StoreInv, NEW r \in Requests, Answered(r)
                PROVE  /\ answer[r] = "ok" => r \in committed
                       /\ answer[r] \in {"missing", "refused"}
                            => r \notin committed /\ entry[r] = {}
                       /\ r \in committed => answer[r] \in {"ok", "error"} \/ pc[r] = "publish"
    BY DEF AnswersInv, AnswersAreTrue
  <2>1. entry[r] # {} => answer[r] \in {"none", "error"}
    BY DEF StoreInv, Sound, Placed, MayCommit, Answered
  <2>2. answer[r] \in {"none", "ok", "error", "missing", "refused"}
    BY DEF StoreInv, TypeOK
  <2>. QED
    BY <2>1, <2>2 DEF Answered
<1>. QED
  BY <1>1, <1>2, <1>3, PTL DEF Spec
=============================================================================
