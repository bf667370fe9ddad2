----------------------------- MODULE TodoStore -----------------------------
(***************************************************************************)
(* The commands of internal/server/app.go against PostgreSQL, statement by *)
(* statement.                                                              *)
(*                                                                         *)
(* Each request handler takes a connection from a bounded pool, opens a    *)
(* READ COMMITTED transaction, changes todos, inserts one event and        *)
(* commits; only then does it publish.  A changed row stays locked until   *)
(* its transaction ends.  Event numbers come from a sequence, outside any  *)
(* transaction.  A client that leaves (or a connection that breaks) ends   *)
(* the handler while the server still has its transaction to finish.       *)
(***************************************************************************)
EXTENDS Integers, FiniteSets

CONSTANTS Requests,   \* HTTP requests, each handled once
          Ids,        \* ids a row may have
          Items,      \* showcaseSeedItems
          Ops,        \* the commands requests may carry
          PoolSize,   \* MaxConns of the pgxpool
          EventIds,   \* range of the event sequence
          Nothing     \* neither an id nor a request

AllOps == {"create", "toggle", "delete", "seed", "enqueue", "pulse"}
OnRow == {"toggle", "delete"}
Typed == "typed"      \* the body of any todo that is not a showcase item

ASSUME StoreAssumption ==
    /\ EventIds \subseteq Nat
    /\ Ops \subseteq AllOps
    /\ PoolSize \in Nat \ {0}
    /\ Nothing \notin Ids \cup Requests
    /\ Ids \cap Requests = {}
    /\ Typed \notin Items

VARIABLES
    (* tables, as committed *)
    row, events, jobs,
    body,        \* each inserted row's text
    (* open transactions *)
    touched,     \* rows a transaction has inserted or locked by changing them
    target,      \* the state it has given them
    entry,       \* the event it has inserted
    job,         \* whether it has inserted a job
    orphan,      \* transactions whose client is gone, and how they may end
    nextEvent,   \* the sequence
    (* handlers *)
    pc, cmd, missing, conns,
    answer,      \* how each request was answered
    (* history *)
    committed    \* requests whose transaction took effect

tables == <<row, events, jobs>>
txVars == <<touched, target, entry, job>>
vars == <<tables, body, txVars, orphan, nextEvent, pc, cmd, missing, conns,
          answer, committed>>

RowStates == {"unborn", "open", "done", "deleted"}
Whats == {"created", "open", "done", "deleted", "seeded", "pulse", "enqueued"}
Event == [n : EventIds, about : Ids \cup Requests \cup {Nothing}, what : Whats]
Command == [op : OnRow, id : Ids] \cup [op : AllOps \ OnRow, id : {Nothing}]

TypeOK ==
    /\ row \in [Ids -> RowStates]
    /\ events \in SUBSET Event
    /\ jobs \in SUBSET Requests
    /\ body \in [Ids -> Items \cup {Typed}]
    /\ touched \in [Requests -> SUBSET Ids]
    /\ target \in [Requests -> RowStates \ {"unborn"}]
    /\ entry \in [Requests -> SUBSET Event]
    /\ job \in [Requests -> BOOLEAN]
    /\ orphan \in [Requests -> {"no", "aborts", "may commit"}]
    /\ nextEvent \in Nat \ {0}
    /\ pc \in [Requests -> {"idle", "begin", "work", "seed", "log", "commit",
                            "rollback", "publish", "served"}]
    /\ cmd \in [Requests -> Command]
    /\ missing \in [Requests -> SUBSET Items]
    /\ conns \in SUBSET Requests
    /\ answer \in [Requests -> {"none", "ok", "error", "missing", "refused"}]
    /\ committed \in SUBSET Requests

Init ==
    /\ row \in [Ids -> {"unborn", "open"}]
    /\ events = {}
    /\ jobs = {}
    /\ body = [i \in Ids |-> Typed]
    /\ touched = [r \in Requests |-> {}]
    /\ target = [r \in Requests |-> "open"]
    /\ entry = [r \in Requests |-> {}]
    /\ job = [r \in Requests |-> FALSE]
    /\ orphan = [r \in Requests |-> "no"]
    /\ nextEvent = 1
    /\ pc = [r \in Requests |-> "idle"]
    /\ cmd = [r \in Requests |-> [op |-> "pulse", id |-> Nothing]]
    /\ missing = [r \in Requests |-> {}]
    /\ conns = {}
    /\ answer = [r \in Requests |-> "none"]
    /\ committed = {}

-----------------------------------------------------------------------------
(* Vocabulary                                                              *)

Op(r) == cmd[r].op
Live(i) == row[i] \in {"open", "done"}
LiveBodies == {body[i] : i \in {j \in Ids : Live(j)}}

\* Another transaction has changed row i and not ended.
Locked(i) == \E q \in Requests : i \in touched[q]

\* A row that no transaction has inserted.
Fresh(i) == row[i] = "unborn" /\ ~Locked(i)

At(r, place) == pc[r] = place
Go(r, place) == pc' = [pc EXCEPT ![r] = place]

\* The transaction of r has ended; its locks are gone.
EndTx(r) ==
    /\ touched' = [touched EXCEPT ![r] = {}]
    /\ entry' = [entry EXCEPT ![r] = {}]
    /\ job' = [job EXCEPT ![r] = FALSE]
    /\ target' = target

\* The handler gives its connection back and answers.
Finish(r, result) ==
    /\ Go(r, "served")
    /\ answer' = [answer EXCEPT ![r] = result]
    /\ conns' = conns \ {r}

\* Its writes become visible, all at once.
Apply(r) ==
    /\ row' = [i \in Ids |-> IF i \in touched[r] THEN target[r] ELSE row[i]]
    /\ events' = events \cup entry[r]
    /\ jobs' = IF job[r] THEN jobs \cup {r} ELSE jobs
    /\ committed' = committed \cup {r}

-----------------------------------------------------------------------------
(* Receiving, refusing, starting                                           *)

\* BOUND: inserts in flight never outnumber the ids that are left for them.
Open(q) == pc[q] \notin {"idle", "served"} \/ orphan[q] # "no"
RoomFor(op) ==
    LET creating == {q \in Requests : Open(q) /\ Op(q) = "create"}
        seeding  == {q \in Requests : Open(q) /\ Op(q) = "seed"}
        needed(o) == CASE o = "create" -> 1 [] o = "seed" -> Cardinality(Items) [] OTHER -> 0
    IN  Cardinality(creating) + Cardinality(seeding) * Cardinality(Items) + needed(op)
            <= Cardinality({i \in Ids : row[i] = "unborn"})

Receive(r) ==
    /\ At(r, "idle")
    /\ \E op \in Ops :
        /\ RoomFor(op)
        /\ \E i \in (IF op \in OnRow THEN Ids ELSE {Nothing}) :
            cmd' = [cmd EXCEPT ![r] = [op |-> op, id |-> i]]
    /\ Go(r, "begin")
    /\ UNCHANGED <<tables, body, txVars, orphan, nextEvent, missing, conns,
                   answer, committed>>

\* The form does not parse, the body is not valid, or River is not there.
Refuse(r) ==
    /\ At(r, "begin")
    /\ Op(r) \in {"create", "enqueue"}
    /\ Finish(r, "refused")
    /\ UNCHANGED <<tables, body, txVars, orphan, nextEvent, cmd, missing, committed>>

\* pool.Begin; a pulse takes its connection for its one statement only.
Begin(r) ==
    /\ At(r, "begin")
    /\ Cardinality(conns) < PoolSize
    /\ conns' = conns \cup {r}
    /\ Go(r, IF Op(r) = "pulse" THEN "log" ELSE "work")
    /\ UNCHANGED <<tables, body, txVars, orphan, nextEvent, cmd, missing,
                   answer, committed>>

BeginFails(r) ==
    /\ At(r, "begin")
    /\ Finish(r, "error")
    /\ UNCHANGED <<tables, body, txVars, orphan, nextEvent, cmd, missing, committed>>

-----------------------------------------------------------------------------
(* Statements                                                              *)

\* INSERT INTO todos: a random id; nobody sees the row before the commit.
Insert(r, text) ==
    \E i \in Ids :
        /\ Fresh(i)
        /\ touched' = [touched EXCEPT ![r] = @ \cup {i}]
        /\ target' = [target EXCEPT ![r] = "open"]
        /\ body' = [body EXCEPT ![i] = text]

CreateTodo(r) ==
    /\ At(r, "work")
    /\ Op(r) = "create"
    /\ Insert(r, Typed)
    /\ Go(r, "log")
    /\ UNCHANGED <<tables, entry, job, orphan, nextEvent, cmd, missing, conns,
                   answer, committed>>

\* Mutation of RowFree: the row is read and written back without a lock.
RowFreeDespiteLock(i) == TRUE

\* UPDATE or DELETE of one row waits while another transaction has it locked,
\* then looks at the row as committed.
RowFree(i) == ~Locked(i)

Changed(op, state) ==
    IF op = "delete" THEN "deleted" ELSE IF state = "open" THEN "done" ELSE "open"

ChangeTodo(r) ==
    /\ At(r, "work")
    /\ Op(r) \in OnRow
    /\ LET i == cmd[r].id IN
        /\ RowFree(i)
        /\ Live(i)
        /\ touched' = [touched EXCEPT ![r] = {i}]
        /\ target' = [target EXCEPT ![r] = Changed(Op(r), row[i])]
    /\ Go(r, "log")
    /\ UNCHANGED <<tables, body, entry, job, orphan, nextEvent, cmd, missing,
                   conns, answer, committed>>

\* No row comes back: pgx.ErrNoRows, and the handler will answer "not found".
NoSuchTodo(r) ==
    /\ At(r, "work")
    /\ Op(r) \in OnRow
    /\ RowFree(cmd[r].id)
    /\ ~Live(cmd[r].id)
    /\ Go(r, "rollback")
    /\ answer' = [answer EXCEPT ![r] = "missing"]
    /\ UNCHANGED <<tables, body, txVars, orphan, nextEvent, cmd, missing, conns, committed>>

\* ListTodos, and which showcase items it did not show.
SeedRead(r) ==
    /\ At(r, "work")
    /\ Op(r) = "seed"
    /\ missing' = [missing EXCEPT ![r] = Items \ LiveBodies]
    /\ Go(r, "seed")
    /\ UNCHANGED <<tables, body, txVars, orphan, nextEvent, cmd, conns, answer, committed>>

SeedInsert(r) ==
    /\ At(r, "seed")
    /\ \E item \in missing[r] :
        /\ Insert(r, item)
        /\ missing' = [missing EXCEPT ![r] = @ \ {item}]
    /\ UNCHANGED <<tables, entry, job, orphan, nextEvent, pc, cmd, conns,
                   answer, committed>>

SeedInserted(r) ==
    /\ At(r, "seed")
    /\ missing[r] = {}
    /\ Go(r, "log")
    /\ UNCHANGED <<tables, body, txVars, orphan, nextEvent, cmd, missing, conns,
                   answer, committed>>

\* Mutation of InsertJob: Insert instead of InsertTx.
InsertJobOutsideTx(r) ==
    /\ At(r, "work")
    /\ Op(r) = "enqueue"
    /\ jobs' = jobs \cup {r}
    /\ Go(r, "log")
    /\ UNCHANGED <<row, events, body, txVars, orphan, nextEvent, cmd, missing,
                   conns, answer, committed>>

\* River's InsertTx puts the job in the same transaction.
InsertJob(r) ==
    /\ At(r, "work")
    /\ Op(r) = "enqueue"
    /\ job' = [job EXCEPT ![r] = TRUE]
    /\ Go(r, "log")
    /\ UNCHANGED <<tables, body, touched, target, entry, orphan, nextEvent, cmd,
                   missing, conns, answer, committed>>

\* What the event is about and what it says.
About(r) ==
    CASE Op(r) \in {"create", "toggle", "delete"} -> touched[r]
      [] Op(r) = "enqueue" -> {r}
      [] OTHER -> {Nothing}

\* Mutation of What: the event repeats the command's name.
WhatTheCommandIs(r) == Op(r)

\* Mutation of What: the event of a toggle tells the state before it.
WhatItWas(r) ==
    IF Op(r) = "toggle" THEN (IF target[r] = "done" THEN "open" ELSE "done")
    ELSE IF Op(r) = "delete" THEN "deleted" ELSE "created"

What(r) ==
    CASE Op(r) = "create" -> "created"
      [] Op(r) \in OnRow -> target[r]
      [] Op(r) = "seed" -> "seeded"
      [] Op(r) = "enqueue" -> "enqueued"
      [] OTHER -> "pulse"

\* INSERT INTO app_events; the number is taken whatever becomes of the insert.
InsertEvent(r) ==
    /\ At(r, "log")
    /\ nextEvent \in EventIds
    /\ \E about \in About(r) :
        entry' = [entry EXCEPT ![r] =
                     {[n |-> nextEvent, about |-> about, what |-> What(r)]}]
    /\ nextEvent' = nextEvent + 1
    /\ Go(r, "commit")
    /\ UNCHANGED <<tables, body, touched, target, job, orphan, cmd, missing,
                   conns, answer, committed>>

\* A statement is refused by the server; the deferred Rollback is next.
StatementFails(r) ==
    /\ pc[r] \in {"work", "seed", "log"}
    /\ Go(r, "rollback")
    /\ answer' = [answer EXCEPT ![r] = "error"]
    /\ UNCHANGED <<tables, body, txVars, orphan, nextEvent, cmd, missing, conns, committed>>

\* Mutation of Rollback: the deferred call is missing.
RollbackForgotten(r) ==
    /\ At(r, "rollback")
    /\ Finish(r, answer[r])
    /\ UNCHANGED <<tables, body, txVars, orphan, nextEvent, cmd, missing, committed>>

Rollback(r) ==
    /\ At(r, "rollback")
    /\ EndTx(r)
    /\ Finish(r, answer[r])
    /\ UNCHANGED <<tables, body, orphan, nextEvent, cmd, missing, committed>>

-----------------------------------------------------------------------------
(* Ending                                                                  *)

Commit(r) ==
    /\ At(r, "commit")
    /\ Apply(r)
    /\ EndTx(r)
    /\ conns' = conns \ {r}
    /\ Go(r, "publish")
    /\ UNCHANGED <<body, orphan, nextEvent, cmd, missing, answer>>

\* Mutation of CommitFails: the error of Commit is dropped.
CommitErrorDropped(r) ==
    /\ At(r, "commit")
    /\ EndTx(r)
    /\ conns' = conns \ {r}
    /\ Go(r, "publish")
    /\ UNCHANGED <<tables, body, orphan, nextEvent, cmd, missing, answer, committed>>

CommitFails(r) ==
    /\ At(r, "commit")
    /\ EndTx(r)
    /\ Finish(r, "error")
    /\ UNCHANGED <<tables, body, orphan, nextEvent, cmd, missing, committed>>

\* The context ends or the connection breaks under a statement or the commit.
\* The handler answers an error at once, pgx throws the connection away, and
\* the server ends the transaction in its own time.
Abandon(r) ==
    /\ pc[r] \in {"work", "seed", "log", "commit"}
    /\ Finish(r, "error")
    /\ orphan' = [orphan EXCEPT ![r] = IF At(r, "commit") THEN "may commit" ELSE "aborts"]
    /\ UNCHANGED <<tables, body, txVars, nextEvent, cmd, missing, committed>>

OrphanAborts(r) ==
    /\ orphan[r] # "no"
    /\ orphan' = [orphan EXCEPT ![r] = "no"]
    /\ EndTx(r)
    /\ UNCHANGED <<tables, body, nextEvent, pc, cmd, missing, conns, answer, committed>>

OrphanCommits(r) ==
    /\ orphan[r] = "may commit"
    /\ orphan' = [orphan EXCEPT ![r] = "no"]
    /\ Apply(r)
    /\ EndTx(r)
    /\ UNCHANGED <<body, nextEvent, pc, cmd, missing, conns, answer>>

\* publishChange, then the answer; LiveView has the publishing itself.
Publish(r) ==
    /\ At(r, "publish")
    /\ Finish(r, "ok")
    /\ UNCHANGED <<tables, body, txVars, orphan, nextEvent, cmd, missing, committed>>

-----------------------------------------------------------------------------
Work(r) ==
    \/ CreateTodo(r) \/ ChangeTodo(r) \/ NoSuchTodo(r) \/ SeedRead(r)
    \/ SeedInsert(r) \/ SeedInserted(r) \/ InsertJob(r) \/ InsertEvent(r)

Step(r) ==
    \/ Receive(r) \/ Refuse(r) \/ Begin(r) \/ BeginFails(r)
    \/ Work(r) \/ StatementFails(r) \/ Rollback(r)
    \/ Commit(r) \/ CommitFails(r) \/ Abandon(r)
    \/ OrphanAborts(r) \/ OrphanCommits(r) \/ Publish(r)

\* Every request is over, or cannot arrive any more within the bound.
Over(r) ==
    /\ \/ At(r, "served")
       \/ At(r, "idle") /\ (\A op \in Ops : ~RoomFor(op))
    /\ orphan[r] = "no"
Finished == (\A r \in Requests : Over(r)) /\ UNCHANGED vars

Next == (\E r \in Requests : Step(r)) \/ Finished

(***************************************************************************)
(* Goroutines run, the pool and PostgreSQL's lock queues are first come    *)
(* first served, and PostgreSQL ends a transaction whose client is gone.   *)
(* Nothing obliges a request to arrive or a call to fail.                  *)
(***************************************************************************)
Fairness ==
    \A r \in Requests :
        /\ WF_vars(Begin(r))
        /\ WF_vars(Work(r))
        /\ WF_vars(Rollback(r) \/ Commit(r) \/ Publish(r))
        /\ WF_vars(OrphanAborts(r) \/ OrphanCommits(r))

Spec == Init /\ [][Next]_vars /\ Fairness

-----------------------------------------------------------------------------
(* Safety                                                                  *)

Ledger == INSTANCE TodoLedger WITH Jobs <- Requests

\* Each commit is one indivisible command of the abstract ledger, applied to
\* the rows as they are at that moment: no update is lost, no command is half
\* done, and its event is numbered after the todo's other events.
ImplementsLedger == Ledger!LedgerSpec

\* The newest event on a todo tells its present state, whatever transactions
\* overlap and abort (app.go:244-256; todos.sql.go:37-40, 69-73).
LastWord == Ledger!LastWord

\* The events on one todo, by number, are a possible life of it.
AuditChain == Ledger!AuditChain

\* A job is in River's table exactly when the feed has its event: they are
\* inserted by one transaction (app.go:303-324).
JobIffEvent == Ledger!JobIffEvent

\* What a request was told is true: "ok" was committed, "not found" and a
\* refusal changed nothing and never will, and only a request that was told of
\* an error can have taken effect without being published (app.go:204-294).
AnswersAreTrue ==
    \A r \in Requests :
        /\ answer[r] = "ok" => r \in committed
        /\ answer[r] \in {"missing", "refused"} => r \notin committed /\ entry[r] = {}
        /\ r \in committed => answer[r] \in {"ok", "error"} \/ pc[r] = "publish"

\* "idempotently add a small app-building workflow" (README.md:102): the list
\* never holds a showcase item twice when nobody types one.
SeedOnce ==
    \A i, j \in Ids : Live(i) /\ Live(j) /\ body[i] = body[j] /\ body[i] \in Items => i = j

-----------------------------------------------------------------------------
(* Liveness                                                                *)

\* Every request that arrives is answered and its transaction ended: row locks
\* and the pool never wait on each other (app.go:398-409).
RequestsFinish ==
    \A r \in Requests : pc[r] = "begin" ~> (pc[r] = "served" /\ orphan[r] = "no")
=============================================================================
