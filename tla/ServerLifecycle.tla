-------------------------- MODULE ServerLifecycle --------------------------
(***************************************************************************)
(* The life of the server process (cmd/server/main.go): it connects, starts*)
(* River's workers, serves, and after SIGTERM stops in an order that lets  *)
(* nothing use what is already closed; or it exits at once, at any point   *)
(* and without its deferred calls (must, a crash).  What River's snapshot  *)
(* jobs (internal/jobs/snapshot.go) have done by then is in the database,  *)
(* and another process takes over.                                         *)
(*                                                                         *)
(* River is modelled from its use: it fetches a job by marking it running, *)
(* runs Work, and then writes the outcome.  A job that is still marked     *)
(* running although nobody works on it is rescued after an hour.  When the *)
(* context that Start was given ends, River fetches nothing more and the   *)
(* contexts of running jobs end, which may make their queries fail.        *)
(***************************************************************************)
EXTENDS Naturals, FiniteSets

CONSTANTS Jobs,         \* snapshot jobs, each enqueued by a request
          Streams,      \* requests for /stream
          MaxWorkers,   \* how many jobs are worked on at once
          MaxAttempts,  \* how often River tries a job
          MaxExits      \* BOUND: how often a process exits

ASSUME LifecycleAssumption ==
    MaxWorkers \in Nat /\ MaxAttempts \in Nat \ {0} /\ MaxExits \in Nat

VARIABLES
    proc,     \* what main does next, and the state of what it has set up
    exits,    \* how often a process has exited
    request,  \* the handler of each enqueueSnapshot request
    stream,   \* each stream handler
    stalled,  \* streams whose client has stopped reading
    work,     \* SnapshotWorker.Work of each job in this process
    job       \* each row of river_job, and how many events it has in the feed

httpVars == <<request, stream, stalled>>
vars == <<proc, exits, httpVars, work, job>>

Process ==
    [main   : {"connect", "bus", "river", "serve", "select", "shutdown", "stopRiver",
               "closeBus", "closePool", "return", "exited"},
     ctx    : {"live", "done"},     \* SIGTERM ends it
     pool   : {"none", "open", "closed"},
     bus    : {"none", "open", "closed"},
     river  : {"none", "started", "stopped", "late"},  \* late: Stop gave up
     server : {"none", "starting", "open", "failed", "shutdown"}]

Row == [state : {"none", "available", "running", "completed", "discarded"},
        attempt : 0..MaxAttempts,
        events : 0..MaxAttempts]

TypeOK ==
    /\ proc \in Process
    /\ exits \in 0..MaxExits
    /\ request \in [Jobs -> {"none", "tx", "publish", "done"}]
    /\ stream \in [Streams -> {"none", "select", "write", "returned"}]
    /\ stalled \in SUBSET Streams
    /\ work \in [Jobs -> {"none", "count", "insert", "publish", "ok", "failed"}]
    /\ job \in [Jobs -> Row]

NewProcess == [main |-> "connect", ctx |-> "live", pool |-> "none", bus |-> "none",
               river |-> "none", server |-> "none"]

Init ==
    /\ proc = NewProcess
    /\ exits = 0
    /\ request = [j \in Jobs |-> "none"]
    /\ stream = [s \in Streams |-> "none"]
    /\ stalled = {}
    /\ work = [j \in Jobs |-> "none"]
    /\ job = [j \in Jobs |-> [state |-> "none", attempt |-> 0, events |-> 0]]

-----------------------------------------------------------------------------
(* main                                                                    *)

ProcessStep(new) == proc' = new /\ UNCHANGED <<exits, httpVars, work, job>>

MainStep(from, new) == proc.main = from /\ ProcessStep(new)

\* A crash at any point; or a start-up step or the listener fails, and must calls
\* os.Exit.  No deferred call runs, and only the database stays.
Exit ==
    /\ proc.main # "exited"
    /\ exits < MaxExits
    /\ exits' = exits + 1
    /\ proc' = [NewProcess EXCEPT !.main = "exited"]
    /\ request' = [j \in Jobs |-> IF request[j] = "none" THEN "none" ELSE "done"]
    /\ stream' = [s \in Streams |-> IF stream[s] = "none" THEN "none" ELSE "returned"]
    /\ stalled' = {}
    /\ work' = [j \in Jobs |-> "none"]
    /\ UNCHANGED job

Restart == MainStep("exited", NewProcess)

\* BOUND: the last process to start is not stopped.
Sigterm ==
    /\ proc.main # "exited" /\ exits < MaxExits
    /\ ProcessStep([proc EXCEPT !.ctx = "done"])

\* pool.Ping(ctx) succeeds, or has been interrupted.
Connect ==
    /\ proc.ctx = "live"
    /\ MainStep("connect", [proc EXCEPT !.main = "bus", !.pool = "open"])
PingFails == proc.main = "connect" /\ proc.ctx = "done" /\ Exit

BuildBus == MainStep("bus", [proc EXCEPT !.main = "river", !.bus = "open"])
StartRiver == MainStep("river", [proc EXCEPT !.main = "serve", !.river = "started"])
Serve == MainStep("serve", [proc EXCEPT !.main = "select", !.server = "starting"])

\* The goroutine of ListenAndServe listens, or sends an error to errCh.
Listen ==
    /\ proc.server = "starting"
    /\ \/ ProcessStep([proc EXCEPT !.server = "open"])
       \/ exits < MaxExits /\ ProcessStep([proc EXCEPT !.server = "failed"])

\* case err := <-errCh: must(err, "serve").
ServeFails == proc.main = "select" /\ proc.server = "failed" /\ Exit

\* case <-ctx.Done(): App.Shutdown closes the listener.
Shutdown ==
    /\ proc.ctx = "done"
    /\ MainStep("select", [proc EXCEPT !.main = "shutdown", !.server = "shutdown"])

\* Mutation of StreamsToldToStop: http.Server.Shutdown alone, which interrupts
\* no handler.
NeverTold == FALSE

\* stopStreams, before http.Server.Shutdown.
StreamsToldToStop == proc.server = "shutdown"

HandlersDone ==
    /\ \A j \in Jobs : request[j] \in {"none", "done"}
    /\ \A s \in Streams : stream[s] \in {"none", "returned"}

\* Mutation of Deferred: they run in the order of the defer statements.
DeferredInOrder == <<"closePool", "closeBus", "stopRiver">>

\* The deferred calls run in the reverse order of the defer statements.
Deferred == <<"stopRiver", "closeBus", "closePool">>

After(call) ==
    IF call = Deferred[1] THEN Deferred[2]
    ELSE IF call = Deferred[2] THEN Deferred[3] ELSE "return"

\* http.Server.Shutdown returns nil once no connection is active.
ShutdownReturns ==
    HandlersDone /\ MainStep("shutdown", [proc EXCEPT !.main = Deferred[1]])

StopRiver ==
    /\ \A j \in Jobs : work[j] = "none"
    /\ MainStep("stopRiver", [proc EXCEPT !.main = After("stopRiver"), !.river = "stopped"])

\* Mutation of TimeIsUp: context.Background() without a time limit.
NoTimeLimit(call) == FALSE

\* Each of the two calls gets ten seconds, which may be over at any time.
TimeIsUp(call) == proc.main = call

\* must(context.DeadlineExceeded, "shutdown server").
ShutdownTimesOut == TimeIsUp("shutdown") /\ Exit

\* The error is logged, and the jobs that have not ended run on.
StopRiverTimesOut ==
    /\ TimeIsUp("stopRiver")
    /\ ProcessStep([proc EXCEPT !.main = After("stopRiver"), !.river = "late"])

CloseBus == MainStep("closeBus", [proc EXCEPT !.main = After("closeBus"), !.bus = "closed"])

Querying(j) == work[j] \in {"count", "insert"} \/ request[j] = "tx"

\* pgxpool.Pool.Close refuses connections, then waits for those in use.
ClosePool ==
    MainStep("closePool",
        [proc EXCEPT !.pool = "closed",
                     !.main = IF \E j \in Jobs : Querying(j) THEN @ ELSE After("closePool")])

MainReturns == proc.main = "return" /\ Exit

-----------------------------------------------------------------------------
(* enqueueSnapshot and stream, as far as a shutdown is concerned           *)

RequestStep(j, from, to) ==
    /\ request[j] = from
    /\ request' = [request EXCEPT ![j] = to]
    /\ UNCHANGED <<proc, exits, stream, stalled, work>>

Accept(j) == proc.server = "open" /\ RequestStep(j, "none", "tx") /\ job' = job

Enqueue(j) ==
    \/ RequestStep(j, "tx", "publish") /\ job' = [job EXCEPT ![j].state = "available"]
    \/ RequestStep(j, "tx", "done") /\ job' = job

PublishEnqueued(j) == RequestStep(j, "publish", "done") /\ job' = job

StreamStep(s, from, to) ==
    /\ stream[s] = from
    /\ stream' = [stream EXCEPT ![s] = to]
    /\ UNCHANGED <<proc, exits, request, stalled, work, job>>

\* A stream writes its first snapshot before it selects.
OpenStream(s) == proc.server = "open" /\ StreamStep(s, "none", "write")
WakeStream(s) == StreamStep(s, "select", "write")
Wrote(s) == s \notin stalled /\ StreamStep(s, "write", "select")
SeesShutdown(s) == StreamsToldToStop /\ StreamStep(s, "select", "returned")

\* The client leaves, or a query or a write fails.
EndStream(s) == StreamStep(s, "write", "returned") \/ StreamStep(s, "select", "returned")

\* The server sets no WriteTimeout: a write waits for a client that reads no more.
Stall(s) ==
    /\ stream[s] \in {"write", "select"}
    /\ stalled' = stalled \cup {s}
    /\ UNCHANGED <<proc, exits, request, stream, work, job>>

-----------------------------------------------------------------------------
(* River and SnapshotWorker.Work                                           *)

RiverRuns == proc.river = "started" /\ proc.ctx = "live"

JobStep(j, from, to, row) ==
    /\ work[j] = from
    /\ work' = [work EXCEPT ![j] = to]
    /\ job' = [job EXCEPT ![j] = row]
    /\ UNCHANGED <<proc, exits, httpVars>>

Fetch(j) ==
    /\ RiverRuns /\ job[j].state = "available"
    /\ Cardinality({k \in Jobs : work[k] # "none"}) < MaxWorkers
    /\ JobStep(j, "none", "count",
               [job[j] EXCEPT !.state = "running", !.attempt = @ + 1])

\* CountTodos; InsertEvent needs a connection again.
Count(j) == JobStep(j, "count", IF proc.pool = "open" THEN "insert" ELSE "failed", job[j])

QueryFails(j) == JobStep(j, "count", "failed", job[j])

\* Mutation of AfterInsertFails: the error is only logged, as Publish's is.
LoggedOnly == "ok"

AfterInsertFails == "failed"

\* InsertEvent is its own transaction, and may take effect although it fails.
InsertEvent(j) ==
    LET told == [job[j] EXCEPT !.events = @ + 1] IN
    \/ JobStep(j, "insert", "publish", told)
    \/ \E row \in {job[j], told} : JobStep(j, "insert", AfterInsertFails, row)

\* Mutation of PublishRecorded: the bus waits for every stream.
PublishToSlow(j) == stalled = {} /\ JobStep(j, "publish", "ok", job[j])

\* A failed Publish is only logged.
PublishRecorded(j) == JobStep(j, "publish", "ok", job[j])

Retried(j) == IF job[j].attempt < MaxAttempts THEN "available" ELSE "discarded"

\* The outcome is written, or that fails too.
WriteOutcome(j) ==
    \E outcome \in {"ok", "failed"} :
        \/ JobStep(j, outcome, "none", job[j])
        \/ /\ proc.pool = "open"
           /\ JobStep(j, outcome, "none",
                [job[j] EXCEPT !.state = IF outcome = "ok" THEN "completed" ELSE Retried(j)])

Rescue(j) ==
    /\ RiverRuns /\ job[j].state = "running"
    /\ JobStep(j, "none", "none", [job[j] EXCEPT !.state = Retried(j)])

-----------------------------------------------------------------------------
Main ==
    \/ Connect \/ PingFails \/ BuildBus \/ StartRiver \/ Serve \/ ServeFails \/ Shutdown
    \/ ShutdownReturns \/ StopRiver \/ CloseBus \/ ClosePool \/ MainReturns

Handle(j) == Enqueue(j) \/ PublishEnqueued(j)

Work(j) == Count(j) \/ InsertEvent(j) \/ PublishRecorded(j) \/ WriteOutcome(j)

\* Every request has come, and the last process serves on.
Idle ==
    /\ HandlersDone /\ \A j \in Jobs : job[j].state \in {"none", "completed", "discarded"}
    /\ proc.main = "select" /\ UNCHANGED vars

Next ==
    \/ Main \/ Listen \/ ShutdownTimesOut \/ StopRiverTimesOut
    \/ Exit \/ Restart \/ Sigterm \/ Idle
    \/ \E j \in Jobs :
        Accept(j) \/ Handle(j) \/ Fetch(j) \/ Work(j) \/ QueryFails(j) \/ Rescue(j)
    \/ \E s \in Streams :
        \/ OpenStream(s) \/ WakeStream(s) \/ Wrote(s) \/ SeesShutdown(s)
        \/ EndStream(s) \/ Stall(s)

(***************************************************************************)
(* Goroutines run, queries and publications end (the bus has time limits), *)
(* a select among ready cases is random and so comes to choose each (SF),  *)
(* a process that exits is started again, and River goes on fetching and   *)
(* rescuing.  No time limit has to run out, no client has to read or leave,*)
(* and SIGTERM need not come.                                              *)
(***************************************************************************)
Fairness ==
    /\ WF_vars(Main) /\ WF_vars(Listen) /\ WF_vars(Restart)
    /\ \A j \in Jobs :
        WF_vars(Handle(j)) /\ WF_vars(Fetch(j)) /\ WF_vars(Work(j)) /\ WF_vars(Rescue(j))
    /\ \A s \in Streams : WF_vars(Wrote(s)) /\ SF_vars(SeesShutdown(s))

Spec == Init /\ [][Next]_vars /\ Fairness

-----------------------------------------------------------------------------
(* Safety                                                                  *)

\* Neither the bus nor the pool is closed while a handler or a job may still use
\* it, unless River's jobs did not end in time (main.go:29-59, 66-70).
ClosedIsUnused ==
    proc.bus = "closed" \/ proc.pool = "closed" =>
        /\ HandlersDone
        /\ proc.river = "late" \/ \A j \in Jobs : work[j] = "none"

\* A job that River counts as completed has told the feed so at least once, and
\* at most once for each attempt, wherever a process was cut off (snapshot.go:36-62).
CompletedIsRecorded ==
    \A j \in Jobs :
        /\ job[j].state = "completed" => job[j].events > 0
        /\ job[j].events <= job[j].attempt

-----------------------------------------------------------------------------
(* Liveness                                                                *)

\* SIGTERM ends a process without any time limit having to run out, unless a
\* client that reads no more holds up its stream (main.go:66-70; app.go:84-88,
\* 178-184).
StopsByItself == proc.ctx = "done" ~> proc.main = "exited" \/ stalled # {}

TimeLimits == WF_vars(ShutdownTimesOut) /\ WF_vars(StopRiverTimesOut)

\* With the time limits it ends whatever clients do (main.go:54, 68).
StopsInTime == TimeLimits => (proc.ctx = "done" ~> proc.main = "exited")

\* An enqueued job is completed or has used up its attempts, whenever the
\* processes that work on it stop ("durable jobs", README.md:301, 350-355).
JobsFinish ==
    TimeLimits =>
        \A j \in Jobs :
            job[j].state = "available" ~> job[j].state \in {"completed", "discarded"}
=============================================================================
