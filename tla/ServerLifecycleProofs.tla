----------------------- MODULE ServerLifecycleProofs -----------------------
(***************************************************************************)
(* For any number of jobs, streams, workers, attempts and exits: the state *)
(* of ServerLifecycle is well typed, a completed job is in the feed, and   *)
(* nothing is closed while it is used.                                     *)
(***************************************************************************)
EXTENDS ServerLifecycle, TLAPS

-----------------------------------------------------------------------------
(* Jobs.  An attempt inserts one event at most: until it has come to its   *)
(* insert, there are fewer events than attempts, and after it there is one. *)

JobTold(j) ==
    /\ job[j].events <= job[j].attempt
    /\ job[j].state = "available" => job[j].attempt < MaxAttempts
    /\ job[j].state = "completed" => job[j].events > 0
    /\ work[j] \in {"count", "insert"} => job[j].events < job[j].attempt
    /\ work[j] \in {"publish", "ok"} => job[j].events > 0
    /\ request[j] \in {"none", "tx"} =>
           job[j].state = "none" /\ job[j].attempt = 0 /\ work[j] = "none"

JobInv == TypeOK /\ \A j \in Jobs : JobTold(j)

\* A job's step leaves the other jobs alone.
LEMMA OtherJobsKept ==
    ASSUME JobInv, NEW j \in Jobs, NEW to, NEW row,
           work' = [work EXCEPT ![j] = to], job' = [job EXCEPT ![j] = row],
           request' = request
    PROVE  \A k \in Jobs : k # j => JobTold(k)'
<1>. SUFFICES ASSUME NEW k \in Jobs, k # j PROVE JobTold(k)'
  OBVIOUS
<1>1. /\ work'[k] = work[k] /\ job'[k] = job[k] /\ request'[k] = request[k]
  BY DEF JobInv, TypeOK
<1>2. JobTold(k)
  BY DEF JobInv
<1>. QED
  BY <1>1, <1>2 DEF JobTold

\* A step that touches neither the jobs nor their requests.
LEMMA JobInvElsewhere ==
    ASSUME JobInv, TypeOK', UNCHANGED <<request, work, job>> PROVE JobInv'
  BY DEF JobInv, JobTold

\* What main, the listener and the signal do to the process is well typed.
LEMMA DeferredCalls ==
    /\ After("stopRiver") = "closeBus"
    /\ After("closeBus") = "closePool"
    /\ After("closePool") = "return"
    /\ Deferred[1] = "stopRiver"
  BY DEF After, Deferred

LEMMA ExitKeepsJobInv == JobInv /\ Exit => JobInv'
<1>. SUFFICES ASSUME JobInv, Exit PROVE JobInv'
  OBVIOUS
<1>1. proc' \in Process
  BY DEF Exit, NewProcess, Process
<1>2. exits' \in 0..MaxExits
  BY LifecycleAssumption DEF Exit, JobInv, TypeOK
<1>3. TypeOK'
  BY <1>1, <1>2 DEF Exit, JobInv, TypeOK
<1>4. ASSUME NEW j \in Jobs PROVE JobTold(j)'
  <2>1. /\ work'[j] = "none" /\ job' = job
        /\ request'[j] \in {"none", "tx"} => request[j] \in {"none", "tx"}
    BY DEF Exit
  <2>2. JobTold(j)
    BY DEF JobInv
  <2>. QED
    BY <2>1, <2>2 DEF JobTold
<1>. QED
  BY <1>3, <1>4 DEF JobInv

\* Everything main does but to exit, the listener, and SIGTERM.
ProcessSteps ==
    \/ Connect \/ BuildBus \/ StartRiver \/ Serve \/ Shutdown \/ ShutdownReturns
    \/ StopRiver \/ CloseBus \/ ClosePool \/ Listen \/ StopRiverTimesOut
    \/ Restart \/ Sigterm

Exits == PingFails \/ ServeFails \/ ShutdownTimesOut \/ MainReturns \/ Exit

LEMMA ProcessTyped ==
    ASSUME proc \in Process, ProcessSteps
    PROVE  proc' \in Process /\ UNCHANGED <<exits, httpVars, work, job>>
<1>1. UNCHANGED <<exits, httpVars, work, job>>
  BY DEF ProcessSteps, Connect, BuildBus, StartRiver, Serve, Shutdown, ShutdownReturns,
         StopRiver, CloseBus, ClosePool, Listen, StopRiverTimesOut, Restart, Sigterm,
         MainStep, ProcessStep
<1>2. CASE Connect \/ BuildBus \/ StartRiver \/ Serve \/ Shutdown
  BY <1>2 DEF Connect, BuildBus, StartRiver, Serve, Shutdown, MainStep, ProcessStep, Process
<1>3. CASE ShutdownReturns \/ StopRiver \/ CloseBus \/ StopRiverTimesOut
  BY <1>3, DeferredCalls
  DEF ShutdownReturns, StopRiver, CloseBus, StopRiverTimesOut, MainStep, ProcessStep, Process
<1>4. CASE ClosePool
  BY <1>4, DeferredCalls DEF ClosePool, MainStep, ProcessStep, Process
<1>5. CASE Listen \/ Restart \/ Sigterm
  BY <1>5 DEF Listen, Restart, Sigterm, MainStep, ProcessStep, Process, NewProcess
<1>. QED
  BY <1>1, <1>2, <1>3, <1>4, <1>5 DEF ProcessSteps

LEMMA StreamKeepsJobInv ==
    ASSUME JobInv, NEW s \in Streams,
           \/ OpenStream(s) \/ WakeStream(s) \/ Wrote(s) \/ SeesShutdown(s)
           \/ EndStream(s) \/ Stall(s)
    PROVE  JobInv'
<1>1. UNCHANGED <<proc, exits, request, work, job>>
  BY DEF OpenStream, WakeStream, Wrote, SeesShutdown, EndStream, Stall, StreamStep
<1>2. stream' \in [Streams -> {"none", "select", "write", "returned"}] /\ stalled' \in SUBSET Streams
  BY DEF OpenStream, WakeStream, Wrote, SeesShutdown, EndStream, Stall, StreamStep, JobInv, TypeOK
<1>. QED
  BY <1>1, <1>2, JobInvElsewhere DEF JobInv, TypeOK

LEMMA RequestKeepsJobInv ==
    ASSUME JobInv, NEW j \in Jobs, Accept(j) \/ Handle(j) PROVE JobInv'
<1>1. PICK row \in Row : /\ job' = [job EXCEPT ![j] = row]
                         /\ \/ row = job[j]
                            \/ request[j] = "tx" /\ row = [job[j] EXCEPT !.state = "available"]
  <2>1. job[j] \in Row /\ job = [job EXCEPT ![j] = job[j]]
    BY DEF JobInv, TypeOK
  <2>2. [job[j] EXCEPT !.state = "available"] \in Row
    BY <2>1 DEF Row
  <2>. QED
    BY <2>1, <2>2 DEF Accept, Handle, Enqueue, PublishEnqueued, RequestStep
<1>2. PICK new \in {"none", "tx", "publish", "done"} :
        /\ request' = [request EXCEPT ![j] = new]
        /\ new \in {"none", "tx"} => request[j] \in {"none", "tx"} /\ row = job[j]
  BY <1>1 DEF Accept, Handle, Enqueue, PublishEnqueued, RequestStep, JobInv, TypeOK
<1>3. UNCHANGED <<proc, exits, stream, stalled, work>>
  BY DEF Accept, Handle, Enqueue, PublishEnqueued, RequestStep
<1>4. TypeOK'
  BY <1>1, <1>2, <1>3 DEF JobInv, TypeOK
<1>5. JobTold(j)'
  <2>1. JobTold(j) /\ job[j] \in Row
    BY DEF JobInv, TypeOK
  <2>2. job'[j] = row /\ request'[j] = new /\ work'[j] = work[j]
    BY <1>1, <1>2, <1>3 DEF JobInv, TypeOK
  <2>3. CASE row = job[j]
    BY <1>2, <2>1, <2>2, <2>3 DEF JobTold
  <2>4. CASE request[j] = "tx" /\ row = [job[j] EXCEPT !.state = "available"] /\ row # job[j]
    <3>1. row.state = "available" /\ row.attempt = job[j].attempt /\ row.events = job[j].events
      BY <2>1, <2>4 DEF Row
    <3>2. job[j].attempt = 0 /\ work[j] = "none"
      BY <2>1, <2>4 DEF JobTold
    <3>3. new \notin {"none", "tx"}
      BY <1>2, <2>4
    <3>. QED
      BY <2>1, <2>2, <3>1, <3>2, <3>3, LifecycleAssumption DEF JobTold
  <2>. QED
    BY <1>1, <2>3, <2>4
<1>6. ASSUME NEW k \in Jobs, k # j PROVE JobTold(k)'
  <2>1. job'[k] = job[k] /\ request'[k] = request[k] /\ work'[k] = work[k]
    BY <1>1, <1>2, <1>3, <1>6 DEF JobInv, TypeOK
  <2>. QED
    BY <2>1 DEF JobTold, JobInv
<1>. QED
  BY <1>4, <1>5, <1>6 DEF JobInv

\* An attempt that has been tried leaves the job for another one, or for none.
LEMMA RetriedState ==
    ASSUME NEW j \in Jobs, job[j] \in Row
    PROVE  /\ Retried(j) \in {"available", "discarded"}
           /\ Retried(j) = "available" => job[j].attempt < MaxAttempts
  BY DEF Retried

\* A row with one field replaced is a row.
LEMMA StateUpdate ==
    ASSUME NEW r \in Row, NEW state \in {"none", "available", "running", "completed", "discarded"}
    PROVE  /\ [r EXCEPT !.state = state] \in Row
           /\ [r EXCEPT !.state = state].attempt = r.attempt
           /\ [r EXCEPT !.state = state].events = r.events
           /\ [r EXCEPT !.state = state].state = state
  BY DEF Row

LEMMA EventsUpdate ==
    ASSUME NEW r \in Row, NEW n \in 0..MaxAttempts
    PROVE  /\ [r EXCEPT !.events = n] \in Row
           /\ [r EXCEPT !.events = n].state = r.state
           /\ [r EXCEPT !.events = n].attempt = r.attempt
           /\ [r EXCEPT !.events = n].events = n
  BY DEF Row

LEMMA WorkKeepsJobInv ==
    ASSUME JobInv, NEW j \in Jobs,
           Fetch(j) \/ Work(j) \/ QueryFails(j) \/ Rescue(j)
    PROVE  JobInv'
<1>. DEFINE r == job[j]
<1>1. /\ r \in Row /\ JobTold(j)
      /\ request[j] \in {"none", "tx", "publish", "done"}
  BY DEF JobInv, TypeOK
<1>2. /\ r.attempt \in 0..MaxAttempts /\ r.events \in 0..MaxAttempts
      /\ r.state \in {"none", "available", "running", "completed", "discarded"}
  BY <1>1 DEF Row
<1>0. SUFFICES ASSUME NEW from, NEW to, NEW row, JobStep(j, from, to, row),
                     \/ Fetch(j) /\ from = "none" /\ to = "count"
                        /\ row = [r EXCEPT !.state = "running", !.attempt = @ + 1]
                     \/ from = "count" /\ to \in {"insert", "failed"} /\ row = r
                     \/ from = "insert" /\ to = "publish" /\ row = [r EXCEPT !.events = @ + 1]
                     \/ from = "insert" /\ to = "failed"
                        /\ (row = r \/ row = [r EXCEPT !.events = @ + 1])
                     \/ from = "publish" /\ to = "ok" /\ row = r
                     \/ from \in {"ok", "failed"} /\ to = "none"
                        /\ (row = r \/ row = [r EXCEPT !.state =
                                             IF from = "ok" THEN "completed" ELSE Retried(j)])
                     \/ Rescue(j) /\ from = "none" /\ to = "none"
                        /\ row = [r EXCEPT !.state = Retried(j)]
              PROVE  JobInv'
  <2>1. CASE Fetch(j)
    BY <2>1 DEF Fetch
  <2>2. CASE Count(j) \/ QueryFails(j)
    BY <2>2 DEF Count, QueryFails
  <2>3. CASE InsertEvent(j)
    BY <2>3 DEF InsertEvent, AfterInsertFails
  <2>4. CASE PublishRecorded(j)
    BY <2>4 DEF PublishRecorded
  <2>5. CASE WriteOutcome(j)
    BY <2>5 DEF WriteOutcome
  <2>6. CASE Rescue(j)
    BY <2>6 DEF Rescue
  <2>. QED
    BY <2>1, <2>2, <2>3, <2>4, <2>5, <2>6 DEF Work
<1>3. /\ work[j] = from
      /\ work' = [work EXCEPT ![j] = to] /\ job' = [job EXCEPT ![j] = row]
      /\ UNCHANGED <<proc, exits, httpVars>>
  BY <1>0 DEF JobStep
<1>4. /\ work'[j] = to /\ job'[j] = row /\ request'[j] = request[j]
  BY <1>3 DEF JobInv, TypeOK, httpVars
<1>5. /\ to \in {"none", "count", "insert", "publish", "ok", "failed"}
      /\ row \in Row /\ JobTold(j)'
  <2>1. CASE /\ Fetch(j) /\ from = "none" /\ to = "count"
             /\ row = [r EXCEPT !.state = "running", !.attempt = @ + 1]
    <3>1. r.state = "available" /\ r.attempt < MaxAttempts /\ request[j] \notin {"none", "tx"}
      BY <1>1, <2>1 DEF Fetch, JobTold
    <3>2. r.attempt + 1 \in 0..MaxAttempts /\ r.events < r.attempt + 1
      BY <1>1, <1>2, <3>1, LifecycleAssumption DEF JobTold
    <3>3. /\ row \in Row /\ row.state = "running"
          /\ row.attempt = r.attempt + 1 /\ row.events = r.events
      BY <1>1, <2>1, <3>2 DEF Row
    <3>4. row.events <= row.attempt
      BY <1>2, <3>2, <3>3, LifecycleAssumption
    <3>. QED
      BY <1>4, <2>1, <3>1, <3>2, <3>3, <3>4 DEF JobTold
  <2>2. CASE from = "count" /\ to \in {"insert", "failed"} /\ row = r
    BY <1>1, <1>3, <1>4, <2>2 DEF JobTold
  <2>3. CASE from = "insert" /\ to \in {"publish", "failed"} /\ row = [r EXCEPT !.events = @ + 1]
    <3>1. r.events < r.attempt /\ request[j] \notin {"none", "tx"}
      BY <1>1, <1>3, <2>3 DEF JobTold
    <3>2. r.events + 1 \in 0..MaxAttempts /\ r.events + 1 <= r.attempt /\ r.events + 1 > 0
      BY <1>2, <3>1, LifecycleAssumption
    <3>3. /\ row \in Row /\ row.state = r.state
          /\ row.attempt = r.attempt /\ row.events = r.events + 1
      BY <1>1, <1>2, <2>3, <3>2, EventsUpdate
    <3>. QED
      BY <1>1, <1>4, <2>3, <3>1, <3>2, <3>3 DEF JobTold
  <2>4. CASE from = "insert" /\ to = "failed" /\ row = r
    BY <1>1, <1>3, <1>4, <2>4 DEF JobTold
  <2>5. CASE from = "publish" /\ to = "ok" /\ row = r
    BY <1>1, <1>3, <1>4, <2>5 DEF JobTold
  <2>6. CASE from \in {"ok", "failed"} /\ to = "none" /\ row = r
    BY <1>1, <1>3, <1>4, <2>6 DEF JobTold
  <2>7. CASE from = "ok" /\ to = "none" /\ row = [r EXCEPT !.state = "completed"]
    <3>1. r.events > 0 /\ request[j] \notin {"none", "tx"}
      BY <1>1, <1>3, <2>7 DEF JobTold
    <3>2. /\ row \in Row /\ row.state = "completed"
          /\ row.attempt = r.attempt /\ row.events = r.events
      BY <1>1, <1>2, <2>7, StateUpdate
    <3>. QED
      BY <1>1, <1>4, <2>7, <3>1, <3>2 DEF JobTold
  <2>8. CASE from \in {"failed", "none"} /\ to = "none" /\ row = [r EXCEPT !.state = Retried(j)]
             /\ (from = "none" => r.state = "running")
    <3>1. request[j] \notin {"none", "tx"}
      BY <1>1, <1>3, <2>8 DEF JobTold
    <3>2. /\ Retried(j) \in {"none", "available", "running", "completed", "discarded"}
          /\ Retried(j) # "completed"
          /\ Retried(j) = "available" => r.attempt < MaxAttempts
      BY <1>1, RetriedState
    <3>3. /\ row \in Row /\ row.state = Retried(j)
          /\ row.attempt = r.attempt /\ row.events = r.events
      BY <1>1, <1>2, <2>8, <3>2, StateUpdate
    <3>. QED
      BY <1>1, <1>4, <2>8, <3>1, <3>2, <3>3 DEF JobTold
  <2>. QED
    BY <2>1, <2>2, <2>3, <2>4, <2>5, <2>6, <2>7, <2>8, <1>0 DEF Rescue
<1>6. TypeOK'
  BY <1>3, <1>5 DEF JobInv, TypeOK, httpVars
<1>7. request' = request
  BY <1>3 DEF httpVars
<1>8. \A k \in Jobs : k # j => JobTold(k)'
  BY <1>3, <1>7, OtherJobsKept
<1>9. \A k \in Jobs : JobTold(k)'
  BY <1>5, <1>8
<1>. QED
  BY <1>6, <1>9 DEF JobInv

LEMMA JobInvStep == JobInv /\ [Next]_vars => JobInv'
<1>. SUFFICES ASSUME JobInv, [Next]_vars PROVE JobInv'
  OBVIOUS
<1>1. CASE UNCHANGED vars
  BY <1>1 DEF vars, httpVars, JobInv, TypeOK, JobTold
<1>2. CASE Exits
  BY <1>2, ExitKeepsJobInv DEF Exits, PingFails, ServeFails, ShutdownTimesOut, MainReturns
<1>3. CASE ProcessSteps
  BY <1>3, ProcessTyped, JobInvElsewhere DEF JobInv, TypeOK, httpVars
<1>4. ASSUME NEW j \in Jobs, Accept(j) \/ Handle(j) PROVE JobInv'
  BY <1>4, RequestKeepsJobInv
<1>5. ASSUME NEW j \in Jobs, Fetch(j) \/ Work(j) \/ QueryFails(j) \/ Rescue(j) PROVE JobInv'
  BY <1>5, WorkKeepsJobInv
<1>6. ASSUME NEW s \in Streams,
             \/ OpenStream(s) \/ WakeStream(s) \/ Wrote(s) \/ SeesShutdown(s)
             \/ EndStream(s) \/ Stall(s)
      PROVE  JobInv'
  BY <1>6, StreamKeepsJobInv
<1>7. CASE Idle
  BY <1>1, <1>7 DEF Idle
<1>. QED
  BY <1>1, <1>2, <1>3, <1>4, <1>5, <1>6, <1>7 DEF Next, Main, Exits, ProcessSteps

LEMMA JobInvInit == Init => JobInv
<1>. SUFFICES ASSUME Init PROVE JobInv
  OBVIOUS
<1>1. proc \in Process
  BY DEF Init, NewProcess, Process
<1>2. TypeOK
  BY <1>1, LifecycleAssumption DEF Init, TypeOK, Row
<1>. QED
  BY <1>2 DEF Init, JobInv, JobTold

\* Every variable of ServerLifecycle keeps its type (main.go; snapshot.go).
THEOREM LifecycleTypeCorrect == Spec => []TypeOK
  BY JobInvInit, JobInvStep, PTL DEF Spec, JobInv

\* A completed job has told the feed so, at most once for each attempt
\* (snapshot.go:36-62).
THEOREM CompletedIsAlwaysRecorded == Spec => []CompletedIsRecorded
<1>1. JobInv => CompletedIsRecorded
  BY DEF JobInv, JobTold, CompletedIsRecorded
<1>. QED
  BY <1>1, JobInvInit, JobInvStep, PTL DEF Spec
-----------------------------------------------------------------------------
(* The order of a shutdown.  Which calls main has behind it tells who may  *)
(* still be there: no handler before the server listens or once Shutdown   *)
(* has returned, and no job before River starts or once it has stopped.    *)

NobodyWorks == \A j \in Jobs : work[j] = "none"

Stopping == {"stopRiver", "closeBus", "closePool", "return"}

MainInv ==
    /\ proc.main \in {"connect", "bus", "river", "serve", "exited"} => proc.server = "none"
    /\ proc.server \in {"starting", "open", "failed"} => proc.main = "select"
    /\ proc.server = "none" => HandlersDone
    /\ proc.main \in Stopping => HandlersDone
    /\ proc.river = "started" => proc.main \in {"serve", "select", "shutdown", "stopRiver"}
    /\ proc.river \in {"none", "stopped"} \/ proc.main = "exited" => NobodyWorks
    /\ proc.bus = "closed" \/ proc.pool = "closed" => proc.main \in {"closePool", "return"}

LEMMA MainInvByProcess ==
    ASSUME proc \in Process, MainInv, ProcessSteps PROVE MainInv'
<1>1. /\ UNCHANGED <<exits, httpVars, work, job>>
      /\ UNCHANGED <<request, stream, work>>
  BY ProcessTyped DEF httpVars
<1>2. HandlersDone' <=> HandlersDone
  BY <1>1 DEF HandlersDone
<1>3. NobodyWorks' <=> NobodyWorks
  BY <1>1 DEF NobodyWorks
<1>4. CASE Connect \/ BuildBus \/ StartRiver \/ Serve
  BY <1>2, <1>3, <1>4
  DEF Connect, BuildBus, StartRiver, Serve, MainStep, ProcessStep, Process, MainInv, Stopping
<1>5. CASE Shutdown
  BY <1>2, <1>3, <1>5 DEF Shutdown, MainStep, ProcessStep, Process, MainInv, Stopping
<1>6. CASE ShutdownReturns
  BY <1>2, <1>3, <1>6, DeferredCalls
  DEF ShutdownReturns, MainStep, ProcessStep, Process, MainInv, Stopping
<1>7. CASE StopRiver
  BY <1>2, <1>3, <1>7, DeferredCalls
  DEF StopRiver, MainStep, ProcessStep, Process, MainInv, Stopping, NobodyWorks
<1>8. CASE StopRiverTimesOut
  BY <1>2, <1>3, <1>8, DeferredCalls
  DEF StopRiverTimesOut, TimeIsUp, ProcessStep, Process, MainInv, Stopping
<1>9. CASE CloseBus
  BY <1>2, <1>3, <1>9, DeferredCalls
  DEF CloseBus, MainStep, ProcessStep, Process, MainInv, Stopping
<1>10. CASE ClosePool
  BY <1>2, <1>3, <1>10, DeferredCalls
  DEF ClosePool, MainStep, ProcessStep, Process, MainInv, Stopping
<1>11. CASE Listen
  BY <1>2, <1>3, <1>11 DEF Listen, ProcessStep, Process, MainInv, Stopping
<1>12. CASE Restart
  BY <1>2, <1>3, <1>12
  DEF Restart, MainStep, ProcessStep, Process, NewProcess, MainInv, Stopping
<1>13. CASE Sigterm
  BY <1>2, <1>3, <1>13 DEF Sigterm, ProcessStep, Process, MainInv, Stopping
<1>. QED
  BY <1>4, <1>5, <1>6, <1>7, <1>8, <1>9, <1>10, <1>11, <1>12, <1>13 DEF ProcessSteps

\* Handlers begin while the server is open only, and end by themselves.
LEMMA MainInvByHandler ==
    ASSUME TypeOK, MainInv, UNCHANGED <<proc, work>>,
           HandlersDone => HandlersDone' \/ proc.server = "open"
    PROVE  MainInv'
<1>1. NobodyWorks' <=> NobodyWorks
  BY DEF NobodyWorks
<1>. QED
  BY <1>1 DEF MainInv, Stopping

\* Jobs are fetched while River is started only.
LEMMA MainInvByJob ==
    ASSUME TypeOK, MainInv, UNCHANGED <<proc, httpVars>>,
           NobodyWorks => NobodyWorks' \/ proc.river = "started"
    PROVE  MainInv'
<1>1. HandlersDone' <=> HandlersDone
  BY DEF HandlersDone, httpVars
<1>. QED
  BY <1>1 DEF MainInv, Stopping

LEMMA MainInvStep == TypeOK /\ MainInv /\ [Next]_vars => MainInv'
<1>. SUFFICES ASSUME TypeOK, MainInv, [Next]_vars PROVE MainInv'
  OBVIOUS
<1>1. CASE UNCHANGED vars
  BY <1>1, MainInvByHandler DEF vars, httpVars, HandlersDone
<1>2. CASE Exits
  <2>1. Exit
    BY <1>2 DEF Exits, PingFails, ServeFails, ShutdownTimesOut, MainReturns
  <2>2. /\ proc' = [NewProcess EXCEPT !.main = "exited"]
        /\ HandlersDone' /\ NobodyWorks'
    BY <2>1 DEF Exit, HandlersDone, NobodyWorks, TypeOK
  <2>. QED
    BY <2>2 DEF NewProcess, MainInv, Stopping
<1>3. CASE ProcessSteps
  BY <1>3, MainInvByProcess DEF TypeOK
<1>4. ASSUME NEW j \in Jobs, Accept(j) \/ Handle(j) PROVE MainInv'
  <2>1. UNCHANGED <<proc, work, stream>>
    BY <1>4 DEF Accept, Handle, Enqueue, PublishEnqueued, RequestStep
  <2>2. CASE Accept(j)
    BY <2>1, <2>2, MainInvByHandler DEF Accept
  <2>3. CASE Handle(j)
    <3>1. request[j] \in {"tx", "publish"}
      BY <2>3 DEF Handle, Enqueue, PublishEnqueued, RequestStep
    <3>. QED
      BY <2>1, <3>1, MainInvByHandler DEF HandlersDone
  <2>. QED
    BY <1>4, <2>2, <2>3
<1>5. ASSUME NEW j \in Jobs, Fetch(j) \/ Work(j) \/ QueryFails(j) \/ Rescue(j) PROVE MainInv'
  <2>1. CASE Fetch(j)
    BY <2>1, MainInvByJob DEF Fetch, RiverRuns, JobStep, httpVars
  <2>2. CASE Work(j) \/ QueryFails(j)
    <3>1. work[j] # "none" /\ UNCHANGED <<proc, httpVars>>
      BY <2>2 DEF Work, Count, QueryFails, InsertEvent, PublishRecorded, WriteOutcome, JobStep
    <3>. QED
      BY <3>1, MainInvByJob DEF NobodyWorks
  <2>3. CASE Rescue(j)
    <3>1. /\ work[j] = "none" /\ work' = [work EXCEPT ![j] = "none"]
          /\ UNCHANGED <<proc, httpVars>>
      BY <2>3 DEF Rescue, JobStep
    <3>2. work' = work
      BY <3>1 DEF TypeOK
    <3>. QED
      BY <3>1, <3>2, MainInvByJob DEF NobodyWorks
  <2>. QED
    BY <1>5, <2>1, <2>2, <2>3
<1>6. ASSUME NEW s \in Streams,
             \/ OpenStream(s) \/ WakeStream(s) \/ Wrote(s) \/ SeesShutdown(s)
             \/ EndStream(s) \/ Stall(s)
      PROVE  MainInv'
  <2>1. UNCHANGED <<proc, work, request>>
    BY <1>6 DEF OpenStream, WakeStream, Wrote, SeesShutdown, EndStream, Stall, StreamStep
  <2>2. proc.server = "open" \/ stream[s] \in {"select", "write"}
    BY <1>6 DEF OpenStream, WakeStream, Wrote, SeesShutdown, EndStream, Stall, StreamStep
  <2>. QED
    BY <2>1, <2>2, MainInvByHandler DEF HandlersDone
<1>7. CASE Idle
  BY <1>1, <1>7 DEF Idle
<1>. QED
  BY <1>1, <1>2, <1>3, <1>4, <1>5, <1>6, <1>7 DEF Next, Main, Exits, ProcessSteps

LEMMA MainInvInit == Init => MainInv
  BY DEF Init, NewProcess, MainInv, HandlersDone, NobodyWorks, Stopping

\* Neither the bus nor the pool is closed while a handler or a job may still use
\* it, unless River's jobs did not end in time (main.go:29-59, 66-70).
THEOREM ClosedIsAlwaysUnused == Spec => []ClosedIsUnused
<1>1. TypeOK /\ MainInv => ClosedIsUnused
  BY DEF TypeOK, Process, MainInv, ClosedIsUnused, NobodyWorks, Stopping
<1>2. Spec => [](TypeOK /\ MainInv)
  BY JobInvInit, JobInvStep, MainInvInit, MainInvStep, PTL DEF Spec, JobInv
<1>. QED
  BY <1>1, <1>2, PTL
=============================================================================
