----------------------------- MODULE MemoryBus -----------------------------
(***************************************************************************)
(* realtime.MemoryBus: a map of channels under a sync.RWMutex.             *)
(*                                                                         *)
(* Threads.  Every Publish runs on its caller's goroutine.  Every Subscribe*)
(* has two goroutines that may unsubscribe: the stream handler, through    *)
(* its deferred call, and the watcher that waits for the context.  They    *)
(* meet in a sync.Once.  A pending writer keeps new readers out and, when  *)
(* it unlocks, lets in the readers that queued behind it.                  *)
(*                                                                         *)
(* Only one topic exists, and an absent topic and an empty one look the    *)
(* same to Publish, so the map is its set of channels.                     *)
(***************************************************************************)
EXTENDS Integers, FiniteSets

CONSTANTS Publishers, Subscribers, Cap

ASSUME CapAssumption == Cap \in Nat \ {0}

Nobody == <<>>
Handler(s) == <<s, "handler">>
Watcher(s) == <<s, "watcher">>
Threads == Subscribers \X {"handler", "watcher"}

VARIABLES channels,   \* b.subscribers[topic]
          mailbox,    \* how many events each channel holds
          readers,    \* publishers holding b.mu for reading
          queued,     \* publishers waiting for a writer to unlock b.mu
          writer,     \* thread that holds b.mu for writing or waits for its readers
          ppc,        \* where each publisher is
          todo,       \* channels its loop has not reached yet
          tpc,        \* where each handler and watcher is
          once,       \* the sync.Once of each subscription
          closes,     \* how often its done channel was closed
          cancelled   \* subscriptions whose context is done

vars == <<channels, mailbox, readers, queued, writer, ppc, todo, tpc, once,
          closes, cancelled>>
lockVars == <<readers, queued, writer>>
pubVars == <<ppc, todo>>
subVars == <<once, closes, cancelled>>

TypeOK ==
    /\ channels \subseteq Subscribers
    /\ mailbox \in [Subscribers -> 0..Cap]
    /\ readers \subseteq Publishers
    /\ queued \subseteq Publishers
    /\ writer \in Threads \cup {Nobody}
    /\ ppc \in [Publishers -> {"before", "rlock", "loop", "returned"}]
    /\ todo \in [Publishers -> SUBSET Subscribers]
    /\ tpc \in [Threads -> {"absent", "add", "adding", "added", "streaming",
                            "select", "once", "remove", "removing", "removed",
                            "exited"}]
    /\ once \in [Subscribers -> {"fresh", "busy", "done"}]
    /\ closes \in [Subscribers -> 0..2]
    /\ cancelled \subseteq Subscribers

Init ==
    /\ channels = {}
    /\ mailbox = [s \in Subscribers |-> 0]
    /\ readers = {}
    /\ queued = {}
    /\ writer = Nobody
    /\ ppc = [p \in Publishers |-> "before"]
    /\ todo = [p \in Publishers |-> {}]
    /\ tpc = [t \in Threads |-> "absent"]
    /\ once = [s \in Subscribers |-> "fresh"]
    /\ closes = [s \in Subscribers |-> 0]
    /\ cancelled = {}

-----------------------------------------------------------------------------
(* b.mu for writing, as a step of thread t from one place to another.      *)

Lock(t, from, to) ==
    /\ tpc[t] = from
    /\ writer = Nobody
    /\ writer' = t
    /\ tpc' = [tpc EXCEPT ![t] = to]
    /\ UNCHANGED <<channels, mailbox, readers, queued, pubVars, subVars>>

\* Mutation of HoldsLock: a writer that does not wait for the readers.
HoldsLockDespiteReaders(t) == writer = t

\* A writer touches the map only once the readers before it have left.
HoldsLock(t) == writer = t /\ readers = {}

\* Mutation of Unlock: the call is missing.
ForgottenUnlock == UNCHANGED lockVars

\* b.mu.Unlock lets in every reader that queued behind this writer.
Unlock ==
    /\ writer' = Nobody
    /\ readers' = queued
    /\ queued' = {}

-----------------------------------------------------------------------------
(* Publish                                                                 *)

RLock(p) ==
    /\ ppc[p] = "before"
    /\ ppc' = [ppc EXCEPT ![p] = "rlock"]
    /\ IF writer = Nobody
       THEN readers' = readers \cup {p} /\ queued' = queued
       ELSE queued' = queued \cup {p} /\ readers' = readers
    /\ UNCHANGED <<channels, mailbox, writer, todo, tpc, subVars>>

StartLoop(p) ==
    /\ ppc[p] = "rlock"
    /\ p \in readers
    /\ ppc' = [ppc EXCEPT ![p] = "loop"]
    /\ todo' = [todo EXCEPT ![p] = channels]
    /\ UNCHANGED <<channels, mailbox, lockVars, tpc, subVars>>

\* Mutation of Offered: one event too many.
OfferedPastCap(n) == IF n <= Cap THEN n + 1 ELSE n

\* select { case ch <- event: default: }
Offered(n) == IF n < Cap THEN n + 1 ELSE n

OfferTo(p, s) ==
    /\ ppc[p] = "loop"
    /\ s \in todo[p]
    /\ todo' = [todo EXCEPT ![p] = @ \ {s}]
    /\ mailbox' = [mailbox EXCEPT ![s] = Offered(@)]
    /\ UNCHANGED <<channels, lockVars, ppc, tpc, subVars>>

\* Mutation of Send: a send without a default branch.
BlockingSend(p, s) == mailbox[s] < Cap /\ OfferTo(p, s)

Send(p, s) == OfferTo(p, s)

\* Mutation of LoopIsOver: a full channel ends the loop instead of the offer.
LoopIsOverOrFull(p) == \A s \in todo[p] : mailbox[s] = Cap

LoopIsOver(p) == todo[p] = {}

RUnlock(p) ==
    /\ ppc[p] = "loop"
    /\ LoopIsOver(p)
    /\ ppc' = [ppc EXCEPT ![p] = "returned"]
    /\ readers' = readers \ {p}
    /\ UNCHANGED <<channels, mailbox, queued, writer, todo, tpc, subVars>>

-----------------------------------------------------------------------------
(* Subscribe, on the stream handler's goroutine                            *)

Subscribe(s) ==
    /\ tpc[Handler(s)] = "absent"
    /\ tpc' = [tpc EXCEPT ![Handler(s)] = "add"]
    /\ UNCHANGED <<channels, mailbox, lockVars, pubVars, subVars>>

LockToAdd(s) == Lock(Handler(s), "add", "adding")

Add(s) ==
    /\ tpc[Handler(s)] = "adding"
    /\ HoldsLock(Handler(s))
    /\ channels' = channels \cup {s}
    /\ tpc' = [tpc EXCEPT ![Handler(s)] = "added"]
    /\ UNCHANGED <<mailbox, lockVars, pubVars, subVars>>

\* Unlock, then start the watcher and hand the channel to the handler.
UnlockAndWatch(s) ==
    /\ tpc[Handler(s)] = "added"
    /\ Unlock
    /\ tpc' = [tpc EXCEPT ![Handler(s)] = "streaming", ![Watcher(s)] = "select"]
    /\ UNCHANGED <<channels, mailbox, pubVars, subVars>>

Receive(s) ==
    /\ tpc[Handler(s)] = "streaming"
    /\ mailbox[s] > 0
    /\ mailbox' = [mailbox EXCEPT ![s] = @ - 1]
    /\ UNCHANGED <<channels, lockVars, pubVars, tpc, subVars>>

\* The request's context ends: the client left.
Cancel(s) ==
    /\ cancelled' = cancelled \cup {s}
    /\ UNCHANGED <<channels, mailbox, lockVars, pubVars, tpc, once, closes>>

\* The handler returns, because of ctx.Done or for a reason of its own.
HandlerReturns(s) ==
    /\ tpc[Handler(s)] = "streaming"
    /\ tpc' = [tpc EXCEPT ![Handler(s)] = "once"]
    /\ UNCHANGED <<channels, mailbox, lockVars, pubVars, subVars>>

-----------------------------------------------------------------------------
(* unsubscribe, on either goroutine, and the watcher's select              *)

WatcherSeesDone(s) ==
    /\ tpc[Watcher(s)] = "select"
    /\ closes[s] > 0
    /\ tpc' = [tpc EXCEPT ![Watcher(s)] = "exited"]
    /\ UNCHANGED <<channels, mailbox, lockVars, pubVars, subVars>>

WatcherSeesCancel(s) ==
    /\ tpc[Watcher(s)] = "select"
    /\ s \in cancelled
    /\ tpc' = [tpc EXCEPT ![Watcher(s)] = "once"]
    /\ UNCHANGED <<channels, mailbox, lockVars, pubVars, subVars>>

\* Mutation of MayEnter: a plain flag that is set after the body.
MayEnterUntilDone(s) == once[s] # "done"

\* sync.Once: the first caller runs the body.
MayEnter(s) == once[s] = "fresh"

EnterOnce(s, t) ==
    /\ tpc[t] = "once"
    /\ MayEnter(s)
    /\ once' = [once EXCEPT ![s] = "busy"]
    /\ closes' = [closes EXCEPT ![s] = @ + 1]
    /\ tpc' = [tpc EXCEPT ![t] = "remove"]
    /\ UNCHANGED <<channels, mailbox, lockVars, pubVars, cancelled>>

LockToRemove(t) == Lock(t, "remove", "removing")

\* Mutation of ChannelsWithout: the topic is deleted whoever else is on it.
ChannelsOfDeletedTopic(s) == {}

ChannelsWithout(s) == channels \ {s}

Remove(s, t) ==
    /\ tpc[t] = "removing"
    /\ HoldsLock(t)
    /\ channels' = ChannelsWithout(s)
    /\ tpc' = [tpc EXCEPT ![t] = "removed"]
    /\ UNCHANGED <<mailbox, lockVars, pubVars, subVars>>

\* A handler that returns also ends its request's context (net/http).
ContextAfter(s, t) == IF t = Handler(s) THEN cancelled \cup {s} ELSE cancelled

LeaveOnce(s, t) ==
    /\ tpc[t] = "removed"
    /\ Unlock
    /\ once' = [once EXCEPT ![s] = "done"]
    /\ tpc' = [tpc EXCEPT ![t] = "exited"]
    /\ cancelled' = ContextAfter(s, t)
    /\ UNCHANGED <<channels, mailbox, pubVars, closes>>

\* A later caller waits for the body to finish and does nothing.
SkipOnce(s, t) ==
    /\ tpc[t] = "once"
    /\ once[s] = "done"
    /\ tpc' = [tpc EXCEPT ![t] = "exited"]
    /\ cancelled' = ContextAfter(s, t)
    /\ UNCHANGED <<channels, mailbox, lockVars, pubVars, once, closes>>

Unsubscribe(s, t) ==
    EnterOnce(s, t) \/ LockToRemove(t) \/ Remove(s, t) \/ LeaveOnce(s, t) \/ SkipOnce(s, t)

-----------------------------------------------------------------------------
Publish(p) == RLock(p) \/ StartLoop(p) \/ (\E s \in Subscribers : Send(p, s)) \/ RUnlock(p)

Quiet == /\ \A p \in Publishers : ppc[p] = "returned"
         /\ \A t \in Threads : tpc[t] = "exited"
Finished == Quiet /\ UNCHANGED vars

Next ==
    \/ \E p \in Publishers : Publish(p)
    \/ \E s \in Subscribers :
        \/ Subscribe(s) \/ LockToAdd(s) \/ Add(s) \/ UnlockAndWatch(s)
        \/ Receive(s) \/ Cancel(s) \/ HandlerReturns(s)
        \/ WatcherSeesDone(s) \/ WatcherSeesCancel(s)
        \/ Unsubscribe(s, Handler(s)) \/ Unsubscribe(s, Watcher(s))
    \/ Finished

(***************************************************************************)
(* The goroutines are scheduled; a stream need not ever read its channel,  *)
(* nor a client ever leave.  A started publisher and a started subscriber  *)
(* make progress, and a handler whose context is done returns.  Waiting    *)
(* for a mutex is strongly fair: Go's mutexes hand over to waiters.        *)
(***************************************************************************)
Fairness ==
    /\ \A p \in Publishers : WF_vars(ppc[p] # "before" /\ Publish(p))
    /\ \A s \in Subscribers :
        /\ SF_vars(LockToAdd(s))
        /\ WF_vars(Add(s) \/ UnlockAndWatch(s))
        /\ WF_vars(s \in cancelled /\ HandlerReturns(s))
        /\ WF_vars(WatcherSeesDone(s) \/ WatcherSeesCancel(s))
        /\ \A t \in {Handler(s), Watcher(s)} :
            /\ SF_vars(LockToRemove(t))
            /\ WF_vars(Unsubscribe(s, t))

Spec == Init /\ [][Next]_vars /\ Fairness

-----------------------------------------------------------------------------
(* Safety                                                                  *)

\* The map never changes under a publisher's range loop: Go would abort the
\* process for a map iterated and written at once (memory.go:23-36, 43-48, 56-61).
NoMutationDuringLoop ==
    [][channels' # channels => \A p \in Publishers : ppc[p] # "loop"]_vars

\* The handler's deferred unsubscribe and the watcher's never close the done
\* channel twice, which would panic (memory.go:50-62).
ClosedOnce == \A s \in Subscribers : closes[s] <= 1

\* A subscription nobody has begun to end is delivered to, and one that both
\* goroutines are finished with is not: no channel is leaked in the map or
\* lost from it (memory.go:46, 55).
RegisteredWhileOpen ==
    \A s \in Subscribers :
        /\ tpc[Watcher(s)] = "select" /\ once[s] = "fresh" => s \in channels
        /\ tpc[Handler(s)] = "exited" => s \notin channels

\* The bus keeps Fanout's promise: a Publish returns only after it has offered
\* its event to every channel registered when its loop began.
Promise == INSTANCE Fanout WITH
    registered <- channels,
    owed <- todo,
    publish <- [p \in Publishers |->
                   IF ppc[p] = "loop" THEN "sending"
                   ELSE IF ppc[p] = "returned" THEN "returned" ELSE "before"]
ImplementsFanout == Promise!FanoutSpec

-----------------------------------------------------------------------------
(* Liveness.  A publisher publishes once and a client leaves once, so that  *)
(* "again and again all is well" says that each of them gets its due.      *)

\* A publisher always returns, although no stream is obliged ever to read its
\* channel and clients come and go ("Slow browser streams should not block the
\* request path", memory.go:32).
PublishReturns == []<>(\A p \in Publishers : ppc[p] \in {"before", "returned"})

\* When a client leaves, its channel leaves the map and both goroutines end:
\* neither a goroutine nor a channel is leaked, whichever unsubscribes first.
CancelReleases ==
    []<>(\A s \in Subscribers :
        s \in cancelled /\ tpc[Watcher(s)] # "absent" =>
            /\ s \notin channels
            /\ tpc[Handler(s)] = "exited"
            /\ tpc[Watcher(s)] = "exited")
=============================================================================
