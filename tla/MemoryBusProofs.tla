-------------------------- MODULE MemoryBusProofs --------------------------
(***************************************************************************)
(* The in-process bus is safe and keeps Fanout's promise, for any number   *)
(* of publishers and subscriptions and channels of any capacity.           *)
(***************************************************************************)
EXTENDS MemoryBus, TLAPS

\* Threads have names of their own, and none is Nobody.
LEMMA ThreadNames ==
    /\ \A t \in Threads : \E s \in Subscribers : t = Handler(s) \/ t = Watcher(s)
    /\ \A s \in Subscribers : Handler(s) \in Threads /\ Watcher(s) \in Threads
    /\ \A s, u \in Subscribers :
        /\ Handler(s) # Watcher(u)
        /\ Handler(s) = Handler(u) => s = u
        /\ Watcher(s) = Watcher(u) => s = u
    /\ Nobody \notin Threads
<1>1. \A t \in Threads : \E s \in Subscribers : t = Handler(s) \/ t = Watcher(s)
  BY DEF Threads, Handler, Watcher
<1>2. \A s \in Subscribers : Handler(s) \in Threads /\ Watcher(s) \in Threads
  BY DEF Threads, Handler, Watcher
<1>3. \A s, u \in Subscribers :
        /\ Handler(s) # Watcher(u)
        /\ Handler(s) = Handler(u) => s = u
        /\ Watcher(s) = Watcher(u) => s = u
  BY DEF Handler, Watcher
<1>4. Nobody \notin Threads
  BY DEF Nobody, Threads
<1>. QED
  BY <1>1, <1>2, <1>3, <1>4

-----------------------------------------------------------------------------
(***************************************************************************)
(* The inductive invariant: who is inside the lock, who is reading, and    *)
(* how far the life of each subscription has come.                         *)
(***************************************************************************)

\* A thread inside the write lock owns it, and once it has changed the map
\* there are no readers.
Locking ==
    /\ \A t \in Threads : tpc[t] \in {"adding", "added", "removing", "removed"} => writer = t
    /\ \A t \in Threads : tpc[t] \in {"added", "removed"} => readers = {}
    /\ \A p \in Publishers : ppc[p] = "loop" => p \in readers

\* Only a publisher in its loop has channels left to reach.
Loops == \A p \in Publishers : ppc[p] # "loop" => todo[p] = {}

Removing(t) == tpc[t] \in {"remove", "removing", "removed"}

\* The life of subscription s.
Life(s) ==
    LET h == tpc[Handler(s)]
        w == tpc[Watcher(s)]
    IN  /\ closes[s] = IF once[s] = "fresh" THEN 0 ELSE 1
        /\ h # "select"
        /\ w \in {"absent", "select", "once", "remove", "removing", "removed", "exited"}
        /\ w # "absent" => h \notin {"absent", "add", "adding", "added"}
        /\ h \in {"absent", "add", "adding"} => once[s] = "fresh" /\ s \notin channels
        /\ h = "added" => once[s] = "fresh"
        /\ h \in {"added", "streaming", "once"} /\ once[s] = "fresh" => s \in channels
        /\ h = "exited" => once[s] = "done"
        /\ Removing(Handler(s)) \/ Removing(Watcher(s)) => once[s] = "busy"
        /\ ~(Removing(Handler(s)) /\ Removing(Watcher(s)))
        /\ h = "removed" \/ w = "removed" \/ once[s] = "done" => s \notin channels

BusInv == TypeOK /\ Locking /\ Loops /\ \A s \in Subscribers : Life(s)

-----------------------------------------------------------------------------
\* The functions of the state, a subscription and a thread at a time.
LEMMA Shape ==
    ASSUME TypeOK
    PROVE  /\ tpc = [t \in Threads |-> tpc[t]]
           /\ once = [s \in Subscribers |-> once[s]]
           /\ closes = [s \in Subscribers |-> closes[s]]
           /\ mailbox = [s \in Subscribers |-> mailbox[s]]
           /\ ppc = [p \in Publishers |-> ppc[p]]
           /\ todo = [p \in Publishers |-> todo[p]]
  BY DEF TypeOK

\* An offer respects the capacity of the channel.
OfferedOK(n) == Offered(n) \in 0..Cap

\* A publisher reads the map and touches nothing of the subscriptions.
LEMMA PublisherStep ==
    ASSUME BusInv, NEW p \in Publishers, Publish(p)
    PROVE  BusInv'
<1>. USE DEF lockVars, pubVars, subVars
<1>1. TypeOK /\ Locking /\ Loops /\ \A s \in Subscribers : Life(s)
  BY DEF BusInv
<1>2. \A n \in 0..Cap : OfferedOK(n)
  BY CapAssumption DEF OfferedOK, Offered
<1>3. UNCHANGED <<channels, tpc, once, closes, cancelled, writer>>
  BY DEF Publish, RLock, StartLoop, Send, OfferTo, RUnlock
<1>4. \A s \in Subscribers : Life(s)'
  BY <1>1, <1>3 DEF Life, Removing
<1>5. CASE RLock(p)
  <2>1. TypeOK'
    BY <1>1, <1>5 DEF TypeOK, RLock
  <2>2. Loops'
    BY <1>1, <1>5, Shape DEF Loops, RLock
  <2>3. Locking'
    BY <1>1, <1>5, Shape, ThreadNames DEF Locking, RLock
  <2>. QED
    BY <1>4, <2>1, <2>2, <2>3 DEF BusInv
<1>6. CASE StartLoop(p)
  <2>1. TypeOK'
    BY <1>1, <1>6 DEF TypeOK, StartLoop
  <2>2. Loops'
    BY <1>1, <1>6, Shape DEF Loops, StartLoop
  <2>3. Locking'
    BY <1>1, <1>6, Shape DEF Locking, StartLoop
  <2>. QED
    BY <1>4, <2>1, <2>2, <2>3 DEF BusInv
<1>7. ASSUME NEW s \in Subscribers, Send(p, s) PROVE BusInv'
  <2>1. TypeOK'
    BY <1>1, <1>2, <1>7 DEF TypeOK, Send, OfferTo, OfferedOK
  <2>2. Loops'
    BY <1>1, <1>7, Shape DEF Loops, Send, OfferTo
  <2>3. Locking'
    BY <1>1, <1>7, Shape DEF Locking, Send, OfferTo
  <2>. QED
    BY <1>4, <2>1, <2>2, <2>3 DEF BusInv
<1>8. CASE RUnlock(p)
  <2>1. TypeOK'
    BY <1>1, <1>8 DEF TypeOK, RUnlock
  <2>2. Loops'
    BY <1>1, <1>8, Shape DEF Loops, RUnlock, LoopIsOver
  <2>3. Locking'
    BY <1>1, <1>8, Shape DEF Locking, RUnlock
  <2>. QED
    BY <1>4, <2>1, <2>2, <2>3 DEF BusInv
<1>. QED
  BY <1>5, <1>6, <1>7, <1>8 DEF Publish

-----------------------------------------------------------------------------
\* Nothing in the life of subscription u changes.
Same(u) ==
    /\ tpc'[Handler(u)] = tpc[Handler(u)]
    /\ tpc'[Watcher(u)] = tpc[Watcher(u)]
    /\ once'[u] = once[u]
    /\ closes'[u] = closes[u]
    /\ u \in channels' <=> u \in channels

LEMMA SameLife ==
    ASSUME NEW u \in Subscribers, Life(u), Same(u)
    PROVE  Life(u)'
  BY DEF Life, Removing, Same

\* What has to be shown of a step of subscription s.
LEMMA OneLife ==
    ASSUME BusInv, NEW s \in Subscribers, TypeOK', Locking',
           UNCHANGED <<ppc, todo>>, Life(s)',
           \A u \in Subscribers \ {s} : Same(u)
    PROVE  BusInv'
<1>1. Loops'
  BY DEF BusInv, Loops
<1>2. \A u \in Subscribers \ {s} : Life(u)'
  BY SameLife DEF BusInv
<1>. QED
  BY <1>1, <1>2 DEF BusInv

\* A thread that moves outside the lock, or inside it before it has changed the
\* map, disturbs nobody's lock.
LEMMA MoveKeepsLocking ==
    ASSUME BusInv, NEW t \in Threads, NEW to,
           to \notin {"adding", "added", "removing", "removed"},
           tpc' = [tpc EXCEPT ![t] = to], UNCHANGED <<lockVars, ppc>>
    PROVE  Locking'
  BY Shape DEF BusInv, Locking, lockVars

\* Taking the lock.
LEMMA LockKeepsLocking ==
    ASSUME BusInv, NEW t \in Threads, NEW from, NEW to,
           to \in {"adding", "removing"}, Lock(t, from, to)
    PROVE  Locking'
  BY Shape, ThreadNames DEF BusInv, Locking, Lock, pubVars

\* Changing the map: the readers have left.
LEMMA ChangeKeepsLocking ==
    ASSUME BusInv, NEW t \in Threads, HoldsLock(t), NEW to,
           tpc' = [tpc EXCEPT ![t] = to], UNCHANGED <<lockVars, ppc>>
    PROVE  Locking'
  BY Shape DEF BusInv, Locking, lockVars, HoldsLock

\* Giving the lock back lets in the readers that queued behind it.
LEMMA UnlockKeepsLocking ==
    ASSUME BusInv, NEW t \in Threads, tpc[t] \in {"added", "removed"}, Unlock,
           UNCHANGED ppc,
           tpc'[t] \in {"streaming", "exited"},
           \A v \in Threads \ {t} : tpc'[v] = tpc[v] \/ tpc'[v] = "select"
    PROVE  Locking'
<1>1. writer = t /\ readers = {}
  BY DEF BusInv, Locking
<1>2. \A v \in Threads : tpc'[v] \notin {"adding", "added", "removing", "removed"}
  BY <1>1 DEF BusInv, Locking
<1>3. \A p \in Publishers : ppc'[p] # "loop"
  BY <1>1 DEF BusInv, Locking
<1>. QED
  BY <1>2, <1>3 DEF Locking

-----------------------------------------------------------------------------

\* Subscribe is called.
LEMMA SubscribeStep ==
    ASSUME BusInv, NEW s \in Subscribers, Subscribe(s)
    PROVE  BusInv'
<1>. USE DEF lockVars, pubVars, subVars
<1>1. TypeOK /\ Locking /\ Life(s)
  BY DEF BusInv
<1>2. TypeOK'
  BY <1>1, ThreadNames DEF TypeOK, Subscribe
<1>3. Locking'
  BY <1>1, Shape, ThreadNames, MoveKeepsLocking DEF Subscribe
<1>4. \A u \in Subscribers \ {s} : Same(u)
  BY <1>1, Shape, ThreadNames DEF Same, Subscribe
<1>5. Life(s)'
  BY <1>1, Shape, ThreadNames DEF Life, Removing, Subscribe
<1>6. UNCHANGED <<ppc, todo>>
  BY DEF Subscribe
<1>. QED
  BY <1>2, <1>3, <1>4, <1>5, <1>6, OneLife

\* Its handler takes the lock.
LEMMA LockToAddStep ==
    ASSUME BusInv, NEW s \in Subscribers, LockToAdd(s)
    PROVE  BusInv'
<1>. USE DEF lockVars, pubVars, subVars
<1>1. TypeOK /\ Locking /\ Life(s)
  BY DEF BusInv
<1>2. TypeOK'
  BY <1>1, ThreadNames DEF TypeOK, LockToAdd, Lock
<1>3. Locking'
  BY <1>1, Shape, ThreadNames, LockKeepsLocking DEF LockToAdd
<1>4. \A u \in Subscribers \ {s} : Same(u)
  BY <1>1, Shape, ThreadNames DEF Same, LockToAdd, Lock
<1>5. Life(s)'
  BY <1>1, Shape, ThreadNames DEF Life, Removing, LockToAdd, Lock
<1>6. UNCHANGED <<ppc, todo>>
  BY DEF LockToAdd, Lock
<1>. QED
  BY <1>2, <1>3, <1>4, <1>5, <1>6, OneLife

\* It adds the channel.
LEMMA AddStep ==
    ASSUME BusInv, NEW s \in Subscribers, Add(s)
    PROVE  BusInv'
<1>. USE DEF lockVars, pubVars, subVars
<1>1. TypeOK /\ Locking /\ Life(s)
  BY DEF BusInv
<1>2. TypeOK'
  BY <1>1, ThreadNames DEF TypeOK, Add
<1>3. Locking'
  BY <1>1, Shape, ThreadNames, ChangeKeepsLocking DEF Add
<1>4. \A u \in Subscribers \ {s} : Same(u)
  BY <1>1, Shape, ThreadNames DEF Same, Add
<1>5. Life(s)'
  BY <1>1, Shape, ThreadNames DEF Life, Removing, Add
<1>6. UNCHANGED <<ppc, todo>>
  BY DEF Add
<1>. QED
  BY <1>2, <1>3, <1>4, <1>5, <1>6, OneLife

\* It gives the lock back and starts the watcher.
LEMMA UnlockAndWatchStep ==
    ASSUME BusInv, NEW s \in Subscribers, UnlockAndWatch(s)
    PROVE  BusInv'
<1>. USE DEF lockVars, pubVars, subVars
<1>1. TypeOK /\ Locking /\ Life(s)
  BY DEF BusInv
<1>2. TypeOK'
  BY <1>1, ThreadNames DEF TypeOK, UnlockAndWatch, Unlock
<1>3. Locking'
  BY <1>1, Shape, ThreadNames, UnlockKeepsLocking DEF UnlockAndWatch
<1>4. \A u \in Subscribers \ {s} : Same(u)
  BY <1>1, Shape, ThreadNames DEF Same, UnlockAndWatch, Unlock
<1>5. Life(s)'
  BY <1>1, Shape, ThreadNames DEF Life, Removing, UnlockAndWatch, Unlock
<1>6. UNCHANGED <<ppc, todo>>
  BY DEF UnlockAndWatch, Unlock
<1>. QED
  BY <1>2, <1>3, <1>4, <1>5, <1>6, OneLife

\* The stream ends.
LEMMA HandlerReturnsStep ==
    ASSUME BusInv, NEW s \in Subscribers, HandlerReturns(s)
    PROVE  BusInv'
<1>. USE DEF lockVars, pubVars, subVars
<1>1. TypeOK /\ Locking /\ Life(s)
  BY DEF BusInv
<1>2. TypeOK'
  BY <1>1, ThreadNames DEF TypeOK, HandlerReturns
<1>3. Locking'
  BY <1>1, Shape, ThreadNames, MoveKeepsLocking DEF HandlerReturns
<1>4. \A u \in Subscribers \ {s} : Same(u)
  BY <1>1, Shape, ThreadNames DEF Same, HandlerReturns
<1>5. Life(s)'
  BY <1>1, Shape, ThreadNames DEF Life, Removing, HandlerReturns
<1>6. UNCHANGED <<ppc, todo>>
  BY DEF HandlerReturns
<1>. QED
  BY <1>2, <1>3, <1>4, <1>5, <1>6, OneLife

\* The watcher learns that the handler has unsubscribed.
LEMMA WatcherSeesDoneStep ==
    ASSUME BusInv, NEW s \in Subscribers, WatcherSeesDone(s)
    PROVE  BusInv'
<1>. USE DEF lockVars, pubVars, subVars
<1>1. TypeOK /\ Locking /\ Life(s)
  BY DEF BusInv
<1>2. TypeOK'
  BY <1>1, ThreadNames DEF TypeOK, WatcherSeesDone
<1>3. Locking'
  BY <1>1, Shape, ThreadNames, MoveKeepsLocking DEF WatcherSeesDone
<1>4. \A u \in Subscribers \ {s} : Same(u)
  BY <1>1, Shape, ThreadNames DEF Same, WatcherSeesDone
<1>5. Life(s)'
  BY <1>1, Shape, ThreadNames DEF Life, Removing, WatcherSeesDone
<1>6. UNCHANGED <<ppc, todo>>
  BY DEF WatcherSeesDone
<1>. QED
  BY <1>2, <1>3, <1>4, <1>5, <1>6, OneLife

\* The watcher learns that the client has left.
LEMMA WatcherSeesCancelStep ==
    ASSUME BusInv, NEW s \in Subscribers, WatcherSeesCancel(s)
    PROVE  BusInv'
<1>. USE DEF lockVars, pubVars, subVars
<1>1. TypeOK /\ Locking /\ Life(s)
  BY DEF BusInv
<1>2. TypeOK'
  BY <1>1, ThreadNames DEF TypeOK, WatcherSeesCancel
<1>3. Locking'
  BY <1>1, Shape, ThreadNames, MoveKeepsLocking DEF WatcherSeesCancel
<1>4. \A u \in Subscribers \ {s} : Same(u)
  BY <1>1, Shape, ThreadNames DEF Same, WatcherSeesCancel
<1>5. Life(s)'
  BY <1>1, Shape, ThreadNames DEF Life, Removing, WatcherSeesCancel
<1>6. UNCHANGED <<ppc, todo>>
  BY DEF WatcherSeesCancel
<1>. QED
  BY <1>2, <1>3, <1>4, <1>5, <1>6, OneLife

\* A goroutine is the first into the sync.Once.
LEMMA EnterOnceStep ==
    ASSUME BusInv, NEW s \in Subscribers, NEW t \in {Handler(s), Watcher(s)}, EnterOnce(s, t)
    PROVE  BusInv'
<1>. USE DEF lockVars, pubVars, subVars
<1>1. TypeOK /\ Locking /\ Life(s)
  BY DEF BusInv
<1>0. closes[s] = 0
  BY <1>1 DEF Life, EnterOnce, MayEnter
<1>2. TypeOK'
  BY <1>0, <1>1, ThreadNames DEF TypeOK, EnterOnce, MayEnter
<1>3. Locking'
  BY <1>1, Shape, ThreadNames, MoveKeepsLocking DEF EnterOnce
<1>4. \A u \in Subscribers \ {s} : Same(u)
  BY <1>1, Shape, ThreadNames DEF Same, EnterOnce, MayEnter
<1>5. Life(s)'
  BY <1>1, Shape, ThreadNames DEF Life, Removing, EnterOnce, MayEnter
<1>6. UNCHANGED <<ppc, todo>>
  BY DEF EnterOnce, MayEnter
<1>. QED
  BY <1>2, <1>3, <1>4, <1>5, <1>6, OneLife

\* It takes the lock.
LEMMA LockToRemoveStep ==
    ASSUME BusInv, NEW s \in Subscribers, NEW t \in {Handler(s), Watcher(s)}, LockToRemove(t)
    PROVE  BusInv'
<1>. USE DEF lockVars, pubVars, subVars
<1>1. TypeOK /\ Locking /\ Life(s)
  BY DEF BusInv
<1>2. TypeOK'
  BY <1>1, ThreadNames DEF TypeOK, LockToRemove, Lock
<1>3. Locking'
  BY <1>1, Shape, ThreadNames, LockKeepsLocking DEF LockToRemove
<1>4. \A u \in Subscribers \ {s} : Same(u)
  BY <1>1, Shape, ThreadNames DEF Same, LockToRemove, Lock
<1>5. Life(s)'
  BY <1>1, Shape, ThreadNames DEF Life, Removing, LockToRemove, Lock
<1>6. UNCHANGED <<ppc, todo>>
  BY DEF LockToRemove, Lock
<1>. QED
  BY <1>2, <1>3, <1>4, <1>5, <1>6, OneLife

\* It removes the channel.
LEMMA RemoveStep ==
    ASSUME BusInv, NEW s \in Subscribers, NEW t \in {Handler(s), Watcher(s)}, Remove(s, t)
    PROVE  BusInv'
<1>. USE DEF lockVars, pubVars, subVars
<1>1. TypeOK /\ Locking /\ Life(s)
  BY DEF BusInv
<1>2. TypeOK'
  BY <1>1, ThreadNames DEF TypeOK, Remove, ChannelsWithout
<1>3. Locking'
  BY <1>1, Shape, ThreadNames, ChangeKeepsLocking DEF Remove
<1>4. \A u \in Subscribers \ {s} : Same(u)
  BY <1>1, Shape, ThreadNames DEF Same, Remove, ChannelsWithout
<1>5. Life(s)'
  BY <1>1, Shape, ThreadNames DEF Life, Removing, Remove, ChannelsWithout
<1>6. UNCHANGED <<ppc, todo>>
  BY DEF Remove, ChannelsWithout
<1>. QED
  BY <1>2, <1>3, <1>4, <1>5, <1>6, OneLife

\* It gives the lock back and leaves the sync.Once.
LEMMA LeaveOnceStep ==
    ASSUME BusInv, NEW s \in Subscribers, NEW t \in {Handler(s), Watcher(s)}, LeaveOnce(s, t)
    PROVE  BusInv'
<1>. USE DEF lockVars, pubVars, subVars
<1>1. TypeOK /\ Locking /\ Life(s)
  BY DEF BusInv
<1>2. TypeOK'
  BY <1>1, ThreadNames DEF TypeOK, LeaveOnce, Unlock, ContextAfter
<1>3. Locking'
  BY <1>1, Shape, ThreadNames, UnlockKeepsLocking DEF LeaveOnce
<1>4. \A u \in Subscribers \ {s} : Same(u)
  BY <1>1, Shape, ThreadNames DEF Same, LeaveOnce, Unlock, ContextAfter
<1>5. Life(s)'
  BY <1>1, Shape, ThreadNames DEF Life, Removing, LeaveOnce, Unlock, ContextAfter
<1>6. UNCHANGED <<ppc, todo>>
  BY DEF LeaveOnce, Unlock, ContextAfter
<1>. QED
  BY <1>2, <1>3, <1>4, <1>5, <1>6, OneLife

\* The other goroutine finds the sync.Once done.
LEMMA SkipOnceStep ==
    ASSUME BusInv, NEW s \in Subscribers, NEW t \in {Handler(s), Watcher(s)}, SkipOnce(s, t)
    PROVE  BusInv'
<1>. USE DEF lockVars, pubVars, subVars
<1>1. TypeOK /\ Locking /\ Life(s)
  BY DEF BusInv
<1>2. TypeOK'
  BY <1>1, ThreadNames DEF TypeOK, SkipOnce, ContextAfter
<1>3. Locking'
  BY <1>1, Shape, ThreadNames, MoveKeepsLocking DEF SkipOnce
<1>4. \A u \in Subscribers \ {s} : Same(u)
  BY <1>1, Shape, ThreadNames DEF Same, SkipOnce, ContextAfter
<1>5. Life(s)'
  BY <1>1, Shape, ThreadNames DEF Life, Removing, SkipOnce, ContextAfter
<1>6. UNCHANGED <<ppc, todo>>
  BY DEF SkipOnce, ContextAfter
<1>. QED
  BY <1>2, <1>3, <1>4, <1>5, <1>6, OneLife

-----------------------------------------------------------------------------
(***************************************************************************)
(* The invariant holds at the start and every step keeps it.               *)
(***************************************************************************)
LEMMA BusInvStarts == Init => BusInv
<1>. SUFFICES ASSUME Init PROVE BusInv
  OBVIOUS
<1>1. TypeOK
  BY CapAssumption DEF Init, TypeOK
<1>2. Locking /\ Loops
  BY DEF Init, Locking, Loops
<1>3. \A s \in Subscribers : Life(s)
  BY ThreadNames DEF Init, Life, Removing
<1>. QED
  BY <1>1, <1>2, <1>3 DEF BusInv

LEMMA BusInvKept == BusInv /\ [Next]_vars => BusInv'
<1>. SUFFICES ASSUME BusInv, [Next]_vars PROVE BusInv'
  OBVIOUS
<1>1. ASSUME NEW p \in Publishers, Publish(p) PROVE BusInv'
  BY <1>1, PublisherStep
<1>2. ASSUME NEW s \in Subscribers,
             \/ Subscribe(s) \/ LockToAdd(s) \/ Add(s) \/ UnlockAndWatch(s)
             \/ HandlerReturns(s) \/ WatcherSeesDone(s) \/ WatcherSeesCancel(s)
      PROVE  BusInv'
  BY <1>2, SubscribeStep, LockToAddStep, AddStep, UnlockAndWatchStep,
     HandlerReturnsStep, WatcherSeesDoneStep, WatcherSeesCancelStep
<1>3. ASSUME NEW s \in Subscribers, Receive(s) \/ Cancel(s) PROVE BusInv'
  <2>0. Receive(s) => TypeOK'
    BY CapAssumption DEF BusInv, TypeOK, Receive, lockVars, pubVars, subVars
  <2>1. TypeOK'
    BY <1>3, <2>0 DEF BusInv, TypeOK, Cancel, lockVars, pubVars
  <2>2. UNCHANGED <<channels, tpc, once, closes, readers, writer, ppc, todo>>
    BY <1>3 DEF Receive, Cancel, lockVars, pubVars, subVars
  <2>3. (Locking /\ Loops)'
    BY <2>2 DEF BusInv, Locking, Loops
  <2>4. \A u \in Subscribers : Life(u)'
    BY <2>2 DEF BusInv, Life, Removing
  <2>. QED
    BY <2>1, <2>3, <2>4 DEF BusInv
<1>4. ASSUME NEW s \in Subscribers, NEW t \in {Handler(s), Watcher(s)},
             Unsubscribe(s, t)
      PROVE  BusInv'
  BY <1>4, EnterOnceStep, LockToRemoveStep, RemoveStep, LeaveOnceStep, SkipOnceStep
     DEF Unsubscribe
<1>5. CASE UNCHANGED vars
  <2>1. TypeOK'
    BY <1>5 DEF BusInv, TypeOK, vars
  <2>2. (Locking /\ Loops)'
    BY <1>5 DEF BusInv, Locking, Loops, vars
  <2>3. \A u \in Subscribers : Life(u)'
    BY <1>5 DEF BusInv, Life, Removing, vars
  <2>. QED
    BY <2>1, <2>2, <2>3 DEF BusInv
<1>. QED
  BY <1>1, <1>2, <1>3, <1>4, <1>5 DEF Next, Finished

LEMMA BusInvAlways == Spec => []BusInv
  BY BusInvStarts, BusInvKept, PTL DEF Spec

\* The state of the bus has its types: mailboxes stay within their capacity and
\* done is closed a bounded number of times.
THEOREM BusTypeCorrect == Spec => []TypeOK
<1>1. BusInv => TypeOK
  BY DEF BusInv
<1>. QED
  BY <1>1, BusInvAlways, PTL

\* The handler's deferred unsubscribe and the watcher's never close the done
\* channel twice.
THEOREM DoneClosedOnce == Spec => []ClosedOnce
<1>1. BusInv => ClosedOnce
  BY DEF BusInv, ClosedOnce, Life
<1>. QED
  BY <1>1, BusInvAlways, PTL

\* A subscription is in the map while it is open and out of it once its handler
\* has returned.
THEOREM RegisteredExactly == Spec => []RegisteredWhileOpen
<1>1. BusInv => RegisteredWhileOpen
  <2>. SUFFICES ASSUME BusInv, NEW s \in Subscribers
                PROVE  /\ tpc[Watcher(s)] = "select" /\ once[s] = "fresh" => s \in channels
                       /\ tpc[Handler(s)] = "exited" => s \notin channels
    BY DEF RegisteredWhileOpen
  <2>1. Life(s)
    BY DEF BusInv
  <2>2. tpc[Handler(s)] \in {"absent", "add", "adding", "added", "streaming", "select",
                            "once", "remove", "removing", "removed", "exited"}
    BY ThreadNames DEF BusInv, TypeOK
  <2>. QED
    BY <2>1, <2>2 DEF Life, Removing
<1>. QED
  BY <1>1, BusInvAlways, PTL

-----------------------------------------------------------------------------
\* The map never changes under a publisher's range loop.
LEMMA ChangeNeedsNoReaders ==
    ASSUME Next, channels' # channels
    PROVE  readers = {} /\ UNCHANGED <<mailbox, ppc, todo>>
  BY DEF Next, Publish, RLock, StartLoop, Send, OfferTo, RUnlock, Subscribe,
         LockToAdd, Lock, Add, UnlockAndWatch, Receive, Cancel, HandlerReturns,
         WatcherSeesDone, WatcherSeesCancel, Unsubscribe, EnterOnce, LockToRemove,
         Remove, LeaveOnce, SkipOnce, HoldsLock, Finished, vars, lockVars, pubVars,
         subVars

THEOREM LoopSeesOneMap == Spec => NoMutationDuringLoop
<1>1. BusInv /\ [Next]_vars
        => [channels' # channels => \A p \in Publishers : ppc[p] # "loop"]_vars
  BY ChangeNeedsNoReaders DEF BusInv, Locking, vars
<1>. QED
  BY <1>1, BusInvAlways, PTL DEF Spec, NoMutationDuringLoop

-----------------------------------------------------------------------------
(***************************************************************************)
(* The bus implements Fanout: a lock step is a stutter, and the other      *)
(* steps are Fanout's.  Removing a channel maps to Leave because nobody is *)
(* in a loop then, so nobody owes anything to anyone.                      *)
(***************************************************************************)

\* How far Fanout sees a publisher.
Progress == [p \in Publishers |->
                IF ppc[p] = "loop" THEN "sending"
                ELSE IF ppc[p] = "returned" THEN "returned" ELSE "before"]

FanoutState == <<channels, mailbox, todo, Progress>>

LEMMA FanoutStarts == Init => Promise!FanoutInit
  BY DEF Init, Promise!FanoutInit

LEMMA PublishMaps ==
    ASSUME BusInv, NEW p \in Publishers, Publish(p)
    PROVE  Promise!FanoutNext \/ UNCHANGED FanoutState
<1>. USE DEF lockVars, pubVars, subVars
<1>1. TypeOK
  BY DEF BusInv
<1>2. CASE RLock(p)
  <2>1. Progress' = Progress
    BY <1>1, <1>2, Shape DEF RLock, Progress
  <2>. QED
    BY <1>2, <2>1 DEF RLock, FanoutState
<1>3. CASE StartLoop(p)
  <2>1. ppc[p] = "rlock" /\ ppc' = [ppc EXCEPT ![p] = "loop"]
    BY <1>3 DEF StartLoop
  <2>2. Promise!BeginPublish(p)
    BY <1>1, <1>3, <2>1, Shape DEF StartLoop, Promise!BeginPublish
  <2>. QED
    BY <2>2 DEF Promise!FanoutNext
<1>4. ASSUME NEW s \in Subscribers, Send(p, s) PROVE Promise!FanoutNext
  <2>1. Promise!Offer(p, s)
    BY <1>1, <1>4 DEF Send, OfferTo, Offered, Promise!Offer, Promise!Offered
  <2>. QED
    BY <2>1 DEF Promise!FanoutNext
<1>5. CASE RUnlock(p)
  <2>1. Promise!EndPublish(p)
    BY <1>1, <1>5, Shape DEF RUnlock, LoopIsOver, Promise!EndPublish
  <2>. QED
    BY <2>1 DEF Promise!FanoutNext
<1>. QED
  BY <1>2, <1>3, <1>4, <1>5 DEF Publish

LEMMA SubscriptionMaps ==
    ASSUME BusInv, NEW s \in Subscribers, NEW t \in {Handler(s), Watcher(s)},
           \/ Subscribe(s) \/ LockToAdd(s) \/ Add(s) \/ UnlockAndWatch(s)
           \/ Receive(s) \/ Cancel(s) \/ HandlerReturns(s)
           \/ WatcherSeesDone(s) \/ WatcherSeesCancel(s) \/ Unsubscribe(s, t)
    PROVE  Promise!FanoutNext \/ UNCHANGED FanoutState
<1>. USE DEF lockVars, pubVars, subVars
<1>1. TypeOK /\ Locking /\ Loops
  BY DEF BusInv
<1>2. CASE Add(s)
  <2>1. Promise!Join(s)
    BY <1>2 DEF Add, Promise!Join
  <2>. QED
    BY <2>1 DEF Promise!FanoutNext
<1>3. CASE Receive(s)
  <2>1. Promise!Take(s)
    BY <1>3 DEF Receive, Promise!Take
  <2>. QED
    BY <2>1 DEF Promise!FanoutNext
<1>4. CASE Remove(s, t)
  <2>1. \A p \in Publishers : todo[p] = {}
    BY <1>1, <1>4 DEF Remove, HoldsLock, Locking, Loops
  <2>2. todo = [p \in Publishers |-> todo[p] \ {s}]
    BY <1>1, <2>1, Shape
  <2>3. Promise!Leave(s)
    BY <1>4, <2>2 DEF Remove, ChannelsWithout, Promise!Leave
  <2>. QED
    BY <2>3 DEF Promise!FanoutNext
<1>5. CASE \/ Subscribe(s) \/ LockToAdd(s) \/ UnlockAndWatch(s) \/ Cancel(s)
           \/ HandlerReturns(s) \/ WatcherSeesDone(s) \/ WatcherSeesCancel(s)
           \/ EnterOnce(s, t) \/ LockToRemove(t) \/ LeaveOnce(s, t) \/ SkipOnce(s, t)
  <2>1. UNCHANGED <<channels, mailbox, todo, ppc>>
    BY <1>5 DEF Subscribe, LockToAdd, Lock, UnlockAndWatch, Cancel, HandlerReturns,
       WatcherSeesDone, WatcherSeesCancel, EnterOnce, LockToRemove, LeaveOnce, SkipOnce
  <2>. QED
    BY <2>1 DEF FanoutState, Progress
<1>. QED
  BY <1>2, <1>3, <1>4, <1>5 DEF Unsubscribe

\* Every run of the bus is one Fanout allows: a Publish returns only after it has
\* offered its event to every channel registered when its loop began.
THEOREM BusImplementsFanout == Spec => ImplementsFanout
<1>1. BusInv /\ [Next]_vars => [Promise!FanoutNext]_FanoutState
  <2>. SUFFICES ASSUME BusInv, [Next]_vars
                PROVE  Promise!FanoutNext \/ UNCHANGED FanoutState
    OBVIOUS
  <2>1. CASE UNCHANGED vars
    BY <2>1 DEF vars, FanoutState, Progress
  <2>. QED
    BY <2>1, PublishMaps, SubscriptionMaps DEF Next, Finished
<1>2. [Promise!FanoutNext]_FanoutState => [Promise!FanoutNext]_(Promise!busVars)
  BY DEF FanoutState, Progress, Promise!busVars
<1>. QED
  BY <1>1, <1>2, BusInvAlways, FanoutStarts, PTL
     DEF Spec, ImplementsFanout, Promise!FanoutSpec
=============================================================================
