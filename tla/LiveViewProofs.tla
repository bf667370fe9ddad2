--------------------------- MODULE LiveViewProofs ---------------------------
(***************************************************************************)
(* For any number of requests, streams and tabs and any mailbox capacity:  *)
(* LiveView's state is well typed, no subscribed stream is silently left   *)
(* behind, and a tab that sends no form with an answer never goes back and *)
(* comes to show every published change.                                   *)
(***************************************************************************)
EXTENDS LiveView, TLAPS

\* A snapshot with one of its two reads replaced is a snapshot.
LEMMA SnapshotUpdate ==
    ASSUME NEW x \in Snapshot, NEW n \in Nat
    PROVE  /\ [x EXCEPT !.todos = n] \in Snapshot
           /\ [x EXCEPT !.feed = n] \in Snapshot
  BY DEF Snapshot

\* Every step of LiveView keeps the types (all of app.go's request and stream
\* handlers over the bus).
LEMMA TypeOKStep == TypeOK /\ [Next]_vars => TypeOK'
<1>. SUFFICES ASSUME TypeOK, [Next]_vars PROVE TypeOK'
  OBVIOUS
<1>. USE CapAssumption, LiveViewAssumption
     DEF TypeOK, FanoutTypeOK, Requests, Streams, pageVars
<1>1. CASE UNCHANGED vars
  BY <1>1 DEF vars, busVars, reqVars, streamVars
<1>2. ASSUME NEW p \in Requests,
             Commit(p) \/ CommitUnannounced(p) \/ View(p)
      PROVE  TypeOK'
  <2>1. CASE Commit(p)
    <3>1. PICK k \in Kinds[p] : kind' = [kind EXCEPT ![p] = k]
      BY <2>1 DEF Commit
    <3>2. k \in AllKinds
      BY <3>1
    <3>3. /\ rpc' = [rpc EXCEPT ![p] = "publish"]
          /\ UNCHANGED <<busVars, lost, rview, answers, streamVars, pageVars>>
          /\ db' = db + 1 /\ ver' = [ver EXCEPT ![p] = db + 1]
      BY <2>1 DEF Commit, AfterCommit
    <3>. QED
      BY <3>1, <3>2, <3>3 DEF busVars, streamVars
  <2>2. CASE CommitUnannounced(p)
    BY <2>2 DEF CommitUnannounced, busVars, streamVars
  <2>3. CASE View(p)
    BY <2>3 DEF View, AllKinds, busVars, streamVars
  <2>. QED
    BY <1>2, <2>1, <2>2, <2>3
<1>3. ASSUME NEW p \in Requests, StartPublish(p) \/ FinishPublish(p)
      PROVE  TypeOK'
  BY <1>3 DEF StartPublish, FinishPublish, BeginPublish, EndPublish, AfterPublish,
              streamVars
<1>4. ASSUME NEW p \in Requests, NEW s \in Streams, PublishTo(p, s)
      PROVE  TypeOK'
  BY <1>4 DEF PublishTo, Offer, Offered, reqVars, streamVars
<1>5. ASSUME NEW p \in Requests,
             AnswerReadsTodos(p) \/ AnswerReadsFeed(p) \/ AnswerFails(p)
      PROVE  TypeOK'
  <2>1. CASE AnswerReadsTodos(p)
    BY <2>1, SnapshotUpdate DEF AnswerReadsTodos, busVars, streamVars
  <2>2. CASE AnswerReadsFeed(p)
    BY <2>2, SnapshotUpdate DEF AnswerReadsFeed, busVars, streamVars
  <2>3. CASE AnswerFails(p)
    BY <2>3 DEF AnswerFails, busVars, streamVars
  <2>. QED
    BY <1>5, <2>1, <2>2, <2>3
<1>6. ASSUME NEW p \in Requests, ShowAnswer(p) \/ DropAnswer(p)
      PROVE  TypeOK'
  <2>1. CASE ShowAnswer(p)
    BY <1>6, <2>1 DEF ShowAnswer, Swap, FromRows, busVars, streamVars
  <2>2. CASE DropAnswer(p)
    BY <2>2 DEF DropAnswer, busVars, streamVars
  <2>. QED
    BY <1>6, <2>1, <2>2
<1>7. ASSUME NEW s \in Streams, Connect(s) \/ Return(s) \/ WatcherLeaves(s)
      PROVE  TypeOK'
  <2>1. CASE Connect(s)
    BY <2>1 DEF Connect, Join, reqVars
  <2>2. CASE Return(s)
    BY <2>2 DEF Return, Leave, reqVars
  <2>3. CASE WatcherLeaves(s)
    BY <2>3 DEF WatcherLeaves, Leave, reqVars, streamVars
  <2>. QED
    BY <1>7, <2>1, <2>2, <2>3
<1>8. ASSUME NEW s \in Streams, ReadTodos(s) \/ ReadFeed(s)
      PROVE  TypeOK'
  <2>1. CASE ReadTodos(s)
    BY <2>1, SnapshotUpdate DEF ReadTodos, busVars, reqVars
  <2>2. CASE ReadFeed(s)
    BY <2>2, SnapshotUpdate DEF ReadFeed, MailboxAfterRead, reqVars
  <2>. QED
    BY <1>8, <2>1, <2>2
<1>9. ASSUME NEW s \in Streams, Write(s)
      PROVE  TypeOK'
  BY <1>9 DEF Write, busVars, reqVars
<1>10. ASSUME NEW s \in Streams, Wake(s)
       PROVE  TypeOK'
  BY <1>10 DEF Wake, Take, reqVars
<1>11. ASSUME NEW s \in Streams, Disconnect(s)
       PROVE  TypeOK'
  BY <1>11 DEF Disconnect, busVars, reqVars
<1>12. ASSUME NEW s \in Streams, ShowStreamed(s)
       PROVE  TypeOK'
  BY <1>12 DEF ShowStreamed, Swap, FromRows, busVars, reqVars
<1>. QED
  BY <1>1, <1>2, <1>3, <1>4, <1>5, <1>6, <1>7, <1>8, <1>9, <1>10, <1>11, <1>12
  DEF Next, Handle, Stream, Finished

\* LiveView's variables keep their types in every behaviour.
THEOREM TypeCorrect == Spec => []TypeOK
<1>1. Init => TypeOK
  BY CapAssumption, LiveViewAssumption
  DEF Init, FanoutInit, TypeOK, FanoutTypeOK, Blank, Snapshot, AllKinds, Requests, Streams
<1>. QED
  BY <1>1, TypeOKStep, PTL DEF Spec
-----------------------------------------------------------------------------
(***************************************************************************)
(* NoSilentStaleness is inductive together with one fact about requests: a *)
(* request that has not committed carries no commit's number, so that its  *)
(* commit cannot take over the number of a commit still to be published.   *)
(***************************************************************************)
IdleIsUnversioned == \A p \in Requests : rpc[p] = "idle" => ver[p] = 0

Accounted(s, v) == v \in lost \/ Pending(s, v) \/ WillRead(s) \/ HasRead(s, v)

LiveViewInv == TypeOK /\ IdleIsUnversioned /\ NoSilentStaleness

\* Only Commit gives a request a number, and it makes the request busy.
LEMMA IdleStep ==
    ASSUME LiveViewInv, [Next]_vars
    PROVE  IdleIsUnversioned'
<1>. USE DEF LiveViewInv, TypeOK, IdleIsUnversioned
<1>1. CASE UNCHANGED vars
  BY <1>1 DEF vars, reqVars
<1>2. ASSUME NEW p \in Requests, Commit(p) \/ CommitUnannounced(p) \/ View(p)
      PROVE  IdleIsUnversioned'
  BY <1>2 DEF Commit, CommitUnannounced, View, AfterCommit
<1>3. ASSUME NEW p \in Requests, \/ Handle(p) \/ AnswerFails(p)
                                \/ ShowAnswer(p) \/ DropAnswer(p)
      PROVE  IdleIsUnversioned'
  BY <1>3 DEF Handle, StartPublish, PublishTo, FinishPublish, AfterPublish,
              AnswerReadsTodos, AnswerReadsFeed, AnswerFails, ShowAnswer,
              DropAnswer, Swap, reqVars
<1>4. ASSUME NEW s \in Streams,
             \/ Connect(s) \/ Stream(s) \/ Return(s) \/ WatcherLeaves(s)
             \/ Disconnect(s) \/ ShowStreamed(s)
      PROVE  IdleIsUnversioned'
  BY <1>4 DEF Connect, Stream, ReadTodos, ReadFeed, Write, Wake, Return,
              WatcherLeaves, Disconnect, ShowStreamed, Swap, reqVars
<1>. QED
  BY <1>1, <1>2, <1>3, <1>4 DEF Next, Finished

\* A new commit is pending at its publisher or lost; the older ones stay as they
\* were, since the request had no number before.
LEMMA CommitsAreAccounted ==
    ASSUME LiveViewInv, NEW p \in Requests, Commit(p) \/ CommitUnannounced(p)
    PROVE  NoSilentStaleness'
<1>. SUFFICES ASSUME NEW s \in registered', NEW v \in (1..db)'
     PROVE  Accounted(s, v)'
  BY DEF NoSilentStaleness, Accounted
<1>. USE DEF LiveViewInv, TypeOK, FanoutTypeOK, Requests, Streams
<1>1. CASE Commit(p)
  <2>1. s \in registered /\ db \in Nat /\ db' = db + 1
    BY <1>1 DEF Commit, busVars
  <2>2. CASE v = db + 1
    <3>1. ver'[p] = v /\ rpc'[p] = "publish"
      BY <1>1, <2>2 DEF Commit, AfterCommit
    <3>. QED
      BY <3>1 DEF Accounted, Pending
  <2>3. CASE v \in 1..db
    <3>1. Accounted(s, v)
      BY <2>1, <2>3 DEF NoSilentStaleness, Accounted
    <3>2. ASSUME Pending(s, v) PROVE Pending(s, v)'
      <4>1. PICK q \in Requests : ver[q] = v /\ (rpc[q] = "publish" \/ s \in owed[q])
        BY <3>2 DEF Pending
      <4>2. q # p
        BY <1>1, <2>1, <2>3, <4>1 DEF Commit, IdleIsUnversioned
      <4>3. ver'[q] = ver[q] /\ rpc'[q] = rpc[q] /\ owed' = owed
        BY <1>1, <4>2 DEF Commit, busVars
      <4>. QED
        BY <4>1, <4>3 DEF Pending
    <3>3. UNCHANGED <<lost, mailbox, spc, sview>>
      BY <1>1 DEF Commit, busVars, streamVars
    <3>. QED
      BY <3>1, <3>2, <3>3 DEF Accounted, WillRead, HasRead
  <2>. QED
    BY <2>1, <2>2, <2>3
<1>2. CASE CommitUnannounced(p)
  <2>1. s \in registered /\ db \in Nat /\ db' = db + 1 /\ lost' = lost \cup {db + 1}
    BY <1>2 DEF CommitUnannounced, busVars
  <2>2. CASE v = db + 1
    BY <2>1, <2>2 DEF Accounted
  <2>3. CASE v \in 1..db
    <3>1. Accounted(s, v)
      BY <2>1, <2>3 DEF NoSilentStaleness, Accounted
    <3>2. UNCHANGED <<ver, owed, mailbox, spc, sview>>
      BY <1>2 DEF CommitUnannounced, busVars, streamVars
    <3>3. \A q \in Requests : rpc[q] = "publish" => rpc'[q] = "publish"
      BY <1>2 DEF CommitUnannounced
    <3>. QED
      BY <2>1, <3>1, <3>2, <3>3 DEF Accounted, Pending, WillRead, HasRead
  <2>. QED
    BY <2>1, <2>2, <2>3
<1>. QED
  BY <1>1, <1>2

\* A publisher's debt is taken over from the request when the loop starts, and
\* paid by an event in a mailbox: a full mailbox holds one already.
LEMMA PublishingIsAccounted ==
    ASSUME LiveViewInv, NEW p \in Requests,
           \/ StartPublish(p) \/ FinishPublish(p)
           \/ \E s \in Streams : PublishTo(p, s)
    PROVE  NoSilentStaleness'
<1>. SUFFICES ASSUME NEW s \in registered', NEW v \in (1..db)'
     PROVE  Accounted(s, v)'
  BY DEF NoSilentStaleness, Accounted
<1>. USE DEF LiveViewInv, TypeOK, FanoutTypeOK, Requests, Streams
<1>1. UNCHANGED <<registered, db, lost, ver, spc, sview>>
  BY DEF StartPublish, FinishPublish, PublishTo, BeginPublish, EndPublish, Offer,
         streamVars, reqVars
<1>2. Accounted(s, v)
  BY <1>1 DEF NoSilentStaleness, Accounted
<1>3. CASE StartPublish(p)
  <2>1. owed' = [owed EXCEPT ![p] = registered] /\ mailbox' = mailbox
    BY <1>3 DEF StartPublish, BeginPublish
  <2>2. \A q \in Requests : q # p => rpc'[q] = rpc[q] /\ owed'[q] = owed[q]
    BY <1>3, <2>1 DEF StartPublish
  <2>3. s \in owed'[p]
    BY <1>1, <2>1
  <2>. QED
    BY <1>1, <1>2, <2>1, <2>2, <2>3 DEF Accounted, Pending, WillRead, HasRead
<1>4. CASE FinishPublish(p)
  <2>1. owed' = owed /\ mailbox' = mailbox
    BY <1>4 DEF FinishPublish, EndPublish
  <2>2. \A q \in Requests : rpc[q] = "publish" => rpc'[q] = "publish"
    BY <1>4 DEF FinishPublish
  <2>. QED
    BY <1>1, <1>2, <2>1, <2>2 DEF Accounted, Pending, WillRead, HasRead
<1>5. ASSUME NEW d \in Streams, PublishTo(p, d) PROVE Accounted(s, v)'
  <2>1. rpc' = rpc /\ owed' = [owed EXCEPT ![p] = @ \ {d}]
    BY <1>5 DEF PublishTo, Offer, reqVars
  <2>2. mailbox' = [mailbox EXCEPT ![d] = Offered(@)]
    BY <1>5 DEF PublishTo, Offer
  <2>3. CASE s = d
    <3>1. mailbox'[s] > 0
      BY <2>2, <2>3, CapAssumption DEF Offered
    <3>. QED
      BY <3>1 DEF Accounted, WillRead
  <2>4. CASE s # d
    <3>1. mailbox'[s] = mailbox[s]
      BY <1>1, <2>2, <2>4
    <3>2. \A q \in Requests : s \in owed[q] => s \in owed'[q]
      BY <2>1, <2>4
    <3>. QED
      BY <1>1, <1>2, <2>1, <3>1, <3>2 DEF Accounted, Pending, WillRead, HasRead
  <2>. QED
    BY <2>3, <2>4
<1>. QED
  BY <1>3, <1>4, <1>5

\* A stream answers for an event by reading after it took it: both reads see
\* every commit there is at the time of the first.
LEMMA StreamingIsAccounted ==
    ASSUME LiveViewInv, NEW d \in Streams,
           Connect(d) \/ Stream(d) \/ Return(d) \/ WatcherLeaves(d)
    PROVE  NoSilentStaleness'
<1>. SUFFICES ASSUME NEW s \in registered', NEW v \in (1..db)'
     PROVE  Accounted(s, v)'
  BY DEF NoSilentStaleness, Accounted
<1>. USE DEF LiveViewInv, TypeOK, FanoutTypeOK, Requests, Streams
<1>1. UNCHANGED <<db, lost, ver, rpc>>
  BY DEF Connect, Stream, ReadTodos, ReadFeed, Write, Wake, Return, WatcherLeaves, reqVars
<1>2. v \in 1..db /\ db \in Nat /\ s \in Streams
  BY <1>1 DEF Connect, Stream, ReadTodos, ReadFeed, Write, Wake, Return,
              WatcherLeaves, Join, Leave, Take, busVars
<1>3. s \in registered => Accounted(s, v)
  BY <1>2 DEF NoSilentStaleness, Accounted
<1>4. CASE Connect(d)
  <2>1. /\ owed' = owed /\ mailbox' = mailbox /\ sview' = sview
        /\ registered' = registered \cup {d} /\ spc' = [spc EXCEPT ![d] = "todos"]
    BY <1>4 DEF Connect, Join
  <2>2. CASE s = d
    BY <2>1, <2>2 DEF Accounted, WillRead
  <2>3. CASE s # d
    BY <1>1, <1>2, <1>3, <2>1, <2>3 DEF Accounted, Pending, WillRead, HasRead
  <2>. QED
    BY <2>2, <2>3
<1>5. CASE ReadTodos(d)
  <2>1. UNCHANGED <<owed, mailbox, registered>>
    BY <1>5 DEF ReadTodos, busVars
  <2>2. CASE s = d
    <3>1. sview'[s].todos = db /\ spc'[s] = "feed"
      BY <1>2, <1>5, <2>2 DEF ReadTodos, Snapshot
    <3>. QED
      BY <1>2, <3>1 DEF Accounted, HasRead
  <2>3. CASE s # d
    <3>1. spc'[s] = spc[s] /\ sview'[s] = sview[s]
      BY <1>2, <1>5, <2>3 DEF ReadTodos
    <3>. QED
      BY <1>1, <1>3, <2>1, <3>1 DEF Accounted, Pending, WillRead, HasRead
  <2>. QED
    BY <2>2, <2>3
<1>6. CASE ReadFeed(d)
  <2>1. UNCHANGED <<owed, mailbox, registered>>
    BY <1>6 DEF ReadFeed, MailboxAfterRead
  <2>2. CASE s = d
    <3>1. /\ sview'[s].todos = sview[s].todos /\ sview'[s].feed = db
          /\ spc[s] = "feed" /\ spc'[s] = "write"
      BY <1>2, <1>6, <2>2 DEF ReadFeed, Snapshot
    <3>. QED
      BY <1>1, <1>2, <1>3, <2>1, <3>1 DEF Accounted, Pending, WillRead, HasRead
  <2>3. CASE s # d
    <3>1. spc'[s] = spc[s] /\ sview'[s] = sview[s]
      BY <1>2, <1>6, <2>3 DEF ReadFeed
    <3>. QED
      BY <1>1, <1>3, <2>1, <3>1 DEF Accounted, Pending, WillRead, HasRead
  <2>. QED
    BY <2>2, <2>3
<1>7. CASE Write(d)
  <2>1. UNCHANGED <<owed, mailbox, registered, sview>>
    BY <1>7 DEF Write, busVars
  <2>2. /\ spc[d] = "write" /\ spc'[d] = "select"
        /\ s # d => spc'[s] = spc[s]
    BY <1>2, <1>7 DEF Write
  <2>. QED
    BY <1>1, <1>3, <2>1, <2>2 DEF Accounted, Pending, WillRead, HasRead
<1>8. CASE Wake(d)
  <2>1. UNCHANGED <<owed, registered, sview>>
    BY <1>8 DEF Wake, Take
  <2>2. CASE s = d
    <3>1. spc'[s] = "todos"
      BY <1>2, <1>8, <2>2 DEF Wake
    <3>. QED
      BY <3>1 DEF Accounted, WillRead
  <2>3. CASE s # d
    <3>1. spc'[s] = spc[s] /\ mailbox'[s] = mailbox[s]
      BY <1>2, <1>8, <2>3 DEF Wake, Take
    <3>. QED
      BY <1>1, <1>3, <2>1, <3>1 DEF Accounted, Pending, WillRead, HasRead
  <2>. QED
    BY <2>2, <2>3
<1>9. CASE Return(d) \/ WatcherLeaves(d)
  <2>1. s # d /\ s \in registered
    BY <1>9 DEF Return, WatcherLeaves, Leave
  <2>2. mailbox' = mailbox /\ sview' = sview /\ spc'[s] = spc[s]
    BY <1>2, <1>9, <2>1 DEF Return, WatcherLeaves, Leave, streamVars
  <2>3. \A q \in Requests : s \in owed[q] => s \in owed'[q]
    BY <1>9, <2>1 DEF Return, WatcherLeaves, Leave
  <2>. QED
    BY <1>1, <1>3, <2>1, <2>2, <2>3 DEF Accounted, Pending, WillRead, HasRead
<1>. QED
  BY <1>4, <1>5, <1>6, <1>7, <1>8, <1>9 DEF Stream

\* The other steps touch nothing that NoSilentStaleness speaks of.
LEMMA OthersAreAccounted ==
    ASSUME LiveViewInv,
           \/ UNCHANGED vars
           \/ \E p \in Requests : \/ View(p) \/ AnswerReadsTodos(p) \/ AnswerReadsFeed(p)
                                  \/ AnswerFails(p) \/ ShowAnswer(p) \/ DropAnswer(p)
           \/ \E d \in Streams : Disconnect(d) \/ ShowStreamed(d)
    PROVE  NoSilentStaleness'
<1>1. UNCHANGED <<registered, db, lost, ver, owed, mailbox, spc, sview>>
  BY DEF vars, busVars, reqVars, streamVars, View, AnswerReadsTodos,
         AnswerReadsFeed, AnswerFails, ShowAnswer, DropAnswer, Disconnect,
         ShowStreamed
<1>2. \A q \in Requests : rpc[q] = "publish" => rpc'[q] = "publish"
  BY DEF LiveViewInv, TypeOK, vars, reqVars, View, AnswerReadsTodos,
         AnswerReadsFeed, AnswerFails, ShowAnswer, DropAnswer, Disconnect,
         ShowStreamed
<1>. QED
  BY <1>1, <1>2 DEF LiveViewInv, NoSilentStaleness, Pending, WillRead, HasRead

LEMMA LiveViewInvStart == Init => LiveViewInv
<1>1. Init => TypeOK
  BY CapAssumption, LiveViewAssumption
  DEF Init, FanoutInit, TypeOK, FanoutTypeOK, Blank, Snapshot, AllKinds, Requests, Streams
<1>. QED
  BY <1>1 DEF Init, FanoutInit, LiveViewInv, IdleIsUnversioned, NoSilentStaleness

LEMMA LiveViewInvStep == LiveViewInv /\ [Next]_vars => LiveViewInv'
<1>. SUFFICES ASSUME LiveViewInv, [Next]_vars PROVE LiveViewInv'
  OBVIOUS
<1>1. TypeOK'
  BY TypeOKStep DEF LiveViewInv
<1>2. NoSilentStaleness'
  BY CommitsAreAccounted, PublishingIsAccounted, StreamingIsAccounted,
     OthersAreAccounted
  DEF Next, Handle, Finished
<1>. QED
  BY <1>1, <1>2, IdleStep DEF LiveViewInv

\* However many requests and streams there are and however small a mailbox is,
\* a subscribed stream that lacks a published commit is about to read or is
\* still owed an event (app.go:140-202, 392-396; memory.go:23-36).
THEOREM NeverSilentlyStale == Spec => []NoSilentStaleness
<1>1. LiveViewInv => NoSilentStaleness
  BY DEF LiveViewInv
<1>. QED
  BY <1>1, LiveViewInvStart, LiveViewInvStep, PTL DEF Spec

-----------------------------------------------------------------------------
(***************************************************************************)
(* What the tabs show.  The invariant follows a snapshot from its reads    *)
(* over the wire to the screen.  On a connection the snapshots only get    *)
(* newer; an answer overtakes them, and then they are older than the       *)
(* screen for a while; an answer that a snapshot has overtaken is dropped, *)
(* because the snapshot replaced the button it belongs to.  The form of a  *)
(* "create" is not replaced, so a tab that sends one is left out where an  *)
(* old answer would do harm.                                               *)
(***************************************************************************)

\* The tabs that send no "create".
Formless == {t \in Tabs : \A p \in Requests : SentBy[p] = t => "create" \notin Kinds[p]}

AtLeast(x, y) == x.todos >= y.todos /\ x.feed >= y.feed

\* No read saw a commit that has not happened.
Within(x) == x.todos <= db /\ x.feed <= db

\* The tab shows an answer, or something equal to one.
FromAnswer(t) ==
    \E p \in Requests :
        SentBy[p] = t /\ kind[p] # "note" /\ rpc[p] = "done" /\ screen[t] = rview[p]

\* Until it lapses, an answer is no older than the screen it will replace.
RequestInv(p) ==
    /\ owed[p] # {} => rpc[p] = "publishing"
    /\ p \in answers => rpc[p] = "done"
    /\ Within(rview[p])
    /\ rpc[p] \in {"todos", "feed"} \/ p \in answers => kind[p] # "note"
    /\ SentBy[p] \in Formless =>
        /\ kind[p] # "create"
        /\ rpc[p] = "feed" /\ p \notin lapsed => rview[p].todos >= screen[SentBy[p]].todos
        /\ p \in answers /\ p \notin lapsed => AtLeast(rview[p], screen[SentBy[p]])

\* What stream s has read or sent is no older than what its tab shows.
Newer(s) ==
    /\ \A n \in 1..Len(wire[s]) : AtLeast(wire[s][n], screen[TabOf[s]])
    /\ spc[s] = "feed" => sview[s].todos >= screen[TabOf[s]].todos
    /\ spc[s] = "write" => AtLeast(sview[s], screen[TabOf[s]])

\* The last snapshot of s is on the screen, in it, or last on the wire.
Reaches(s) ==
    IF wire[s] = <<>> THEN AtLeast(screen[TabOf[s]], sview[s])
                      ELSE wire[s][Len(wire[s])] = sview[s]

StreamInv(s) ==
    /\ wire[s] # <<>> => client[s] = "open"
    /\ Within(sview[s])
    /\ \A n \in 1..Len(wire[s]) : AtLeast(sview[s], wire[s][n])
    /\ \A m, n \in 1..Len(wire[s]) : m <= n => AtLeast(wire[s][n], wire[s][m])
    /\ client[s] = "open" => FromAnswer(TabOf[s]) \/ Newer(s)
    /\ client[s] = "open" /\ spc[s] = "select" /\ TabOf[s] \in Formless => Reaches(s)

\* A tab has one connection at a time.
OneOpen ==
    \A s, q \in Streams :
        TabOf[s] = TabOf[q] /\ client[s] = "open" /\ client[q] = "open" => s = q

ScreenInv ==
    /\ TypeOK
    /\ \A p \in Requests : RequestInv(p)
    /\ \A s \in Streams : StreamInv(s)
    /\ OneOpen
    /\ \A t \in Tabs : Within(screen[t])

-----------------------------------------------------------------------------
(* What leaves ScreenInv alone                                             *)

\* An answer that has been read stays as it is.
AnswersStay ==
    \A p \in Requests : rpc[p] = "done" =>
        rpc'[p] = "done" /\ kind'[p] = kind[p] /\ rview'[p] = rview[p]

LEMMA FromAnswerStays ==
    ASSUME AnswersStay, NEW t, screen'[t] = screen[t], FromAnswer(t)
    PROVE  FromAnswer(t)'
BY DEF AnswersStay, FromAnswer

\* A step that only adds commits does not disturb a stream or its tab.
LEMMA StreamKept ==
    ASSUME TypeOK, NEW s \in Streams, StreamInv(s), AnswersStay, db' \in Nat, db' >= db,
           spc'[s] = spc[s], sview'[s] = sview[s], client'[s] = client[s],
           wire'[s] = wire[s], screen'[TabOf[s]] = screen[TabOf[s]]
    PROVE  StreamInv(s)'
<1>1. Within(sview[s])'
  <2>1. sview[s].todos \in Nat /\ sview[s].feed \in Nat /\ db \in Nat
    BY DEF TypeOK, Snapshot
  <2>. QED
    BY <2>1 DEF StreamInv, Within
<1>2. FromAnswer(TabOf[s]) => FromAnswer(TabOf[s])'
  BY FromAnswerStays, Zenon
<1>3. /\ Newer(s) => Newer(s)'
      /\ Reaches(s) => Reaches(s)'
  BY DEF Newer, Reaches, AtLeast
<1>. QED
  BY <1>1, <1>2, <1>3 DEF StreamInv, AtLeast

LEMMA RequestKept ==
    ASSUME TypeOK, NEW q \in Requests, RequestInv(q), db' \in Nat, db' >= db,
           rpc'[q] = rpc[q], kind'[q] = kind[q], rview'[q] = rview[q],
           owed'[q] \subseteq owed[q], q \in answers' => q \in answers, lapsed' = lapsed,
           screen'[SentBy[q]] = screen[SentBy[q]]
    PROVE  RequestInv(q)'
<1>1. Within(rview[q])'
  <2>1. rview[q].todos \in Nat /\ rview[q].feed \in Nat /\ db \in Nat
    BY DEF TypeOK, Snapshot
  <2>. QED
    BY <2>1 DEF RequestInv, Within
<1>. QED
  BY <1>1 DEF RequestInv, AtLeast

\* A swap lapses every answer of the tab that is still to come.
LEMMA RequestSwapped ==
    ASSUME TypeOK, NEW q \in Requests, RequestInv(q), NEW t \in Tabs, NEW x, Swap(t, x),
           UNCHANGED <<rpc, kind, rview, owed, db>>, answers' \subseteq answers
    PROVE  RequestInv(q)'
<1>1. SentBy[q] \in Tabs
  BY LiveViewAssumption
<1>2. CASE SentBy[q] = t
  <2>1. ASSUME SentBy[q] \in Formless, rpc[q] = "feed" \/ q \in answers
        PROVE  q \in lapsed'
    <3>1. kind[q] \in FromRow
      BY <2>1 DEF RequestInv, TypeOK, AllKinds, FromRow
    <3>. QED
      BY <1>2, <2>1, <3>1 DEF Swap, FromRows, IsUnderWay
  <2>. QED
    BY <2>1 DEF RequestInv, Within
<1>3. CASE SentBy[q] # t
  <2>1. screen'[SentBy[q]] = screen[SentBy[q]] /\ lapsed \subseteq lapsed'
    BY <1>1, <1>3 DEF Swap, TypeOK
  <2>. QED
    BY <2>1 DEF RequestInv, Within, AtLeast
<1>. QED
  BY <1>2, <1>3

\* A step of request p that changes nothing of a stream or a screen.
LEMMA RequestStepKeeps ==
    ASSUME ScreenInv, TypeOK', NEW p \in Requests, db' >= db, AnswersStay,
           UNCHANGED <<spc, sview, client, wire, screen, lapsed>>,
           \A q \in Requests \ {p} :
                /\ rpc'[q] = rpc[q] /\ kind'[q] = kind[q] /\ rview'[q] = rview[q]
                /\ owed'[q] \subseteq owed[q] /\ (q \in answers' => q \in answers),
           RequestInv(p)'
    PROVE  ScreenInv'
<1>1. db \in Nat /\ db' \in Nat
  BY DEF ScreenInv, TypeOK
<1>2. \A q \in Requests : RequestInv(q)'
  <2>1. ASSUME NEW q \in Requests \ {p} PROVE RequestInv(q)'
    BY <1>1, <2>1, RequestKept DEF ScreenInv
  <2>. QED
    BY <2>1
<1>3. \A s \in Streams : StreamInv(s)'
  BY <1>1, StreamKept DEF ScreenInv
<1>4. OneOpen'
  BY DEF ScreenInv, OneOpen
<1>5. \A t \in Tabs : Within(screen[t])'
  <2>1. \A t \in Tabs : screen[t].todos \in Nat /\ screen[t].feed \in Nat
    BY DEF ScreenInv, TypeOK, Snapshot
  <2>. QED
    BY <1>1, <2>1 DEF ScreenInv, Within
<1>. QED
  BY <1>2, <1>3, <1>4, <1>5 DEF ScreenInv

-----------------------------------------------------------------------------
(* Requests: the steps before the page                                     *)

LEMMA ArrivalsKeepScreens ==
    ASSUME ScreenInv, TypeOK', NEW p \in Requests,
           Commit(p) \/ CommitUnannounced(p) \/ View(p)
    PROVE  ScreenInv'
<1>. USE DEF Requests, Streams
<1>1. TypeOK /\ RequestInv(p) /\ rpc[p] = "idle" /\ db \in Nat
  BY DEF ScreenInv, TypeOK, Commit, CommitUnannounced, View
<1>2. p \notin answers /\ owed[p] = {}
  BY <1>1 DEF RequestInv
<1>3. /\ UNCHANGED <<busVars, rview, answers, streamVars, pageVars>>
      /\ db' >= db
      /\ \A q \in Requests \ {p} : rpc'[q] = rpc[q] /\ kind'[q] = kind[q]
  BY <1>1 DEF Commit, CommitUnannounced, View, TypeOK
<1>4. UNCHANGED <<owed, spc, sview, client, wire, screen, lapsed>>
  BY <1>3 DEF busVars, streamVars, pageVars
<1>5. rpc'[p] \in {"publish", "done", "todos"} /\ (rpc'[p] = "todos" => kind'[p] = "view")
  BY <1>1 DEF Commit, CommitUnannounced, View, AfterCommit, TypeOK
<1>6. SentBy[p] \in Formless => kind'[p] # "create"
  <2>1. CASE Commit(p)
    <3>1. PICK k \in Kinds[p] : kind' = [kind EXCEPT ![p] = k]
      BY <2>1 DEF Commit
    <3>2. kind'[p] \in Kinds[p]
      BY <1>1, <3>1 DEF TypeOK
    <3>. QED
      BY <3>2 DEF Formless
  <2>2. CASE CommitUnannounced(p) \/ View(p)
    BY <1>1, <2>2 DEF CommitUnannounced, View, RequestInv, TypeOK
  <2>. QED
    BY <2>1, <2>2
<1>7. Within(rview[p])'
  <2>1. rview[p].todos \in Nat /\ rview[p].feed \in Nat /\ db' \in Nat
    BY <1>1 DEF TypeOK, Snapshot
  <2>. QED
    BY <1>1, <1>3, <2>1 DEF RequestInv, Within
<1>8. RequestInv(p)'
  BY <1>2, <1>3, <1>4, <1>5, <1>6, <1>7 DEF RequestInv
<1>9. AnswersStay
  BY <1>1, <1>3 DEF AnswersStay
<1>. QED
  BY <1>3, <1>4, <1>8, <1>9, RequestStepKeeps

LEMMA PublishingKeepsScreens ==
    ASSUME ScreenInv, TypeOK', NEW p \in Requests,
           \/ StartPublish(p) \/ FinishPublish(p)
           \/ \E s \in Streams : PublishTo(p, s)
    PROVE  ScreenInv'
<1>. USE DEF Requests, Streams
<1>1. TypeOK /\ FanoutTypeOK /\ RequestInv(p) /\ db \in Nat
  BY DEF ScreenInv, TypeOK
<1>2. UNCHANGED <<db, kind, rview, answers, spc, sview, client, wire, screen, lapsed>>
  BY DEF StartPublish, FinishPublish, PublishTo, streamVars, pageVars, reqVars
<1>3. \A q \in Requests \ {p} : rpc'[q] = rpc[q] /\ owed'[q] = owed[q]
  BY <1>1 DEF StartPublish, FinishPublish, PublishTo, BeginPublish, EndPublish, Offer,
              reqVars, TypeOK, FanoutTypeOK
<1>4. rpc[p] # "done" \/ rpc' = rpc
  BY DEF StartPublish, FinishPublish, PublishTo, reqVars
<1>5. p \in answers => rpc' = rpc
  BY <1>1, <1>4 DEF RequestInv, StartPublish, FinishPublish, PublishTo, reqVars
<1>6. owed'[p] # {} => rpc'[p] = "publishing"
  <2>1. CASE StartPublish(p)
    BY <1>1, <2>1 DEF StartPublish, TypeOK
  <2>2. CASE FinishPublish(p)
    BY <2>2 DEF FinishPublish, EndPublish
  <2>3. ASSUME NEW s \in Streams, PublishTo(p, s) PROVE owed'[p] # {} => rpc'[p] = "publishing"
    BY <1>1, <2>3 DEF PublishTo, Offer, reqVars, RequestInv, FanoutTypeOK
  <2>. QED
    BY <2>1, <2>2, <2>3
<1>7. /\ rpc'[p] # "feed"
      /\ rpc'[p] = "todos" => kind[p] # "note"
  <2>1. CASE StartPublish(p)
    BY <1>1, <2>1 DEF StartPublish, TypeOK
  <2>2. CASE FinishPublish(p)
    BY <1>1, <2>2 DEF FinishPublish, AfterPublish, TypeOK
  <2>3. ASSUME NEW s \in Streams, PublishTo(p, s)
        PROVE  rpc'[p] # "feed" /\ (rpc'[p] = "todos" => kind[p] # "note")
    BY <1>1, <2>3 DEF PublishTo, Offer, reqVars, RequestInv
  <2>. QED
    BY <2>1, <2>2, <2>3
<1>8. RequestInv(p)'
  BY <1>1, <1>2, <1>5, <1>6, <1>7 DEF RequestInv, Within, AtLeast
<1>9. AnswersStay
  BY <1>2, <1>3, <1>4 DEF AnswersStay
<1>. QED
  BY <1>1, <1>2, <1>3, <1>8, <1>9, RequestStepKeeps

\* An answer is read after the screen it will meet was sent.
LEMMA AnsweringKeepsScreens ==
    ASSUME ScreenInv, TypeOK', NEW p \in Requests,
           \/ AnswerReadsTodos(p) \/ AnswerReadsFeed(p) \/ AnswerFails(p) \/ DropAnswer(p)
    PROVE  ScreenInv'
<1>. USE DEF Requests, Streams
<1>1. TypeOK /\ RequestInv(p) /\ db \in Nat
  BY DEF ScreenInv, TypeOK
<1>2. UNCHANGED <<db, kind, owed, spc, sview, client, wire, screen, lapsed>>
  BY DEF AnswerReadsTodos, AnswerReadsFeed, AnswerFails, DropAnswer, busVars,
         streamVars, pageVars
<1>3. \A q \in Requests \ {p} :
        rpc'[q] = rpc[q] /\ rview'[q] = rview[q] /\ (q \in answers' => q \in answers)
  BY <1>1 DEF AnswerReadsTodos, AnswerReadsFeed, AnswerFails, DropAnswer, TypeOK
<1>4. rpc[p] = "done" => rpc' = rpc /\ rview' = rview
  BY DEF AnswerReadsTodos, AnswerReadsFeed, AnswerFails, DropAnswer
<1>5. AnswersStay
  BY <1>2, <1>3, <1>4 DEF AnswersStay
<1>6. /\ rview[p].todos \in Nat /\ rview[p].feed \in Nat
      /\ screen[SentBy[p]].todos \in Nat /\ screen[SentBy[p]].feed \in Nat
      /\ Within(screen[SentBy[p]])
  BY <1>1, LiveViewAssumption DEF ScreenInv, TypeOK, Snapshot
<1>7. CASE AnswerReadsTodos(p)
  <2>1. /\ rpc[p] = "todos" /\ rpc'[p] = "feed" /\ answers' = answers
        /\ rview'[p].todos = db /\ rview'[p].feed = rview[p].feed
    BY <1>1, <1>7 DEF AnswerReadsTodos, TypeOK, Snapshot
  <2>2. RequestInv(p)'
    BY <1>1, <1>2, <1>6, <2>1 DEF RequestInv, Within
  <2>. QED
    BY <1>1, <1>2, <1>3, <1>5, <2>2, RequestStepKeeps
<1>8. CASE AnswerReadsFeed(p)
  <2>1. /\ rpc[p] = "feed" /\ rpc'[p] = "done"
        /\ rview'[p].feed = db /\ rview'[p].todos = rview[p].todos
    BY <1>1, <1>8 DEF AnswerReadsFeed, TypeOK, Snapshot
  <2>2. RequestInv(p)'
    BY <1>1, <1>2, <1>6, <2>1 DEF RequestInv, Within, AtLeast
  <2>. QED
    BY <1>1, <1>2, <1>3, <1>5, <2>2, RequestStepKeeps
<1>9. CASE AnswerFails(p) \/ DropAnswer(p)
  <2>1. /\ rview' = rview /\ answers' \subseteq answers
        /\ rpc'[p] = rpc[p] \/ (rpc[p] \in {"todos", "feed"} /\ rpc'[p] = "done")
    BY <1>1, <1>9 DEF AnswerFails, DropAnswer, TypeOK
  <2>2. p \in answers => rpc'[p] = rpc[p]
    BY <1>1, <2>1 DEF RequestInv
  <2>3. RequestInv(p)'
    BY <1>1, <1>2, <2>1, <2>2 DEF RequestInv, Within, AtLeast
  <2>. QED
    BY <1>1, <1>2, <1>3, <1>5, <2>3, RequestStepKeeps
<1>. QED
  BY <1>7, <1>8, <1>9

-----------------------------------------------------------------------------
(* Streams: the steps before the page                                      *)

\* A step of stream d that changes nothing of a request or a screen.
LEMMA StreamStepKeeps ==
    ASSUME ScreenInv, TypeOK', NEW d \in Streams,
           UNCHANGED <<db, rpc, kind, rview, answers, screen, lapsed>>,
           \A p \in Requests : owed'[p] \subseteq owed[p],
           \A s \in Streams \ {d} :
                /\ spc'[s] = spc[s] /\ sview'[s] = sview[s]
                /\ client'[s] = client[s] /\ wire'[s] = wire[s],
           client'[d] = "open" => client[d] = "open" \/ TabIsFree(TabOf[d]),
           StreamInv(d)'
    PROVE  ScreenInv'
<1>1. TypeOK /\ db \in Nat
  BY DEF ScreenInv, TypeOK
<1>2. \A q \in Requests : RequestInv(q)'
  BY <1>1, RequestKept DEF ScreenInv
<1>3. AnswersStay
  BY DEF AnswersStay
<1>4. \A s \in Streams : StreamInv(s)'
  BY <1>1, <1>3, StreamKept DEF ScreenInv
<1>5. OneOpen'
  BY DEF ScreenInv, OneOpen, TabIsFree
<1>6. \A t \in Tabs : Within(screen[t])'
  BY DEF ScreenInv, Within
<1>. QED
  BY <1>2, <1>4, <1>5, <1>6 DEF ScreenInv

\* Each stream reads what is newest, and sends it after what it sent before.
LEMMA StreamingKeepsScreens ==
    ASSUME ScreenInv, TypeOK', NEW d \in Streams,
           \/ Connect(d) \/ ReadTodos(d) \/ ReadFeed(d) \/ Wake(d) \/ Return(d)
           \/ WatcherLeaves(d) \/ Disconnect(d)
    PROVE  ScreenInv'
<1>. USE DEF Requests, Streams
<1>1. TypeOK /\ FanoutTypeOK /\ StreamInv(d) /\ db \in Nat /\ TabOf[d] \in Tabs
  BY LiveViewAssumption DEF ScreenInv, TypeOK
<1>2. UNCHANGED <<db, rpc, kind, rview, answers, screen, lapsed>>
  BY DEF Connect, ReadTodos, ReadFeed, Wake, Return, WatcherLeaves, Disconnect,
         reqVars, streamVars, pageVars
<1>3. \A p \in Requests : owed'[p] \subseteq owed[p]
  BY <1>1 DEF Connect, ReadTodos, ReadFeed, Wake, Return, WatcherLeaves, Disconnect,
              Join, Leave, Take, busVars, FanoutTypeOK
<1>4. \A s \in Streams \ {d} :
        /\ spc'[s] = spc[s] /\ sview'[s] = sview[s]
        /\ client'[s] = client[s] /\ wire'[s] = wire[s]
  BY <1>1 DEF Connect, ReadTodos, ReadFeed, Wake, Return, WatcherLeaves, Disconnect,
              streamVars, TypeOK
<1>5. client'[d] = "open" => client[d] = "open" \/ TabIsFree(TabOf[d])
  BY <1>1 DEF Connect, ReadTodos, ReadFeed, Wake, Return, WatcherLeaves, Disconnect,
              streamVars, TypeOK
<1>6. FromAnswer(TabOf[d]) => FromAnswer(TabOf[d])'
  BY <1>2 DEF FromAnswer
<1>7. /\ sview[d].todos \in Nat /\ sview[d].feed \in Nat
      /\ screen[TabOf[d]].todos \in Nat /\ screen[TabOf[d]].feed \in Nat
      /\ Within(screen[TabOf[d]])
  BY <1>1 DEF ScreenInv, TypeOK, Snapshot
<1>8. \A n \in 1..Len(wire[d]) : wire[d][n].todos \in Nat /\ wire[d][n].feed \in Nat
  <2>1. wire[d] \in Seq(Snapshot)
    BY <1>1 DEF TypeOK
  <2>2. \A n \in 1..Len(wire[d]) : wire[d][n] \in Snapshot
    BY <2>1
  <2>. QED
    BY <2>2 DEF Snapshot
<1>9. CASE Connect(d)
  <2>1. wire[d] = <<>>
    BY <1>1, <1>9 DEF Connect, TabIsFree, StreamInv
  <2>2. spc'[d] = "todos" /\ sview'[d] = sview[d] /\ wire'[d] = wire[d]
    BY <1>1, <1>9 DEF Connect, TypeOK
  <2>3. StreamInv(d)'
    BY <1>1, <1>2, <2>1, <2>2 DEF StreamInv, Newer, Within
  <2>. QED
    BY <1>2, <1>3, <1>4, <1>5, <2>3, StreamStepKeeps
<1>10. CASE ReadTodos(d)
  <2>1. /\ spc'[d] = "feed" /\ client'[d] = client[d] /\ wire'[d] = wire[d]
        /\ sview'[d].todos = db /\ sview'[d].feed = sview[d].feed
    BY <1>1, <1>10 DEF ReadTodos, TypeOK, Snapshot
  <2>2. Within(sview[d])' /\ AtLeast(sview'[d], sview[d])
    BY <1>1, <1>2, <1>7, <2>1 DEF StreamInv, Within, AtLeast
  <2>3. \A n \in 1..Len(wire[d]) : AtLeast(sview'[d], wire[d][n])
    BY <1>1, <1>7, <1>8, <2>1, <2>2 DEF StreamInv, Within, AtLeast
  <2>4. Newer(d) => Newer(d)'
    BY <1>2, <1>7, <2>1 DEF Newer, Within, AtLeast
  <2>5. StreamInv(d)'
    BY <1>1, <1>6, <2>1, <2>2, <2>3, <2>4 DEF StreamInv, AtLeast
  <2>. QED
    BY <1>2, <1>3, <1>4, <1>5, <2>5, StreamStepKeeps
<1>11. CASE ReadFeed(d)
  <2>1. /\ spc[d] = "feed" /\ spc'[d] = "write" /\ client'[d] = client[d]
        /\ wire'[d] = wire[d]
        /\ sview'[d].feed = db /\ sview'[d].todos = sview[d].todos
    BY <1>1, <1>11 DEF ReadFeed, TypeOK, Snapshot
  <2>2. Within(sview[d])' /\ AtLeast(sview'[d], sview[d])
    BY <1>1, <1>2, <1>7, <2>1 DEF StreamInv, Within, AtLeast
  <2>3. \A n \in 1..Len(wire[d]) : AtLeast(sview'[d], wire[d][n])
    BY <1>1, <1>7, <1>8, <2>1, <2>2 DEF StreamInv, Within, AtLeast
  <2>4. Newer(d) => Newer(d)'
    BY <1>2, <1>7, <2>1 DEF Newer, Within, AtLeast
  <2>5. StreamInv(d)'
    BY <1>1, <1>6, <2>1, <2>2, <2>3, <2>4 DEF StreamInv, AtLeast
  <2>. QED
    BY <1>2, <1>3, <1>4, <1>5, <2>5, StreamStepKeeps
<1>12. CASE Wake(d) \/ Return(d) \/ WatcherLeaves(d)
  <2>1. /\ sview'[d] = sview[d] /\ client'[d] = client[d] /\ wire'[d] = wire[d]
        /\ spc'[d] = spc[d] \/ spc'[d] \in {"todos", "closed"}
    BY <1>1, <1>12 DEF Wake, Return, WatcherLeaves, streamVars, TypeOK
  <2>2. Newer(d) => Newer(d)'
    BY <1>2, <2>1 DEF Newer, AtLeast
  <2>3. Reaches(d) => Reaches(d)'
    BY <1>2, <2>1 DEF Reaches, AtLeast
  <2>4. StreamInv(d)'
    BY <1>1, <1>2, <1>6, <2>1, <2>2, <2>3 DEF StreamInv, Within, AtLeast
  <2>. QED
    BY <1>2, <1>3, <1>4, <1>5, <2>4, StreamStepKeeps
<1>13. CASE Disconnect(d)
  <2>1. client'[d] = "gone" /\ wire'[d] = <<>> /\ sview'[d] = sview[d]
    BY <1>1, <1>13 DEF Disconnect, TypeOK
  <2>2. StreamInv(d)'
    BY <1>1, <1>2, <2>1 DEF StreamInv, Within
  <2>. QED
    BY <1>2, <1>3, <1>4, <1>5, <2>2, StreamStepKeeps
<1>. QED
  BY <1>9, <1>10, <1>11, <1>12, <1>13

\* What a write puts on the wire is the newest there, and the last.
LEMMA WritingKeepsScreens ==
    ASSUME ScreenInv, TypeOK', NEW d \in Streams, Write(d)
    PROVE  ScreenInv'
<1>. USE DEF Requests, Streams
<1>1. TypeOK /\ StreamInv(d) /\ TabOf[d] \in Tabs
  BY LiveViewAssumption DEF ScreenInv, TypeOK
<1>2. /\ UNCHANGED <<db, rpc, kind, rview, owed, answers, screen, lapsed, sview, client>>
      /\ spc[d] = "write" /\ spc'[d] = "select"
  BY <1>1 DEF Write, busVars, reqVars, pageVars, TypeOK
<1>3. \A s \in Streams \ {d} : spc'[s] = spc[s] /\ wire'[s] = wire[s]
  BY <1>1 DEF Write, TypeOK
<1>4. FromAnswer(TabOf[d]) => FromAnswer(TabOf[d])'
  BY <1>2 DEF FromAnswer
<1>5. StreamInv(d)'
  <2>1. CASE client[d] # "open"
    <3>1. wire'[d] = wire[d]
      BY <2>1 DEF Write
    <3>. QED
      BY <1>1, <1>2, <2>1, <3>1 DEF StreamInv, Within, AtLeast
  <2>2. CASE client[d] = "open"
    <3>. DEFINE len == Len(wire[d])
    <3>1. wire[d] \in Seq(Snapshot) /\ sview[d] \in Snapshot /\ len \in Nat
      BY <1>1 DEF TypeOK
    <3>2. wire'[d] = Append(wire[d], sview[d])
      BY <1>1, <2>2 DEF Write, TypeOK
    <3>3. /\ Len(wire'[d]) = len + 1
          /\ \A n \in 1..len : wire'[d][n] = wire[d][n]
          /\ wire'[d][len + 1] = sview[d]
      BY <3>1, <3>2
    <3>4. sview[d].todos \in Nat /\ sview[d].feed \in Nat
      BY <3>1 DEF Snapshot
    <3>5. \A n \in 1..len + 1 : n \in 1..len \/ n = len + 1
      BY <3>1
    <3>. HIDE DEF len
    <3>6. \A n \in 1..Len(wire'[d]) : AtLeast(sview[d], wire'[d][n])
      <4>1. AtLeast(sview[d], sview[d])
        BY <3>4 DEF AtLeast
      <4>2. \A n \in 1..len : AtLeast(sview[d], wire[d][n])
        BY <1>1 DEF StreamInv, len
      <4>. QED
        BY <3>3, <3>5, <4>1, <4>2
    <3>7. \A m, n \in 1..Len(wire'[d]) : m <= n => AtLeast(wire'[d][n], wire'[d][m])
      <4>. SUFFICES ASSUME NEW m \in 1..len + 1, NEW n \in 1..len + 1, m <= n
                    PROVE  AtLeast(wire'[d][n], wire'[d][m])
        BY <3>3
      <4>1. CASE n = len + 1
        BY <3>3, <3>6, <4>1
      <4>2. CASE n \in 1..len
        <5>1. m \in 1..len
          BY <3>1, <4>2
        <5>. QED
          BY <1>1, <3>3, <4>2, <5>1 DEF StreamInv, len
      <4>. QED
        BY <3>5, <4>1, <4>2
    <3>8. Newer(d) => Newer(d)'
      <4>. SUFFICES ASSUME Newer(d), NEW n \in 1..len + 1
                    PROVE  AtLeast(wire'[d][n], screen[TabOf[d]])
        BY <1>2, <3>3 DEF Newer
      <4>. QED
        BY <1>2, <3>3, <3>5 DEF Newer, len
    <3>9. Reaches(d)'
      <4>1. wire'[d] # <<>>
        BY <3>1, <3>2
      <4>. QED
        BY <1>2, <3>3, <4>1 DEF Reaches
    <3>. QED
      BY <1>1, <1>2, <1>4, <2>2, <3>6, <3>7, <3>8, <3>9 DEF StreamInv, Within
  <2>. QED
    BY <2>1, <2>2
<1>. QED
  BY <1>2, <1>3, <1>5, StreamStepKeeps

-----------------------------------------------------------------------------
(* The page                                                                *)

\* The tab shows what has been longest on the wire: nothing on the connection is
\* older, and every answer to come lapses.
LEMMA StreamedKeepsScreens ==
    ASSUME ScreenInv, TypeOK', NEW d \in Streams, ShowStreamed(d)
    PROVE  ScreenInv'
<1>. USE DEF Requests, Streams
<1>. DEFINE t == TabOf[d]
            len == Len(wire[d])
            head == wire[d][1]
            tail == Tail(wire[d])
<1>1. TypeOK /\ StreamInv(d) /\ t \in Tabs /\ client[d] = "open"
  BY LiveViewAssumption DEF ScreenInv, TypeOK, ShowStreamed, StreamInv
<1>2. wire[d] \in Seq(Snapshot) /\ wire[d] # <<>>
  BY <1>1 DEF TypeOK, ShowStreamed
<1>3. /\ len \in Nat \ {0} /\ head \in Snapshot /\ Head(wire[d]) = head
      /\ Len(tail) = len - 1
      /\ \A n \in 1..len - 1 : tail[n] = wire[d][n + 1]
  BY <1>2
<1>4. tail \in Seq(Snapshot)
  BY <1>2
<1>5. /\ UNCHANGED <<db, rpc, kind, rview, owed, answers, spc, sview, client>>
      /\ answers' \subseteq answers
  BY DEF ShowStreamed, busVars, reqVars
<1>. HIDE DEF len, head, t, tail
<1>6. Swap(t, head)
  BY <1>3 DEF ShowStreamed, t
<1>7. screen'[t] = head /\ \A u \in Tabs \ {t} : screen'[u] = screen[u]
  BY <1>1, <1>6 DEF Swap, TypeOK
<1>8. wire'[d] = tail /\ \A s \in Streams \ {d} : wire'[s] = wire[s]
  BY <1>1 DEF ShowStreamed, TypeOK, tail
<1>9. \A p \in Requests : RequestInv(p)'
  BY <1>1, <1>5, <1>6, RequestSwapped DEF ScreenInv
<1>10. \A n \in 1..len - 1 : n \in 1..len /\ n + 1 \in 1..len
  BY <1>3
<1>11. Newer(d)'
  <2>1. \A n \in 1..len - 1 : AtLeast(tail[n], head)
    <3>. SUFFICES ASSUME NEW n \in 1..len - 1 PROVE AtLeast(wire[d][n + 1], head)
      BY <1>3
    <3>1. 1 \in 1..len /\ n + 1 \in 1..len /\ 1 <= n + 1
      BY <1>3
    <3>. QED
      BY <1>1, <3>1 DEF StreamInv, len, head
  <2>2. AtLeast(sview[d], head)
    <3>1. 1 \in 1..len
      BY <1>3
    <3>. QED
      BY <1>1, <3>1 DEF StreamInv, len, head
  <2>. QED
    BY <1>3, <1>5, <1>7, <1>8, <2>1, <2>2 DEF Newer, AtLeast, t
<1>12. Reaches(d) => Reaches(d)'
  <2>. SUFFICES ASSUME wire[d][len] = sview[d] PROVE Reaches(d)'
    BY <1>2 DEF Reaches, len
  <2>1. CASE len = 1
    <3>1. wire'[d] = <<>>
      <4>1. tail \in Seq(Snapshot) /\ Len(tail) = 0
        BY <1>3, <1>4, <2>1
      <4>2. tail = <<>>
        BY <4>1
      <4>. QED
        BY <1>8, <4>2
    <3>2. screen'[t] = sview'[d]
      BY <1>5, <1>7, <2>1 DEF head
    <3>3. sview'[d].todos \in Nat /\ sview'[d].feed \in Nat
      BY <1>1, <1>5 DEF TypeOK, Snapshot
    <3>4. AtLeast(screen'[t], sview'[d])
      BY <3>2, <3>3 DEF AtLeast
    <3>. QED
      BY <3>1, <3>4 DEF Reaches, t
  <2>2. CASE len # 1
    <3>1. len - 1 \in 1..len - 1
      BY <1>3, <2>2
    <3>2. Len(tail) = len - 1 /\ tail[len - 1] = wire[d][len] /\ len - 1 # 0
      BY <1>3, <2>2, <3>1
    <3>3. tail # <<>>
      BY <3>2
    <3>. QED
      BY <1>5, <1>8, <3>2, <3>3 DEF Reaches
  <2>. QED
    BY <2>1, <2>2
<1>13. StreamInv(d)'
  <2>1. \A n \in 1..Len(tail) : AtLeast(sview[d], tail[n])
    BY <1>1, <1>3, <1>10 DEF StreamInv, len
  <2>2. \A m, n \in 1..Len(tail) : m <= n => AtLeast(tail[n], tail[m])
    <3>. SUFFICES ASSUME NEW m \in 1..len - 1, NEW n \in 1..len - 1, m <= n
                  PROVE  AtLeast(wire[d][n + 1], wire[d][m + 1])
      BY <1>3
    <3>1. n + 1 \in 1..len /\ m + 1 \in 1..len /\ m + 1 <= n + 1
      BY <1>3
    <3>. QED
      BY <1>1, <3>1 DEF StreamInv, len
  <2>. QED
    BY <1>1, <1>5, <1>11, <1>12, <1>8, <2>1, <2>2 DEF StreamInv, Within
<1>14. AnswersStay
  BY <1>5 DEF AnswersStay
<1>15. ASSUME NEW s \in Streams \ {d} PROVE StreamInv(s)'
  <2>1. StreamInv(s) /\ TabOf[s] \in Tabs /\ db \in Nat
    BY LiveViewAssumption DEF ScreenInv, TypeOK
  <2>2. CASE TabOf[s] = t
    <3>1. client[s] # "open"
      BY <1>1, <2>2 DEF ScreenInv, OneOpen, t
    <3>. QED
      BY <1>5, <1>8, <2>1, <3>1 DEF StreamInv, Within
  <2>3. CASE TabOf[s] # t
    BY <1>1, <1>5, <1>7, <1>8, <1>14, <2>1, <2>3, StreamKept
  <2>. QED
    BY <2>2, <2>3
<1>16. OneOpen'
  BY <1>5 DEF ScreenInv, OneOpen
<1>17. Within(head)
  <2>1. 1 \in 1..len
    BY <1>3
  <2>2. AtLeast(sview[d], head) /\ Within(sview[d])
    BY <1>1, <2>1 DEF StreamInv, len, head
  <2>3. sview[d] \in Snapshot /\ db \in Nat
    BY <1>1 DEF TypeOK
  <2>. QED
    BY <1>3, <2>2, <2>3 DEF AtLeast, Within, Snapshot
<1>18. \A u \in Tabs : Within(screen[u])'
  BY <1>5, <1>7, <1>17 DEF ScreenInv, Within
<1>. QED
  BY <1>9, <1>13, <1>15, <1>16, <1>18 DEF ScreenInv

\* The tab shows an answer, which what the stream still brings may be older than;
\* if it is not a form's answer it is no older than what it replaces.
LEMMA AnswerKeepsScreens ==
    ASSUME ScreenInv, TypeOK', NEW p \in Requests, ShowAnswer(p)
    PROVE  ScreenInv'
<1>. USE DEF Requests, Streams
<1>. DEFINE t == SentBy[p]
<1>1. TypeOK /\ RequestInv(p) /\ t \in Tabs /\ p \in answers /\ p \notin lapsed
  BY LiveViewAssumption DEF ScreenInv, ShowAnswer, ButtonIsThere
<1>2. /\ UNCHANGED <<db, rpc, kind, rview, owed, spc, sview, client, wire>>
      /\ Swap(t, rview[p]) /\ answers' \subseteq answers
  BY DEF ShowAnswer, busVars, streamVars
<1>3. screen'[t] = rview[p] /\ \A u \in Tabs \ {t} : screen'[u] = screen[u]
  BY <1>1, <1>2 DEF Swap, TypeOK
<1>4. \A q \in Requests : RequestInv(q)'
  BY <1>1, <1>2, RequestSwapped DEF ScreenInv
<1>5. AnswersStay
  BY <1>2 DEF AnswersStay
<1>6. FromAnswer(t)'
  BY <1>1, <1>2, <1>3 DEF RequestInv, FromAnswer
<1>7. t \in Formless => AtLeast(rview[p], screen[t])
  BY <1>1 DEF RequestInv
<1>8. ASSUME NEW s \in Streams PROVE StreamInv(s)'
  <2>1. StreamInv(s) /\ TabOf[s] \in Tabs /\ db \in Nat
    BY LiveViewAssumption DEF ScreenInv, TypeOK
  <2>2. CASE TabOf[s] = t
    <3>1. t \in Formless /\ Reaches(s) => Reaches(s)'
      <4>. SUFFICES ASSUME AtLeast(rview[p], screen[t]), AtLeast(screen[t], sview[s])
                    PROVE  AtLeast(rview[p], sview[s])
        BY <1>2, <1>3, <1>7, <2>2 DEF Reaches
      <4>1. rview[p] \in Snapshot /\ screen[t] \in Snapshot /\ sview[s] \in Snapshot
        BY <1>1 DEF TypeOK
      <4>. QED
        BY <4>1 DEF AtLeast, Snapshot
    <3>. QED
      BY <1>2, <1>6, <2>1, <2>2, <3>1 DEF StreamInv, Within, AtLeast
  <2>3. CASE TabOf[s] # t
    BY <1>1, <1>2, <1>3, <1>5, <2>1, <2>3, StreamKept
  <2>. QED
    BY <2>2, <2>3
<1>9. OneOpen'
  BY <1>2 DEF ScreenInv, OneOpen
<1>10. \A u \in Tabs : Within(screen[u])'
  BY <1>1, <1>2, <1>3 DEF ScreenInv, RequestInv, Within
<1>. QED
  BY <1>4, <1>8, <1>9, <1>10 DEF ScreenInv

LEMMA ScreenInvStart == Init => ScreenInv
<1>1. Init => TypeOK
  BY LiveViewInvStart DEF LiveViewInv
<1>. SUFFICES ASSUME Init PROVE ScreenInv
  OBVIOUS
<1>2. Blank.todos = 0 /\ Blank.feed = 0
  BY DEF Blank
<1>3. \A p \in Requests : RequestInv(p)
  BY <1>2 DEF Init, FanoutInit, RequestInv, Within, Requests
<1>4. \A s \in Streams : StreamInv(s)
  BY <1>2 DEF Init, StreamInv, Within
<1>. QED
  BY <1>1, <1>2, <1>3, <1>4, LiveViewAssumption DEF Init, ScreenInv, OneOpen, Within

LEMMA ScreenInvStep == ScreenInv /\ [Next]_vars => ScreenInv'
<1>. SUFFICES ASSUME ScreenInv, [Next]_vars PROVE ScreenInv'
  OBVIOUS
<1>1. TypeOK'
  BY TypeOKStep DEF ScreenInv
<1>2. CASE UNCHANGED vars
  BY <1>2 DEF vars, busVars, reqVars, streamVars, pageVars, ScreenInv, TypeOK, FanoutTypeOK,
     RequestInv, StreamInv, OneOpen, Within, AtLeast, Newer, Reaches, FromAnswer
<1>3. ASSUME NEW p \in Requests,
             \/ Commit(p) \/ CommitUnannounced(p) \/ View(p) \/ Handle(p)
             \/ AnswerFails(p) \/ ShowAnswer(p) \/ DropAnswer(p)
      PROVE  ScreenInv'
  BY <1>1, <1>3, ArrivalsKeepScreens, PublishingKeepsScreens, AnsweringKeepsScreens,
     AnswerKeepsScreens DEF Handle
<1>4. ASSUME NEW s \in Streams,
             \/ Connect(s) \/ Stream(s) \/ Return(s) \/ WatcherLeaves(s)
             \/ Disconnect(s) \/ ShowStreamed(s)
      PROVE  ScreenInv'
  BY <1>1, <1>4, StreamingKeepsScreens, WritingKeepsScreens, StreamedKeepsScreens
  DEF Stream
<1>. QED
  BY <1>2, <1>3, <1>4 DEF Next, Finished

\* A tab that sends no "create" goes back only by its stream, past an answer.
GoesForward(t) ==
    Older(screen'[t], screen[t]) =>
        /\ UNCHANGED answers
        /\ \E p \in Requests : SentBy[p] = t /\ kind[p] # "note" /\ screen[t] = rview[p]

LEMMA StepsGoForward ==
    ASSUME ScreenInv, [Next]_vars, NEW t \in Formless
    PROVE  GoesForward(t)
<1>. USE DEF Requests, Streams
<1>1. TypeOK /\ t \in Tabs
  BY DEF ScreenInv, Formless
<1>2. screen[t].todos \in Nat /\ screen[t].feed \in Nat
  BY <1>1 DEF TypeOK, Snapshot
<1>3. CASE screen' = screen
  BY <1>2, <1>3 DEF GoesForward, Older
<1>4. ASSUME NEW p \in Requests, ShowAnswer(p) PROVE GoesForward(t)
  <2>1. SentBy[p] # t => screen'[t] = screen[t]
    BY <1>1, <1>4 DEF ShowAnswer, Swap, TypeOK
  <2>2. SentBy[p] = t => screen'[t] = rview[p] /\ AtLeast(rview[p], screen[t])
    BY <1>1, <1>4 DEF ShowAnswer, Swap, ButtonIsThere, ScreenInv, RequestInv, TypeOK
  <2>3. rview[p].todos \in Nat /\ rview[p].feed \in Nat
    BY <1>1 DEF TypeOK, Snapshot
  <2>. QED
    BY <1>2, <2>1, <2>2, <2>3 DEF GoesForward, Older, AtLeast
<1>5. ASSUME NEW s \in Streams, ShowStreamed(s) PROVE GoesForward(t)
  <2>1. answers' = answers /\ (TabOf[s] # t => screen'[t] = screen[t])
    BY <1>1, <1>5 DEF ShowStreamed, Swap, TypeOK, reqVars
  <2>2. CASE TabOf[s] # t
    BY <1>2, <2>1, <2>2 DEF GoesForward, Older
  <2>3. CASE TabOf[s] = t /\ FromAnswer(t)
    BY <2>1, <2>3 DEF GoesForward, FromAnswer
  <2>4. CASE TabOf[s] = t /\ ~FromAnswer(t)
    <3>1. StreamInv(s) /\ wire[s] \in Seq(Snapshot) /\ wire[s] # <<>>
      BY <1>1, <1>5 DEF ScreenInv, TypeOK, ShowStreamed
    <3>2. Newer(s)
      BY <2>4, <3>1 DEF StreamInv
    <3>3. 1 \in 1..Len(wire[s]) /\ Head(wire[s]) = wire[s][1] /\ wire[s][1] \in Snapshot
      BY <3>1
    <3>4. screen'[t] = wire[s][1]
      BY <1>1, <1>5, <2>4, <3>3 DEF ShowStreamed, Swap, TypeOK
    <3>5. AtLeast(wire[s][1], screen[t])
      BY <2>4, <3>2, <3>3 DEF Newer
    <3>. QED
      BY <1>2, <3>3, <3>4, <3>5 DEF GoesForward, Older, AtLeast, Snapshot
  <2>. QED
    BY <2>2, <2>3, <2>4
<1>6. ASSUME NEW p \in Requests,
             \/ Commit(p) \/ CommitUnannounced(p) \/ View(p) \/ Handle(p)
             \/ AnswerFails(p) \/ DropAnswer(p)
      PROVE  screen' = screen
  BY <1>6 DEF Handle, Commit, CommitUnannounced, View, StartPublish, PublishTo,
     FinishPublish, AnswerReadsTodos, AnswerReadsFeed, AnswerFails, DropAnswer, pageVars
<1>7. ASSUME NEW s \in Streams,
             \/ Connect(s) \/ Stream(s) \/ Return(s) \/ WatcherLeaves(s) \/ Disconnect(s)
      PROVE  screen' = screen
  BY <1>7 DEF Connect, Stream, ReadTodos, ReadFeed, Write, Wake, Return, WatcherLeaves,
     Disconnect, pageVars
<1>8. UNCHANGED vars => screen' = screen
  BY DEF vars, pageVars
<1>. QED
  BY <1>3, <1>4, <1>5, <1>6, <1>7, <1>8 DEF Next, Finished

\* A tab that sends no "create" never goes back,
\* except by its stream past an answer, whatever the other tabs send
\* (app.go:204-301; home.templ, the swaps of the panels).
THEOREM FormlessTabsGoForward == Spec => [][\A t \in Formless : GoesForward(t)]_vars
<1>1. ScreenInv /\ [Next]_vars => ScreenInv' /\ \A t \in Formless : GoesForward(t)
  BY ScreenInvStep, StepsGoForward
<1>. QED
  BY <1>1, ScreenInvStart, PTL DEF Spec

\* If no tab sends a "create", no tab goes back except by its stream past an answer.
THEOREM ScreensGoForward ==
    ASSUME \A p \in Requests : "create" \notin Kinds[p]
    PROVE  Spec => ScreenNeverGoesBack
<1>1. Formless = Tabs
  BY DEF Formless
<1>2. (\A t \in Formless : GoesForward(t)) <=>
      \A t \in Tabs : Older(screen'[t], screen[t]) =>
        /\ UNCHANGED answers
        /\ \E p \in Requests : SentBy[p] = t /\ kind[p] # "note" /\ screen[t] = rview[p]
  BY <1>1 DEF GoesForward
<1>. QED
  BY <1>2, FormlessTabsGoForward, PTL DEF ScreenNeverGoesBack

-----------------------------------------------------------------------------
(***************************************************************************)
(* The tabs converge: when nothing is on its way, an open stream has read  *)
(* every published commit (NeverSilentlyStale) and the tab shows what the  *)
(* stream has read, or something newer (Reaches).                          *)
(***************************************************************************)
Converged(t) ==
    Settled => \A s \in Streams : TabOf[s] = t /\ client[s] = "open" =>
        \A v \in 1..db : v \in lost \/ Shows(screen[t], v)

LEMMA SettledConverges ==
    ASSUME ScreenInv, LiveViewInv, NEW t \in Formless
    PROVE  Converged(t)
<1>. USE DEF Requests, Streams
<1>. SUFFICES ASSUME Settled, NEW s \in Streams, TabOf[s] = t, client[s] = "open",
                     NEW v \in 1..db, v \notin lost
              PROVE  Shows(screen[t], v)
  BY DEF Converged
<1>1. spc[s] = "select" /\ s \in registered /\ mailbox[s] = 0 /\ wire[s] = <<>>
  BY DEF Settled
<1>2. ~Pending(s, v)
  BY DEF Settled, ScreenInv, RequestInv, Pending
<1>3. ~WillRead(s)
  BY <1>1 DEF WillRead
<1>4. HasRead(s, v)
  BY <1>1, <1>2, <1>3 DEF LiveViewInv, NoSilentStaleness
<1>5. AtLeast(screen[t], sview[s])
  BY <1>1 DEF ScreenInv, StreamInv, Reaches
<1>6. sview[s] \in Snapshot /\ screen[t] \in Snapshot /\ db \in Nat
  BY DEF ScreenInv, TypeOK, Formless
<1>. QED
  BY <1>1, <1>4, <1>5, <1>6 DEF HasRead, AtLeast, Shows, Snapshot

\* Once nothing is on its way, every open tab that sends no "create" shows every
\* change that was published (README.md:108).
THEOREM FormlessTabsConverge == Spec => [](\A t \in Formless : Converged(t))
<1>1. Init => ScreenInv /\ LiveViewInv
  BY ScreenInvStart, LiveViewInvStart
<1>2. ScreenInv /\ LiveViewInv /\ [Next]_vars => (ScreenInv /\ LiveViewInv)'
  BY ScreenInvStep, LiveViewInvStep
<1>3. ScreenInv /\ LiveViewInv => \A t \in Formless : Converged(t)
  BY SettledConverges
<1>. QED
  BY <1>1, <1>2, <1>3, PTL DEF Spec

\* If no tab sends a "create", all open tabs converge.
THEOREM OpenTabsConverge ==
    ASSUME \A p \in Requests : "create" \notin Kinds[p]
    PROVE  Spec => []TabsConverge
<1>1. Formless = Tabs
  BY DEF Formless
<1>2. (\A t \in Formless : Converged(t)) => TabsConverge
  BY <1>1, LiveViewAssumption DEF Converged, TabsConverge
<1>. QED
  BY <1>2, FormlessTabsConverge, PTL

-----------------------------------------------------------------------------
(* The bus                                                                 *)

\* Handlers and streams use the bus only as Fanout describes it.
THEOREM UsesTheBus == Spec => FanoutSpec
<1>1. Init => FanoutInit
  BY DEF Init
<1>2. [Next]_vars => [FanoutNext]_busVars
  <2>. USE DEF Requests, Streams
  <2>1. ASSUME NEW p \in Requests,
               \/ Commit(p) \/ CommitUnannounced(p) \/ View(p) \/ Handle(p)
               \/ AnswerFails(p) \/ ShowAnswer(p) \/ DropAnswer(p)
        PROVE  [FanoutNext]_busVars
    BY <2>1 DEF Commit, CommitUnannounced, View, Handle, StartPublish, PublishTo,
       FinishPublish, AnswerReadsTodos, AnswerReadsFeed, AnswerFails, ShowAnswer,
       DropAnswer, FanoutNext
  <2>2. ASSUME NEW s \in Streams,
               \/ Connect(s) \/ Stream(s) \/ Return(s) \/ WatcherLeaves(s)
               \/ Disconnect(s) \/ ShowStreamed(s)
        PROVE  [FanoutNext]_busVars
    BY <2>2 DEF Connect, Stream, ReadTodos, ReadFeed, MailboxAfterRead, Write, Wake,
       Return, WatcherLeaves, Disconnect, ShowStreamed, FanoutNext, busVars
  <2>3. UNCHANGED vars => UNCHANGED busVars
    BY DEF vars
  <2>. QED
    BY <2>1, <2>2, <2>3 DEF Next, Finished
<1>. QED
  BY <1>1, <1>2, PTL DEF Spec, FanoutSpec
=============================================================================
