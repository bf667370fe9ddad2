------------------------------ MODULE LiveView ------------------------------
(***************************************************************************)
(* How a change reaches the browsers: request handlers, the bus, stream    *)
(* handlers and tabs (internal/server/app.go over realtime.Bus).           *)
(*                                                                         *)
(* A request commits, publishes, and may answer with panels rendered from  *)
(* a read of the database.  A stream subscribes, sends a first snapshot,   *)
(* and then one snapshot for every event it takes from its mailbox.  Every *)
(* snapshot comes from two separate reads, first the todos, then the feed, *)
(* and so is modelled by how many commits each of the reads saw.  A tab    *)
(* shows whatever arrived last, be it from its stream or as the answer to  *)
(* one of its requests.  But a snapshot replaces the panels and so the     *)
(* buttons in them, and htmx looks for the panels of an answer in the tree *)
(* of the button that asked: the answer to a replaced button is dropped.   *)
(*                                                                         *)
(* Fanout is the bus: requests (and River jobs) are its publishers, stream *)
(* handlers its subscribers.  TodoStore has the inside of a commit.        *)
(***************************************************************************)
EXTENDS Fanout, Sequences

CONSTANTS Tabs,        \* browser tabs
          TabOf,       \* whose EventSource each stream is
          SentBy,      \* the tab each request comes from
          Kinds,       \* what each request may be
          MaxInFlight  \* snapshots a stream can have on the wire: a longer
                       \* write blocks

Requests == Publishers
Streams == Subscribers

\* "create": answers with a snapshot; sent by the form of the composer panel.
\* "row":    toggle and delete answer with a snapshot; sent by a button of the
\*           todos panel.
\* "note":   seed, enqueue and pulse answer with the composer only, and a River
\*           job with nothing.
\* "view":   a toggle or delete of a missing todo answers with a snapshot.
AllKinds == {"create", "row", "note", "view"}
FromRow == {"row", "view"}

ASSUME LiveViewAssumption ==
    /\ TabOf \in [Streams -> Tabs]
    /\ SentBy \in [Requests -> Tabs]
    /\ Kinds \in [Requests -> SUBSET AllKinds]
    /\ MaxInFlight \in Nat \ {0}

VARIABLES
    db,        \* commits so far; commit number v is the v-th
    lost,      \* commits whose handler never got to publish
    rpc,       \* where each request handler is
    kind,      \* what each request asks for
    ver,       \* the number of its commit, 0 before and for a view
    rview,     \* what it has read for its answer
    spc,       \* where each stream handler is
    sview,     \* what it has read for its last snapshot
    client,    \* whether the tab at the other end is still there
    wire,      \* snapshots on their way to the tab
    answers,   \* requests whose answer is on its way
    screen,    \* the snapshot each tab shows
    lapsed     \* requests whose button was replaced before they were answered

reqVars == <<rpc, kind, ver, rview, answers>>
streamVars == <<spc, sview, client, wire>>
pageVars == <<screen, lapsed>>
vars == <<busVars, db, lost, reqVars, streamVars, pageVars>>

Snapshot == [todos : Nat, feed : Nat]
Blank == [todos |-> 0, feed |-> 0]

TypeOK ==
    /\ FanoutTypeOK
    /\ db \in Nat
    /\ lost \in SUBSET Nat
    /\ rpc \in [Requests -> {"idle", "publish", "publishing", "todos", "feed", "done"}]
    /\ kind \in [Requests -> AllKinds]
    /\ ver \in [Requests -> Nat]
    /\ rview \in [Requests -> Snapshot]
    /\ spc \in [Streams -> {"absent", "todos", "feed", "write", "select", "closed"}]
    /\ sview \in [Streams -> Snapshot]
    /\ client \in [Streams -> {"absent", "open", "gone"}]
    /\ wire \in [Streams -> Seq(Snapshot)]
    /\ answers \in SUBSET Requests
    /\ screen \in [Tabs -> Snapshot]
    /\ lapsed \in SUBSET Requests

Init ==
    /\ FanoutInit
    /\ db = 0
    /\ lost = {}
    /\ rpc = [p \in Requests |-> "idle"]
    /\ kind = [p \in Requests |-> "view"]
    /\ ver = [p \in Requests |-> 0]
    /\ rview = [p \in Requests |-> Blank]
    /\ spc = [s \in Streams |-> "absent"]
    /\ sview = [s \in Streams |-> Blank]
    /\ client = [s \in Streams |-> "absent"]
    /\ wire = [s \in Streams |-> <<>>]
    /\ answers = {}
    /\ screen = [t \in Tabs |-> Blank]
    /\ lapsed = {}

-----------------------------------------------------------------------------
(* Requests                                                                *)

\* Mutation of AfterCommit: no publishChange after a command that has no
\* snapshot to answer with.
AfterCommitOfNote(k) == IF k = "note" THEN "done" ELSE "publish"

AfterCommit(k) == "publish"

Commit(p) ==
    /\ rpc[p] = "idle"
    /\ \E k \in Kinds[p] \ {"view"} :
        /\ kind' = [kind EXCEPT ![p] = k]
        /\ rpc' = [rpc EXCEPT ![p] = AfterCommit(k)]
    /\ db' = db + 1
    /\ ver' = [ver EXCEPT ![p] = db + 1]
    /\ UNCHANGED <<busVars, lost, rview, answers, streamVars, pageVars>>

\* The commit takes effect, but the handler is told of an error (TodoStore's
\* OrphanCommits): it answers 500 and publishes nothing.
CommitUnannounced(p) ==
    /\ rpc[p] = "idle"
    /\ db' = db + 1
    /\ lost' = lost \cup {db + 1}
    /\ rpc' = [rpc EXCEPT ![p] = "done"]
    /\ UNCHANGED <<busVars, kind, ver, rview, answers, streamVars, pageVars>>

View(p) ==
    /\ rpc[p] = "idle"
    /\ "view" \in Kinds[p]
    /\ kind' = [kind EXCEPT ![p] = "view"]
    /\ rpc' = [rpc EXCEPT ![p] = "todos"]
    /\ UNCHANGED <<busVars, db, lost, ver, rview, answers, streamVars, pageVars>>

\* publishChange: on the handler's own goroutine, without its cancellation.
StartPublish(p) ==
    /\ rpc[p] = "publish"
    /\ BeginPublish(p)
    /\ rpc' = [rpc EXCEPT ![p] = "publishing"]
    /\ UNCHANGED <<db, lost, kind, ver, rview, answers, streamVars, pageVars>>

PublishTo(p, s) ==
    /\ Offer(p, s)
    /\ UNCHANGED <<db, lost, reqVars, streamVars, pageVars>>

AfterPublish(k) == IF k \in {"create", "row"} THEN "todos" ELSE "done"

FinishPublish(p) ==
    /\ rpc[p] = "publishing"
    /\ EndPublish(p)
    /\ rpc' = [rpc EXCEPT ![p] = AfterPublish(kind[p])]
    /\ UNCHANGED <<db, lost, kind, ver, rview, answers, streamVars, pageVars>>

\* viewModel: two queries, no transaction around them.
AnswerReadsTodos(p) ==
    /\ rpc[p] = "todos"
    /\ rview' = [rview EXCEPT ![p].todos = db]
    /\ rpc' = [rpc EXCEPT ![p] = "feed"]
    /\ UNCHANGED <<busVars, db, lost, kind, ver, answers, streamVars, pageVars>>

AnswerReadsFeed(p) ==
    /\ rpc[p] = "feed"
    /\ rview' = [rview EXCEPT ![p].feed = db]
    /\ rpc' = [rpc EXCEPT ![p] = "done"]
    /\ answers' = answers \cup {p}
    /\ UNCHANGED <<busVars, db, lost, kind, ver, streamVars, pageVars>>

\* A query fails or the client of the request is gone.
AnswerFails(p) ==
    /\ rpc[p] \in {"todos", "feed"}
    /\ rpc' = [rpc EXCEPT ![p] = "done"]
    /\ UNCHANGED <<busVars, db, lost, kind, ver, rview, answers, streamVars, pageVars>>

-----------------------------------------------------------------------------
(* Streams                                                                 *)

\* An EventSource opens a connection only when it has none.
TabIsFree(t) == \A s \in Streams : TabOf[s] = t => client[s] # "open"

\* The handler subscribes before it reads its first snapshot.
Connect(s) ==
    /\ spc[s] = "absent"
    /\ TabIsFree(TabOf[s])
    /\ Join(s)
    /\ spc' = [spc EXCEPT ![s] = "todos"]
    /\ client' = [client EXCEPT ![s] = "open"]
    /\ UNCHANGED <<db, lost, reqVars, sview, wire, pageVars>>

ReadTodos(s) ==
    /\ spc[s] = "todos"
    /\ sview' = [sview EXCEPT ![s].todos = db]
    /\ spc' = [spc EXCEPT ![s] = "feed"]
    /\ UNCHANGED <<busVars, db, lost, reqVars, client, wire, pageVars>>

\* Mutation of MailboxAfterRead: coalesce the events that came while reading.
MailboxDrained(s) == [mailbox EXCEPT ![s] = 0]

MailboxAfterRead(s) == mailbox

ReadFeed(s) ==
    /\ spc[s] = "feed"
    /\ sview' = [sview EXCEPT ![s].feed = db]
    /\ spc' = [spc EXCEPT ![s] = "write"]
    /\ mailbox' = MailboxAfterRead(s)
    /\ UNCHANGED <<registered, owed, publish, db, lost, reqVars, client, wire,
                   pageVars>>

\* A write to a client that has just gone may still seem to succeed.
Write(s) ==
    /\ spc[s] = "write"
    /\ Len(wire[s]) < MaxInFlight
    /\ wire' = IF client[s] = "open" THEN [wire EXCEPT ![s] = Append(@, sview[s])] ELSE wire
    /\ spc' = [spc EXCEPT ![s] = "select"]
    /\ UNCHANGED <<busVars, db, lost, reqVars, sview, client, pageVars>>

Wake(s) ==
    /\ spc[s] = "select"
    /\ Take(s)
    /\ spc' = [spc EXCEPT ![s] = "todos"]
    /\ UNCHANGED <<db, lost, reqVars, sview, client, wire, pageVars>>

\* A query fails, a write to a client that is gone fails, or the select sees
\* the context or streamShutdown done, which Shutdown may do at any time: the
\* handler returns and unsubscribes.
MayReturn(s) ==
    \/ spc[s] \in {"todos", "feed", "select"}
    \/ spc[s] = "write" /\ client[s] = "gone"

Return(s) ==
    /\ MayReturn(s)
    /\ spc' = [spc EXCEPT ![s] = "closed"]
    /\ Leave(s)
    /\ UNCHANGED <<db, lost, reqVars, sview, client, wire, pageVars>>

\* The watcher of the subscription may be faster than the handler.
WatcherLeaves(s) ==
    /\ client[s] = "gone"
    /\ s \in registered
    /\ Leave(s)
    /\ UNCHANGED <<db, lost, reqVars, streamVars, pageVars>>

-----------------------------------------------------------------------------
(* Tabs                                                                    *)

\* The connection breaks, at either end, and what was on it is gone.
Disconnect(s) ==
    /\ client[s] = "open"
    /\ client' = [client EXCEPT ![s] = "gone"]
    /\ wire' = [wire EXCEPT ![s] = <<>>]
    /\ UNCHANGED <<busVars, db, lost, reqVars, spc, sview, pageVars>>

\* A button of a row has asked, and has not been answered.
FromRows == {p \in Requests : kind[p] \in FromRow}
IsUnderWay(p) == rpc[p] \notin {"idle", "done"} \/ p \in answers

\* The panels are swapped in by their ids, whole (hx-swap-oob="outerHTML").
Swap(t, snapshot) ==
    /\ screen' = [screen EXCEPT ![t] = snapshot]
    /\ lapsed' = lapsed \cup {p \in FromRows : SentBy[p] = t /\ IsUnderWay(p)}

ShowStreamed(s) ==
    /\ wire[s] # <<>>
    /\ Swap(TabOf[s], Head(wire[s]))
    /\ wire' = [wire EXCEPT ![s] = Tail(@)]
    /\ UNCHANGED <<busVars, db, lost, reqVars, spc, sview, client>>

\* Mutation of ButtonIsThere: the panels of an answer are looked for in the page.
ButtonNeverMinds(p) == TRUE

\* The form stays when the panels are swapped, a row and its buttons do not.
ButtonIsThere(p) == p \notin lapsed

ShowAnswer(p) ==
    /\ p \in answers
    /\ ButtonIsThere(p)
    /\ Swap(SentBy[p], rview[p])
    /\ answers' = answers \ {p}
    /\ UNCHANGED <<busVars, db, lost, rpc, kind, ver, rview, streamVars>>

\* The answer is lost on its way, or its button or form is no longer in the page
\* (the composer is replaced by the answer to another command of the tab).
DropAnswer(p) ==
    /\ p \in answers
    /\ answers' = answers \ {p}
    /\ UNCHANGED <<busVars, db, lost, rpc, kind, ver, rview, streamVars, pageVars>>

-----------------------------------------------------------------------------
Handle(p) ==
    \/ StartPublish(p) \/ (\E s \in Streams : PublishTo(p, s)) \/ FinishPublish(p)
    \/ AnswerReadsTodos(p) \/ AnswerReadsFeed(p)

Stream(s) == ReadTodos(s) \/ ReadFeed(s) \/ Write(s) \/ Wake(s)

Finished ==
    /\ answers = {} /\ (\A p \in Requests : rpc[p] = "done")
    /\ (\A s \in Streams : spc[s] = "closed" /\ client[s] = "gone")
    /\ UNCHANGED vars

Next ==
    \/ \E p \in Requests :
        \/ Commit(p) \/ CommitUnannounced(p) \/ View(p) \/ Handle(p)
        \/ AnswerFails(p) \/ ShowAnswer(p) \/ DropAnswer(p)
    \/ \E s \in Streams :
        \/ Connect(s) \/ Stream(s) \/ Return(s) \/ WatcherLeaves(s)
        \/ Disconnect(s) \/ ShowStreamed(s)
    \/ Finished

(***************************************************************************)
(* Handlers run to their end, a stream handler serves its mailbox and      *)
(* notices that its client is gone, and an open tab reads what has arrived.*)
(* No client has to connect or to leave, no request has to arrive, no query*)
(* has to fail and the server need not stop.                               *)
(***************************************************************************)
Fairness ==
    /\ \A p \in Requests : WF_vars(Handle(p)) /\ WF_vars(ShowAnswer(p) \/ DropAnswer(p))
    /\ \A s \in Streams :
        /\ WF_vars(Stream(s))
        /\ WF_vars(client[s] = "gone" /\ Return(s))
        /\ WF_vars(ShowStreamed(s))

Spec == Init /\ [][Next]_vars /\ Fairness

-----------------------------------------------------------------------------
(* Safety                                                                  *)

Shows(snapshot, v) == snapshot.todos >= v /\ snapshot.feed >= v

\* A publisher still has to tell stream s of commit v.
Pending(s, v) == \E p \in Requests : ver[p] = v /\ (rpc[p] = "publish" \/ s \in owed[p])

\* Stream s has not started the read its next snapshot will come from.
WillRead(s) == mailbox[s] > 0 \/ spc[s] = "todos"

\* The last snapshot of s, or the one it is reading, has commit v.
HasRead(s, v) == sview[s].todos >= v /\ (spc[s] = "feed" \/ sview[s].feed >= v)

\* No subscribed stream is ever left behind in silence: a commit that it has
\* neither read nor is about to read is one that a publisher has yet to offer
\* to it, or whose handler failed before publishing.  In particular a dropped
\* event and a snapshot torn between its two reads are always made good
\* (memory.go:28-34; app.go:148-157, 178-191, 509-517).
NoSilentStaleness ==
    \A s \in registered : \A v \in 1..db :
        v \in lost \/ Pending(s, v) \/ WillRead(s) \/ HasRead(s, v)

\* Nothing is on its way to anyone.
Settled ==
    /\ answers = {}
    /\ \A p \in Requests : rpc[p] \in {"idle", "done"}
    /\ \A s \in Streams : client[s] = "open" =>
        spc[s] = "select" /\ s \in registered /\ mailbox[s] = 0 /\ wire[s] = <<>>

\* "Open two browser tabs and watch both tabs converge through HTMX SSE updates"
\* (README.md:108): once nothing is on its way, every connected tab shows every
\* change that was published.
TabsConverge ==
    Settled =>
        \A s \in Streams : client[s] = "open" =>
            \A v \in 1..db : v \in lost \/ Shows(screen[TabOf[s]], v)

Older(x, y) == x.todos < y.todos \/ x.feed < y.feed

\* What a tab shows never gets older, across reconnections too, except that its
\* stream may bring what was read before the answer the tab shows now.  In
\* particular no answer to a toggle or a delete takes a tab back, and without
\* answers nothing does.
ScreenNeverGoesBack ==
    [][\A t \in Tabs : Older(screen'[t], screen[t]) =>
        /\ UNCHANGED answers
        /\ \E p \in Requests : SentBy[p] = t /\ kind[p] # "note" /\ screen[t] = rview[p]]_vars

-----------------------------------------------------------------------------
(* Liveness                                                                *)

\* A stream comes to send a snapshot with every change that is published to it,
\* however many events its mailbox drops, unless its connection ends first
\* (app.go:178-202; memory.go:28-34).
StreamsCatchUp ==
    \A s \in Streams : \A p \in Requests :
        client[s] = "open" /\ ver[p] > 0
            ~> \/ client[s] = "gone" \/ spc[s] = "closed"
               \/ spc[s] = "select" /\ Shows(sview[s], ver[p])
=============================================================================
