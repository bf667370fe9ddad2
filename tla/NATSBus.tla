------------------------------ MODULE NATSBus ------------------------------
(***************************************************************************)
(* realtime.NATSBus: fan-out across processes through a NATS server.       *)
(*                                                                         *)
(* Each process has one connection.  What a process sends waits in `out'   *)
(* until the server works it off, in order; what the server sends waits in *)
(* `inbox' for the connection's reader, which hands messages to the        *)
(* subscription's callback and pongs to whoever waits in flush.  A broken  *)
(* connection loses both, comes back with its subscriptions renewed, or is *)
(* given up by the client library for good.                                *)
(*                                                                         *)
(* Every publisher publishes once and every subscriber subscribes once, on *)
(* the only topic.                                                         *)
(***************************************************************************)
EXTENDS Integers, Sequences

CONSTANTS Conns,        \* processes that share the NATS server
          Publishers,   \* calls of Bus.Publish
          Subscribers,  \* calls of Bus.Subscribe
          At,           \* the process each call is made in
          Cap,          \* capacity of a subscriber's channel (16 in the code)
          Closers,      \* processes that shut down
          MaxBreaks     \* how often connections break in a behaviour

Callers == Publishers \cup Subscribers

ASSUME NATSAssumption ==
    /\ Publishers \cap Subscribers = {}
    /\ At \in [Callers -> Conns]
    /\ Cap \in Nat \ {0}
    /\ Closers \subseteq Conns
    /\ MaxBreaks \in Nat

VARIABLES
    link,      \* each connection as its client sees it
    closing,   \* how far Close has come
    out,       \* commands to the server
    inbox,     \* what the server has sent
    routed,    \* subscriptions the server knows
    local,     \* subscriptions the client library knows and will renew
    pending,   \* publications waiting for each subscription's callback
    mailbox,   \* how many events each channel holds
    ppc,       \* where each publisher is
    spc,       \* where each subscriber is
    breaks,    \* connections broken so far
    since,     \* history: the streams the server knew when a publisher began,
               \* until the event or the stream is cut off by a break
    heard      \* history: who had begun to publish when a stream last woke

wireVars == <<link, closing, out, inbox, breaks>>
subVars == <<routed, local, pending, mailbox, spc>>
histVars == <<since, heard>>
vars == <<wireVars, subVars, ppc, histVars>>

NoOne == <<>>
Command(op, by, subs) == [op |-> op, by |-> by, subs |-> subs]
Commands ==
    [op : {"pub", "msg"}, by : Publishers, subs : SUBSET Subscribers]
        \cup [op : {"ping", "pong"}, by : Callers, subs : {{}}]
        \cup [op : {"sub", "renew", "unsub"}, by : {NoOne}, subs : SUBSET Subscribers]

TypeOK ==
    /\ link \in [Conns -> {"up", "down", "closed"}]
    /\ closing \in [Conns -> {"no", "draining", "returned"}]
    /\ out \in [Conns -> Seq(Commands)]
    /\ inbox \in [Conns -> Seq(Commands)]
    /\ routed \subseteq Subscribers
    /\ local \subseteq Subscribers
    /\ pending \in [Subscribers -> SUBSET Publishers]
    /\ mailbox \in [Subscribers -> 0..Cap]
    /\ ppc \in [Publishers -> {"before", "flush", "flushing", "returned", "failed"}]
    /\ spc \in [Subscribers -> {"absent", "flush", "flushing", "streaming",
                                "undo", "failed", "leaving", "closed"}]
    /\ breaks \in 0..MaxBreaks
    /\ since \in [Publishers -> SUBSET Subscribers]
    /\ heard \in [Subscribers -> SUBSET Publishers]

Init ==
    /\ link = [c \in Conns |-> "up"]
    /\ closing = [c \in Conns |-> "no"]
    /\ out = [c \in Conns |-> <<>>]
    /\ inbox = [c \in Conns |-> <<>>]
    /\ routed = {}
    /\ local = {}
    /\ pending = [s \in Subscribers |-> {}]
    /\ mailbox = [s \in Subscribers |-> 0]
    /\ ppc = [p \in Publishers |-> "before"]
    /\ spc = [s \in Subscribers |-> "absent"]
    /\ breaks = 0
    /\ since = [p \in Publishers |-> {}]
    /\ heard = [s \in Subscribers |-> {}]

Of(c, S) == {x \in S : At[x] = c}

\* A command for the server.  While the connection is down it is kept until the
\* connection is back.
Enqueue(c, command) == out' = [out EXCEPT ![c] = Append(@, command)]

\* Subscriptions are not: all that exist are renewed when it is back.
EnqueueIfUp(c, command) ==
    IF link[c] = "up" THEN Enqueue(c, command) ELSE UNCHANGED out

IsOpen(c) == closing[c] = "no"
IsDraining(c) == closing[c] = "draining"

AtMostOne(S) == \A x, y \in S : x = y

\* What is pending for the subscriptions in S is discarded, but a callback of each
\* may be running just then.
Discard(S) ==
    /\ pending' \in [Subscribers -> SUBSET Publishers]
    /\ \A s \in S : pending'[s] \subseteq pending[s] /\ AtMostOne(pending'[s])
    /\ \A s \in Subscribers \ S : pending'[s] = pending[s]

-----------------------------------------------------------------------------
(* Publish                                                                 *)

PublishCall(p) ==
    /\ ppc[p] = "before"
    /\ link[At[p]] # "closed"
    /\ closing[At[p]] # "returned"
    /\ Enqueue(At[p], Command("pub", p, {}))
    /\ ppc' = [ppc EXCEPT ![p] = "flush"]
    /\ since' = [since EXCEPT ![p] = {s \in routed : spc[s] = "streaming"}]
    /\ UNCHANGED <<link, closing, inbox, breaks, subVars, heard>>

\* The connection is closed, or drains and has come to its publishers.
PublishRefused(p) ==
    /\ ppc[p] = "before"
    /\ link[At[p]] = "closed" \/ ~IsOpen(At[p])
    /\ ppc' = [ppc EXCEPT ![p] = "failed"]
    /\ UNCHANGED <<wireVars, subVars, histVars>>

\* Mutation of PublishFlush: Publish does not wait for its event to leave.
PublishUnflushed(p) ==
    /\ ppc[p] = "flush"
    /\ ppc' = [ppc EXCEPT ![p] = "returned"]
    /\ UNCHANGED <<wireVars, subVars, histVars>>

\* flush sends a ping and waits for its pong.
PublishFlush(p) ==
    /\ ppc[p] = "flush"
    /\ link[At[p]] # "closed"
    /\ Enqueue(At[p], Command("ping", p, {}))
    /\ ppc' = [ppc EXCEPT ![p] = "flushing"]
    /\ UNCHANGED <<link, closing, inbox, breaks, subVars, histVars>>

\* No pong within two seconds, or the connection is closed.
PublishFails(p) ==
    /\ \/ ppc[p] = "flush" /\ link[At[p]] = "closed"
       \/ ppc[p] = "flushing"
    /\ ppc' = [ppc EXCEPT ![p] = "failed"]
    /\ UNCHANGED <<wireVars, subVars, histVars>>

-----------------------------------------------------------------------------
(* Subscribe and unsubscribe                                               *)

Subscribe(s) ==
    /\ spc[s] = "absent"
    /\ link[At[s]] # "closed"
    /\ IsOpen(At[s])
    /\ local' = local \cup {s}
    /\ EnqueueIfUp(At[s], Command("sub", NoOne, {s}))
    /\ spc' = [spc EXCEPT ![s] = "flush"]
    /\ UNCHANGED <<link, closing, inbox, breaks, routed, pending, mailbox, ppc,
                   histVars>>

SubscribeRefused(s) ==
    /\ spc[s] = "absent"
    /\ link[At[s]] = "closed" \/ ~IsOpen(At[s])
    /\ spc' = [spc EXCEPT ![s] = "failed"]
    /\ UNCHANGED <<wireVars, routed, local, pending, mailbox, ppc, histVars>>

\* Mutation of SubscribeFlush: the stream starts before the server knows of it.
SubscribeUnflushed(s) ==
    /\ spc[s] = "flush"
    /\ spc' = [spc EXCEPT ![s] = "streaming"]
    /\ UNCHANGED <<wireVars, routed, local, pending, mailbox, ppc, histVars>>

SubscribeFlush(s) ==
    /\ spc[s] = "flush"
    /\ link[At[s]] # "closed"
    /\ Enqueue(At[s], Command("ping", s, {}))
    /\ spc' = [spc EXCEPT ![s] = "flushing"]
    /\ UNCHANGED <<link, closing, inbox, breaks, routed, local, pending, mailbox,
                   ppc, histVars>>

\* The flush fails, in time or because the request's context ends: close(done).
SubscribeFails(s) ==
    /\ \/ spc[s] = "flush" /\ link[At[s]] = "closed"
       \/ spc[s] = "flushing"
    /\ spc' = [spc EXCEPT ![s] = "undo"]
    /\ UNCHANGED <<wireVars, routed, local, pending, mailbox, ppc, histVars>>

\* The handler returns or the watcher sees the context done, and the first of
\* them closes done.
Leave(s) ==
    /\ spc[s] = "streaming"
    /\ spc' = [spc EXCEPT ![s] = "leaving"]
    /\ UNCHANGED <<wireVars, routed, local, pending, mailbox, ppc, histVars>>

\* Mutation of Unsubscribe: the failed subscription is left where it is.
UnsubscribeForgotten(s) ==
    /\ spc[s] \in {"undo", "leaving"}
    /\ spc' = [spc EXCEPT ![s] = IF @ = "undo" THEN "failed" ELSE "closed"]
    /\ UNCHANGED <<wireVars, routed, local, pending, mailbox, ppc, histVars>>

\* sub.Unsubscribe, after done is closed.  It is refused while the connection
\* drains.
Unsubscribe(s) ==
    /\ spc[s] \in {"undo", "leaving"}
    /\ spc' = [spc EXCEPT ![s] = IF @ = "undo" THEN "failed" ELSE "closed"]
    /\ IF s \in local /\ ~IsDraining(At[s])
       THEN /\ local' = local \ {s}
            /\ EnqueueIfUp(At[s], Command("unsub", NoOne, {s}))
            /\ Discard({s})
       ELSE UNCHANGED <<local, out, pending>>
    /\ UNCHANGED <<link, closing, inbox, breaks, routed, mailbox, ppc, histVars>>

-----------------------------------------------------------------------------
(* The callback and the stream handler                                     *)

\* Mutation of Offered: the channel is made one event too small.
OfferedToSmaller(n) == IF n + 1 < Cap THEN n + 1 ELSE n

\* Mutation of Offered: one event too many.
OfferedPastCap(n) == IF n <= Cap THEN n + 1 ELSE n

\* case ch <- event: default:
Offered(n) == IF n < Cap THEN n + 1 ELSE n

IsDone(s) == spc[s] \in {"undo", "failed", "leaving", "closed"}

\* select picks any case that is ready: done, if closed, or the channel.
Callback(s) ==
    /\ \E p \in pending[s] : pending' = [pending EXCEPT ![s] = @ \ {p}]
    /\ \/ mailbox' = [mailbox EXCEPT ![s] = Offered(@)]
       \/ IsDone(s) /\ UNCHANGED mailbox
    /\ UNCHANGED <<wireVars, routed, local, spc, ppc, histVars>>

\* The stream handler takes an event and reads the database: what it reads has
\* the commits of all who have begun to publish.
Receive(s) ==
    /\ spc[s] = "streaming"
    /\ mailbox[s] > 0
    /\ mailbox' = [mailbox EXCEPT ![s] = @ - 1]
    /\ heard' = [heard EXCEPT ![s] = {p \in Publishers : ppc[p] # "before"}]
    /\ UNCHANGED <<wireVars, routed, local, pending, spc, ppc, since>>

-----------------------------------------------------------------------------
(* The server and the client library                                       *)

\* The inboxes once the server has sent a publication to whom it concerns.
Sent(p) ==
    [c \in Conns |-> IF Of(c, routed) = {} THEN inbox[c]
                     ELSE Append(inbox[c], Command("msg", p, Of(c, routed)))]

Serve(c) ==
    /\ link[c] = "up"
    /\ out[c] # <<>>
    /\ out' = [out EXCEPT ![c] = Tail(@)]
    /\ LET command == Head(out[c])
       IN  \/ /\ command.op \in {"sub", "renew"}
              /\ routed' = routed \cup command.subs
              /\ UNCHANGED inbox
           \/ /\ command.op = "unsub"
              /\ routed' = routed \ command.subs
              /\ UNCHANGED inbox
           \/ /\ command.op = "pub"
              /\ inbox' = Sent(command.by)
              /\ UNCHANGED routed
           \/ /\ command.op = "ping"
              /\ inbox' = [inbox EXCEPT ![c] = Append(@, Command("pong", command.by, {}))]
              /\ UNCHANGED routed
    /\ UNCHANGED <<link, closing, breaks, local, pending, mailbox, spc, ppc, histVars>>

ReadMessage(c) ==
    /\ link[c] = "up"
    /\ inbox[c] # <<>>
    /\ Head(inbox[c]).op = "msg"
    /\ inbox' = [inbox EXCEPT ![c] = Tail(@)]
    /\ pending' = [s \in Subscribers |->
                      IF s \in Head(inbox[c]).subs \cap local
                      THEN pending[s] \cup {Head(inbox[c]).by} ELSE pending[s]]
    /\ UNCHANGED <<link, closing, out, breaks, routed, local, mailbox, spc, ppc, histVars>>

\* A pong ends the flush that waits for it, if one still does.
ReadPong(c) ==
    /\ link[c] = "up"
    /\ inbox[c] # <<>>
    /\ Head(inbox[c]).op = "pong"
    /\ inbox' = [inbox EXCEPT ![c] = Tail(@)]
    /\ LET x == Head(inbox[c]).by
       IN  /\ ppc' = [p \in Publishers |->
                         IF p = x /\ ppc[p] = "flushing" THEN "returned" ELSE ppc[p]]
           /\ spc' = [s \in Subscribers |->
                         IF s = x /\ spc[s] = "flushing" THEN "streaming" ELSE spc[s]]
    /\ UNCHANGED <<link, closing, out, breaks, routed, local, pending, mailbox, histVars>>

\* The event of p waits to leave its process.
Unsent(p) == \E i \in DOMAIN out[At[p]] : out[At[p]][i].op = "pub" /\ out[At[p]][i].by = p

\* The connection is gone and everything that was under way on it, and if it is
\* closed for good, its subscriptions too.
Drop(c, to) ==
    /\ link' = [link EXCEPT ![c] = to]
    /\ out' = [out EXCEPT ![c] = <<>>]
    /\ inbox' = [inbox EXCEPT ![c] = <<>>]
    /\ routed' = routed \ Of(c, Subscribers)
    /\ since' = [p \in Publishers |-> IF At[p] = c /\ Unsent(p) THEN {}
                                     ELSE since[p] \ Of(c, Subscribers)]
    /\ IF to = "closed"
       THEN local' = local \ Of(c, Subscribers) /\ Discard(Of(c, Subscribers))
       ELSE UNCHANGED <<local, pending>>

\* A draining connection is not made again.
Break(c) ==
    /\ link[c] = "up"
    /\ breaks < MaxBreaks
    /\ breaks' = breaks + 1
    /\ Drop(c, IF IsOpen(c) THEN "down" ELSE "closed")
    /\ UNCHANGED <<closing, mailbox, spc, ppc, heard>>

\* Subscriptions are renewed before what was kept meanwhile is sent.
Reconnect(c) ==
    /\ link[c] = "down"
    /\ link' = [link EXCEPT ![c] = "up"]
    /\ out' = [out EXCEPT ![c] = <<Command("renew", NoOne, Of(c, local))>> \o @]
    /\ UNCHANGED <<closing, inbox, breaks, subVars, ppc, histVars>>

\* After sixty attempts the library closes the connection for good.
GiveUp(c) ==
    /\ link[c] = "down"
    /\ Drop(c, "closed")
    /\ UNCHANGED <<closing, breaks, mailbox, spc, ppc, heard>>

-----------------------------------------------------------------------------
(* Close                                                                   *)

\* A connection that is down or closed cannot be drained and is closed at once.
CloseAtOnce(c) ==
    /\ c \in Closers
    /\ IsOpen(c)
    /\ link[c] # "up"
    /\ closing' = [closing EXCEPT ![c] = "returned"]
    /\ Drop(c, "closed")
    /\ UNCHANGED <<breaks, mailbox, spc, ppc, heard>>

Drain(c) ==
    /\ c \in Closers
    /\ IsOpen(c)
    /\ link[c] = "up"
    /\ closing' = [closing EXCEPT ![c] = "draining"]
    /\ Enqueue(c, Command("unsub", NoOne, Of(c, local)))
    /\ UNCHANGED <<link, inbox, breaks, subVars, ppc, histVars>>

\* The subscriptions have nothing pending and what was published is flushed, or
\* the time for it is over, or the connection broke: the library has closed it and
\* its ClosedHandler lets Close return, or Close closes it after its own timeout.
CloseReturns(c) ==
    /\ IsDraining(c)
    /\ closing' = [closing EXCEPT ![c] = "returned"]
    /\ Drop(c, "closed")
    /\ UNCHANGED <<breaks, mailbox, spc, ppc, heard>>

-----------------------------------------------------------------------------
Finished ==
    /\ \A p \in Publishers : ppc[p] \in {"returned", "failed"}
    /\ \A s \in Subscribers : spc[s] \in {"failed", "closed"}
    /\ \A c \in Conns : out[c] = <<>> /\ inbox[c] = <<>>
    /\ UNCHANGED vars

Next ==
    \/ \E p \in Publishers :
        PublishCall(p) \/ PublishRefused(p) \/ PublishFlush(p) \/ PublishFails(p)
    \/ \E s \in Subscribers :
        \/ Subscribe(s) \/ SubscribeRefused(s) \/ SubscribeFlush(s) \/ SubscribeFails(s)
        \/ Leave(s) \/ Unsubscribe(s) \/ Callback(s) \/ Receive(s)
    \/ \E c \in Conns :
        \/ Serve(c) \/ ReadMessage(c) \/ ReadPong(c)
        \/ Break(c) \/ Reconnect(c) \/ GiveUp(c)
        \/ CloseAtOnce(c) \/ Drain(c) \/ CloseReturns(c)
    \/ Finished

(***************************************************************************)
(* The server, the client library and the handlers run; a broken connection*)
(* comes back or is given up.  None need break or be closed, and no client *)
(* need leave.                                                             *)
(***************************************************************************)
Fairness ==
    /\ \A c \in Conns : WF_vars(Serve(c)) /\ WF_vars(ReadMessage(c) \/ ReadPong(c))
                           /\ WF_vars(Reconnect(c) \/ GiveUp(c))
    /\ \A s \in Subscribers :
        WF_vars(Callback(s)) /\ WF_vars(Receive(s)) /\ WF_vars(Unsubscribe(s))

Spec == Init /\ [][Next]_vars /\ Fairness

-----------------------------------------------------------------------------
(* Safety                                                                  *)

\* The connection of c is about to renew subscription s.
Renewing(c, s) ==
    \/ link[c] = "down"
    \/ \E i \in DOMAIN out[c] : out[c][i].op = "renew" /\ s \in out[c][i].subs

\* A stream whose Subscribe has returned is known to the server, except between
\* a break and the renewal or once its connection was given up: its first
\* snapshot cannot be older than the moment from which it hears of changes
\* (nats.go:71-75; app.go:148-157).
OpenMeansRouted ==
    \A s \in Subscribers :
        spc[s] = "streaming" /\ IsOpen(At[s]) /\ link[At[s]] # "closed"
            => s \in routed \/ Renewing(At[s], s)

\* The event of p still is on its way to stream s.
OnItsWay(p, s) ==
    \/ Unsent(p)
    \/ \E i \in DOMAIN inbox[At[s]] :
        LET command == inbox[At[s]][i]
        IN  command.op = "msg" /\ command.by = p /\ s \in command.subs
    \/ p \in pending[s]

\* An open stream hears of every publication begun while the server knew it, in
\* this process or another, unless a break took the event before the server had it
\* or after it was sent to the stream: the event is on its way, or the mailbox has
\* an event and the stream will read again, or it has read since the publication
\* began.  This is so too when Publish reported an error after the event was sent,
\* and when events were dropped (nats.go:47-67).
NothingUnheard ==
    \A p \in Publishers : \A s \in since[p] :
        spc[s] = "streaming" /\ IsOpen(At[s])
            => OnItsWay(p, s) \/ mailbox[s] > 0 \/ p \in heard[s]

\* When Publish returns nil its event no longer waits in the process: closing the
\* bus afterwards cannot lose it (nats.go:47-52, 97-113).
AckedHasLeft == \A p \in Publishers : ppc[p] = "returned" => ~Unsent(p)

\* A subscription that failed or ended is forgotten by the client library, so
\* that it neither goes on filling a channel nobody reads nor comes back with
\* the next connection (nats.go:71-83).
EndedIsForgotten ==
    \A s \in Subscribers : spc[s] \in {"failed", "closed"} /\ ~IsDraining(At[s])
        => s \notin local /\ AtMostOne(pending[s])

-----------------------------------------------------------------------------
(* Liveness                                                                *)

\* And the server forgets it, whatever happens to the connection meanwhile.
ServerForgets ==
    \A s \in Subscribers : spc[s] \in {"failed", "closed"} ~> s \notin routed

\* Every stream comes to read each change published while it was open, unless it
\* ends or a break takes the event first (nats.go:47-67).
EveryoneHears ==
    \A p \in Publishers : \A s \in Subscribers :
        s \in since[p] ~> \/ p \in heard[s]
                          \/ spc[s] # "streaming" \/ ~IsOpen(At[s])
                          \/ s \notin since[p]
=============================================================================
