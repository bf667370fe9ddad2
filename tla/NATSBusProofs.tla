--------------------------- MODULE NATSBusProofs ---------------------------
(***************************************************************************)
(* The NATS bus for any number of processes, publishers and subscriptions, *)
(* channels of any capacity and any number of broken connections.          *)
(***************************************************************************)
EXTENDS NATSBus, TLAPS

LEMMA CommandTyped ==
    ASSUME NEW subs \in SUBSET Subscribers
    PROVE  /\ \A p \in Publishers : \A op \in {"pub", "msg"} : Command(op, p, subs) \in Commands
           /\ \A x \in Callers : \A op \in {"ping", "pong"} : Command(op, x, {}) \in Commands
           /\ \A op \in {"sub", "renew", "unsub"} : Command(op, NoOne, subs) \in Commands
  BY DEF Command, Commands

LEMMA OfferedTyped == \A n \in 0..Cap : Offered(n) \in 0..Cap
  BY NATSAssumption DEF Offered

\* Placing a command in a queue, and taking the first, leaves queues of commands.
LEMMA EnqueueTyped ==
    ASSUME TypeOK, NEW c \in Conns, NEW command \in Commands,
           Enqueue(c, command) \/ EnqueueIfUp(c, command)
    PROVE  out' \in [Conns -> Seq(Commands)]
<1>1. Append(out[c], command) \in Seq(Commands)
  BY DEF TypeOK
<1>. QED
  BY <1>1 DEF TypeOK, Enqueue, EnqueueIfUp

LEMMA DropTyped ==
    ASSUME TypeOK, NEW c \in Conns, NEW to \in {"down", "closed"}, Drop(c, to)
    PROVE  /\ link' \in [Conns -> {"up", "down", "closed"}]
           /\ out' \in [Conns -> Seq(Commands)]
           /\ inbox' \in [Conns -> Seq(Commands)]
           /\ routed' \subseteq Subscribers
           /\ since' \in [Publishers -> SUBSET Subscribers]
           /\ local' \subseteq Subscribers
           /\ pending' \in [Subscribers -> SUBSET Publishers]
<1>1. <<>> \in Seq(Commands)
  OBVIOUS
<1>. QED
  BY <1>1 DEF TypeOK, Drop, Discard

LEMMA TypeOKPublish ==
    ASSUME TypeOK, NEW p \in Publishers,
           PublishCall(p) \/ PublishRefused(p) \/ PublishFlush(p) \/ PublishFails(p)
    PROVE  TypeOK'
<1>. USE DEF wireVars, subVars, histVars
<1>1. At[p] \in Conns /\ p \in Callers
  BY NATSAssumption DEF Callers
<1>2. CASE PublishCall(p)
  <2>1. Command("pub", p, {}) \in Commands
    BY <1>1, CommandTyped
  <2>2. out' \in [Conns -> Seq(Commands)]
    BY <1>1, <1>2, <2>1, EnqueueTyped DEF PublishCall
  <2>. QED
    BY <1>2, <2>2 DEF TypeOK, PublishCall
<1>3. CASE PublishFlush(p)
  <2>1. Command("ping", p, {}) \in Commands
    BY <1>1, CommandTyped
  <2>2. out' \in [Conns -> Seq(Commands)]
    BY <1>1, <1>3, <2>1, EnqueueTyped DEF PublishFlush
  <2>. QED
    BY <1>3, <2>2 DEF TypeOK, PublishFlush
<1>4. CASE PublishRefused(p) \/ PublishFails(p)
  BY <1>4 DEF TypeOK, PublishRefused, PublishFails
<1>. QED
  BY <1>2, <1>3, <1>4

LEMMA TypeOKSubscribe ==
    ASSUME TypeOK, NEW s \in Subscribers,
           \/ Subscribe(s) \/ SubscribeRefused(s) \/ SubscribeFlush(s) \/ SubscribeFails(s)
           \/ Leave(s) \/ Unsubscribe(s) \/ Callback(s) \/ Receive(s)
    PROVE  TypeOK'
<1>. USE DEF wireVars, subVars, histVars
<1>1. At[s] \in Conns /\ s \in Callers
  BY NATSAssumption DEF Callers
<1>2. CASE Subscribe(s)
  <2>1. Command("sub", NoOne, {s}) \in Commands
    BY CommandTyped
  <2>2. out' \in [Conns -> Seq(Commands)]
    BY <1>1, <1>2, <2>1, EnqueueTyped DEF Subscribe
  <2>. QED
    BY <1>2, <2>2 DEF TypeOK, Subscribe
<1>3. CASE SubscribeFlush(s)
  <2>1. Command("ping", s, {}) \in Commands
    BY <1>1, CommandTyped
  <2>2. out' \in [Conns -> Seq(Commands)]
    BY <1>1, <1>3, <2>1, EnqueueTyped DEF SubscribeFlush
  <2>. QED
    BY <1>3, <2>2 DEF TypeOK, SubscribeFlush
<1>4. CASE Unsubscribe(s)
  <2>1. Command("unsub", NoOne, {s}) \in Commands
    BY CommandTyped
  <2>2. out' \in [Conns -> Seq(Commands)]
    BY <1>1, <1>4, <2>1, EnqueueTyped DEF Unsubscribe, TypeOK
  <2>. QED
    BY <1>4, <2>2 DEF TypeOK, Unsubscribe, Discard
<1>5. CASE Callback(s)
  <2>1. pending' \in [Subscribers -> SUBSET Publishers]
    BY <1>5 DEF TypeOK, Callback
  <2>2. mailbox[s] \in 0..Cap /\ Offered(mailbox[s]) \in 0..Cap
    BY OfferedTyped DEF TypeOK
  <2>3. mailbox' \in [Subscribers -> 0..Cap]
    BY <1>5, <2>2 DEF TypeOK, Callback
  <2>. QED
    BY <1>5, <2>1, <2>3 DEF TypeOK, Callback
<1>6. CASE Receive(s)
  BY <1>6, NATSAssumption DEF TypeOK, Receive
<1>7. CASE SubscribeRefused(s) \/ SubscribeFails(s) \/ Leave(s)
  BY <1>7 DEF TypeOK, SubscribeRefused, SubscribeFails, Leave
<1>. QED
  BY <1>2, <1>3, <1>4, <1>5, <1>6, <1>7

LEMMA TypeOKConnection ==
    ASSUME TypeOK, NEW c \in Conns,
           \/ Serve(c) \/ ReadMessage(c) \/ ReadPong(c)
           \/ Break(c) \/ Reconnect(c) \/ GiveUp(c)
           \/ CloseAtOnce(c) \/ Drain(c) \/ CloseReturns(c)
    PROVE  TypeOK'
<1>. USE DEF wireVars, subVars, histVars
<1>1. CASE Serve(c)
  <2>. DEFINE command == Head(out[c])
  <2>1. command \in Commands /\ Tail(out[c]) \in Seq(Commands)
    BY <1>1 DEF TypeOK, Serve
  <2>2. /\ command.subs \in SUBSET Subscribers
        /\ command.op = "pub" => command.by \in Publishers
        /\ command.op = "ping" => command.by \in Callers
    BY <2>1 DEF Commands
  <2>3. out' \in [Conns -> Seq(Commands)]
    BY <1>1, <2>1 DEF TypeOK, Serve
  <2>4. ASSUME command.op = "pub" PROVE Sent(command.by) \in [Conns -> Seq(Commands)]
    <3>1. \A d \in Conns : Command("msg", command.by, Of(d, routed)) \in Commands
      BY <2>2, <2>4, CommandTyped DEF Of, TypeOK
    <3>. QED
      BY <3>1 DEF Sent, TypeOK
  <2>5. ASSUME command.op = "ping"
        PROVE  [inbox EXCEPT ![c] = Append(@, Command("pong", command.by, {}))]
                 \in [Conns -> Seq(Commands)]
    <3>1. Command("pong", command.by, {}) \in Commands
      BY <2>2, <2>5, CommandTyped
    <3>. QED
      BY <3>1 DEF TypeOK
  <2>6. inbox' \in [Conns -> Seq(Commands)]
    <3>1. CASE command.op = "pub" /\ inbox' = Sent(command.by)
      BY <2>4, <3>1
    <3>2. CASE command.op = "ping" /\ inbox' = [inbox EXCEPT ![c] = Append(@, Command("pong", command.by, {}))]
      BY <2>5, <3>2
    <3>3. CASE UNCHANGED inbox
      BY <3>3 DEF TypeOK
    <3>. QED
      BY <1>1, <3>1, <3>2, <3>3 DEF Serve
  <2>7. routed' \subseteq Subscribers
    BY <1>1, <2>2 DEF Serve, TypeOK
  <2>. QED
    BY <1>1, <2>3, <2>6, <2>7 DEF TypeOK, Serve
<1>2. CASE ReadMessage(c)
  <2>1. Head(inbox[c]) \in Commands /\ Tail(inbox[c]) \in Seq(Commands)
    BY <1>2 DEF TypeOK, ReadMessage
  <2>2. inbox' \in [Conns -> Seq(Commands)]
    BY <1>2, <2>1 DEF TypeOK, ReadMessage
  <2>3. Head(inbox[c]).by \in Publishers
    BY <1>2, <2>1 DEF Commands, ReadMessage
  <2>4. pending' \in [Subscribers -> SUBSET Publishers]
    BY <1>2, <2>3 DEF TypeOK, ReadMessage
  <2>. QED
    BY <1>2, <2>2, <2>4 DEF TypeOK, ReadMessage
<1>3. CASE ReadPong(c)
  <2>1. Tail(inbox[c]) \in Seq(Commands)
    BY <1>3 DEF TypeOK, ReadPong
  <2>2. inbox' \in [Conns -> Seq(Commands)]
    BY <1>3, <2>1 DEF TypeOK, ReadPong
  <2>. QED
    BY <1>3, <2>2 DEF TypeOK, ReadPong
<1>4. CASE Break(c)
  <2>1. \E to \in {"down", "closed"} : Drop(c, to)
    BY <1>4 DEF Break
  <2>2. breaks' \in 0..MaxBreaks
    BY <1>4, NATSAssumption DEF TypeOK, Break
  <2>. QED
    BY <1>4, <2>1, <2>2, DropTyped DEF TypeOK, Break
<1>5. CASE Reconnect(c)
  <2>1. <<Command("renew", NoOne, Of(c, local))>> \o out[c] \in Seq(Commands)
    <3>1. Command("renew", NoOne, Of(c, local)) \in Commands
      BY CommandTyped DEF TypeOK, Of
    <3>. QED
      BY <3>1 DEF TypeOK
  <2>2. out' \in [Conns -> Seq(Commands)]
    BY <1>5, <2>1 DEF TypeOK, Reconnect
  <2>. QED
    BY <1>5, <2>2 DEF TypeOK, Reconnect
<1>6. CASE GiveUp(c) \/ CloseAtOnce(c) \/ CloseReturns(c)
  <2>1. Drop(c, "closed")
    BY <1>6 DEF GiveUp, CloseAtOnce, CloseReturns
  <2>2. closing' \in [Conns -> {"no", "draining", "returned"}]
    BY <1>6 DEF TypeOK, GiveUp, CloseAtOnce, CloseReturns
  <2>3. UNCHANGED <<breaks, mailbox, spc, ppc, heard>>
    BY <1>6 DEF GiveUp, CloseAtOnce, CloseReturns
  <2>. QED
    BY <2>1, <2>2, <2>3, DropTyped DEF TypeOK
<1>7. CASE Drain(c)
  <2>1. Command("unsub", NoOne, Of(c, local)) \in Commands
    BY CommandTyped DEF TypeOK, Of
  <2>2. out' \in [Conns -> Seq(Commands)]
    BY <1>7, <2>1, EnqueueTyped DEF Drain
  <2>. QED
    BY <1>7, <2>2 DEF TypeOK, Drain
<1>. QED
  BY <1>1, <1>2, <1>3, <1>4, <1>5, <1>6, <1>7

LEMMA TypeOKKept == TypeOK /\ [Next]_vars => TypeOK'
<1>. SUFFICES ASSUME TypeOK, [Next]_vars PROVE TypeOK'
  OBVIOUS
<1>1. CASE UNCHANGED vars
  BY <1>1 DEF TypeOK, vars, wireVars, subVars, histVars
<1>. QED
  BY <1>1, TypeOKPublish, TypeOKSubscribe, TypeOKConnection DEF Next, Finished

\* The state of the bus has its types, mailboxes within their capacity.
THEOREM NATSTypeCorrect == Spec => []TypeOK
<1>1. Init => TypeOK
  <2>1. <<>> \in Seq(Commands)
    OBVIOUS
  <2>. QED
    BY <2>1, NATSAssumption DEF Init, TypeOK
<1>. QED
  BY <1>1, TypeOKKept, PTL DEF Spec

-----------------------------------------------------------------------------
(***************************************************************************)
(* What the client library knows of a subscription: nothing before it is   *)
(* made, nothing once the connection is closed for good, and nothing once  *)
(* it has ended, unless the connection drains and would not let go of it.  *)
(***************************************************************************)
KnownRightly(s) ==
    /\ s \notin local => AtMostOne(pending[s])
    /\ spc[s] = "absent" => s \notin local
    /\ spc[s] \in {"failed", "closed"} /\ ~IsDraining(At[s]) => s \notin local
    /\ link[At[s]] = "closed" \/ closing[At[s]] = "returned" => s \notin local

LocalInv == TypeOK /\ \A s \in Subscribers : KnownRightly(s)

\* A connection that ends is either to come back, and no subscription is
\* forgotten, or is closed for good, and all of its subscriptions are.
LEMMA DropKeepsKnown ==
    ASSUME LocalInv, NEW c \in Conns, NEW to \in {"down", "closed"}, Drop(c, to),
           UNCHANGED spc,
           \/ UNCHANGED closing /\ to = "closed"
           \/ UNCHANGED closing /\ to = "down"
           \/ closing' = [closing EXCEPT ![c] = "returned"] /\ to = "closed"
    PROVE  \A s \in Subscribers : KnownRightly(s)'
<1>. SUFFICES ASSUME NEW s \in Subscribers PROVE KnownRightly(s)'
  OBVIOUS
<1>1. TypeOK /\ KnownRightly(s) /\ At[s] \in Conns
  BY NATSAssumption DEF LocalInv, Callers
<1>2. link' = [link EXCEPT ![c] = to]
  BY DEF Drop
<1>3. CASE At[s] = c /\ to = "closed"
  <2>1. s \notin local' /\ AtMostOne(pending'[s])
    BY <1>3 DEF Drop, Discard, Of
  <2>. QED
    BY <2>1 DEF KnownRightly, AtMostOne
<1>4. CASE At[s] = c /\ to = "down"
  BY <1>1, <1>2, <1>4 DEF Drop, KnownRightly, TypeOK, AtMostOne, IsDraining
<1>5. CASE At[s] # c
  <2>1. pending'[s] = pending[s] /\ (s \in local' <=> s \in local)
    BY <1>5 DEF Drop, Discard, Of
  <2>2. link'[At[s]] = link[At[s]] /\ closing'[At[s]] = closing[At[s]]
    BY <1>1, <1>2, <1>5 DEF TypeOK
  <2>. QED
    BY <1>1, <2>1, <2>2 DEF KnownRightly, AtMostOne, IsDraining
<1>. QED
  BY <1>3, <1>4, <1>5

LEMMA LocalInvKept == LocalInv /\ [Next]_vars => LocalInv'
<1>. SUFFICES ASSUME LocalInv, [Next]_vars PROVE LocalInv'
  OBVIOUS
<1>. USE DEF wireVars, subVars, histVars
<1>1. TypeOK /\ TypeOK'
  BY TypeOKKept DEF LocalInv
<1>2. \A s \in Subscribers : At[s] \in Conns
  BY NATSAssumption DEF Callers
<1>3. ASSUME UNCHANGED <<local, pending, spc, link, closing>> PROVE LocalInv'
  BY <1>1, <1>3 DEF LocalInv, KnownRightly, AtMostOne, IsDraining
<1>4. ASSUME NEW p \in Publishers,
             PublishCall(p) \/ PublishRefused(p) \/ PublishFlush(p) \/ PublishFails(p)
      PROVE  LocalInv'
  BY <1>3, <1>4 DEF PublishCall, PublishRefused, PublishFlush, PublishFails
<1>5. ASSUME NEW s \in Subscribers, Subscribe(s) PROVE LocalInv'
  BY <1>1, <1>2, <1>5 DEF LocalInv, KnownRightly, TypeOK, Subscribe, AtMostOne, IsDraining, IsOpen
<1>6. ASSUME NEW s \in Subscribers,
             SubscribeRefused(s) \/ SubscribeFlush(s) \/ SubscribeFails(s) \/ Leave(s)
      PROVE  LocalInv'
  <2>1. UNCHANGED <<local, pending, link, closing>>
    BY <1>6 DEF SubscribeRefused, SubscribeFlush, SubscribeFails, Leave
  <2>2. /\ \A u \in Subscribers \ {s} : spc'[u] = spc[u]
        /\ spc'[s] # "absent"
        /\ spc'[s] \in {"failed", "closed"} => spc[s] = "absent"
    BY <1>1, <1>6 DEF TypeOK, SubscribeRefused, SubscribeFlush, SubscribeFails, Leave
  <2>. QED
    BY <1>1, <2>1, <2>2 DEF LocalInv, KnownRightly, AtMostOne, IsDraining
<1>7. ASSUME NEW s \in Subscribers, Unsubscribe(s) PROVE LocalInv'
  <2>1. UNCHANGED <<link, closing>>
    BY <1>7 DEF Unsubscribe
  <2>2. /\ \A u \in Subscribers \ {s} :
             spc'[u] = spc[u] /\ pending'[u] = pending[u] /\ (u \in local' <=> u \in local)
        /\ spc'[s] # "absent"
    BY <1>1, <1>7 DEF TypeOK, Unsubscribe, Discard
  <2>3. s \in local' => s \in local /\ IsDraining(At[s])
    BY <1>7 DEF Unsubscribe
  <2>4. s \notin local' => AtMostOne(pending'[s])
    BY <1>7 DEF Unsubscribe, Discard, LocalInv, KnownRightly, AtMostOne
  <2>5. \A u \in Subscribers \ {s} : KnownRightly(u)'
    BY <2>1, <2>2 DEF LocalInv, KnownRightly, AtMostOne, IsDraining
  <2>6. KnownRightly(s)'
    BY <2>1, <2>2, <2>3, <2>4 DEF LocalInv, KnownRightly, AtMostOne, IsDraining
  <2>. QED
    BY <1>1, <2>5, <2>6 DEF LocalInv
<1>8. ASSUME NEW s \in Subscribers, Callback(s) \/ Receive(s) PROVE LocalInv'
  <2>1. UNCHANGED <<local, spc, link, closing>>
    BY <1>8 DEF Callback, Receive
  <2>2. \A u \in Subscribers : pending'[u] \subseteq pending[u]
    <3>1. CASE Callback(s)
      <4>1. PICK p \in pending[s] : pending' = [pending EXCEPT ![s] = @ \ {p}]
        BY <3>1 DEF Callback
      <4>. QED
        BY <1>1, <4>1 DEF TypeOK
    <3>2. CASE Receive(s)
      BY <3>2 DEF Receive
    <3>. QED
      BY <1>8, <3>1, <3>2
  <2>. QED
    BY <1>1, <2>1, <2>2 DEF LocalInv, KnownRightly, AtMostOne, IsDraining
<1>9. ASSUME NEW c \in Conns, Serve(c) PROVE LocalInv'
  BY <1>3, <1>9 DEF Serve
<1>10. ASSUME NEW c \in Conns, ReadMessage(c) PROVE LocalInv'
  <2>1. UNCHANGED <<local, spc, link, closing>>
    BY <1>10 DEF ReadMessage
  <2>2. \A u \in Subscribers : u \notin local => pending'[u] = pending[u]
    BY <1>10 DEF ReadMessage
  <2>. QED
    BY <1>1, <2>1, <2>2 DEF LocalInv, KnownRightly, AtMostOne, IsDraining
<1>11. ASSUME NEW c \in Conns, ReadPong(c) PROVE LocalInv'
  <2>1. UNCHANGED <<local, pending, link, closing>>
    BY <1>11 DEF ReadPong
  <2>2. \A u \in Subscribers : spc'[u] = spc[u] \/ spc'[u] = "streaming"
    BY <1>11 DEF ReadPong
  <2>. QED
    BY <1>1, <2>1, <2>2 DEF LocalInv, KnownRightly, AtMostOne, IsDraining
<1>12. ASSUME NEW c \in Conns, Break(c) \/ GiveUp(c) \/ CloseAtOnce(c) \/ CloseReturns(c)
       PROVE  LocalInv'
  <2>1. UNCHANGED spc
    BY <1>12 DEF Break, GiveUp, CloseAtOnce, CloseReturns
  <2>2. PICK to \in {"down", "closed"} :
          /\ Drop(c, to)
          /\ \/ UNCHANGED closing
             \/ closing' = [closing EXCEPT ![c] = "returned"] /\ to = "closed"
    BY <1>12 DEF Break, GiveUp, CloseAtOnce, CloseReturns
  <2>3. \A s \in Subscribers : KnownRightly(s)'
    BY <2>1, <2>2, DropKeepsKnown
  <2>. QED
    BY <1>1, <2>3 DEF LocalInv
<1>13. ASSUME NEW c \in Conns, Reconnect(c) PROVE LocalInv'
  <2>1. UNCHANGED <<local, pending, spc, closing>>
    BY <1>13 DEF Reconnect
  <2>2. \A d \in Conns : link'[d] = "closed" => link[d] = "closed"
    BY <1>1, <1>13 DEF TypeOK, Reconnect
  <2>. QED
    BY <1>1, <1>2, <2>1, <2>2 DEF LocalInv, KnownRightly, AtMostOne, IsDraining
<1>14. ASSUME NEW c \in Conns, Drain(c) PROVE LocalInv'
  <2>1. UNCHANGED <<local, pending, spc, link>>
    BY <1>14 DEF Drain
  <2>2. \A d \in Conns : closing'[d] = closing[d] \/ (closing[d] = "no" /\ closing'[d] = "draining")
    BY <1>1, <1>14 DEF TypeOK, Drain, IsOpen
  <2>. QED
    BY <1>1, <1>2, <2>1, <2>2 DEF LocalInv, KnownRightly, AtMostOne, IsDraining
<1>15. CASE UNCHANGED vars
  BY <1>3, <1>15 DEF vars
<1>. QED
  BY <1>4, <1>5, <1>6, <1>7, <1>8, <1>9, <1>10, <1>11, <1>12, <1>13, <1>14, <1>15
     DEF Next, Finished

\* A subscription that failed or ended is forgotten by the client library, across
\* any number of breaks, renewals and a shutdown.
THEOREM EndedAlwaysForgotten == Spec => []EndedIsForgotten
<1>1. Init => LocalInv
  <2>. SUFFICES ASSUME Init PROVE LocalInv
    OBVIOUS
  <2>1. <<>> \in Seq(Commands)
    OBVIOUS
  <2>2. TypeOK
    BY <2>1, NATSAssumption DEF Init, TypeOK
  <2>3. \A s \in Subscribers : KnownRightly(s)
    BY DEF Init, KnownRightly, AtMostOne
  <2>. QED
    BY <2>2, <2>3 DEF LocalInv
<1>2. LocalInv => EndedIsForgotten
  BY DEF LocalInv, KnownRightly, EndedIsForgotten
<1>. QED
  BY <1>1, <1>2, LocalInvKept, PTL DEF Spec

-----------------------------------------------------------------------------
(* Queues, and sets of commands in them                                    *)

\* Queue q has a command of S; in q, commands of S are ahead of those of T.
Has(q, S) == \E i \in DOMAIN q : q[i] \in S
Ahead(q, S, T) == \A i, j \in DOMAIN q : q[i] \in S /\ q[j] \in T => i < j

LEMMA HasNothing == \A S, T : ~Has(<<>>, S) /\ Ahead(<<>>, S, T)
  BY DEF Has, Ahead

LEMMA HasLarger ==
    ASSUME NEW q, NEW S, NEW T, S \subseteq T, Has(q, S)
    PROVE  Has(q, T)
  BY DEF Has

LEMMA HasAppend ==
    ASSUME NEW q \in Seq(Commands), NEW command \in Commands, NEW S
    PROVE  Has(Append(q, command), S) <=> Has(q, S) \/ command \in S
<1>. DEFINE r == Append(q, command)
<1>1. /\ Len(q) \in Nat /\ DOMAIN q = 1..Len(q) /\ DOMAIN r = 1..(Len(q) + 1)
      /\ r[Len(q) + 1] = command /\ \A i \in 1..Len(q) : r[i] = q[i]
  OBVIOUS
<1>. QED
  BY <1>1 DEF Has

LEMMA AheadAppend ==
    ASSUME NEW q \in Seq(Commands), NEW command \in Commands, NEW S, NEW T,
           Ahead(q, S, T), command \in S => ~Has(q, T) /\ command \notin T
    PROVE  Ahead(Append(q, command), S, T)
<1>. DEFINE r == Append(q, command)
<1>1. /\ Len(q) \in Nat /\ DOMAIN q = 1..Len(q) /\ DOMAIN r = 1..(Len(q) + 1)
      /\ r[Len(q) + 1] = command /\ \A i \in 1..Len(q) : r[i] = q[i]
  OBVIOUS
<1>. QED
  BY <1>1 DEF Has, Ahead

LEMMA TailOfQueue ==
    ASSUME NEW q \in Seq(Commands), q # <<>>
    PROVE  /\ Len(q) \in Nat \ {0} /\ DOMAIN q = 1..Len(q)
           /\ DOMAIN Tail(q) = 1..(Len(q) - 1)
           /\ \A i \in 1..(Len(q) - 1) : Tail(q)[i] = q[i + 1]
           /\ Head(q) = q[1]
  OBVIOUS

LEMMA HasTail ==
    ASSUME NEW q \in Seq(Commands), q # <<>>, NEW S
    PROVE  Has(q, S) <=> Has(Tail(q), S) \/ Head(q) \in S
<1>. DEFINE r == Tail(q)
<1>1. /\ Len(q) \in Nat \ {0} /\ DOMAIN q = 1..Len(q) /\ DOMAIN r = 1..(Len(q) - 1)
      /\ \A i \in 1..(Len(q) - 1) : r[i] = q[i + 1]
      /\ Head(q) = q[1]
  BY TailOfQueue
<1>. HIDE DEF r
<1>2. ASSUME Has(r, S) PROVE Has(q, S)
  BY <1>1, <1>2 DEF Has
<1>3. ASSUME Head(q) \in S PROVE Has(q, S)
  BY <1>1, <1>3 DEF Has
<1>4. ASSUME Has(q, S), Head(q) \notin S PROVE Has(r, S)
  <2>1. PICK i \in DOMAIN q : q[i] \in S
    BY <1>4 DEF Has
  <2>2. i - 1 \in DOMAIN r /\ r[i - 1] = q[i]
    BY <1>1, <1>4, <2>1
  <2>. QED
    BY <2>1, <2>2 DEF Has
<1>. QED
  BY <1>2, <1>3, <1>4 DEF r

LEMMA AheadTail ==
    ASSUME NEW q \in Seq(Commands), q # <<>>, NEW S, NEW T, Ahead(q, S, T)
    PROVE  /\ Ahead(Tail(q), S, T)
           /\ Head(q) \in T => ~Has(q, S)
<1>. DEFINE r == Tail(q)
<1>1. /\ Len(q) \in Nat \ {0} /\ DOMAIN q = 1..Len(q) /\ DOMAIN r = 1..(Len(q) - 1)
      /\ \A i \in 1..(Len(q) - 1) : r[i] = q[i + 1]
      /\ Head(q) = q[1]
  BY TailOfQueue
<1>. HIDE DEF r
<1>2. Ahead(r, S, T)
  BY <1>1 DEF Ahead
<1>3. Head(q) \in T => ~Has(q, S)
  BY <1>1 DEF Has, Ahead
<1>. QED
  BY <1>2, <1>3 DEF r

LEMMA FrontOfQueue ==
    ASSUME NEW q \in Seq(Commands), NEW command \in Commands
    PROVE  /\ Len(q) \in Nat /\ DOMAIN q = 1..Len(q)
           /\ DOMAIN (<<command>> \o q) = 1..(Len(q) + 1)
           /\ (<<command>> \o q)[1] = command
           /\ \A i \in 1..Len(q) : (<<command>> \o q)[i + 1] = q[i]
           /\ \A i \in 2..(Len(q) + 1) : i - 1 \in 1..Len(q) /\ (<<command>> \o q)[i] = q[i - 1]
<1>. DEFINE r == <<command>> \o q
<1>1. <<command>> \in Seq(Commands) /\ Len(<<command>>) = 1 /\ <<command>>[1] = command
  OBVIOUS
<1>2. Len(q) \in Nat /\ DOMAIN q = 1..Len(q)
  OBVIOUS
<1>3. r \in Seq(Commands) /\ Len(r) = Len(q) + 1
  BY <1>1, <1>2
<1>4. \A i \in 1..(Len(q) + 1) : r[i] = IF i <= 1 THEN <<command>>[i] ELSE q[i - 1]
  BY <1>1, <1>2
<1>5. DOMAIN r = 1..(Len(q) + 1)
  BY <1>3
<1>6. r[1] = command
  BY <1>1, <1>2, <1>4
<1>7. \A i \in 2..(Len(q) + 1) : i - 1 \in 1..Len(q) /\ r[i] = q[i - 1]
  BY <1>2, <1>4
<1>8. \A i \in 1..Len(q) : r[i + 1] = q[i]
  BY <1>2, <1>4
<1>. HIDE DEF r
<1>. QED
  BY <1>2, <1>5, <1>6, <1>7, <1>8 DEF r

LEMMA HasInFront ==
    ASSUME NEW q \in Seq(Commands), NEW command \in Commands, NEW S
    PROVE  Has(<<command>> \o q, S) <=> Has(q, S) \/ command \in S
<1>. DEFINE r == <<command>> \o q
<1>1. /\ Len(q) \in Nat /\ DOMAIN q = 1..Len(q) /\ DOMAIN r = 1..(Len(q) + 1)
      /\ r[1] = command
      /\ \A i \in 1..Len(q) : r[i + 1] = q[i]
      /\ \A i \in 2..(Len(q) + 1) : i - 1 \in 1..Len(q) /\ r[i] = q[i - 1]
  BY FrontOfQueue
<1>. HIDE DEF r
<1>2. ASSUME Has(q, S) PROVE Has(r, S)
  BY <1>1, <1>2 DEF Has
<1>3. ASSUME command \in S PROVE Has(r, S)
  BY <1>1, <1>3 DEF Has
<1>4. ASSUME Has(r, S), command \notin S PROVE Has(q, S)
  <2>1. PICK i \in DOMAIN r : r[i] \in S
    BY <1>4 DEF Has
  <2>2. i - 1 \in DOMAIN q /\ r[i] = q[i - 1]
    BY <1>1, <1>4, <2>1
  <2>. QED
    BY <2>1, <2>2 DEF Has
<1>. QED
  BY <1>2, <1>3, <1>4 DEF r

LEMMA AheadInFront ==
    ASSUME NEW q \in Seq(Commands), NEW command \in Commands, NEW S, NEW T,
           Ahead(q, S, T), command \notin T
    PROVE  Ahead(<<command>> \o q, S, T)
<1>. DEFINE r == <<command>> \o q
<1>1. /\ Len(q) \in Nat /\ DOMAIN q = 1..Len(q) /\ DOMAIN r = 1..(Len(q) + 1)
      /\ r[1] = command
      /\ \A i \in 2..(Len(q) + 1) : i - 1 \in 1..Len(q) /\ r[i] = q[i - 1]
  BY FrontOfQueue
<1>. HIDE DEF r
<1>. SUFFICES ASSUME NEW i \in DOMAIN r, NEW j \in DOMAIN r, r[i] \in S, r[j] \in T
              PROVE  i < j
  BY DEF Ahead, r
<1>2. j # 1 /\ j - 1 \in DOMAIN q /\ r[j] = q[j - 1]
  BY <1>1
<1>3. CASE i = 1
  BY <1>1, <1>2, <1>3
<1>4. CASE i # 1
  <2>1. i - 1 \in DOMAIN q /\ r[i] = q[i - 1]
    BY <1>1, <1>4
  <2>2. i - 1 < j - 1
    BY <1>2, <2>1 DEF Ahead
  <2>. QED
    BY <1>1, <2>2
<1>. QED
  BY <1>3, <1>4

-----------------------------------------------------------------------------
(***************************************************************************)
(* Why a flush tells that the event has left: in a queue, a ping is behind *)
(* the publication it was sent after, and a pong exists only when the      *)
(* server has passed both.                                                 *)
(***************************************************************************)
\* What x published, its pings and its pongs.
Calls(op, x) == {y \in Commands : y.op = op /\ y.by = x}

Holds(q, op, p) == Has(q, Calls(op, p))

\* In q, what p published is ahead of its ping.
InOrder(q, p) == Ahead(q, Calls("pub", p), Calls("ping", p))

LEMMA HoldsAppend ==
    ASSUME NEW q \in Seq(Commands), NEW command \in Commands, NEW p, NEW op
    PROVE  /\ Holds(Append(q, command), op, p)
                <=> Holds(q, op, p) \/ (command.op = op /\ command.by = p)
           /\ InOrder(q, p) /\ (command.op = "pub" /\ command.by = p => ~Holds(q, "ping", p))
                => InOrder(Append(q, command), p)
<1>1. \A o : command \in Calls(o, p) <=> command.op = o /\ command.by = p
  BY DEF Calls
<1>2. Holds(Append(q, command), op, p) <=> Holds(q, op, p) \/ command \in Calls(op, p)
  BY HasAppend DEF Holds
<1>3. ASSUME InOrder(q, p), command \in Calls("pub", p) => ~Holds(q, "ping", p)
      PROVE  InOrder(Append(q, command), p)
  <2>1. command \in Calls("pub", p) => command \notin Calls("ping", p)
    BY <1>1
  <2>. QED
    BY <1>3, <2>1, AheadAppend DEF Holds, InOrder
<1>. QED
  BY <1>1, <1>2, <1>3

LEMMA HoldsTail ==
    ASSUME NEW q \in Seq(Commands), q # <<>>, NEW p, NEW op
    PROVE  /\ Holds(Tail(q), op, p) => Holds(q, op, p)
           /\ InOrder(q, p) => InOrder(Tail(q), p)
           /\ InOrder(q, p) /\ Head(q).op = "ping" /\ Head(q).by = p => ~Holds(q, "pub", p)
<1>1. Head(q).op = "ping" /\ Head(q).by = p => Head(q) \in Calls("ping", p)
  BY DEF Calls
<1>2. Holds(Tail(q), op, p) => Holds(q, op, p)
  BY HasTail DEF Holds
<1>3. InOrder(q, p) => InOrder(Tail(q), p) /\ (Head(q) \in Calls("ping", p) => ~Holds(q, "pub", p))
  BY AheadTail DEF Holds, InOrder
<1>. QED
  BY <1>1, <1>2, <1>3

LEMMA HoldsRenewed ==
    ASSUME NEW q \in Seq(Commands), NEW command \in Commands, command.op = "renew", NEW p
    PROVE  /\ \A op \in {"pub", "ping"} : Holds(<<command>> \o q, op, p) <=> Holds(q, op, p)
           /\ InOrder(q, p) => InOrder(<<command>> \o q, p)
<1>1. \A op \in {"pub", "ping"} : command \notin Calls(op, p)
  BY DEF Calls
<1>. QED
  BY <1>1, HasInFront, AheadInFront DEF Holds, InOrder

\* How far the flush of p has come, and what is in the queues then.
FlushInv(p) ==
    /\ ppc[p] = "before" => ~Holds(out[At[p]], "pub", p)
    /\ \A c \in Conns :
        /\ Holds(out[c], "ping", p) => c = At[p] /\ ppc[p] \notin {"before", "flush"}
        /\ Holds(inbox[c], "pong", p)
            => ppc[p] \notin {"before", "flush"} /\ ~Holds(out[At[p]], "pub", p)
    /\ InOrder(out[At[p]], p)
    /\ ppc[p] = "returned" => ~Holds(out[At[p]], "pub", p)

AckInv == TypeOK /\ \A p \in Publishers : FlushInv(p)

\* Queues in which nothing of p's appears leave p's flush where it is.
LEMMA FlushKept ==
    ASSUME NEW p \in Publishers, At[p] \in Conns, FlushInv(p), ppc'[p] = ppc[p],
           \A c \in Conns : /\ Holds(out'[c], "pub", p) => Holds(out[c], "pub", p)
                            /\ Holds(out'[c], "ping", p) => Holds(out[c], "ping", p)
                            /\ InOrder(out[c], p) => InOrder(out'[c], p),
           \A c \in Conns : Holds(inbox'[c], "pong", p) => Holds(inbox[c], "pong", p)
    PROVE  FlushInv(p)'
  BY DEF FlushInv

\* A command that is not p's does.
LEMMA OthersEnqueue ==
    ASSUME AckInv, NEW p \in Publishers, NEW c \in Conns, NEW command \in Commands,
           command.op \in {"pub", "ping"} => command.by # p,
           Enqueue(c, command) \/ EnqueueIfUp(c, command),
           UNCHANGED inbox, ppc'[p] = ppc[p]
    PROVE  FlushInv(p)'
<1>1. FlushInv(p) /\ At[p] \in Conns
  BY NATSAssumption DEF AckInv, Callers
<1>2. out \in [Conns -> Seq(Commands)]
  BY DEF AckInv, TypeOK
<1>3. ASSUME NEW d \in Conns
      PROVE  /\ Holds(out'[d], "pub", p) => Holds(out[d], "pub", p)
             /\ Holds(out'[d], "ping", p) => Holds(out[d], "ping", p)
             /\ InOrder(out[d], p) => InOrder(out'[d], p)
  <2>1. out[d] \in Seq(Commands)
    BY <1>2
  <2>2. out'[d] = out[d] \/ out'[d] = Append(out[d], command)
    BY <1>2 DEF Enqueue, EnqueueIfUp
  <2>3. CASE out'[d] = Append(out[d], command)
    <3>1. Holds(Append(out[d], command), "pub", p) => Holds(out[d], "pub", p)
      BY <2>1, HoldsAppend
    <3>2. Holds(Append(out[d], command), "ping", p) => Holds(out[d], "ping", p)
      BY <2>1, HoldsAppend
    <3>3. InOrder(out[d], p) => InOrder(Append(out[d], command), p)
      BY <2>1, HoldsAppend
    <3>. QED
      BY <2>3, <3>1, <3>2, <3>3
  <2>4. CASE out'[d] = out[d]
    BY <2>4
  <2>. QED
    BY <2>2, <2>3, <2>4
<1>. QED
  BY <1>1, <1>3, FlushKept

LEMMA FlushUntouched ==
    ASSUME AckInv, NEW p \in Publishers, UNCHANGED <<out, inbox>>, ppc'[p] = ppc[p]
    PROVE  FlushInv(p)'
  BY FlushKept, NATSAssumption DEF AckInv, Callers

\* The connection of c ends: its queues are empty.
LEMMA FlushDrop ==
    ASSUME AckInv, NEW p \in Publishers, NEW c \in Conns, NEW to, Drop(c, to), UNCHANGED ppc
    PROVE  FlushInv(p)'
<1>1. FlushInv(p) /\ At[p] \in Conns
  BY NATSAssumption DEF AckInv, Callers
<1>2. \A op : ~Holds(<<>>, op, p)
  BY HasNothing DEF Holds
<1>3. InOrder(<<>>, p)
  BY HasNothing DEF InOrder
<1>4. \A d \in Conns : /\ out'[d] = out[d] \/ out'[d] = <<>>
                       /\ inbox'[d] = inbox[d] \/ inbox'[d] = <<>>
  BY DEF AckInv, TypeOK, Drop
<1>. QED
  BY <1>1, <1>2, <1>3, <1>4, FlushKept

LEMMA FlushPublish ==
    ASSUME AckInv, NEW p \in Publishers, NEW x \in Publishers,
           PublishCall(x) \/ PublishRefused(x) \/ PublishFlush(x) \/ PublishFails(x)
    PROVE  FlushInv(p)'
<1>. USE DEF wireVars, subVars, histVars
<1>1. TypeOK /\ FlushInv(p) /\ At[p] \in Conns /\ At[x] \in Conns /\ x \in Callers
  BY NATSAssumption DEF AckInv, Callers
<1>2. out[At[p]] \in Seq(Commands) /\ ppc \in [Publishers -> {"before", "flush", "flushing", "returned", "failed"}]
  BY <1>1 DEF TypeOK
<1>3. CASE x # p
  <2>1. ppc'[p] = ppc[p]
    BY <1>2, <1>3 DEF PublishCall, PublishRefused, PublishFlush, PublishFails
  <2>2. CASE PublishCall(x)
    <3>1. Command("pub", x, {}) \in Commands /\ Command("pub", x, {}).by # p
      BY <1>3, CommandTyped DEF Command
    <3>. QED
      BY <1>1, <2>1, <2>2, <3>1, OthersEnqueue DEF PublishCall
  <2>3. CASE PublishFlush(x)
    <3>1. Command("ping", x, {}) \in Commands /\ Command("ping", x, {}).by # p
      BY <1>1, <1>3, CommandTyped DEF Command
    <3>. QED
      BY <1>1, <2>1, <2>3, <3>1, OthersEnqueue DEF PublishFlush
  <2>4. CASE PublishRefused(x) \/ PublishFails(x)
    BY <2>1, <2>4, FlushUntouched DEF PublishRefused, PublishFails
  <2>. QED
    BY <2>2, <2>3, <2>4
<1>4. CASE x = p /\ PublishCall(p)
  <2>. DEFINE command == Command("pub", p, {})
  <2>1. command \in Commands /\ command.op = "pub" /\ command.by = p
    BY CommandTyped DEF Command
  <2>2. /\ out' = [out EXCEPT ![At[p]] = Append(@, command)]
        /\ inbox' = inbox
        /\ ppc[p] = "before" /\ ppc'[p] = "flush"
    BY <1>2, <1>4 DEF PublishCall, Enqueue
  <2>. HIDE DEF command
  <2>3. out'[At[p]] = Append(out[At[p]], command)
        /\ \A c \in Conns \ {At[p]} : out'[c] = out[c]
    BY <1>1, <2>2 DEF TypeOK
  <2>4. \A c \in Conns : ~Holds(out[c], "ping", p) /\ ~Holds(inbox[c], "pong", p)
    BY <1>1, <2>2 DEF FlushInv
  <2>5. ~Holds(Append(out[At[p]], command), "ping", p)
    BY <1>1, <1>2, <2>1, <2>4, HoldsAppend
  <2>6. InOrder(Append(out[At[p]], command), p)
    BY <1>1, <1>2, <2>1, <2>4, HoldsAppend DEF FlushInv
  <2>. QED
    BY <1>1, <2>2, <2>3, <2>4, <2>5, <2>6 DEF FlushInv
<1>5. CASE x = p /\ PublishFlush(p)
  <2>. DEFINE command == Command("ping", p, {})
  <2>1. command \in Commands /\ command.op = "ping" /\ command.by = p
    BY <1>1, <1>5, CommandTyped DEF Command
  <2>2. /\ out' = [out EXCEPT ![At[p]] = Append(@, command)]
        /\ inbox' = inbox
        /\ ppc[p] = "flush" /\ ppc'[p] = "flushing"
    BY <1>2, <1>5 DEF PublishFlush, Enqueue
  <2>. HIDE DEF command
  <2>3. out'[At[p]] = Append(out[At[p]], command)
        /\ \A c \in Conns \ {At[p]} : out'[c] = out[c]
    BY <1>1, <2>2 DEF TypeOK
  <2>4. \A c \in Conns : ~Holds(out[c], "ping", p) /\ ~Holds(inbox[c], "pong", p)
    BY <1>1, <2>2 DEF FlushInv
  <2>5. InOrder(Append(out[At[p]], command), p)
    BY <1>1, <1>2, <2>1, HoldsAppend DEF FlushInv
  <2>. QED
    BY <1>1, <2>2, <2>3, <2>4, <2>5 DEF FlushInv
<1>6. CASE x = p /\ (PublishRefused(p) \/ PublishFails(p))
  <2>1. UNCHANGED <<out, inbox>> /\ ppc'[p] = "failed"
    BY <1>2, <1>6 DEF PublishRefused, PublishFails
  <2>2. ppc[p] = "before" => \A c \in Conns : ~Holds(out[c], "ping", p) /\ ~Holds(inbox[c], "pong", p)
    BY <1>1 DEF FlushInv
  <2>. QED
    BY <1>1, <2>1, <2>2, <1>6 DEF FlushInv, PublishRefused, PublishFails
<1>. QED
  BY <1>3, <1>4, <1>5, <1>6

LEMMA FlushSubscribe ==
    ASSUME AckInv, NEW p \in Publishers, NEW s \in Subscribers,
           \/ Subscribe(s) \/ SubscribeRefused(s) \/ SubscribeFlush(s) \/ SubscribeFails(s)
           \/ Leave(s) \/ Unsubscribe(s) \/ Callback(s) \/ Receive(s)
    PROVE  FlushInv(p)'
<1>. USE DEF wireVars, subVars, histVars
<1>1. At[s] \in Conns /\ s \in Callers /\ s # p
  BY NATSAssumption DEF Callers
<1>2. CASE Subscribe(s)
  <2>1. Command("sub", NoOne, {s}) \in Commands /\ Command("sub", NoOne, {s}).op = "sub"
    BY CommandTyped DEF Command
  <2>. QED
    BY <1>1, <1>2, <2>1, OthersEnqueue DEF Subscribe
<1>3. CASE SubscribeFlush(s)
  <2>1. Command("ping", s, {}) \in Commands /\ Command("ping", s, {}).by # p
    BY <1>1, CommandTyped DEF Command
  <2>. QED
    BY <1>1, <1>3, <2>1, OthersEnqueue DEF SubscribeFlush
<1>4. CASE Unsubscribe(s)
  <2>1. Command("unsub", NoOne, {s}) \in Commands /\ Command("unsub", NoOne, {s}).op = "unsub"
    BY CommandTyped DEF Command
  <2>2. UNCHANGED <<inbox, ppc>>
        /\ (EnqueueIfUp(At[s], Command("unsub", NoOne, {s})) \/ UNCHANGED out)
    BY <1>4 DEF Unsubscribe
  <2>3. CASE EnqueueIfUp(At[s], Command("unsub", NoOne, {s}))
    BY <1>1, <2>1, <2>2, <2>3, OthersEnqueue
  <2>4. CASE UNCHANGED out
    BY <2>2, <2>4, FlushUntouched
  <2>. QED
    BY <2>2, <2>3, <2>4
<1>5. CASE SubscribeRefused(s) \/ SubscribeFails(s) \/ Leave(s) \/ Callback(s) \/ Receive(s)
  BY <1>5, FlushUntouched DEF SubscribeRefused, SubscribeFails, Leave, Callback, Receive
<1>. QED
  BY <1>2, <1>3, <1>4, <1>5

\* The server takes a command.  If that is the ping of p, it has taken what p
\* published before.
LEMMA FlushServe ==
    ASSUME AckInv, NEW p \in Publishers, NEW c \in Conns, Serve(c)
    PROVE  FlushInv(p)'
<1>. DEFINE q == out[c]
            command == Head(q)
            pong == Command("pong", command.by, {})
<1>1. TypeOK /\ FlushInv(p) /\ At[p] \in Conns
  BY NATSAssumption DEF AckInv, Callers
<1>2. q \in Seq(Commands) /\ q # <<>> /\ command \in Commands /\ 1 \in DOMAIN q /\ command = q[1]
  BY <1>1 DEF TypeOK, Serve
<1>3. out'[c] = Tail(q) /\ \A d \in Conns \ {c} : out'[d] = out[d]
  BY <1>1 DEF TypeOK, Serve
<1>4. /\ Holds(Tail(q), "pub", p) => Holds(q, "pub", p)
      /\ Holds(Tail(q), "ping", p) => Holds(q, "ping", p)
      /\ InOrder(q, p) => InOrder(Tail(q), p)
  BY <1>2, HoldsTail
<1>5. \A d \in Conns : /\ Holds(out'[d], "pub", p) => Holds(out[d], "pub", p)
                       /\ Holds(out'[d], "ping", p) => Holds(out[d], "ping", p)
                       /\ InOrder(out[d], p) => InOrder(out'[d], p)
  BY <1>3, <1>4
<1>6. ppc' = ppc
  BY DEF Serve
<1>7. CASE command.op = "ping" /\ inbox' = [inbox EXCEPT ![c] = Append(@, pong)]
  <2>1. pong \in Commands /\ pong.op = "pong" /\ pong.by = command.by
    BY <1>2, <1>7, CommandTyped DEF Commands, Command
  <2>. HIDE DEF pong
  <2>2. inbox[c] \in Seq(Commands) /\ inbox'[c] = Append(inbox[c], pong)
        /\ \A d \in Conns \ {c} : inbox'[d] = inbox[d]
    BY <1>1, <1>7 DEF TypeOK
  <2>3. CASE command.by = p
    <3>1. Holds(q, "ping", p)
      BY <1>2, <1>7, <2>3 DEF Holds, Has, Calls
    <3>2. c = At[p] /\ ppc[p] \notin {"before", "flush"}
      BY <1>1, <3>1 DEF FlushInv
    <3>3. ~Holds(q, "pub", p)
      BY <1>1, <1>2, <1>7, <2>3, <3>2, HoldsTail DEF FlushInv
    <3>4. ~Holds(out'[At[p]], "pub", p)
      BY <1>1, <1>5, <3>2, <3>3
    <3>. QED
      BY <1>1, <1>5, <1>6, <3>2, <3>4 DEF FlushInv
  <2>4. CASE command.by # p
    <3>1. Holds(Append(inbox[c], pong), "pong", p) => Holds(inbox[c], "pong", p)
      BY <2>1, <2>2, <2>4, HoldsAppend
    <3>2. \A d \in Conns : Holds(inbox'[d], "pong", p) => Holds(inbox[d], "pong", p)
      BY <2>2, <3>1
    <3>. QED
      BY <1>1, <1>5, <1>6, <3>2, FlushKept
  <2>. QED
    BY <2>3, <2>4
<1>8. CASE command.op = "pub" /\ inbox' = Sent(command.by)
  <2>1. ASSUME NEW d \in Conns
        PROVE  Holds(inbox'[d], "pong", p) => Holds(inbox[d], "pong", p)
    <3>. DEFINE message == Command("msg", command.by, Of(d, routed))
    <3>1. message \in Commands /\ message.op = "msg"
      BY <1>1, <1>2, <1>8, CommandTyped DEF Commands, Command, Of, TypeOK
    <3>2. inbox[d] \in Seq(Commands)
          /\ (inbox'[d] = inbox[d] \/ inbox'[d] = Append(inbox[d], message))
      BY <1>1, <1>8 DEF TypeOK, Sent
    <3>. HIDE DEF message
    <3>3. Holds(Append(inbox[d], message), "pong", p) => Holds(inbox[d], "pong", p)
      BY <3>1, <3>2, HoldsAppend
    <3>. QED
      BY <3>2, <3>3
  <2>. QED
    BY <1>1, <1>5, <1>6, <2>1, FlushKept
<1>9. CASE UNCHANGED inbox
  BY <1>1, <1>5, <1>6, <1>9, FlushKept
<1>. QED
  BY <1>7, <1>8, <1>9 DEF Serve

LEMMA FlushRead ==
    ASSUME AckInv, NEW p \in Publishers, NEW c \in Conns, ReadMessage(c) \/ ReadPong(c)
    PROVE  FlushInv(p)'
<1>. DEFINE q == inbox[c]
<1>1. TypeOK /\ FlushInv(p) /\ At[p] \in Conns
  BY NATSAssumption DEF AckInv, Callers
<1>2. q \in Seq(Commands) /\ q # <<>> /\ 1 \in DOMAIN q /\ Head(q) = q[1]
  BY <1>1 DEF TypeOK, ReadMessage, ReadPong
<1>3. inbox'[c] = Tail(q) /\ (\A d \in Conns \ {c} : inbox'[d] = inbox[d]) /\ out' = out
  BY <1>1 DEF TypeOK, ReadMessage, ReadPong
<1>4. Holds(Tail(q), "pong", p) => Holds(q, "pong", p)
  BY <1>2, HoldsTail
<1>5. \A d \in Conns : Holds(inbox'[d], "pong", p) => Holds(inbox[d], "pong", p)
  BY <1>3, <1>4
<1>6. CASE ppc'[p] = ppc[p]
  BY <1>1, <1>3, <1>5, <1>6, FlushKept
<1>7. CASE ppc'[p] # ppc[p]
  <2>1. q[1].op = "pong" /\ q[1].by = p /\ ppc'[p] = "returned"
    BY <1>1, <1>2, <1>7 DEF ReadMessage, ReadPong
  <2>2. Holds(q, "pong", p)
    BY <1>2, <2>1 DEF Holds, Has, Calls
  <2>3. ~Holds(out[At[p]], "pub", p)
    BY <1>1, <2>2 DEF FlushInv
  <2>4. \A d \in Conns : Holds(out[d], "ping", p) => d = At[p]
    BY <1>1 DEF FlushInv
  <2>. QED
    BY <1>1, <1>3, <2>1, <2>3, <2>4 DEF FlushInv
<1>. QED
  BY <1>6, <1>7

LEMMA FlushConnection ==
    ASSUME AckInv, NEW p \in Publishers, NEW c \in Conns,
           \/ Break(c) \/ Reconnect(c) \/ GiveUp(c)
           \/ CloseAtOnce(c) \/ Drain(c) \/ CloseReturns(c)
    PROVE  FlushInv(p)'
<1>. USE DEF wireVars, subVars, histVars
<1>1. TypeOK /\ FlushInv(p) /\ At[p] \in Conns
  BY NATSAssumption DEF AckInv, Callers
<1>2. CASE Break(c) \/ GiveUp(c) \/ CloseAtOnce(c) \/ CloseReturns(c)
  <2>1. UNCHANGED ppc /\ \E to \in {"down", "closed"} : Drop(c, to)
    BY <1>2 DEF Break, GiveUp, CloseAtOnce, CloseReturns
  <2>. QED
    BY <2>1, FlushDrop
<1>3. CASE Reconnect(c)
  <2>. DEFINE command == Command("renew", NoOne, Of(c, local))
  <2>1. command \in Commands /\ command.op = "renew"
    BY <1>1, CommandTyped DEF Command, Of, TypeOK
  <2>2. /\ out[c] \in Seq(Commands) /\ out'[c] = <<command>> \o out[c]
        /\ \A d \in Conns \ {c} : out'[d] = out[d]
        /\ inbox' = inbox /\ ppc' = ppc
    BY <1>1, <1>3 DEF TypeOK, Reconnect
  <2>. HIDE DEF command
  <2>3. /\ \A op \in {"pub", "ping"} : Holds(out'[c], op, p) <=> Holds(out[c], op, p)
        /\ InOrder(out[c], p) => InOrder(out'[c], p)
    BY <2>1, <2>2, HoldsRenewed
  <2>. QED
    BY <1>1, <2>2, <2>3, FlushKept
<1>4. CASE Drain(c)
  <2>1. Command("unsub", NoOne, Of(c, local)) \in Commands
        /\ Command("unsub", NoOne, Of(c, local)).op = "unsub"
    BY <1>1, CommandTyped DEF Command, Of, TypeOK
  <2>. QED
    BY <1>4, <2>1, OthersEnqueue DEF Drain
<1>. QED
  BY <1>2, <1>3, <1>4

LEMMA AckInvKept == AckInv /\ [Next]_vars => AckInv'
<1>. SUFFICES ASSUME AckInv, [Next]_vars PROVE AckInv'
  OBVIOUS
<1>1. TypeOK'
  BY TypeOKKept DEF AckInv
<1>2. ASSUME NEW p \in Publishers PROVE FlushInv(p)'
  <2>1. CASE UNCHANGED vars
    BY <2>1, FlushUntouched DEF vars, wireVars
  <2>. QED
    BY <2>1, FlushPublish, FlushSubscribe, FlushServe, FlushRead, FlushConnection
       DEF Next, Finished
<1>. QED
  BY <1>1, <1>2 DEF AckInv

\* What Publish acknowledged has left its process, however its flush was overtaken
\* by breaks, renewals and a shutdown.
THEOREM AckedHasAlwaysLeft == Spec => []AckedHasLeft
<1>1. Init => AckInv
  <2>. SUFFICES ASSUME Init PROVE AckInv
    OBVIOUS
  <2>1. <<>> \in Seq(Commands)
    OBVIOUS
  <2>2. TypeOK
    BY <2>1, NATSAssumption DEF Init, TypeOK
  <2>3. \A p \in Publishers : At[p] \in Conns
    BY NATSAssumption DEF Callers
  <2>4. \A c \in Conns : out[c] = <<>> /\ inbox[c] = <<>>
    BY DEF Init
  <2>5. \A p \in Publishers : (\A op : ~Holds(<<>>, op, p)) /\ InOrder(<<>>, p)
    BY HasNothing DEF Holds, InOrder
  <2>6. \A p \in Publishers : ppc[p] = "before"
    BY DEF Init
  <2>7. \A p \in Publishers : FlushInv(p)
    BY <2>3, <2>4, <2>5, <2>6 DEF FlushInv
  <2>. QED
    BY <2>2, <2>7 DEF AckInv
<1>2. AckInv => AckedHasLeft
  <2>. SUFFICES ASSUME AckInv, NEW p \in Publishers, ppc[p] = "returned", Unsent(p)
                PROVE  FALSE
    BY DEF AckedHasLeft
  <2>1. out[At[p]] \in Seq(Commands) /\ ~Holds(out[At[p]], "pub", p)
    BY NATSAssumption DEF AckInv, TypeOK, FlushInv, Callers
  <2>. QED
    BY <2>1 DEF Unsent, Holds, Has, Calls
<1>. QED
  BY <1>1, <1>2, AckInvKept, PTL DEF Spec

-----------------------------------------------------------------------------
(***************************************************************************)
(* Subscriptions.  In the queue of its process a subscription is ahead of  *)
(* the ping of its flush, so a stream that has its pong is known to the    *)
(* server; and as long as the process neither closes nor drains, what the  *)
(* client library knows and what the server knows differ only by commands  *)
(* on their way.                                                           *)
(***************************************************************************)

SubOf(s) == {x \in Commands : x.op = "sub" /\ s \in x.subs}
RenewOf(s) == {x \in Commands : x.op = "renew" /\ s \in x.subs}
UnsubOf(s) == {x \in Commands : x.op = "unsub" /\ s \in x.subs}
PingOf(s) == Calls("ping", s)
PongOf(s) == Calls("pong", s)
JoinOf(s) == SubOf(s) \cup RenewOf(s)
About(s) == JoinOf(s) \cup UnsubOf(s) \cup PingOf(s)

\* How far the flush of s has come, and what is in the queues then.
SubscribedInOrder(s) ==
    /\ \A c \in Conns : Has(out[c], About(s)) => c = At[s]
    /\ Has(out[At[s]], PingOf(s)) => spc[s] \notin {"absent", "flush"}
    /\ \A c \in Conns : Has(inbox[c], PongOf(s))
            => spc[s] \notin {"absent", "flush"} /\ ~Has(out[At[s]], SubOf(s))
    /\ Ahead(out[At[s]], SubOf(s), PingOf(s))
    /\ spc[s] = "streaming" => ~Has(out[At[s]], SubOf(s))

\* Client and server agree on s, but for the commands on their way.
Agreed(s) ==
    /\ s \in routed => link[At[s]] = "up"
    /\ Has(out[At[s]], UnsubOf(s)) /\ IsOpen(At[s]) => spc[s] \in {"failed", "closed"}
    /\ spc[s] \in {"flush", "flushing", "streaming", "undo", "leaving"}
            /\ IsOpen(At[s]) /\ link[At[s]] # "closed"
        => s \in local
    /\ s \in local /\ link[At[s]] = "up" /\ IsOpen(At[s])
        => s \in routed \/ Has(out[At[s]], JoinOf(s))

RouteInv(s) == SubscribedInOrder(s) /\ Agreed(s)

SubInv == LocalInv /\ \A s \in Subscribers : RouteInv(s)

LEMMA OfSubscribers ==
    ASSUME NEW s \in Subscribers, NEW subs \in SUBSET Subscribers
    PROVE  /\ Command("sub", NoOne, subs) \in SubOf(s) <=> s \in subs
           /\ Command("renew", NoOne, subs) \in RenewOf(s) <=> s \in subs
           /\ Command("unsub", NoOne, subs) \in UnsubOf(s) <=> s \in subs
           /\ Command("sub", NoOne, subs) \notin RenewOf(s) \cup UnsubOf(s) \cup PingOf(s)
           /\ Command("renew", NoOne, subs) \notin SubOf(s) \cup UnsubOf(s) \cup PingOf(s)
           /\ Command("unsub", NoOne, subs) \notin SubOf(s) \cup RenewOf(s) \cup PingOf(s)
  BY CommandTyped DEF Command, SubOf, RenewOf, UnsubOf, PingOf, Calls

LEMMA OfCallers ==
    ASSUME NEW s \in Subscribers, NEW x \in Callers
    PROVE  /\ x \in Publishers => Command("pub", x, {}) \notin About(s)
           /\ Command("ping", x, {}) \in PingOf(s) <=> x = s
           /\ Command("ping", x, {}) \notin SubOf(s) \cup RenewOf(s) \cup UnsubOf(s)
           /\ Command("pong", x, {}) \in PongOf(s) <=> x = s
  BY CommandTyped
  DEF Command, About, JoinOf, SubOf, RenewOf, UnsubOf, PingOf, Calls, PongOf

\* Queues in which nothing new concerns s leave s where it is.
LEMMA RouteKept ==
    ASSUME NEW s \in Subscribers, At[s] \in Conns, RouteInv(s),
           spc'[s] = spc[s], link'[At[s]] = link[At[s]], closing'[At[s]] = closing[At[s]],
           s \in local' <=> s \in local, s \in routed' <=> s \in routed,
           \A c \in Conns : \A S \in SUBSET About(s) : Has(out'[c], S) <=> Has(out[c], S),
           Ahead(out'[At[s]], SubOf(s), PingOf(s)),
           \A c \in Conns : Has(inbox'[c], PongOf(s)) => Has(inbox[c], PongOf(s))
    PROVE  RouteInv(s)'
<1>1. /\ SubOf(s) \in SUBSET About(s) /\ UnsubOf(s) \in SUBSET About(s)
      /\ PingOf(s) \in SUBSET About(s) /\ JoinOf(s) \in SUBSET About(s)
      /\ About(s) \in SUBSET About(s)
  BY DEF About, JoinOf
<1>2. SubscribedInOrder(s)'
  BY <1>1 DEF RouteInv, SubscribedInOrder
<1>3. Agreed(s)'
  BY <1>1 DEF RouteInv, Agreed, IsOpen
<1>. QED
  BY <1>2, <1>3 DEF RouteInv

LEMMA RouteUntouched ==
    ASSUME SubInv, NEW s \in Subscribers, UNCHANGED <<out, inbox, link, closing>>,
           spc'[s] = spc[s], s \in local' <=> s \in local, s \in routed' <=> s \in routed
    PROVE  RouteInv(s)'
<1>1. RouteInv(s) /\ At[s] \in Conns
  BY NATSAssumption DEF SubInv, Callers
<1>2. Ahead(out'[At[s]], SubOf(s), PingOf(s))
  BY <1>1 DEF RouteInv, SubscribedInOrder
<1>. QED
  BY <1>1, <1>2, RouteKept

\* A command that does not concern s.
LEMMA RouteOthers ==
    ASSUME SubInv, NEW s \in Subscribers, NEW c \in Conns,
           NEW command \in Commands \ About(s),
           Enqueue(c, command) \/ EnqueueIfUp(c, command),
           UNCHANGED <<inbox, link>>, closing'[At[s]] = closing[At[s]],
           spc'[s] = spc[s], s \in local' <=> s \in local, s \in routed' <=> s \in routed
    PROVE  RouteInv(s)'
<1>1. RouteInv(s) /\ At[s] \in Conns
  BY NATSAssumption DEF SubInv, Callers
<1>2. out \in [Conns -> Seq(Commands)]
  BY DEF SubInv, LocalInv, TypeOK
<1>3. \A d \in Conns : out'[d] = out[d] \/ out'[d] = Append(out[d], command)
  BY <1>2 DEF Enqueue, EnqueueIfUp
<1>4. ASSUME NEW d \in Conns, NEW S \in SUBSET About(s)
      PROVE  Has(out'[d], S) <=> Has(out[d], S)
  <2>1. out[d] \in Seq(Commands) /\ command \notin S
    BY <1>2
  <2>2. Has(Append(out[d], command), S) <=> Has(out[d], S)
    BY <2>1, HasAppend
  <2>. QED
    BY <1>3, <2>2
<1>5. Ahead(out'[At[s]], SubOf(s), PingOf(s))
  <2>1. out[At[s]] \in Seq(Commands) /\ command \notin SubOf(s)
    BY <1>1, <1>2 DEF About, JoinOf
  <2>2. Ahead(out[At[s]], SubOf(s), PingOf(s))
    BY <1>1 DEF RouteInv, SubscribedInOrder
  <2>3. Ahead(Append(out[At[s]], command), SubOf(s), PingOf(s))
    BY <2>1, <2>2, AheadAppend
  <2>. QED
    BY <1>1, <1>3, <2>2, <2>3
<1>. QED
  BY <1>1, <1>4, <1>5, RouteKept

LEMMA RoutePublish ==
    ASSUME SubInv, NEW s \in Subscribers, NEW x \in Publishers,
           PublishCall(x) \/ PublishRefused(x) \/ PublishFlush(x) \/ PublishFails(x)
    PROVE  RouteInv(s)'
<1>. USE DEF wireVars, subVars, histVars
<1>1. At[x] \in Conns /\ x \in Callers /\ x # s
  BY NATSAssumption DEF Callers
<1>2. CASE PublishCall(x)
  <2>1. Command("pub", x, {}) \in Commands \ About(s)
    BY <1>1, CommandTyped, OfCallers
  <2>. QED
    BY <1>1, <1>2, <2>1, RouteOthers DEF PublishCall
<1>3. CASE PublishFlush(x)
  <2>1. Command("ping", x, {}) \in Commands \ About(s)
    BY <1>1, CommandTyped, OfCallers DEF About, JoinOf
  <2>. QED
    BY <1>1, <1>3, <2>1, RouteOthers DEF PublishFlush
<1>4. CASE PublishRefused(x) \/ PublishFails(x)
  BY <1>4, RouteUntouched DEF PublishRefused, PublishFails
<1>. QED
  BY <1>2, <1>3, <1>4

\* What another subscription does.
LEMMA RouteNeighbour ==
    ASSUME SubInv, NEW s \in Subscribers, NEW x \in Subscribers, x # s,
           \/ Subscribe(x) \/ SubscribeRefused(x) \/ SubscribeFlush(x) \/ SubscribeFails(x)
           \/ Leave(x) \/ Unsubscribe(x)
    PROVE  RouteInv(s)'
<1>. USE DEF wireVars, subVars, histVars
<1>1. At[x] \in Conns /\ x \in Callers
  BY NATSAssumption DEF Callers
<1>2. UNCHANGED <<link, closing, inbox, routed>> /\ spc'[s] = spc[s]
      /\ (s \in local' <=> s \in local)
  BY DEF Subscribe, SubscribeRefused, SubscribeFlush, SubscribeFails, Leave,
     Unsubscribe, SubInv, LocalInv, TypeOK
<1>3. CASE Subscribe(x)
  <2>1. Command("sub", NoOne, {x}) \in Commands \ About(s)
    BY CommandTyped, OfSubscribers DEF About, JoinOf
  <2>. QED
    BY <1>1, <1>2, <1>3, <2>1, RouteOthers DEF Subscribe
<1>4. CASE SubscribeFlush(x)
  <2>1. Command("ping", x, {}) \in Commands \ About(s)
    BY <1>1, CommandTyped, OfCallers DEF About, JoinOf
  <2>. QED
    BY <1>1, <1>2, <1>4, <2>1, RouteOthers DEF SubscribeFlush
<1>5. CASE Unsubscribe(x)
  <2>1. Command("unsub", NoOne, {x}) \in Commands \ About(s)
    BY CommandTyped, OfSubscribers DEF About, JoinOf
  <2>2. CASE EnqueueIfUp(At[x], Command("unsub", NoOne, {x}))
    BY <1>1, <1>2, <2>1, <2>2, RouteOthers
  <2>3. CASE UNCHANGED out
    BY <1>2, <2>3, RouteUntouched
  <2>. QED
    BY <1>5, <2>2, <2>3 DEF Unsubscribe
<1>6. CASE SubscribeRefused(x) \/ SubscribeFails(x) \/ Leave(x)
  BY <1>2, <1>6, RouteUntouched DEF SubscribeRefused, SubscribeFails, Leave
<1>. QED
  BY <1>3, <1>4, <1>5, <1>6

\* The subscription's own commands go to the end of its queue.
LEMMA OwnQueue ==
    ASSUME SubInv, NEW s \in Subscribers, NEW command \in Commands,
           Enqueue(At[s], command) \/ EnqueueIfUp(At[s], command)
    PROVE  /\ \A c \in Conns \ {At[s]} : out'[c] = out[c]
           /\ \A c \in Conns : Has(out'[c], About(s)) => c = At[s]
           /\ \A S : Has(out'[At[s]], S) => Has(out[At[s]], S) \/ command \in S
           /\ \A S : command \in S /\ (Enqueue(At[s], command) \/ link[At[s]] = "up")
                => Has(out'[At[s]], S)
           /\ \A S : Has(out[At[s]], S) => Has(out'[At[s]], S)
           /\ (command \in SubOf(s) => ~Has(out[At[s]], PingOf(s)) /\ command \notin PingOf(s))
                => Ahead(out'[At[s]], SubOf(s), PingOf(s))
<1>1. RouteInv(s) /\ At[s] \in Conns
  BY NATSAssumption DEF SubInv, Callers
<1>2. out \in [Conns -> Seq(Commands)]
  BY DEF SubInv, LocalInv, TypeOK
<1>3. out[At[s]] \in Seq(Commands)
  BY <1>1, <1>2
<1>4. \A c \in Conns \ {At[s]} : out'[c] = out[c]
  BY <1>2 DEF Enqueue, EnqueueIfUp
<1>5. \/ out'[At[s]] = Append(out[At[s]], command)
      \/ out'[At[s]] = out[At[s]] /\ link[At[s]] # "up" /\ ~Enqueue(At[s], command)
  BY <1>1, <1>2 DEF Enqueue, EnqueueIfUp
<1>6. \A S : Has(Append(out[At[s]], command), S) <=> Has(out[At[s]], S) \/ command \in S
  BY <1>3, HasAppend
<1>7. \A c \in Conns : Has(out'[c], About(s)) => c = At[s]
  BY <1>1, <1>4 DEF RouteInv, SubscribedInOrder
<1>8. ASSUME command \in SubOf(s) => ~Has(out[At[s]], PingOf(s)) /\ command \notin PingOf(s)
      PROVE  Ahead(out'[At[s]], SubOf(s), PingOf(s))
  <2>1. Ahead(out[At[s]], SubOf(s), PingOf(s))
    BY <1>1 DEF RouteInv, SubscribedInOrder
  <2>2. Ahead(Append(out[At[s]], command), SubOf(s), PingOf(s))
    BY <1>3, <1>8, <2>1, AheadAppend
  <2>. QED
    BY <1>5, <2>1, <2>2
<1>. QED
  BY <1>4, <1>5, <1>6, <1>7, <1>8

LEMMA RouteOwn ==
    ASSUME SubInv, NEW s \in Subscribers,
           \/ Subscribe(s) \/ SubscribeRefused(s) \/ SubscribeFlush(s) \/ SubscribeFails(s)
           \/ Leave(s) \/ Unsubscribe(s)
    PROVE  RouteInv(s)'
<1>. USE DEF wireVars, subVars, histVars
<1>1. At[s] \in Conns /\ s \in Callers
  BY NATSAssumption DEF Callers
<1>2. UNCHANGED <<link, closing, inbox, routed>>
  BY DEF Subscribe, SubscribeRefused, SubscribeFlush, SubscribeFails, Leave, Unsubscribe
<1>3. SubscribedInOrder(s) /\ Agreed(s) /\ KnownRightly(s)
  BY DEF SubInv, LocalInv, RouteInv
<1>4. spc \in [Subscribers -> {"absent", "flush", "flushing", "streaming",
                               "undo", "failed", "leaving", "closed"}]
  BY DEF SubInv, LocalInv, TypeOK
<1>5. CASE Subscribe(s)
  <2>. DEFINE command == Command("sub", NoOne, {s})
  <2>1. /\ command \in SubOf(s) /\ command \in JoinOf(s)
        /\ command \notin PingOf(s) /\ command \notin UnsubOf(s)
    BY OfSubscribers DEF JoinOf
  <2>2. command \in Commands /\ EnqueueIfUp(At[s], command)
    BY <1>5, CommandTyped DEF Subscribe
  <2>. HIDE DEF command
  <2>3. ~Has(out[At[s]], PingOf(s)) /\ \A c \in Conns : ~Has(inbox[c], PongOf(s))
    BY <1>3, <1>5 DEF SubscribedInOrder, Subscribe
  <2>4. /\ \A c \in Conns : Has(out'[c], About(s)) => c = At[s]
        /\ ~Has(out'[At[s]], PingOf(s))
        /\ Has(out'[At[s]], UnsubOf(s)) => Has(out[At[s]], UnsubOf(s))
        /\ link[At[s]] = "up" => Has(out'[At[s]], JoinOf(s))
        /\ Ahead(out'[At[s]], SubOf(s), PingOf(s))
    BY <2>1, <2>2, <2>3, OwnQueue
  <2>5. spc'[s] = "flush" /\ s \in local' /\ spc[s] = "absent"
    BY <1>4, <1>5 DEF Subscribe
  <2>6. SubscribedInOrder(s)'
    BY <1>2, <2>3, <2>4, <2>5 DEF SubscribedInOrder
  <2>7. Agreed(s)'
    BY <1>2, <1>3, <2>4, <2>5 DEF Agreed, IsOpen
  <2>. QED
    BY <2>6, <2>7 DEF RouteInv
<1>6. CASE SubscribeFlush(s)
  <2>. DEFINE command == Command("ping", s, {})
  <2>1. command \in Commands /\ command \notin SubOf(s) /\ command \notin UnsubOf(s)
    BY <1>1, CommandTyped, OfCallers
  <2>2. Enqueue(At[s], command)
    BY <1>6 DEF SubscribeFlush
  <2>. HIDE DEF command
  <2>3. \A c \in Conns : ~Has(inbox[c], PongOf(s))
    BY <1>3, <1>6 DEF SubscribedInOrder, SubscribeFlush
  <2>4. /\ \A c \in Conns : Has(out'[c], About(s)) => c = At[s]
        /\ Has(out'[At[s]], UnsubOf(s)) => Has(out[At[s]], UnsubOf(s))
        /\ Has(out[At[s]], JoinOf(s)) => Has(out'[At[s]], JoinOf(s))
        /\ Ahead(out'[At[s]], SubOf(s), PingOf(s))
    BY <2>1, <2>2, OwnQueue
  <2>5. spc'[s] = "flushing" /\ spc[s] = "flush" /\ local' = local
    BY <1>4, <1>6 DEF SubscribeFlush
  <2>6. SubscribedInOrder(s)'
    BY <1>2, <2>3, <2>4, <2>5 DEF SubscribedInOrder
  <2>7. Agreed(s)'
    BY <1>2, <1>3, <2>4, <2>5 DEF Agreed, IsOpen
  <2>. QED
    BY <2>6, <2>7 DEF RouteInv
<1>7. CASE Unsubscribe(s)
  <2>. DEFINE command == Command("unsub", NoOne, {s})
  <2>1. command \in Commands /\ command \notin SubOf(s) /\ command \notin PingOf(s)
    BY CommandTyped, OfSubscribers
  <2>2. EnqueueIfUp(At[s], command) \/ UNCHANGED out
    BY <1>7 DEF Unsubscribe
  <2>. HIDE DEF command
  <2>3. /\ \A c \in Conns : Has(out'[c], About(s)) => c = At[s]
        /\ Has(out'[At[s]], SubOf(s)) => Has(out[At[s]], SubOf(s))
        /\ Has(out'[At[s]], PingOf(s)) => Has(out[At[s]], PingOf(s))
        /\ Ahead(out'[At[s]], SubOf(s), PingOf(s))
    <3>1. CASE EnqueueIfUp(At[s], command)
      BY <2>1, <3>1, OwnQueue
    <3>2. CASE UNCHANGED out
      BY <1>3, <3>2 DEF SubscribedInOrder
    <3>. QED
      BY <2>2, <3>1, <3>2
  <2>4. spc'[s] \in {"failed", "closed"} /\ (s \in local' => ~IsOpen(At[s]))
    BY <1>4, <1>7 DEF Unsubscribe, IsDraining, IsOpen
  <2>5. SubscribedInOrder(s)'
    BY <1>2, <1>3, <2>3, <2>4 DEF SubscribedInOrder
  <2>6. Agreed(s)'
    BY <1>2, <1>3, <2>4 DEF Agreed, IsOpen
  <2>. QED
    BY <2>5, <2>6 DEF RouteInv
<1>8. CASE SubscribeRefused(s)
  <2>1. out' = out /\ local' = local /\ spc[s] = "absent" /\ spc'[s] = "failed"
    BY <1>4, <1>8 DEF SubscribeRefused
  <2>. QED
    BY <1>2, <1>3, <2>1
    DEF RouteInv, SubscribedInOrder, Agreed, KnownRightly, IsOpen
<1>9. CASE SubscribeFails(s) \/ Leave(s)
  <2>1. /\ out' = out /\ local' = local /\ spc[s] \in {"flush", "flushing", "streaming"}
        /\ spc'[s] \in {"undo", "leaving"}
    BY <1>4, <1>9 DEF SubscribeFails, Leave
  <2>2. SubscribedInOrder(s)'
    BY <1>2, <1>3, <2>1 DEF SubscribedInOrder
  <2>3. Agreed(s)'
    BY <1>2, <1>3, <2>1 DEF Agreed, IsOpen
  <2>. QED
    BY <2>2, <2>3 DEF RouteInv
<1>. QED
  BY <1>5, <1>6, <1>7, <1>8, <1>9

\* The server takes the first command of a queue.
LEMMA ServedQueue ==
    ASSUME TypeOK, NEW c \in Conns, Serve(c)
    PROVE  /\ out[c] \in Seq(Commands) /\ out[c] # <<>> /\ Head(out[c]) \in Commands
           /\ out'[c] = Tail(out[c]) /\ \A d \in Conns \ {c} : out'[d] = out[d]
           /\ \A S : Has(out[c], S) <=> Has(out'[c], S) \/ Head(out[c]) \in S
           /\ \A d \in Conns : \A S : Has(out'[d], S) => Has(out[d], S)
           /\ \A d \in Conns : \A S, T : Ahead(out[d], S, T) => Ahead(out'[d], S, T)
<1>1. out[c] \in Seq(Commands) /\ out[c] # <<>>
  BY DEF TypeOK, Serve
<1>2. Head(out[c]) \in Commands
  BY <1>1
<1>3. out'[c] = Tail(out[c]) /\ \A d \in Conns \ {c} : out'[d] = out[d]
  BY DEF TypeOK, Serve
<1>4. \A S : Has(out[c], S) <=> Has(Tail(out[c]), S) \/ Head(out[c]) \in S
  BY <1>1, HasTail
<1>5. \A S, T : Ahead(out[c], S, T) => Ahead(Tail(out[c]), S, T)
  BY <1>1, AheadTail
<1>. QED
  BY <1>1, <1>2, <1>3, <1>4, <1>5

\* What the server answers: a message to each process with subscriptions, or a
\* pong to the one that sent the ping.
LEMMA ServedInbox ==
    ASSUME TypeOK, NEW c \in Conns, Serve(c), NEW s \in Subscribers
    PROVE  \A d \in Conns : Has(inbox'[d], PongOf(s))
             => Has(inbox[d], PongOf(s)) \/ (d = c /\ Head(out[c]) \in PingOf(s))
<1>. DEFINE command == Head(out[c])
<1>1. command \in Commands
  BY ServedQueue
<1>2. CASE command.op = "ping"
           /\ inbox' = [inbox EXCEPT ![c] = Append(@, Command("pong", command.by, {}))]
  <2>. DEFINE pong == Command("pong", command.by, {})
  <2>1. command.by \in Callers /\ pong \in Commands
    BY <1>1, <1>2, CommandTyped DEF Commands
  <2>2. pong \in PongOf(s) => command \in PingOf(s)
    BY <1>1, <1>2, <2>1, OfCallers DEF PingOf, Calls
  <2>3. inbox[c] \in Seq(Commands)
    BY DEF TypeOK
  <2>4. inbox'[c] = Append(inbox[c], pong) /\ \A d \in Conns \ {c} : inbox'[d] = inbox[d]
    BY <1>2 DEF TypeOK
  <2>. HIDE DEF pong
  <2>5. Has(Append(inbox[c], pong), PongOf(s)) => Has(inbox[c], PongOf(s)) \/ pong \in PongOf(s)
    BY <2>1, <2>3, HasAppend
  <2>. QED
    BY <2>2, <2>4, <2>5
<1>3. CASE command.op = "pub" /\ inbox' = Sent(command.by)
  <2>. SUFFICES ASSUME NEW d \in Conns
                PROVE  Has(inbox'[d], PongOf(s)) => Has(inbox[d], PongOf(s))
    OBVIOUS
  <2>. DEFINE message == Command("msg", command.by, Of(d, routed))
  <2>1. message \in Commands
    BY <1>1, <1>3, CommandTyped DEF Commands, Of, TypeOK
  <2>2. message \notin PongOf(s)
    BY DEF PongOf, Calls, Command
  <2>3. inbox[d] \in Seq(Commands)
        /\ (inbox'[d] = inbox[d] \/ inbox'[d] = Append(inbox[d], message))
    BY <1>3 DEF TypeOK, Sent
  <2>. HIDE DEF message
  <2>4. Has(Append(inbox[d], message), PongOf(s)) => Has(inbox[d], PongOf(s))
    BY <2>1, <2>2, <2>3, HasAppend
  <2>. QED
    BY <2>3, <2>4
<1>4. CASE UNCHANGED inbox
  BY <1>4
<1>. QED
  BY <1>2, <1>3, <1>4 DEF Serve

LEMMA RouteServe ==
    ASSUME SubInv, NEW s \in Subscribers, NEW c \in Conns, Serve(c)
    PROVE  RouteInv(s)'
<1>. DEFINE command == Head(out[c])
<1>1. At[s] \in Conns
  BY NATSAssumption DEF Callers
<1>2. SubscribedInOrder(s) /\ Agreed(s) /\ KnownRightly(s) /\ TypeOK
  BY DEF SubInv, LocalInv, RouteInv
<1>3. UNCHANGED <<link, closing, local, spc>> /\ link[c] = "up"
  BY DEF Serve
<1>4. /\ command \in Commands
      /\ \A S : Has(out[c], S) <=> Has(out'[c], S) \/ command \in S
      /\ \A d \in Conns : \A S : Has(out'[d], S) => Has(out[d], S)
      /\ \A d \in Conns : \A S, T : Ahead(out[d], S, T) => Ahead(out'[d], S, T)
      /\ \A d \in Conns \ {c} : out'[d] = out[d]
  BY <1>2, ServedQueue
<1>5. \A d \in Conns : Has(inbox'[d], PongOf(s))
             => Has(inbox[d], PongOf(s)) \/ (d = c /\ command \in PingOf(s))
  BY <1>2, ServedInbox
<1>6. Ahead(out'[At[s]], SubOf(s), PingOf(s))
  BY <1>1, <1>2, <1>4 DEF SubscribedInOrder
<1>7. \/ command.op \in {"sub", "renew"} /\ routed' = routed \cup command.subs
      \/ command.op = "unsub" /\ routed' = routed \ command.subs
      \/ command.op \in {"pub", "ping"} /\ routed' = routed
  BY DEF Serve
<1>. HIDE DEF command
<1>8. CASE command \notin About(s)
  <2>1. s \in routed' <=> s \in routed
    BY <1>4, <1>7, <1>8 DEF About, JoinOf, SubOf, RenewOf, UnsubOf
  <2>2. \A d \in Conns : \A S \in SUBSET About(s) : Has(out'[d], S) <=> Has(out[d], S)
    BY <1>4, <1>8
  <2>3. \A d \in Conns : Has(inbox'[d], PongOf(s)) => Has(inbox[d], PongOf(s))
    BY <1>5, <1>8 DEF About
  <2>. QED
    BY <1>1, <1>2, <1>3, <1>6, <2>1, <2>2, <2>3, RouteKept DEF RouteInv
<1>9. CASE command \in About(s)
  <2>1. c = At[s]
    BY <1>2, <1>4, <1>9 DEF SubscribedInOrder
  <2>2. CASE command \in JoinOf(s)
    <3>1. s \in routed' /\ command \notin PingOf(s)
      BY <1>7, <2>2 DEF JoinOf, SubOf, RenewOf, PingOf, Calls
    <3>2. SubscribedInOrder(s)'
      BY <1>1, <1>2, <1>3, <1>4, <1>5, <1>6, <3>1 DEF SubscribedInOrder
    <3>3. Agreed(s)'
      BY <1>1, <1>2, <1>3, <1>4, <2>1, <3>1 DEF Agreed, IsOpen
    <3>. QED
      BY <3>2, <3>3 DEF RouteInv
  <2>3. CASE command \in UnsubOf(s)
    <3>1. s \notin routed' /\ command \notin PingOf(s)
      BY <1>7, <2>3 DEF UnsubOf, PingOf, Calls
    <3>2. SubscribedInOrder(s)'
      BY <1>1, <1>2, <1>3, <1>4, <1>5, <1>6, <3>1 DEF SubscribedInOrder
    <3>3. IsOpen(At[s]) => s \notin local
      BY <1>2, <1>4, <2>1, <2>3 DEF Agreed, KnownRightly, IsOpen, IsDraining
    <3>4. spc[s] \in {"failed", "closed"} \/ ~IsOpen(At[s])
      BY <1>2, <1>4, <2>1, <2>3 DEF Agreed
    <3>5. Agreed(s)'
      BY <1>3, <3>1, <3>3, <3>4 DEF Agreed, IsOpen
    <3>. QED
      BY <3>2, <3>5 DEF RouteInv
  <2>4. CASE command \in PingOf(s)
    <3>1. (s \in routed' <=> s \in routed) /\ command \notin JoinOf(s)
      BY <1>7, <2>4 DEF PingOf, Calls, JoinOf, SubOf, RenewOf
    <3>2. ~Has(out[c], SubOf(s)) /\ spc[s] \notin {"absent", "flush"}
      <4>1. Ahead(out[c], SubOf(s), PingOf(s)) /\ Has(out[c], PingOf(s))
        BY <1>2, <1>4, <2>1, <2>4 DEF SubscribedInOrder
      <4>2. command \in PingOf(s) => ~Has(out[c], SubOf(s))
        BY <1>2, <4>1, ServedQueue, AheadTail DEF command
      <4>. QED
        BY <1>2, <2>1, <2>4, <4>1, <4>2 DEF SubscribedInOrder
    <3>3. SubscribedInOrder(s)'
      BY <1>1, <1>2, <1>3, <1>4, <1>5, <1>6, <2>1, <3>2 DEF SubscribedInOrder
    <3>4. Has(out'[c], JoinOf(s)) <=> Has(out[c], JoinOf(s))
      BY <1>4, <3>1
    <3>5. Agreed(s)'
      BY <1>1, <1>2, <1>3, <1>4, <2>1, <3>1, <3>4 DEF Agreed, IsOpen
    <3>. QED
      BY <3>3, <3>5 DEF RouteInv
  <2>. QED
    BY <1>9, <2>2, <2>3, <2>4 DEF About
<1>. QED
  BY <1>8, <1>9

LEMMA RouteRead ==
    ASSUME SubInv, NEW s \in Subscribers, NEW c \in Conns, ReadMessage(c) \/ ReadPong(c)
    PROVE  RouteInv(s)'
<1>. DEFINE q == inbox[c]
<1>1. At[s] \in Conns
  BY NATSAssumption DEF Callers
<1>2. SubscribedInOrder(s) /\ Agreed(s) /\ TypeOK /\ RouteInv(s)
  BY DEF SubInv, LocalInv, RouteInv
<1>3. UNCHANGED <<link, closing, local, routed, out>>
  BY DEF ReadMessage, ReadPong
<1>4. q \in Seq(Commands) /\ q # <<>> /\ Head(q) \in Commands
  BY <1>2 DEF TypeOK, ReadMessage, ReadPong
<1>5. inbox'[c] = Tail(q) /\ \A d \in Conns \ {c} : inbox'[d] = inbox[d]
  BY <1>2 DEF TypeOK, ReadMessage, ReadPong
<1>6. Has(q, PongOf(s)) <=> Has(Tail(q), PongOf(s)) \/ Head(q) \in PongOf(s)
  BY <1>4, HasTail
<1>7. \A d \in Conns : Has(inbox'[d], PongOf(s)) => Has(inbox[d], PongOf(s))
  BY <1>5, <1>6
<1>8. CASE spc'[s] = spc[s]
  <2>1. Ahead(out'[At[s]], SubOf(s), PingOf(s))
    BY <1>2, <1>3 DEF SubscribedInOrder
  <2>. QED
    BY <1>1, <1>2, <1>3, <1>7, <1>8, <2>1, RouteKept
<1>9. CASE spc'[s] # spc[s]
  <2>1. /\ Head(q).op = "pong" /\ Head(q).by = s
        /\ spc[s] = "flushing" /\ spc'[s] = "streaming"
    BY <1>2, <1>9 DEF TypeOK, ReadMessage, ReadPong
  <2>2. ~Has(out[At[s]], SubOf(s))
    BY <1>2, <1>4, <1>6, <2>1 DEF SubscribedInOrder, PongOf, Calls
  <2>3. SubscribedInOrder(s)'
    BY <1>2, <1>3, <1>7, <2>1, <2>2 DEF SubscribedInOrder
  <2>4. Agreed(s)'
    BY <1>2, <1>3, <2>1 DEF Agreed, IsOpen
  <2>. QED
    BY <2>3, <2>4 DEF RouteInv
<1>. QED
  BY <1>8, <1>9

LEMMA RouteDrop ==
    ASSUME SubInv, NEW s \in Subscribers, NEW c \in Conns,
           NEW to \in {"down", "closed"}, Drop(c, to), UNCHANGED spc,
           \/ UNCHANGED closing /\ to = "closed"
           \/ UNCHANGED closing /\ to = "down" /\ link[c] = "up"
           \/ closing' = [closing EXCEPT ![c] = "returned"] /\ to = "closed"
    PROVE  RouteInv(s)'
<1>1. At[s] \in Conns
  BY NATSAssumption DEF Callers
<1>2. SubscribedInOrder(s) /\ Agreed(s) /\ TypeOK /\ RouteInv(s)
  BY DEF SubInv, LocalInv, RouteInv
<1>3. /\ out'[c] = <<>> /\ \A d \in Conns \ {c} : out'[d] = out[d]
      /\ inbox'[c] = <<>> /\ \A d \in Conns \ {c} : inbox'[d] = inbox[d]
      /\ link'[c] = to /\ \A d \in Conns \ {c} : link'[d] = link[d] /\ closing'[d] = closing[d]
  BY <1>2 DEF Drop, TypeOK
<1>4. \A S, T : ~Has(<<>>, S) /\ Ahead(<<>>, S, T)
  BY HasNothing
<1>5. CASE At[s] = c
  <2>1. s \notin routed'
    BY <1>5 DEF Drop, Of
  <2>2. \A d \in Conns : Has(out'[d], About(s)) => Has(out[d], About(s))
    BY <1>3, <1>4
  <2>3. \A d \in Conns : Has(inbox'[d], PongOf(s)) => Has(inbox[d], PongOf(s))
    BY <1>3, <1>4
  <2>4. SubscribedInOrder(s)'
    <3>1. /\ ~Has(out'[At[s]], SubOf(s)) /\ ~Has(out'[At[s]], PingOf(s))
          /\ Ahead(out'[At[s]], SubOf(s), PingOf(s))
      BY <1>3, <1>4, <1>5
    <3>2. \A d \in Conns : Has(inbox'[d], PongOf(s)) => spc'[s] \notin {"absent", "flush"}
      BY <1>2, <2>3 DEF SubscribedInOrder
    <3>3. \A d \in Conns : Has(out'[d], About(s)) => d = At[s]
      BY <1>2, <2>2 DEF SubscribedInOrder
    <3>. QED
      BY <3>1, <3>2, <3>3 DEF SubscribedInOrder
  <2>5. to = "down" => UNCHANGED <<local, closing>> /\ link[c] = "up"
    BY DEF Drop
  <2>6. Agreed(s)'
    BY <1>2, <1>3, <1>4, <1>5, <2>1, <2>5 DEF Agreed, IsOpen
  <2>. QED
    BY <2>4, <2>6 DEF RouteInv
<1>6. CASE At[s] # c
  <2>1. (s \in routed' <=> s \in routed) /\ (s \in local' <=> s \in local)
    BY <1>6 DEF Drop, Of
  <2>2. \A d \in Conns : \A S \in SUBSET About(s) : Has(out'[d], S) <=> Has(out[d], S)
    <3>1. ~Has(out[c], About(s))
      BY <1>2, <1>6 DEF SubscribedInOrder
    <3>2. \A S \in SUBSET About(s) : ~Has(out[c], S)
      BY <3>1, HasLarger
    <3>. QED
      BY <1>3, <1>4, <3>2
  <2>3. \A d \in Conns : Has(inbox'[d], PongOf(s)) => Has(inbox[d], PongOf(s))
    BY <1>3, <1>4
  <2>4. Ahead(out'[At[s]], SubOf(s), PingOf(s))
    BY <1>1, <1>2, <1>3, <1>6 DEF SubscribedInOrder
  <2>5. spc'[s] = spc[s] /\ link'[At[s]] = link[At[s]] /\ closing'[At[s]] = closing[At[s]]
    BY <1>1, <1>3, <1>6
  <2>. QED
    BY <1>1, <1>2, <2>1, <2>2, <2>3, <2>4, <2>5, RouteKept
<1>. QED
  BY <1>5, <1>6

LEMMA RouteReconnect ==
    ASSUME SubInv, NEW s \in Subscribers, NEW c \in Conns, Reconnect(c)
    PROVE  RouteInv(s)'
<1>. USE DEF subVars, histVars
<1>. DEFINE command == Command("renew", NoOne, Of(c, local))
<1>1. At[s] \in Conns
  BY NATSAssumption DEF Callers
<1>2. SubscribedInOrder(s) /\ Agreed(s) /\ TypeOK /\ RouteInv(s)
  BY DEF SubInv, LocalInv, RouteInv
<1>3. Of(c, local) \in SUBSET Subscribers /\ (s \in Of(c, local) <=> s \in local /\ At[s] = c)
  BY <1>2 DEF Of, TypeOK
<1>4. /\ command \in Commands
      /\ command \notin SubOf(s) /\ command \notin UnsubOf(s) /\ command \notin PingOf(s)
      /\ command \in JoinOf(s) <=> s \in local /\ At[s] = c
  BY <1>3, CommandTyped, OfSubscribers DEF JoinOf
<1>5. /\ out[c] \in Seq(Commands) /\ out'[c] = <<command>> \o out[c]
      /\ \A d \in Conns \ {c} : out'[d] = out[d]
      /\ link[c] = "down" /\ link'[c] = "up" /\ \A d \in Conns \ {c} : link'[d] = link[d]
      /\ UNCHANGED <<closing, inbox, local, routed, spc>>
  BY <1>2 DEF Reconnect, TypeOK
<1>. HIDE DEF command
<1>6. \A S : Has(out'[c], S) <=> Has(out[c], S) \/ command \in S
  BY <1>4, <1>5, HasInFront
<1>7. Ahead(out'[At[s]], SubOf(s), PingOf(s))
  <2>1. Ahead(out[At[s]], SubOf(s), PingOf(s))
    BY <1>2 DEF SubscribedInOrder
  <2>2. CASE At[s] = c
    BY <1>4, <1>5, <2>1, <2>2, AheadInFront
  <2>. QED
    BY <1>1, <1>5, <2>1, <2>2
<1>8. CASE At[s] = c
  <2>1. \A d \in Conns : Has(out'[d], About(s)) => d = At[s]
    BY <1>2, <1>5, <1>8 DEF SubscribedInOrder
  <2>2. SubscribedInOrder(s)'
    BY <1>2, <1>4, <1>5, <1>6, <1>7, <1>8, <2>1 DEF SubscribedInOrder
  <2>3. Agreed(s)'
    BY <1>2, <1>4, <1>5, <1>6, <1>8 DEF Agreed, IsOpen
  <2>. QED
    BY <2>2, <2>3 DEF RouteInv
<1>9. CASE At[s] # c
  <2>1. command \notin About(s)
    BY <1>4, <1>9 DEF About
  <2>2. \A d \in Conns : \A S \in SUBSET About(s) : Has(out'[d], S) <=> Has(out[d], S)
    BY <1>5, <1>6, <2>1
  <2>3. link'[At[s]] = link[At[s]]
    BY <1>1, <1>5, <1>9
  <2>. QED
    BY <1>1, <1>2, <1>5, <1>7, <2>2, <2>3, RouteKept
<1>. QED
  BY <1>8, <1>9

LEMMA RouteDrain ==
    ASSUME SubInv, NEW s \in Subscribers, NEW c \in Conns, Drain(c)
    PROVE  RouteInv(s)'
<1>. USE DEF subVars, histVars
<1>. DEFINE command == Command("unsub", NoOne, Of(c, local))
<1>1. At[s] \in Conns
  BY NATSAssumption DEF Callers
<1>2. SubscribedInOrder(s) /\ Agreed(s) /\ TypeOK
  BY DEF SubInv, LocalInv, RouteInv
<1>3. Of(c, local) \in SUBSET Subscribers /\ (s \in Of(c, local) => At[s] = c)
  BY <1>2 DEF Of, TypeOK
<1>4. /\ command \in Commands
      /\ command \notin SubOf(s) /\ command \notin JoinOf(s) /\ command \notin PingOf(s)
      /\ command \in UnsubOf(s) => At[s] = c
  BY <1>3, CommandTyped, OfSubscribers DEF JoinOf
<1>5. /\ Enqueue(c, command) /\ UNCHANGED <<link, inbox, local, routed, spc>>
      /\ closing'[c] = "draining" /\ \A d \in Conns \ {c} : closing'[d] = closing[d]
  BY <1>2 DEF Drain, TypeOK
<1>. HIDE DEF command
<1>6. CASE At[s] = c
  <2>1. /\ \A d \in Conns : Has(out'[d], About(s)) => d = At[s]
        /\ Has(out'[At[s]], SubOf(s)) => Has(out[At[s]], SubOf(s))
        /\ Has(out'[At[s]], PingOf(s)) => Has(out[At[s]], PingOf(s))
        /\ Ahead(out'[At[s]], SubOf(s), PingOf(s))
    BY <1>4, <1>5, <1>6, OwnQueue
  <2>2. SubscribedInOrder(s)'
    BY <1>2, <1>5, <2>1 DEF SubscribedInOrder
  <2>3. Agreed(s)'
    BY <1>2, <1>5, <1>6 DEF Agreed, IsOpen
  <2>. QED
    BY <2>2, <2>3 DEF RouteInv
<1>7. CASE At[s] # c
  <2>1. command \in Commands \ About(s)
    BY <1>4, <1>7 DEF About
  <2>2. closing'[At[s]] = closing[At[s]]
    BY <1>1, <1>5, <1>7
  <2>. QED
    BY <1>5, <2>1, <2>2, RouteOthers
<1>. QED
  BY <1>6, <1>7

LEMMA SubInvKept == SubInv /\ [Next]_vars => SubInv'
<1>. SUFFICES ASSUME SubInv, [Next]_vars PROVE SubInv'
  OBVIOUS
<1>. USE DEF wireVars, subVars, histVars
<1>1. LocalInv'
  BY LocalInvKept DEF SubInv
<1>2. ASSUME NEW s \in Subscribers PROVE RouteInv(s)'
  <2>1. CASE UNCHANGED vars
    BY <2>1, RouteUntouched DEF vars
  <2>2. ASSUME NEW p \in Publishers,
               PublishCall(p) \/ PublishRefused(p) \/ PublishFlush(p) \/ PublishFails(p)
        PROVE  RouteInv(s)'
    BY <2>2, RoutePublish
  <2>3. ASSUME NEW u \in Subscribers,
               \/ Subscribe(u) \/ SubscribeRefused(u) \/ SubscribeFlush(u)
               \/ SubscribeFails(u) \/ Leave(u) \/ Unsubscribe(u)
        PROVE  RouteInv(s)'
    BY <2>3, RouteOwn, RouteNeighbour
  <2>4. ASSUME NEW u \in Subscribers, Callback(u) \/ Receive(u) PROVE RouteInv(s)'
    BY <2>4, RouteUntouched DEF Callback, Receive
  <2>5. ASSUME NEW c \in Conns, Serve(c) \/ ReadMessage(c) \/ ReadPong(c)
        PROVE  RouteInv(s)'
    BY <2>5, RouteServe, RouteRead
  <2>6. ASSUME NEW c \in Conns, Break(c) \/ GiveUp(c) \/ CloseAtOnce(c) \/ CloseReturns(c)
        PROVE  RouteInv(s)'
    <3>1. UNCHANGED spc
      BY <2>6 DEF Break, GiveUp, CloseAtOnce, CloseReturns
    <3>2. PICK to \in {"down", "closed"} :
            /\ Drop(c, to)
            /\ \/ UNCHANGED closing /\ to = "closed"
               \/ UNCHANGED closing /\ to = "down" /\ link[c] = "up"
               \/ closing' = [closing EXCEPT ![c] = "returned"] /\ to = "closed"
      BY <2>6 DEF Break, GiveUp, CloseAtOnce, CloseReturns
    <3>. QED
      BY <3>1, <3>2, RouteDrop
  <2>7. ASSUME NEW c \in Conns, Reconnect(c) \/ Drain(c) PROVE RouteInv(s)'
    BY <2>7, RouteReconnect, RouteDrain
  <2>. QED
    BY <2>1, <2>2, <2>3, <2>4, <2>5, <2>6, <2>7 DEF Next, Finished
<1>. QED
  BY <1>1, <1>2 DEF SubInv

LEMMA SubInvInit == Init => SubInv
<1>. SUFFICES ASSUME Init PROVE SubInv
  OBVIOUS
<1>1. <<>> \in Seq(Commands)
  OBVIOUS
<1>2. TypeOK
  BY <1>1, NATSAssumption DEF Init, TypeOK
<1>3. ASSUME NEW s \in Subscribers PROVE KnownRightly(s) /\ RouteInv(s)
  <2>1. At[s] \in Conns
    BY NATSAssumption DEF Callers
  <2>2. /\ \A c \in Conns : out[c] = <<>> /\ inbox[c] = <<>>
        /\ s \notin local /\ s \notin routed /\ spc[s] = "absent" /\ pending[s] = {}
        /\ link[At[s]] = "up" /\ closing[At[s]] = "no"
    BY <2>1 DEF Init
  <2>. QED
    BY <2>1, <2>2, HasNothing
    DEF KnownRightly, AtMostOne, RouteInv, SubscribedInOrder, Agreed
<1>. QED
  BY <1>2, <1>3 DEF SubInv, LocalInv

\* A stream whose Subscribe has returned is known to the server or about to be
\* renewed, however its flush was overtaken by breaks, renewals, a shutdown of its
\* process and the subscriptions of others (nats.go:71-75).
THEOREM StreamsAreRouted == Spec => []OpenMeansRouted
<1>1. SubInv => OpenMeansRouted
  <2>. SUFFICES ASSUME SubInv, NEW s \in Subscribers, spc[s] = "streaming",
                       IsOpen(At[s]), link[At[s]] # "closed"
                PROVE  s \in routed \/ Renewing(At[s], s)
    BY DEF OpenMeansRouted
  <2>1. At[s] \in Conns /\ SubscribedInOrder(s) /\ Agreed(s) /\ TypeOK
    BY NATSAssumption DEF SubInv, LocalInv, RouteInv, Callers
  <2>2. link[At[s]] \in {"up", "down"}
    BY <2>1 DEF TypeOK
  <2>3. CASE link[At[s]] = "down"
    BY <2>3 DEF Renewing
  <2>4. CASE link[At[s]] = "up"
    <3>1. s \in routed \/ Has(out[At[s]], JoinOf(s))
      BY <2>1, <2>4 DEF Agreed
    <3>2. ~Has(out[At[s]], SubOf(s))
      BY <2>1 DEF SubscribedInOrder
    <3>3. Has(out[At[s]], JoinOf(s)) => Has(out[At[s]], RenewOf(s))
      BY <3>2 DEF JoinOf, Has
    <3>4. Has(out[At[s]], RenewOf(s)) => Renewing(At[s], s)
      BY DEF Has, RenewOf, Renewing
    <3>. QED
      BY <3>1, <3>3, <3>4
  <2>. QED
    BY <2>2, <2>3, <2>4
<1>. QED
  BY <1>1, SubInvInit, SubInvKept, PTL DEF Spec

-----------------------------------------------------------------------------
(***************************************************************************)
(* Publications.  A stream the server knew when a publication began stays  *)
(* known for as long as the stream is open and no break takes the event, so*)
(* that whatever step takes the event on leaves it where the stream will   *)
(* find it.                                                                *)
(***************************************************************************)

PubOf(p) == Calls("pub", p)
MsgOf(p, s) == {x \in Commands : x.op = "msg" /\ x.by = p /\ s \in x.subs}

UnderWay(p, s) ==
    \/ Has(out[At[p]], PubOf(p))
    \/ Has(inbox[At[s]], MsgOf(p, s))
    \/ p \in pending[s]

Delivered(p, s) == mailbox[s] > 0 \/ p \in heard[s]

\* A publication concerns streams the server knew, and still knows.
Concerns(p, s) ==
    s \in since[p] =>
        /\ ppc[p] # "before"
        /\ spc[s] \in {"streaming", "leaving", "closed"}
        /\ spc[s] = "streaming" /\ IsOpen(At[s])
            => s \in routed /\ (UnderWay(p, s) \/ Delivered(p, s))

HearInv == SubInv /\ \A p \in Publishers, s \in Subscribers : Concerns(p, s)

\* What a publication concerns once keeps being concerned, if the event gets no
\* further from the stream.
LEMMA ConcernsKept ==
    ASSUME NEW p \in Publishers, NEW s \in Subscribers, Concerns(p, s),
           s \in since'[p] => s \in since[p],
           ppc'[p] = "before" => ppc[p] = "before",
           \/ spc'[s] = spc[s]
           \/ spc[s] \notin {"streaming", "leaving", "closed"}
           \/ spc'[s] \in {"leaving", "closed"},
           s \in since'[p] /\ spc[s] = "streaming" /\ spc'[s] = "streaming" /\ IsOpen(At[s])'
             => /\ IsOpen(At[s])
                /\ s \in routed => s \in routed'
                /\ s \in routed /\ UnderWay(p, s) => UnderWay(p, s)' \/ Delivered(p, s)'
                /\ Delivered(p, s) => Delivered(p, s)'
    PROVE  Concerns(p, s)'
  BY DEF Concerns

LEMMA EnqueueKeepsOut ==
    ASSUME TypeOK, NEW c \in Conns, NEW command \in Commands,
           Enqueue(c, command) \/ EnqueueIfUp(c, command)
    PROVE  \A d \in Conns : \A S : Has(out[d], S) => Has(out'[d], S)
<1>1. out[c] \in Seq(Commands)
  BY DEF TypeOK
<1>2. \A S : Has(out[c], S) => Has(Append(out[c], command), S)
  BY <1>1, HasAppend
<1>3. \A d \in Conns : \/ out'[d] = out[d]
                       \/ d = c /\ out'[d] = Append(out[c], command)
  BY DEF TypeOK, Enqueue, EnqueueIfUp
<1>. QED
  BY <1>2, <1>3

LEMMA HearPublish ==
    ASSUME HearInv, NEW p \in Publishers, NEW s \in Subscribers, NEW x \in Publishers,
           PublishCall(x) \/ PublishRefused(x) \/ PublishFlush(x) \/ PublishFails(x)
    PROVE  Concerns(p, s)'
<1>. USE DEF wireVars, subVars, histVars
<1>1. At[x] \in Conns /\ x \in Callers /\ At[p] \in Conns
  BY NATSAssumption DEF Callers
<1>2. TypeOK /\ Concerns(p, s)
  BY DEF HearInv, SubInv, LocalInv
<1>3. /\ UNCHANGED <<inbox, closing, routed, pending, mailbox, spc, heard>>
      /\ ppc'[p] = "before" => ppc[p] = "before"
  BY <1>2 DEF TypeOK, PublishCall, PublishRefused, PublishFlush, PublishFails
<1>4. \A d \in Conns : \A S : Has(out[d], S) => Has(out'[d], S)
  <2>1. CASE PublishCall(x)
    <3>1. Command("pub", x, {}) \in Commands
      BY CommandTyped
    <3>. QED
      BY <1>1, <1>2, <2>1, <3>1, EnqueueKeepsOut DEF PublishCall
  <2>2. CASE PublishFlush(x)
    <3>1. Command("ping", x, {}) \in Commands
      BY <1>1, CommandTyped
    <3>. QED
      BY <1>1, <1>2, <2>2, <3>1, EnqueueKeepsOut DEF PublishFlush
  <2>3. CASE PublishRefused(x) \/ PublishFails(x)
    BY <2>3 DEF PublishRefused, PublishFails
  <2>. QED
    BY <2>1, <2>2, <2>3
<1>5. CASE PublishCall(x) /\ x = p
  <2>1. Command("pub", p, {}) \in Commands /\ Command("pub", p, {}) \in PubOf(p)
    BY <1>1, CommandTyped DEF PubOf, Calls, Command
  <2>2. out[At[p]] \in Seq(Commands) /\ out'[At[p]] = Append(out[At[p]], Command("pub", p, {}))
    BY <1>1, <1>2, <1>5 DEF TypeOK, PublishCall, Enqueue
  <2>3. Has(out'[At[p]], PubOf(p))
    BY <2>1, <2>2, HasAppend
  <2>4. ppc'[p] = "flush" /\ since'[p] = {u \in routed : spc[u] = "streaming"}
    BY <1>2, <1>5 DEF TypeOK, PublishCall
  <2>. QED
    BY <1>3, <2>3, <2>4 DEF Concerns, UnderWay
<1>6. CASE ~(PublishCall(x) /\ x = p)
  <2>1. since'[p] = since[p]
    BY <1>2, <1>6 DEF TypeOK, PublishCall, PublishRefused, PublishFlush, PublishFails
  <2>2. UnderWay(p, s) => UnderWay(p, s)'
    BY <1>1, <1>3, <1>4 DEF UnderWay
  <2>3. Delivered(p, s) => Delivered(p, s)'
    BY <1>3 DEF Delivered
  <2>4. IsOpen(At[s])' => IsOpen(At[s])
    BY <1>3 DEF IsOpen
  <2>. QED
    BY <1>2, <1>3, <2>1, <2>2, <2>3, <2>4, ConcernsKept
<1>. QED
  BY <1>5, <1>6

LEMMA HearSubscribe ==
    ASSUME HearInv, NEW p \in Publishers, NEW s \in Subscribers, NEW x \in Subscribers,
           \/ Subscribe(x) \/ SubscribeRefused(x) \/ SubscribeFlush(x) \/ SubscribeFails(x)
           \/ Leave(x) \/ Unsubscribe(x)
    PROVE  Concerns(p, s)'
<1>. USE DEF wireVars, subVars, histVars
<1>1. At[x] \in Conns /\ x \in Callers /\ At[p] \in Conns
  BY NATSAssumption DEF Callers
<1>2. TypeOK /\ Concerns(p, s)
  BY DEF HearInv, SubInv, LocalInv
<1>3. UNCHANGED <<inbox, closing, routed, mailbox, ppc, histVars>>
  BY DEF Subscribe, SubscribeRefused, SubscribeFlush, SubscribeFails, Leave, Unsubscribe
<1>4. \/ spc'[s] = spc[s]
      \/ spc[s] \notin {"streaming", "leaving", "closed"}
      \/ spc'[s] \in {"leaving", "closed"}
  BY <1>2 DEF TypeOK, Subscribe, SubscribeRefused, SubscribeFlush, SubscribeFails, Leave,
     Unsubscribe
<1>5. \A d \in Conns : \A S : Has(out[d], S) => Has(out'[d], S)
  <2>1. CASE Subscribe(x)
    <3>1. Command("sub", NoOne, {x}) \in Commands
      BY CommandTyped
    <3>. QED
      BY <1>1, <1>2, <2>1, <3>1, EnqueueKeepsOut DEF Subscribe
  <2>2. CASE SubscribeFlush(x)
    <3>1. Command("ping", x, {}) \in Commands
      BY <1>1, CommandTyped
    <3>. QED
      BY <1>1, <1>2, <2>2, <3>1, EnqueueKeepsOut DEF SubscribeFlush
  <2>3. CASE Unsubscribe(x)
    <3>1. Command("unsub", NoOne, {x}) \in Commands
      BY CommandTyped
    <3>2. EnqueueIfUp(At[x], Command("unsub", NoOne, {x})) \/ UNCHANGED out
      BY <2>3 DEF Unsubscribe
    <3>. QED
      BY <1>1, <1>2, <3>1, <3>2, EnqueueKeepsOut
  <2>4. CASE SubscribeRefused(x) \/ SubscribeFails(x) \/ Leave(x)
    BY <2>4 DEF SubscribeRefused, SubscribeFails, Leave
  <2>. QED
    BY <2>1, <2>2, <2>3, <2>4
<1>6. spc[s] = "streaming" /\ spc'[s] = "streaming" => pending'[s] = pending[s]
  BY <1>2 DEF TypeOK, Subscribe, SubscribeRefused, SubscribeFlush, SubscribeFails, Leave,
     Unsubscribe, Discard
<1>7. spc[s] = "streaming" /\ spc'[s] = "streaming" => (UnderWay(p, s) => UnderWay(p, s)')
  BY <1>1, <1>3, <1>5, <1>6 DEF UnderWay
<1>8. Delivered(p, s) => Delivered(p, s)'
  BY <1>3 DEF Delivered
<1>9. IsOpen(At[s])' => IsOpen(At[s])
  BY <1>3 DEF IsOpen
<1>. QED
  BY <1>2, <1>3, <1>4, <1>7, <1>8, <1>9, ConcernsKept

LEMMA HearStream ==
    ASSUME HearInv, NEW p \in Publishers, NEW s \in Subscribers, NEW x \in Subscribers,
           Callback(x) \/ Receive(x)
    PROVE  Concerns(p, s)'
<1>. USE DEF wireVars, subVars, histVars
<1>1. TypeOK /\ Concerns(p, s)
  BY DEF HearInv, SubInv, LocalInv
<1>2. UNCHANGED <<inbox, out, closing, routed, spc, ppc, since>>
  BY DEF Callback, Receive
<1>3. IsOpen(At[s])' => IsOpen(At[s])
  BY <1>2 DEF IsOpen
<1>4. mailbox[s] \in Nat
  BY <1>1, NATSAssumption DEF TypeOK
<1>5. CASE Callback(x)
  <2>1. heard' = heard
    BY <1>5 DEF Callback
  <2>2. CASE x = s
    <3>1. spc[s] = "streaming" => mailbox'[s] = Offered(mailbox[s])
      BY <1>1, <1>5, <2>2 DEF TypeOK, Callback, IsDone
    <3>2. Offered(mailbox[s]) > 0
      BY <1>4, NATSAssumption DEF Offered
    <3>3. spc[s] = "streaming" => Delivered(p, s)'
      BY <3>1, <3>2 DEF Delivered
    <3>. QED
      BY <1>1, <1>2, <1>3, <3>3, ConcernsKept
  <2>3. CASE x # s
    <3>1. pending'[s] = pending[s] /\ mailbox'[s] = mailbox[s]
      BY <1>1, <1>5, <2>3 DEF TypeOK, Callback
    <3>2. UnderWay(p, s) => UnderWay(p, s)'
      BY <1>2, <3>1 DEF UnderWay
    <3>3. Delivered(p, s) => Delivered(p, s)'
      BY <2>1, <3>1 DEF Delivered
    <3>. QED
      BY <1>1, <1>2, <1>3, <3>2, <3>3, ConcernsKept
  <2>. QED
    BY <2>2, <2>3
<1>6. CASE Receive(x)
  <2>1. pending' = pending
    BY <1>6 DEF Receive
  <2>2. CASE x = s
    <3>1. heard'[s] = {q \in Publishers : ppc[q] # "before"}
      BY <1>1, <1>6, <2>2 DEF TypeOK, Receive
    <3>2. s \in since[p] => Delivered(p, s)'
      BY <1>1, <3>1 DEF Concerns, Delivered
    <3>. QED
      BY <1>1, <1>2, <1>3, <3>2, ConcernsKept
  <2>3. CASE x # s
    <3>1. heard'[s] = heard[s] /\ mailbox'[s] = mailbox[s]
      BY <1>1, <1>6, <2>3 DEF TypeOK, Receive
    <3>2. UnderWay(p, s) => UnderWay(p, s)'
      BY <1>2, <2>1 DEF UnderWay
    <3>3. Delivered(p, s) => Delivered(p, s)'
      BY <3>1 DEF Delivered
    <3>. QED
      BY <1>1, <1>2, <1>3, <3>2, <3>3, ConcernsKept
  <2>. QED
    BY <2>2, <2>3
<1>. QED
  BY <1>5, <1>6

\* The server takes what p published: every stream it knows is sent a message.
LEMMA SentToKnown ==
    ASSUME TypeOK, NEW p \in Publishers, NEW s \in routed, inbox' = Sent(p)
    PROVE  Has(inbox'[At[s]], MsgOf(p, s))
<1>. DEFINE message == Command("msg", p, Of(At[s], routed))
<1>1. s \in Subscribers /\ At[s] \in Conns
  BY NATSAssumption DEF TypeOK, Callers
<1>2. s \in Of(At[s], routed) /\ Of(At[s], routed) \in SUBSET Subscribers
  BY DEF Of, TypeOK
<1>3. message \in Commands
  BY <1>2, CommandTyped
<1>4. message \in MsgOf(p, s)
  BY <1>2, <1>3 DEF MsgOf, Command
<1>5. inbox[At[s]] \in Seq(Commands) /\ inbox'[At[s]] = Append(inbox[At[s]], message)
  BY <1>1, <1>2 DEF TypeOK, Sent
<1>. HIDE DEF message
<1>. QED
  BY <1>3, <1>4, <1>5, HasAppend

LEMMA ServeKeepsInbox ==
    ASSUME TypeOK, NEW c \in Conns, Serve(c)
    PROVE  \A d \in Conns : \A S : Has(inbox[d], S) => Has(inbox'[d], S)
<1>. SUFFICES ASSUME NEW d \in Conns, NEW S, Has(inbox[d], S) PROVE Has(inbox'[d], S)
  OBVIOUS
<1>. DEFINE command == Head(out[c])
<1>1. command \in Commands /\ inbox[d] \in Seq(Commands)
  BY ServedQueue DEF TypeOK
<1>2. CASE command.op = "ping"
           /\ inbox' = [inbox EXCEPT ![c] = Append(@, Command("pong", command.by, {}))]
  <2>. DEFINE pong == Command("pong", command.by, {})
  <2>1. pong \in Commands
    BY <1>1, <1>2, CommandTyped DEF Commands
  <2>2. inbox'[d] = Append(inbox[d], pong) \/ inbox'[d] = inbox[d]
    BY <1>2 DEF TypeOK
  <2>. HIDE DEF pong
  <2>3. Has(Append(inbox[d], pong), S)
    BY <1>1, <2>1, HasAppend
  <2>. QED
    BY <2>2, <2>3
<1>3. CASE command.op = "pub" /\ inbox' = Sent(command.by)
  <2>. DEFINE message == Command("msg", command.by, Of(d, routed))
  <2>1. message \in Commands
    BY <1>1, <1>3, CommandTyped DEF Commands, Of, TypeOK
  <2>2. inbox'[d] = Append(inbox[d], message) \/ inbox'[d] = inbox[d]
    BY <1>3 DEF Sent
  <2>. HIDE DEF message
  <2>3. Has(Append(inbox[d], message), S)
    BY <1>1, <2>1, HasAppend
  <2>. QED
    BY <2>2, <2>3
<1>4. CASE UNCHANGED inbox
  BY <1>4
<1>. QED
  BY <1>2, <1>3, <1>4 DEF Serve

LEMMA HearServe ==
    ASSUME HearInv, NEW p \in Publishers, NEW s \in Subscribers, NEW c \in Conns, Serve(c)
    PROVE  Concerns(p, s)'
<1>. USE DEF histVars
<1>. DEFINE command == Head(out[c])
<1>1. At[s] \in Conns /\ At[p] \in Conns
  BY NATSAssumption DEF Callers
<1>2. TypeOK /\ Concerns(p, s) /\ SubscribedInOrder(s) /\ Agreed(s)
  BY DEF HearInv, SubInv, LocalInv, RouteInv
<1>3. UNCHANGED <<closing, pending, mailbox, spc, ppc, histVars>>
  BY DEF Serve
<1>4. /\ command \in Commands
      /\ \A S : Has(out[c], S) <=> Has(out'[c], S) \/ command \in S
      /\ \A d \in Conns \ {c} : out'[d] = out[d]
  BY <1>2, ServedQueue
<1>5. \A d \in Conns : \A S : Has(inbox[d], S) => Has(inbox'[d], S)
  BY <1>2, ServeKeepsInbox
<1>6. IsOpen(At[s])' => IsOpen(At[s])
  BY <1>3 DEF IsOpen
<1>7. spc[s] = "streaming" /\ IsOpen(At[s]) /\ s \in routed => s \in routed'
  <2>1. command \in UnsubOf(s) => c = At[s]
    BY <1>2, <1>4 DEF SubscribedInOrder, About
  <2>2. spc[s] = "streaming" /\ IsOpen(At[s]) => command \notin UnsubOf(s)
    BY <1>2, <1>4, <2>1 DEF Agreed
  <2>3. command \notin UnsubOf(s) /\ s \in routed => s \in routed'
    BY <1>4 DEF Serve, UnsubOf
  <2>. QED
    BY <2>2, <2>3
<1>8. s \in routed /\ UnderWay(p, s) => UnderWay(p, s)'
  <2>1. CASE command \in PubOf(p)
    <3>1. inbox' = Sent(p)
      BY <2>1 DEF Serve, PubOf, Calls
    <3>. QED
      BY <1>2, <3>1, SentToKnown DEF UnderWay
  <2>2. CASE command \notin PubOf(p)
    BY <1>1, <1>3, <1>4, <1>5, <2>2 DEF UnderWay
  <2>. QED
    BY <2>1, <2>2
<1>9. Delivered(p, s) => Delivered(p, s)'
  BY <1>3 DEF Delivered
<1>. QED
  BY <1>2, <1>3, <1>6, <1>7, <1>8, <1>9, ConcernsKept

LEMMA HearRead ==
    ASSUME HearInv, NEW p \in Publishers, NEW s \in Subscribers, NEW c \in Conns,
           ReadMessage(c) \/ ReadPong(c)
    PROVE  Concerns(p, s)'
<1>. USE DEF histVars
<1>. DEFINE q == inbox[c]
<1>1. At[s] \in Conns /\ At[p] \in Conns
  BY NATSAssumption DEF Callers
<1>2. TypeOK /\ Concerns(p, s) /\ Agreed(s)
  BY DEF HearInv, SubInv, LocalInv, RouteInv
<1>3. UNCHANGED <<closing, link, out, routed, local, mailbox, histVars>> /\ link[c] = "up"
  BY DEF ReadMessage, ReadPong
<1>4. q \in Seq(Commands) /\ q # <<>> /\ Head(q) \in Commands
  BY <1>2 DEF TypeOK, ReadMessage, ReadPong
<1>5. inbox'[c] = Tail(q) /\ \A d \in Conns \ {c} : inbox'[d] = inbox[d]
  BY <1>2 DEF TypeOK, ReadMessage, ReadPong
<1>6. \A S : Has(q, S) <=> Has(Tail(q), S) \/ Head(q) \in S
  BY <1>4, HasTail
<1>7. /\ ppc'[p] = "before" => ppc[p] = "before"
      /\ spc'[s] = spc[s] \/ spc[s] \notin {"streaming", "leaving", "closed"}
      /\ pending[s] \subseteq pending'[s]
  BY DEF ReadMessage, ReadPong
<1>8. IsOpen(At[s])' => IsOpen(At[s])
  BY <1>3 DEF IsOpen
<1>9. spc[s] = "streaming" /\ IsOpen(At[s]) /\ UnderWay(p, s) => UnderWay(p, s)'
  <2>1. CASE c = At[s] /\ Head(q) \in MsgOf(p, s)
    <3>1. spc[s] = "streaming" /\ IsOpen(At[s]) => s \in local
      BY <1>2, <1>3, <2>1 DEF Agreed
    <3>2. ReadMessage(c) /\ s \in Head(q).subs /\ Head(q).by = p
      BY <2>1 DEF ReadPong, MsgOf
    <3>3. s \in local => p \in pending'[s]
      BY <3>2 DEF ReadMessage
    <3>. QED
      BY <3>1, <3>3 DEF UnderWay
  <2>2. CASE ~(c = At[s] /\ Head(q) \in MsgOf(p, s))
    BY <1>1, <1>3, <1>5, <1>6, <1>7, <2>2 DEF UnderWay
  <2>. QED
    BY <2>1, <2>2
<1>10. Delivered(p, s) => Delivered(p, s)'
  BY <1>3 DEF Delivered
<1>. QED
  BY <1>2, <1>3, <1>7, <1>8, <1>9, <1>10, ConcernsKept

\* A break that takes the event takes the claim on it, and no other.
LEMMA HearDrop ==
    ASSUME HearInv, NEW p \in Publishers, NEW s \in Subscribers, NEW c \in Conns,
           NEW to \in {"down", "closed"}, Drop(c, to),
           UNCHANGED <<mailbox, spc, ppc, heard>>,
           UNCHANGED closing \/ closing' = [closing EXCEPT ![c] = "returned"]
    PROVE  Concerns(p, s)'
<1>1. At[s] \in Conns /\ At[p] \in Conns
  BY NATSAssumption DEF Callers
<1>2. TypeOK /\ Concerns(p, s)
  BY DEF HearInv, SubInv, LocalInv
<1>3. CASE s \in since'[p]
  <2>1. s \in since[p] /\ At[s] # c /\ (At[p] = c => ~Unsent(p))
    BY <1>3 DEF Drop, Of
  <2>2. /\ s \in routed => s \in routed'
        /\ pending'[s] = pending[s] /\ closing'[At[s]] = closing[At[s]]
    BY <1>1, <1>2, <2>1 DEF Drop, Discard, Of, TypeOK
  <2>3. inbox'[At[s]] = inbox[At[s]] /\ (At[p] # c => out'[At[p]] = out[At[p]])
    BY <1>1, <1>2, <2>1 DEF Drop, TypeOK
  <2>4. Has(out[At[p]], PubOf(p)) => Unsent(p)
    BY DEF Has, PubOf, Calls, Unsent
  <2>5. UnderWay(p, s) => UnderWay(p, s)'
    BY <2>1, <2>2, <2>3, <2>4 DEF UnderWay
  <2>6. Delivered(p, s) => Delivered(p, s)'
    BY DEF Delivered
  <2>7. IsOpen(At[s])' => IsOpen(At[s])
    BY <2>2 DEF IsOpen
  <2>. QED
    BY <1>2, <2>1, <2>2, <2>5, <2>6, <2>7, ConcernsKept
<1>4. CASE s \notin since'[p]
  BY <1>4 DEF Concerns
<1>. QED
  BY <1>3, <1>4

LEMMA HearConnection ==
    ASSUME HearInv, NEW p \in Publishers, NEW s \in Subscribers, NEW c \in Conns,
           \/ Break(c) \/ Reconnect(c) \/ GiveUp(c)
           \/ CloseAtOnce(c) \/ Drain(c) \/ CloseReturns(c)
    PROVE  Concerns(p, s)'
<1>. USE DEF wireVars, subVars, histVars
<1>1. At[s] \in Conns /\ At[p] \in Conns
  BY NATSAssumption DEF Callers
<1>2. TypeOK /\ Concerns(p, s)
  BY DEF HearInv, SubInv, LocalInv
<1>3. CASE Break(c) \/ GiveUp(c) \/ CloseAtOnce(c) \/ CloseReturns(c)
  <2>1. UNCHANGED <<mailbox, spc, ppc, heard>>
    BY <1>3 DEF Break, GiveUp, CloseAtOnce, CloseReturns
  <2>2. UNCHANGED closing \/ closing' = [closing EXCEPT ![c] = "returned"]
    BY <1>3 DEF Break, GiveUp, CloseAtOnce, CloseReturns
  <2>3. \E to \in {"down", "closed"} : Drop(c, to)
    BY <1>3 DEF Break, GiveUp, CloseAtOnce, CloseReturns
  <2>. QED
    BY <2>1, <2>2, <2>3, HearDrop
<1>4. CASE Reconnect(c) \/ Drain(c)
  <2>1. UNCHANGED <<inbox, subVars, ppc, histVars>>
    BY <1>4 DEF Reconnect, Drain
  <2>2. \A d \in Conns : \A S : Has(out[d], S) => Has(out'[d], S)
    <3>1. CASE Reconnect(c)
      <4>. DEFINE command == Command("renew", NoOne, Of(c, local))
      <4>1. command \in Commands
        BY <1>2, CommandTyped DEF Of, TypeOK
      <4>2. /\ out[c] \in Seq(Commands) /\ out'[c] = <<command>> \o out[c]
            /\ \A d \in Conns \ {c} : out'[d] = out[d]
        BY <1>2, <3>1 DEF Reconnect, TypeOK
      <4>. HIDE DEF command
      <4>3. \A S : Has(out[c], S) => Has(out'[c], S)
        BY <4>1, <4>2, HasInFront
      <4>. QED
        BY <4>2, <4>3
    <3>2. CASE Drain(c)
      <4>1. Command("unsub", NoOne, Of(c, local)) \in Commands
        BY <1>2, CommandTyped DEF Of, TypeOK
      <4>. QED
        BY <1>2, <3>2, <4>1, EnqueueKeepsOut DEF Drain
    <3>. QED
      BY <1>4, <3>1, <3>2
  <2>3. IsOpen(At[s])' => IsOpen(At[s])
    BY <1>1, <1>2, <1>4 DEF Reconnect, Drain, IsOpen, TypeOK
  <2>4. UnderWay(p, s) => UnderWay(p, s)'
    BY <1>1, <2>1, <2>2 DEF UnderWay
  <2>5. Delivered(p, s) => Delivered(p, s)'
    BY <2>1 DEF Delivered
  <2>. QED
    BY <1>2, <2>1, <2>3, <2>4, <2>5, ConcernsKept
<1>. QED
  BY <1>3, <1>4

LEMMA HearInvKept == HearInv /\ [Next]_vars => HearInv'
<1>. SUFFICES ASSUME HearInv, [Next]_vars PROVE HearInv'
  OBVIOUS
<1>1. SubInv'
  BY SubInvKept DEF HearInv
<1>2. ASSUME NEW p \in Publishers, NEW s \in Subscribers PROVE Concerns(p, s)'
  <2>1. CASE UNCHANGED vars
    <3>1. Concerns(p, s)
      BY DEF HearInv
    <3>. QED
      BY <2>1, <3>1
      DEF Concerns, UnderWay, Delivered, IsOpen, vars, wireVars, subVars, histVars
  <2>2. ASSUME NEW x \in Publishers,
               PublishCall(x) \/ PublishRefused(x) \/ PublishFlush(x) \/ PublishFails(x)
        PROVE  Concerns(p, s)'
    BY <2>2, HearPublish
  <2>3. ASSUME NEW x \in Subscribers,
               \/ Subscribe(x) \/ SubscribeRefused(x) \/ SubscribeFlush(x)
               \/ SubscribeFails(x) \/ Leave(x) \/ Unsubscribe(x)
               \/ Callback(x) \/ Receive(x)
        PROVE  Concerns(p, s)'
    BY <2>3, HearSubscribe, HearStream
  <2>4. ASSUME NEW c \in Conns,
               \/ Serve(c) \/ ReadMessage(c) \/ ReadPong(c)
               \/ Break(c) \/ Reconnect(c) \/ GiveUp(c)
               \/ CloseAtOnce(c) \/ Drain(c) \/ CloseReturns(c)
        PROVE  Concerns(p, s)'
    BY <2>4, HearServe, HearRead, HearConnection
  <2>. QED
    BY <2>1, <2>2, <2>3, <2>4 DEF Next, Finished
<1>. QED
  BY <1>1, <1>2 DEF HearInv

\* An event never gets lost between a publisher and an open stream the server knew
\* when the publication began, but by a break: not by a full mailbox, not by the
\* renewals of others, not by a publisher that gives up or a subscriber that leaves
\* (nats.go:47-67).
THEOREM NothingIsEverUnheard == Spec => []NothingUnheard
<1>1. Init => HearInv
  <2>. SUFFICES ASSUME Init PROVE HearInv
    OBVIOUS
  <2>1. SubInv
    BY SubInvInit
  <2>2. \A p \in Publishers : since[p] = {}
    BY DEF Init
  <2>. QED
    BY <2>1, <2>2 DEF HearInv, Concerns
<1>2. HearInv => NothingUnheard
  <2>. SUFFICES ASSUME HearInv, NEW p \in Publishers, NEW s \in since[p],
                       spc[s] = "streaming", IsOpen(At[s])
                PROVE  OnItsWay(p, s) \/ mailbox[s] > 0 \/ p \in heard[s]
    BY DEF NothingUnheard
  <2>1. s \in Subscribers
    BY DEF HearInv, SubInv, LocalInv, TypeOK
  <2>2. UnderWay(p, s) \/ Delivered(p, s)
    BY <2>1 DEF HearInv, Concerns
  <2>3. UnderWay(p, s) => OnItsWay(p, s)
    BY DEF UnderWay, OnItsWay, Has, PubOf, Calls, MsgOf, Unsent
  <2>. QED
    BY <2>2, <2>3 DEF Delivered
<1>. QED
  BY <1>1, <1>2, HearInvKept, PTL DEF Spec
=============================================================================
