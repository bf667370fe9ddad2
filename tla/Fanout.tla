------------------------------- MODULE Fanout -------------------------------
(***************************************************************************)
(* What realtime.Bus promises on its one topic, "todos.changed".           *)
(*                                                                         *)
(* A publisher that starts publishing owes the event to every subscriber   *)
(* registered at that moment.  It discharges each debt by putting the      *)
(* event into the subscriber's mailbox, or by dropping it because the      *)
(* mailbox is full, and it returns only when it owes nothing.  Events are  *)
(* nudges: a subscriber re-reads the database on each, so a mailbox is     *)
(* modelled by how many it holds and not by what they say.                 *)
(***************************************************************************)
EXTENDS Integers, FiniteSets

CONSTANTS Publishers,   \* calls of Bus.Publish, each made once
          Subscribers,  \* calls of Bus.Subscribe, each made once
          Cap           \* capacity of a subscriber's channel (16 in the code)

ASSUME CapAssumption == Cap \in Nat \ {0}

VARIABLES registered,   \* subscribers that the bus delivers to
          mailbox,      \* events waiting in each subscriber's channel
          owed,         \* whom each publisher still has to offer its event
          publish       \* progress of each publisher's call

busVars == <<registered, mailbox, owed, publish>>

FanoutTypeOK ==
    /\ registered \subseteq Subscribers
    /\ mailbox \in [Subscribers -> 0..Cap]
    /\ owed \in [Publishers -> SUBSET Subscribers]
    /\ publish \in [Publishers -> {"before", "sending", "returned"}]

FanoutInit ==
    /\ registered = {}
    /\ mailbox = [s \in Subscribers |-> 0]
    /\ owed = [p \in Publishers |-> {}]
    /\ publish = [p \in Publishers |-> "before"]

-----------------------------------------------------------------------------
Join(s) ==
    /\ registered' = registered \cup {s}
    /\ UNCHANGED <<mailbox, owed, publish>>

\* Nobody owes anything to a subscriber that has left.
Leave(s) ==
    /\ registered' = registered \ {s}
    /\ owed' = [p \in Publishers |-> owed[p] \ {s}]
    /\ UNCHANGED <<mailbox, publish>>

\* The consumer receives from its channel; it may still do so after it left.
Take(s) ==
    /\ mailbox[s] > 0
    /\ mailbox' = [mailbox EXCEPT ![s] = @ - 1]
    /\ UNCHANGED <<registered, owed, publish>>

BeginPublish(p) ==
    /\ publish[p] = "before"
    /\ publish' = [publish EXCEPT ![p] = "sending"]
    /\ owed' = [owed EXCEPT ![p] = registered]
    /\ UNCHANGED <<registered, mailbox>>

\* Mutation of Offered: one event more than the channel has room for.
OfferedPastCap(n) == IF n <= Cap THEN n + 1 ELSE n

\* Mutation of Offered: the channel is made one event too small.
OfferedToSmaller(n) == IF n + 1 < Cap THEN n + 1 ELSE n

\* What a non-blocking send leaves in a channel that held n events.
Offered(n) == IF n < Cap THEN n + 1 ELSE n

Offer(p, s) ==
    /\ s \in owed[p]
    /\ owed' = [owed EXCEPT ![p] = @ \ {s}]
    /\ mailbox' = [mailbox EXCEPT ![s] = Offered(@)]
    /\ UNCHANGED <<registered, publish>>

EndPublish(p) ==
    /\ publish[p] = "sending"
    /\ owed[p] = {}
    /\ publish' = [publish EXCEPT ![p] = "returned"]
    /\ UNCHANGED <<registered, mailbox, owed>>

FanoutNext ==
    \/ \E s \in Subscribers : Join(s) \/ Leave(s) \/ Take(s)
    \/ \E p \in Publishers : \/ BeginPublish(p) \/ EndPublish(p)
                             \/ \E s \in Subscribers : Offer(p, s)

FanoutSpec == FanoutInit /\ [][FanoutNext]_busVars
=============================================================================
