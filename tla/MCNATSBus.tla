----------------------------- MODULE MCNATSBus -----------------------------
(***************************************************************************)
(* Two processes: c1 has the streams and a publisher, c2 a publisher.      *)
(***************************************************************************)
EXTENDS NATSBus, TLC

CONSTANTS c1, c2, p2

TwoProcesses == [x \in Callers |-> IF x = p2 THEN c2 ELSE c1]
=============================================================================
