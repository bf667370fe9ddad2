---------------------------- MODULE MCTodoStore ----------------------------
(* Requests are interchangeable, and so are row ids: they are random.       *)
EXTENDS TodoStore, TLC

Symmetry == Permutations(Requests) \cup Permutations(Ids)
=============================================================================
