------------------------------- MODULE MCPage -------------------------------
(* One todo whose body has every kind of line end, a space after one of them *)
(* and what looks like a field after another.                                *)
EXTENDS Page

SlotSymmetry == Permutations(Slots)

OneRow == {"row"}
Awkward == [row \in OneRow |-> <<"x", "CR", "data:", "x", "CR", "LF", " ", "LF", "LF", "x">>]
=============================================================================
