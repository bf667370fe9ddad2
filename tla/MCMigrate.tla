----------------------------- MODULE MCMigrate -----------------------------
(* Bodies of up to three characters; migrators are interchangeable.         *)
EXTENDS Migrate

ShortBodies == UNION {[1..n -> Chars] : n \in 0..3}
Seeds == {<<"x">>}
=============================================================================
