----------------------------- MODULE MCMessages -----------------------------
(* An instance of Messages whose calls are told apart by nothing but their *)
(* names, and so are its partitions.                                       *)
EXTENDS Messages, TLC

Symmetry == Permutations(Calls) \cup Permutations(Partitions)
=============================================================================
