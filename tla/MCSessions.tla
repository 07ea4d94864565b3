----------------------------- MODULE MCSessions -----------------------------
(***************************************************************************)
(* Instance of Sessions for TLC.  The requests served are interchangeable: *)
(* no property names one of them, and the runs check safety only.          *)
(***************************************************************************)
EXTENDS Sessions, TLC

Symmetry == Permutations(Handlers)
=============================================================================
