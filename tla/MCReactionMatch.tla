-------------------------- MODULE MCReactionMatch --------------------------
(* Instances of ReactionMatch for TLC.                                     *)
EXTENDS ReactionMatch

CONSTANTS u1, u2

(* u1 and u2 like each other, but each may send something else first, and  *)
(* then the row of the like is refused: u2 turns u1 down, u1 sends an      *)
(* action that checkMatch passes over.                                     *)
MCRequests ==
  {Like(u1, u2), Like(u2, u1),
   [from |-> u2, to |-> u1, action |-> "dislike"],
   [from |-> u1, to |-> u2, action |-> "superlike"]}
=============================================================================
