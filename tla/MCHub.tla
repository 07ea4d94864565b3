------------------------------- MODULE MCHub -------------------------------
(* Instances of Hub with two users: all connections but the stranger's are *)
(* u1's.                                                                   *)
EXTENDS Hub, TLC

CONSTANTS u1, u2, stranger

MCOwner == [s \in Sockets |-> IF s = stranger THEN u2 ELSE u1]

(* The safety runs do not tell the connections of u1 apart.                *)
Alike == Permutations(Sockets \ {stranger})
=============================================================================
