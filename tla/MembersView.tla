---------------------------- MODULE MembersView ----------------------------
(***************************************************************************)
(* What the members' cache of a chat promises to those who read through    *)
(* it, however fills, deletions, expiries and failures interleave: an      *)
(* answer is empty or the members the chat had at one moment, never a      *)
(* mixture or a part of them, and a cached list is replaced by a later one *)
(* only, until it is dropped.  How late an answer is, is not promised.     *)
(***************************************************************************)
CONSTANTS Users, Readers

VARIABLES
  members,  \* the members of the chat
  past,     \* what they were at any moment so far, now included
  cache,    \* the cached list, {} for none
  answer    \* answer[r]: what reader r was told last

vars == <<members, past, cache, answer>>

Init ==
  /\ members \in SUBSET Users
  /\ past = {members}
  /\ cache = {}
  /\ answer = [r \in Readers |-> {}]

Join(u) ==
  /\ members' = members \cup {u}
  /\ past' = past \cup {members'}
  /\ UNCHANGED <<cache, answer>>

Fill ==
  /\ cache' \in past
  /\ cache \subseteq cache'
  /\ UNCHANGED <<members, past, answer>>

Drop ==
  /\ cache' = {}
  /\ UNCHANGED <<members, past, answer>>

Reply(r) ==
  /\ \E s \in past \cup {{}} : answer' = [answer EXCEPT ![r] = s]
  /\ UNCHANGED <<members, past, cache>>

Next ==
  \/ \E u \in Users : Join(u)
  \/ Fill
  \/ Drop
  \/ \E r \in Readers : Reply(r)

Spec == Init /\ [][Next]_vars
=============================================================================
