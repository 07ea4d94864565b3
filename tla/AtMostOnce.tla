----------------------------- MODULE AtMostOnce -----------------------------
(***************************************************************************)
(* What a consumer group of internal/worker promises, whoever its workers  *)
(* are and however often they fail: a message of the topic is taken once,  *)
(* and a taken message is settled at most once, either by a Handler.Process *)
(* call that succeeds or by being given up.  No bound is promised on how   *)
(* many are given up; that is what "at most once" costs.                   *)
(***************************************************************************)
EXTENDS Integers, Sequences, Functions

CONSTANT Message

VARIABLES
  taken,   \* messages the group will not be given again
  stored,  \* messages processed, in the order of the Process calls
  lost     \* messages taken and given up

vars == <<taken, stored, lost>>

Open == taken \ (Range(stored) \cup lost)

Take(m) ==
  /\ m \notin taken
  /\ taken' = taken \cup {m}
  /\ UNCHANGED <<stored, lost>>

(* The message is taken and given up at once: the commit of its offset     *)
(* reached the broker and the answer did not come back.                    *)
Miss(m) ==
  /\ m \notin taken
  /\ taken' = taken \cup {m}
  /\ lost' = lost \cup {m}
  /\ UNCHANGED stored

(* One or more batches are processed or given up.                          *)
Settle(s, l) ==
  /\ Range(s) \subseteq Open
  /\ IsInjective(s)
  /\ l \subseteq Open \ Range(s)
  /\ stored' = stored \o s
  /\ lost' = lost \cup l
  /\ UNCHANGED taken

Init == taken = {} /\ stored = <<>> /\ lost = {}

Next ==
  \/ \E m \in Message : Take(m) \/ Miss(m)
  \/ Settle(SubSeq(stored', Len(stored) + 1, Len(stored')), lost' \ lost)

Spec == Init /\ [][Next]_vars
=============================================================================
