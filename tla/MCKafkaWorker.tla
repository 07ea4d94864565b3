--------------------------- MODULE MCKafkaWorker ---------------------------
(* Instances of KafkaWorker for TLC.                                       *)
EXTENDS KafkaWorker, TLC

(* The two workers of a consumer process run the same code, and so do the  *)
(* partitions of a topic.                                                  *)
Symmetry == Permutations(Workers) \cup Permutations(Partitions)
=============================================================================
