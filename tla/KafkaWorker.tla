---------------------------- MODULE KafkaWorker ----------------------------
(***************************************************************************)
(* The batching consumer of internal/worker/kafka_worker.go, started       *)
(* several times per topic by cmd/app/consumer/main.go.                    *)
(*                                                                         *)
(* Every worker is two goroutines.  One loops on reader.ReadMessage, which *)
(* for a reader with a GroupID fetches the next message and commits its    *)
(* offset before returning it, and hands the message over an unbuffered    *)
(* channel.  The other, Run, collects messages into a batch and gives the  *)
(* batch to Handler.Process when it is full, when the ticker fires and     *)
(* once more when the context is cancelled.  Nothing is written back to    *)
(* Kafka after Process, so the offset of a message is committed long       *)
(* before its effect is in Postgres.                                       *)
(*                                                                         *)
(* A message is the pair <<partition, offset>>; what it carries is left to *)
(* the modules that build on this one.                                     *)
(***************************************************************************)
EXTENDS Integers, Sequences, FiniteSets, Functions

CONSTANTS
  Workers,      \* the worker goroutines that share one consumer group
  Partitions,   \* the partitions of the topic
  NoWorker,     \* owner of a partition nobody reads
  NoMessage,    \* content of an empty hand
  BatchSize,    \* Config.BatchSize, 50 in the program
  MaxLog,       \* bound: messages ever produced to one partition
  MaxMoves,     \* bound: partitions ever taken from a live worker
  Faults        \* the faults the environment may show

FaultKinds == {"read", "process", "crash", "shutdown"}

Message == Partitions \X (Nat \ {0})

ASSUME KafkaWorkerAssumption ==
  /\ NoWorker \notin Workers
  /\ NoMessage \notin Message
  /\ BatchSize \in Nat \ {0}
  /\ MaxLog \in Nat
  /\ MaxMoves \in Nat
  /\ Faults \subseteq FaultKinds

VARIABLES
  log,        \* log[p]: number of messages appended to partition p
  committed,  \* committed[p]: the group's committed offset of p
  owner,      \* owner[p]: the worker the group assigned p to
  moves,      \* partitions taken from a live worker so far
  position,   \* position[p]: offset the owner's reader fetched last
  reader,     \* reader[w]: where the reading goroutine is
  held,       \* held[w]: the message that goroutine holds
  batch,      \* batch[w]: the slice Run collects
  run,        \* run[w]: whether Run is in its loop, and how it left it
  ctxDone,    \* the process received SIGTERM
  stored,     \* every message a successful Process got, in that order
  lost        \* messages whose offset is committed and that nobody holds

broker == <<log, committed, owner, moves, position>>
vars == <<log, committed, owner, moves, position, reader, held, batch, run,
          ctxDone, stored, lost>>

ReaderStates == {"reading", "committing", "sending", "failing", "gone"}
RunStates == {"running", "returned", "failed"}

-----------------------------------------------------------------------------
(* The group: production, assignment of partitions, loss of members.       *)

Produce(p) ==
  /\ log[p] < MaxLog
  /\ log' = [log EXCEPT ![p] = @ + 1]
  /\ UNCHANGED <<committed, owner, moves, position, reader, held, batch,
                 run, ctxDone, stored, lost>>

(* The coordinator gives p to a live member, which reads on from the       *)
(* committed offset.  It takes p away from a live member only in a         *)
(* rebalance, for instance when another pod joins the group or a member    *)
(* misses its heartbeats.                                                  *)
Assign(p, w) ==
  /\ run[w] = "running"
  /\ owner[p] # w
  /\ \/ owner[p] = NoWorker /\ UNCHANGED moves
     \/ owner[p] # NoWorker /\ moves < MaxMoves /\ moves' = moves + 1
  /\ owner' = [owner EXCEPT ![p] = w]
  /\ position' = [position EXCEPT ![p] = committed[p]]
  /\ UNCHANGED <<log, committed, reader, held, batch, run, ctxDone,
                 stored, lost>>

Leave(w) ==
  owner' = [p \in Partitions |-> IF owner[p] = w THEN NoWorker ELSE owner[p]]

-----------------------------------------------------------------------------
(* The reading goroutine.                                                  *)

\* Mutant of Fetch: the offset handed out is one behind the one read.
FetchOffByOne(w, p) ==
  /\ reader[w] = "reading"
  /\ owner[p] = w
  /\ position[p] < log[p]
  /\ position' = [position EXCEPT ![p] = @ + 1]
  /\ held' = [held EXCEPT ![w] = <<p, position[p]>>]
  /\ reader' = [reader EXCEPT ![w] = "committing"]
  /\ UNCHANGED <<log, committed, owner, moves, batch, run, ctxDone,
                 stored, lost>>

Fetch(w, p) ==
  /\ reader[w] = "reading"
  /\ owner[p] = w
  /\ position[p] < log[p]
  /\ position' = [position EXCEPT ![p] = @ + 1]
  /\ held' = [held EXCEPT ![w] = <<p, position[p] + 1>>]
  /\ reader' = [reader EXCEPT ![w] = "committing"]
  /\ UNCHANGED <<log, committed, owner, moves, batch, run, ctxDone,
                 stored, lost>>

\* Mutant of Commit: FetchMessage is called, which commits nothing.
CommitNothing(w) ==
  /\ reader[w] = "committing"
  /\ reader' = [reader EXCEPT ![w] = "sending"]
  /\ UNCHANGED <<log, committed, owner, moves, position, held, batch, run,
                 ctxDone, stored, lost>>

Commit(w) ==
  /\ reader[w] = "committing"
  /\ committed' = [committed EXCEPT ![held[w][1]] = held[w][2]]
  /\ reader' = [reader EXCEPT ![w] = "sending"]
  /\ UNCHANGED <<log, owner, moves, position, held, batch, run, ctxDone,
                 stored, lost>>

(* ReadMessage returns an error: the fetch failed, or the commit did.  A   *)
(* commit the broker applied but whose answer got lost leaves a message    *)
(* that is committed and was never handed over.                            *)
ReadError(w, applied) ==
  /\ "read" \in Faults
  /\ run[w] = "running"
  /\ \/ reader[w] = "reading" /\ ~applied
     \/ reader[w] = "committing"
  /\ committed' = IF applied
                    THEN [committed EXCEPT ![held[w][1]] = held[w][2]]
                    ELSE committed
  /\ lost' = IF applied THEN lost \cup {held[w]} ELSE lost
  /\ held' = [held EXCEPT ![w] = NoMessage]
  /\ reader' = [reader EXCEPT ![w] = "failing"]
  /\ UNCHANGED <<log, owner, moves, position, batch, run, ctxDone, stored>>

-----------------------------------------------------------------------------
(* The select loop of Run.                                                 *)

\* Mutants of flush: the slice is not cut back after a success; it is cut
\* back after a failure too.
flushWithoutReset(w, b, ok) ==
  /\ stored' = IF ok THEN stored \o b ELSE stored
  /\ batch' = [batch EXCEPT ![w] = b]

flushAlwaysReset(w, b, ok) ==
  /\ stored' = IF ok THEN stored \o b ELSE stored
  /\ batch' = [batch EXCEPT ![w] = <<>>]

flush(w, b, ok) ==
  /\ stored' = IF ok THEN stored \o b ELSE stored
  /\ batch' = [batch EXCEPT ![w] = IF ok THEN <<>> ELSE b]

Receive(w, ok) ==
  /\ run[w] = "running"
  /\ reader[w] = "sending"
  /\ LET b == Append(batch[w], held[w]) IN
       \/ /\ Len(b) >= BatchSize
          /\ flush(w, b, ok)
       \/ /\ Len(b) < BatchSize
          /\ batch' = [batch EXCEPT ![w] = b]
          /\ UNCHANGED stored
  /\ held' = [held EXCEPT ![w] = NoMessage]
  /\ reader' = [reader EXCEPT ![w] = "reading"]
  /\ UNCHANGED <<log, committed, owner, moves, position, run, ctxDone,
                 lost>>

\* Mutant of Tick: the ticker's case looks for a full batch.
TickWhenFull(w, ok) ==
  /\ run[w] = "running"
  /\ Len(batch[w]) >= BatchSize
  /\ flush(w, batch[w], ok)
  /\ UNCHANGED <<log, committed, owner, moves, position, reader, held,
                 run, ctxDone, lost>>

Tick(w, ok) ==
  /\ run[w] = "running"
  /\ flush(w, batch[w], ok)
  /\ UNCHANGED <<log, committed, owner, moves, position, reader, held,
                 run, ctxDone, lost>>

(* What worker w has been given and not processed yet.                     *)
InHand(w) == IF reader[w] = "sending" THEN {held[w]} ELSE {}
Pending(w) == Range(batch[w]) \cup InHand(w)
Pendings == UNION {Pending(w) : w \in Workers}

(* ctx.Done: one last flush, then Run returns and its deferred Close takes *)
(* the reader out of the group.  The reading goroutine is never received   *)
(* from again.                                                             *)
Done(w, ok) ==
  /\ ctxDone
  /\ run[w] = "running"
  /\ stored' = IF ok THEN stored \o batch[w] ELSE stored
  /\ lost' = lost \cup InHand(w) \cup IF ok THEN {} ELSE Range(batch[w])
  /\ batch' = [batch EXCEPT ![w] = <<>>]
  /\ held' = [held EXCEPT ![w] = NoMessage]
  /\ reader' = [reader EXCEPT ![w] = "gone"]
  /\ run' = [run EXCEPT ![w] = "returned"]
  /\ Leave(w)
  /\ UNCHANGED <<log, committed, moves, position, ctxDone>>

(* errChan: Run returns the error without a flush, and the caller drops    *)
(* the error, so the worker stays down.                                    *)
Fail(w) ==
  /\ run[w] = "running"
  /\ reader[w] = "failing"
  /\ lost' = lost \cup Range(batch[w])
  /\ batch' = [batch EXCEPT ![w] = <<>>]
  /\ reader' = [reader EXCEPT ![w] = "gone"]
  /\ run' = [run EXCEPT ![w] = "failed"]
  /\ Leave(w)
  /\ UNCHANGED <<log, committed, moves, position, held, ctxDone, stored>>

-----------------------------------------------------------------------------
(* The consumer process.                                                   *)

Cancel ==
  /\ "shutdown" \in Faults
  /\ ~ctxDone
  /\ ctxDone' = TRUE
  /\ UNCHANGED <<broker, reader, held, batch, run, stored, lost>>

(* main has passed wg.Wait.                                                *)
Exited == ctxDone /\ \A w \in Workers : run[w] # "running"

(* The process is started again, after it exited or because it died.       *)
Restart ==
  /\ Exited \/ "crash" \in Faults
  /\ lost' = lost \cup Pendings
  /\ owner' = [p \in Partitions |-> NoWorker]
  /\ reader' = [w \in Workers |-> "reading"]
  /\ held' = [w \in Workers |-> NoMessage]
  /\ batch' = [w \in Workers |-> <<>>]
  /\ run' = [w \in Workers |-> "running"]
  /\ ctxDone' = FALSE
  /\ UNCHANGED <<log, committed, moves, position, stored>>

-----------------------------------------------------------------------------
Init ==
  /\ log = [p \in Partitions |-> 0]
  /\ committed = [p \in Partitions |-> 0]
  /\ owner = [p \in Partitions |-> NoWorker]
  /\ moves = 0
  /\ position = [p \in Partitions |-> 0]
  /\ reader = [w \in Workers |-> "reading"]
  /\ held = [w \in Workers |-> NoMessage]
  /\ batch = [w \in Workers |-> <<>>]
  /\ run = [w \in Workers |-> "running"]
  /\ ctxDone = FALSE
  /\ stored = <<>>
  /\ lost = {}

(* A Process call may fail under the fault "process", and under a          *)
(* cancelled context when it is that context the call was given.           *)
Outcomes(cancelled) ==
  {TRUE} \cup IF "process" \in Faults \/ cancelled THEN {FALSE} ELSE {}

WorkerStep(w) ==
  \/ \E p \in Partitions : Fetch(w, p)
  \/ Commit(w)
  \/ \E applied \in BOOLEAN : ReadError(w, applied)
  \/ \E ok \in Outcomes(ctxDone) : Receive(w, ok)
  \/ \E ok \in Outcomes(ctxDone) : Tick(w, ok)
  \/ \E ok \in Outcomes(FALSE) : Done(w, ok)
  \/ Fail(w)

Next ==
  \/ \E p \in Partitions : Produce(p)
  \/ \E p \in Partitions, w \in Workers : Assign(p, w)
  \/ \E w \in Workers : WorkerStep(w)
  \/ Cancel
  \/ Restart

Spec == Init /\ [][Next]_vars

(* The goroutines are scheduled, the group assigns what is free, and a     *)
(* select with several ready cases picks one at random, so a case that is  *)
(* ready again and again is taken; a Process that may fail also succeeds   *)
(* again and again.                                                        *)
Fairness ==
  /\ \A p \in Partitions : WF_vars(\E w \in Workers : Assign(p, w))
  /\ \A w \in Workers :
       /\ \A p \in Partitions : SF_vars(Fetch(w, p))
       /\ WF_vars(Commit(w))
       /\ SF_vars(Receive(w, TRUE))
       /\ SF_vars(Tick(w, TRUE))

FairSpec == Spec /\ Fairness

-----------------------------------------------------------------------------
TypeOK ==
  /\ log \in [Partitions -> Nat]
  /\ committed \in [Partitions -> Nat]
  /\ owner \in [Partitions -> Workers \cup {NoWorker}]
  /\ moves \in 0..MaxMoves
  /\ position \in [Partitions -> Nat]
  /\ reader \in [Workers -> ReaderStates]
  /\ held \in [Workers -> Message \cup {NoMessage}]
  /\ \A w \in Workers : reader[w] \in {"committing", "sending"}
                          => held[w] \in Message
  /\ batch \in [Workers -> Seq(Message)]
  /\ run \in [Workers -> RunStates]
  /\ ctxDone \in BOOLEAN
  /\ stored \in Seq(Message)
  /\ lost \subseteq Message

AccountedFor == Range(stored) \cup lost \cup Pendings
AccountedUpto(p, k) == \A n \in 1..k : <<p, n>> \in AccountedFor

(* Committed offsets are never forgotten: a message the group will not be  *)
(* given again has been processed, or a worker still has it, or it is one  *)
(* of those given up by an exit or by a lost commit answer.  The commit    *)
(* precedes Process by an unbounded time, through the channel, a batch and *)
(* any number of failed flushes, so every step on the way can break this.  *)
Accounted == \A p \in Partitions : AccountedUpto(p, committed[p])

(* Accounted, made inductive: the same holds below the offset a reader is  *)
(* about to commit, which can be far above the committed one after a       *)
(* rebalance, and up to the offset the owner has read.                     *)
NothingSkipped ==
  /\ Accounted
  /\ \A w \in Workers :
       reader[w] = "committing" => AccountedUpto(held[w][1], held[w][2] - 1)
  /\ \A p \in Partitions, w \in Workers :
       owner[p] = w /\ reader[w] \in {"reading", "committing", "sending"} =>
         \A n \in 1..position[p] :
           \/ <<p, n>> \in AccountedFor
           \/ reader[w] = "committing" /\ held[w] = <<p, n>>

(* s has the messages of each partition in offset order, none twice.       *)
InOrder(s) ==
  \A i, j \in DOMAIN s : i < j /\ s[i][1] = s[j][1] => s[i][2] < s[j][2]

(* Handler.Process gets the messages of a partition in the order of their  *)
(* offsets and none of them twice, over all workers, failed flushes and    *)
(* restarts, as long as no partition is taken from a live worker.          *)
StoredInOrder == MaxMoves = 0 => InOrder(stored)

(* S is over before T begins, in every partition.                          *)
Before(S, T) == \A x \in S, y \in T : x[1] = y[1] => x[2] < y[2]

(* StoredInOrder, made inductive.  Without a rebalance a partition belongs *)
(* to one worker until that worker drops all it holds of it, the owner     *)
(* reads on exactly from the committed offset, and the messages of a       *)
(* partition pass through the channel, the batch and Process in single     *)
(* file.                                                                   *)
Lane(w) ==
  /\ InOrder(batch[w])
  /\ Before(Range(stored), Pending(w))
  /\ Before(Range(batch[w]), InHand(w))
  /\ \A m \in Pending(w) : owner[m[1]] = w
  /\ reader[w] = "committing" =>
       /\ owner[held[w][1]] = w
       /\ held[w][2] = committed[held[w][1]] + 1
       /\ position[held[w][1]] = held[w][2]
  /\ \A p \in Partitions :
       /\ owner[p] = w
       /\ \/ reader[w] \in {"reading", "sending"}
          \/ reader[w] = "committing" /\ held[w][1] # p
       => position[p] = committed[p]

SinglePass == MaxMoves = 0 =>
  /\ InOrder(stored)
  /\ \A w \in Workers : Lane(w)
  /\ \A m \in AccountedFor : m[2] <= committed[m[1]]
  /\ lost \cap (Range(stored) \cup Pendings) = {}

(* Nothing past the end of the log is read or committed.                   *)
WithinLog ==
  /\ \A p \in Partitions :
       committed[p] <= log[p] /\ position[p] <= log[p] /\ log[p] <= MaxLog
  /\ \A w \in Workers :
       reader[w] = "committing" => held[w][2] <= log[held[w][1]]

(* The group as a whole: without a rebalance it implements at-most-once    *)
(* delivery.  A message leaves the topic once, and no failed flush, retry, *)
(* exit, crash or restart gives it to Process a second time, or processes  *)
(* what an earlier step had given up.                                      *)
Delivery == INSTANCE AtMostOnce WITH
  Message <- Partitions \X (1..MaxLog),
  taken <- {m \in Partitions \X (1..MaxLog) : m[2] <= committed[m[1]]}

ImplementsAtMostOnce == Delivery!Spec

(* Whatever is produced is processed, by the ticker when no further        *)
(* message comes to fill the batch, and in spite of flushes that fail.     *)
Delivered ==
  \A p \in Partitions : \A n \in 1..MaxLog :
    (n <= log[p]) ~> (<<p, n>> \in Range(stored))
=============================================================================
