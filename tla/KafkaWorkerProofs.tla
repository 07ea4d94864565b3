------------------------- MODULE KafkaWorkerProofs -------------------------
(* What holds of KafkaWorker for every number of workers, partitions and   *)
(* messages, every batch size and every set of faults.                     *)
EXTENDS KafkaWorker, SequenceTheorems, TLAPS

LEMMA NoneIsNoMessage == NoMessage \notin Message /\ NoWorker \notin Workers
BY KafkaWorkerAssumption

(* A flush keeps the types of what it touches.                             *)
LEMMA FlushType ==
  ASSUME TypeOK, NEW w \in Workers, NEW b \in Seq(Message), NEW ok \in BOOLEAN,
         flush(w, b, ok)
  PROVE  stored' \in Seq(Message) /\ batch' \in [Workers -> Seq(Message)]
<1>1. stored \o b \in Seq(Message)
  BY ConcatProperties DEF TypeOK
<1>2. <<>> \in Seq(Message)
  BY EmptySeq
<1>. QED
  BY <1>1, <1>2 DEF TypeOK, flush

LEMMA PendingType ==
  ASSUME TypeOK
  PROVE  \A w \in Workers : Pending(w) \subseteq Message
<1>. SUFFICES ASSUME NEW w \in Workers PROVE Pending(w) \subseteq Message
  OBVIOUS
<1>1. Range(batch[w]) \subseteq Message
  BY RangeOfSeq DEF TypeOK
<1>. QED
  BY <1>1 DEF TypeOK, Pending, InHand

LEMMA OutcomesType == \A c \in BOOLEAN : Outcomes(c) \subseteq BOOLEAN
BY DEF Outcomes

(* Every variable has the type its comment gives it, in every state.       *)
THEOREM TypeCorrect == Spec => []TypeOK
<1>1. Init => TypeOK
  <2>1. <<>> \in Seq(Message)
    BY EmptySeq
  <2>2. 0 \in 0..MaxMoves
    BY KafkaWorkerAssumption
  <2>. SUFFICES ASSUME Init PROVE TypeOK
    OBVIOUS
  <2>3. /\ batch \in [Workers -> Seq(Message)]
        /\ stored \in Seq(Message)
    BY <2>1 DEF Init
  <2>4. \A w \in Workers : reader[w] = "reading"
    BY DEF Init
  <2>. QED
    BY <2>2, <2>3, <2>4 DEF Init, TypeOK, RunStates, ReaderStates
<1>2. TypeOK /\ [Next]_vars => TypeOK'
  <2>. SUFFICES ASSUME TypeOK, [Next]_vars PROVE TypeOK'
    OBVIOUS
  <2>. USE DEF ReaderStates, RunStates
  <2>1. ASSUME NEW p \in Partitions, Produce(p) PROVE TypeOK'
    BY <2>1 DEF TypeOK, Produce
  <2>2. ASSUME NEW p \in Partitions, NEW w \in Workers, Assign(p, w)
        PROVE  TypeOK'
    <3>1. moves' \in 0..MaxMoves
      BY <2>2, KafkaWorkerAssumption DEF TypeOK, Assign
    <3>. QED
      BY <2>2, <3>1 DEF TypeOK, Assign
  <2>3. ASSUME NEW w \in Workers, NEW p \in Partitions, Fetch(w, p)
        PROVE  TypeOK'
    <3>1. position[p] + 1 \in Nat /\ <<p, position[p] + 1>> \in Message
      BY DEF TypeOK, Message
    <3>2. position' \in [Partitions -> Nat]
      BY <2>3, <3>1 DEF TypeOK, Fetch
    <3>3. /\ held' \in [Workers -> Message \cup {NoMessage}]
          /\ held'[w] \in Message
          /\ \A v \in Workers \ {w} :
               held'[v] = held[v] /\ reader'[v] = reader[v]
      BY <2>3, <3>1 DEF TypeOK, Fetch
    <3>. QED
      BY <2>3, <3>2, <3>3 DEF TypeOK, Fetch
  <2>4. ASSUME NEW w \in Workers, Commit(w) PROVE TypeOK'
    <3>1. held[w][1] \in Partitions /\ held[w][2] \in Nat
      BY <2>4 DEF TypeOK, Commit, Message
    <3>. QED
      BY <2>4, <3>1 DEF TypeOK, Commit
  <2>5. ASSUME NEW w \in Workers, NEW applied \in BOOLEAN,
               ReadError(w, applied)
        PROVE  TypeOK'
    <3>1. committed' \in [Partitions -> Nat] /\ lost' \subseteq Message
      <4>1. CASE applied
        <5>1. held[w] \in Message
          BY <2>5, <4>1 DEF TypeOK, ReadError
        <5>. QED
          BY <2>5, <4>1, <5>1 DEF TypeOK, ReadError, Message
      <4>2. CASE ~applied
        BY <2>5, <4>2 DEF TypeOK, ReadError
      <4>. QED
        BY <4>1, <4>2
    <3>. QED
      BY <2>5, <3>1 DEF TypeOK, ReadError
  <2>6. ASSUME NEW w \in Workers, NEW ok \in BOOLEAN, Receive(w, ok)
        PROVE  TypeOK'
    <3>. DEFINE b == Append(batch[w], held[w])
    <3>1. b \in Seq(Message)
      BY <2>6, AppendProperties DEF TypeOK, Receive
    <3>2. stored' \in Seq(Message) /\ batch' \in [Workers -> Seq(Message)]
      <4>1. CASE flush(w, b, ok)
        BY <4>1, <3>1, FlushType
      <4>2. CASE batch' = [batch EXCEPT ![w] = b] /\ UNCHANGED stored
        BY <4>2, <3>1 DEF TypeOK
      <4>. QED
        BY <2>6, <4>1, <4>2 DEF Receive
    <3>. QED
      BY <2>6, <3>2 DEF TypeOK, Receive
  <2>7. ASSUME NEW w \in Workers, NEW ok \in BOOLEAN, Tick(w, ok)
        PROVE  TypeOK'
    <3>1. batch[w] \in Seq(Message)
      BY DEF TypeOK
    <3>2. stored' \in Seq(Message) /\ batch' \in [Workers -> Seq(Message)]
      BY <2>7, <3>1, FlushType DEF Tick
    <3>. QED
      BY <2>7, <3>2 DEF TypeOK, Tick
  <2>8. ASSUME NEW w \in Workers, NEW ok \in BOOLEAN, Done(w, ok)
        PROVE  TypeOK'
    <3>1. <<>> \in Seq(Message)
      BY EmptySeq
    <3>2. stored \o batch[w] \in Seq(Message)
      BY ConcatProperties DEF TypeOK
    <3>3. lost' \subseteq Message
      BY <2>8, PendingType DEF TypeOK, Done, Pending
    <3>. QED
      BY <2>8, <3>1, <3>2, <3>3 DEF TypeOK, Done, Leave
  <2>9. ASSUME NEW w \in Workers, Fail(w) PROVE TypeOK'
    <3>1. <<>> \in Seq(Message)
      BY EmptySeq
    <3>2. lost' \subseteq Message
      BY <2>9, PendingType DEF TypeOK, Fail, Pending
    <3>. QED
      BY <2>9, <3>1, <3>2 DEF TypeOK, Fail, Leave
  <2>10. ASSUME Cancel PROVE TypeOK'
    BY <2>10 DEF TypeOK, Cancel, broker
  <2>11. ASSUME Restart PROVE TypeOK'
    <3>1. <<>> \in Seq(Message)
      BY EmptySeq
    <3>2. lost' \subseteq Message
      BY <2>11, PendingType DEF TypeOK, Restart, Pendings
    <3>. QED
      BY <2>11, <3>1, <3>2 DEF TypeOK, Restart
  <2>12. CASE UNCHANGED vars
    BY <2>12 DEF TypeOK, vars
  <2>. QED
    BY <2>1, <2>2, <2>3, <2>4, <2>5, <2>6, <2>7, <2>8, <2>9, <2>10, <2>11,
       <2>12, OutcomesType
       DEF Next, WorkerStep, TypeOK
<1>. QED
  BY <1>1, <1>2, PTL DEF Spec

-----------------------------------------------------------------------------
(* Pendings, worker by worker.                                             *)
LEMMA PendingsOf ==
  \A m : m \in Pendings <=> \E w \in Workers : m \in Pending(w)
BY DEF Pendings

(* A step of w leaves the others what they hold.                           *)
LEMMA PendingFrame ==
  ASSUME NEW w \in Workers, TypeOK, TypeOK',
         \A v \in Workers \ {w} :
           /\ batch'[v] = batch[v]
           /\ held'[v] = held[v]
           /\ reader'[v] = reader[v],
         Range(stored) \cup lost \subseteq AccountedFor',
         Pending(w) \subseteq AccountedFor'
  PROVE  AccountedFor \subseteq AccountedFor'
<1>1. \A v \in Workers \ {w} : Pending(v)' = Pending(v)
  BY DEF Pending, InHand
<1>2. \A v \in Workers \ {w} : Pending(v) \subseteq AccountedFor'
  BY <1>1, PendingsOf DEF AccountedFor, Pendings
<1>. QED
  BY <1>2, PendingsOf DEF AccountedFor

(* A flush, successful or not, leaves every message of b with Run or in    *)
(* the hands of Process.                                                   *)
LEMMA FlushKeeps ==
  ASSUME TypeOK, NEW w \in Workers, NEW b \in Seq(Message), NEW ok \in BOOLEAN,
         flush(w, b, ok)
  PROVE  Range(stored) \cup Range(b) \subseteq Range(stored') \cup Range(batch'[w])
<1>1. Range(stored \o b) = Range(stored) \cup Range(b)
  BY RangeConcatenation DEF TypeOK
<1>. QED
  BY <1>1 DEF TypeOK, flush

LEMMA RangeAppend ==
  ASSUME NEW S, NEW s \in Seq(S), NEW e \in S
  PROVE  Range(Append(s, e)) = Range(s) \cup {e}
<1>1. Append(s, e) = s \o <<e>>
  BY AppendIsConcat
<1>2. <<e>> \in Seq(S) /\ Len(<<e>>) = 1 /\ <<e>>[1] = e
  OBVIOUS
<1>3. Range(<<e>>) = {<<e>>[i] : i \in 1..Len(<<e>>)}
  BY RangeEquality, <1>2
<1>4. Range(<<e>>) = {e}
  BY <1>2, <1>3
<1>5. Range(s \o <<e>>) = Range(s) \cup Range(<<e>>)
  BY <1>2, RangeConcatenation
<1>. QED
  BY <1>1, <1>4, <1>5

LEMMA RangeEmpty == Range(<<>>) = {}
BY DEF Range

(* No step makes the system forget a message: what was processed, held by  *)
(* a worker or given up still is one of the three.                         *)
LEMMA NothingForgotten ==
  ASSUME TypeOK, TypeOK', [Next]_vars
  PROVE  AccountedFor \subseteq AccountedFor'
<1>1. ASSUME NEW w \in Workers, NEW ok \in BOOLEAN, Receive(w, ok)
      PROVE  AccountedFor \subseteq AccountedFor'
  <2>. DEFINE b == Append(batch[w], held[w])
  <2>1. held[w] \in Message /\ batch[w] \in Seq(Message)
    BY <1>1 DEF TypeOK, Receive
  <2>2. b \in Seq(Message) /\ Range(b) = Range(batch[w]) \cup {held[w]}
    BY <2>1, RangeAppend, AppendProperties
  <2>3. Range(stored) \cup Range(b) \subseteq Range(stored') \cup Range(batch'[w])
    <3>1. CASE flush(w, b, ok)
      BY <3>1, <2>2, FlushKeeps
    <3>2. CASE batch' = [batch EXCEPT ![w] = b] /\ UNCHANGED stored
      BY <3>2 DEF TypeOK
    <3>. QED
      BY <1>1, <3>1, <3>2 DEF Receive
  <2>4. Pending(w) = Range(b)
    BY <1>1, <2>2 DEF Pending, InHand, Receive
  <2>5. Range(batch'[w]) \subseteq Pendings'
    BY DEF Pendings, Pending
  <2>6. lost' = lost
    BY <1>1 DEF Receive
  <2>7. \A v \in Workers \ {w} : batch'[v] = batch[v] /\ held'[v] = held[v]
                                 /\ reader'[v] = reader[v]
    BY <1>1 DEF Receive, flush, TypeOK
  <2>. QED
    BY <2>3, <2>4, <2>5, <2>6, <2>7, PendingFrame DEF AccountedFor
<1>2. ASSUME NEW w \in Workers, NEW ok \in BOOLEAN, Tick(w, ok)
      PROVE  AccountedFor \subseteq AccountedFor'
  <2>1. Range(stored) \cup Range(batch[w])
          \subseteq Range(stored') \cup Range(batch'[w])
    BY <1>2, FlushKeeps DEF Tick, TypeOK
  <2>2. Range(batch'[w]) \cup InHand(w) \subseteq Pendings'
    BY <1>2 DEF Pendings, Pending, InHand, Tick
  <2>3. lost' = lost
    BY <1>2 DEF Tick
  <2>4. \A v \in Workers \ {w} : batch'[v] = batch[v] /\ held'[v] = held[v]
                                 /\ reader'[v] = reader[v]
    BY <1>2 DEF Tick, flush, TypeOK
  <2>. QED
    BY <2>1, <2>2, <2>3, <2>4, PendingFrame DEF AccountedFor, Pending
<1>3. ASSUME NEW w \in Workers, NEW ok \in BOOLEAN, Done(w, ok)
      PROVE  AccountedFor \subseteq AccountedFor'
  <2>1. Range(stored \o batch[w]) = Range(stored) \cup Range(batch[w])
    BY RangeConcatenation DEF TypeOK
  <2>2. Range(stored) \cup lost \cup Pending(w) \subseteq Range(stored') \cup lost'
    BY <1>3, <2>1 DEF Done, Pending
  <2>3. \A v \in Workers \ {w} : batch'[v] = batch[v] /\ held'[v] = held[v]
                                 /\ reader'[v] = reader[v]
    BY <1>3 DEF Done, TypeOK
  <2>. QED
    BY <2>2, <2>3, PendingFrame DEF AccountedFor
<1>4. ASSUME NEW w \in Workers, Fail(w)
      PROVE  AccountedFor \subseteq AccountedFor'
  <2>1. Range(stored) \cup lost \cup Pending(w) \subseteq Range(stored') \cup lost'
    BY <1>4 DEF Fail, Pending, InHand
  <2>2. \A v \in Workers \ {w} : batch'[v] = batch[v] /\ held'[v] = held[v]
                                 /\ reader'[v] = reader[v]
    BY <1>4 DEF Fail, TypeOK
  <2>. QED
    BY <2>1, <2>2, PendingFrame DEF AccountedFor
<1>5. ASSUME Restart PROVE AccountedFor \subseteq AccountedFor'
  BY <1>5 DEF Restart, AccountedFor
<1>6. ASSUME NEW w \in Workers, reader[w] # "sending",
             \A v \in Workers \ {w} : held'[v] = held[v] /\ reader'[v] = reader[v],
             batch' = batch, stored' = stored, lost \subseteq lost'
      PROVE  AccountedFor \subseteq AccountedFor'
  <2>1. Pending(w) \subseteq Pending(w)'
    BY <1>6 DEF Pending, InHand
  <2>2. Pending(w)' \subseteq Pendings'
    BY DEF Pendings
  <2>. QED
    BY <1>6, <2>1, <2>2, PendingFrame DEF AccountedFor
<1>7. ASSUME NEW w \in Workers, NEW p \in Partitions, Fetch(w, p)
      PROVE  AccountedFor \subseteq AccountedFor'
  BY <1>6, <1>7 DEF Fetch, TypeOK
<1>8. ASSUME NEW w \in Workers, Commit(w)
      PROVE  AccountedFor \subseteq AccountedFor'
  BY <1>6, <1>8 DEF Commit, TypeOK
<1>9. ASSUME NEW w \in Workers, NEW applied \in BOOLEAN, ReadError(w, applied)
      PROVE  AccountedFor \subseteq AccountedFor'
  BY <1>6, <1>9 DEF ReadError, TypeOK
<1>10. ASSUME UNCHANGED <<reader, held, batch, stored, lost>>
       PROVE  AccountedFor \subseteq AccountedFor'
  BY <1>10 DEF AccountedFor, Pendings, Pending, InHand
<1>11. ASSUME NEW p \in Partitions, Produce(p)
       PROVE  AccountedFor \subseteq AccountedFor'
  BY <1>10, <1>11 DEF Produce
<1>12. ASSUME NEW p \in Partitions, NEW w \in Workers, Assign(p, w)
       PROVE  AccountedFor \subseteq AccountedFor'
  BY <1>10, <1>12 DEF Assign
<1>13. ASSUME Cancel PROVE AccountedFor \subseteq AccountedFor'
  BY <1>10, <1>13 DEF Cancel
<1>14. CASE UNCHANGED vars
  BY <1>10, <1>14 DEF vars
<1>. QED
  BY <1>1, <1>2, <1>3, <1>4, <1>5, <1>7, <1>8, <1>9, <1>11, <1>12, <1>13,
     <1>14, OutcomesType
     DEF Next, WorkerStep, TypeOK

(* NothingSkipped is preserved: a reader only moves on to the offset after *)
(* the one it handed over, and an owner starts at the committed offset.    *)
LEMMA NothingSkippedStep ==
  ASSUME TypeOK, TypeOK', NothingSkipped, [Next]_vars
  PROVE  NothingSkipped'
<1>. USE DEF AccountedUpto
<1>1. AccountedFor \subseteq AccountedFor'
  BY NothingForgotten
\* Steps that touch neither the offsets nor what a reader is reading.
<1>2. ASSUME UNCHANGED <<committed, position>>,
             \A w \in Workers : reader'[w] = "committing" =>
               reader[w] = "committing" /\ held'[w] = held[w],
             \A p \in Partitions, w \in Workers :
               /\ owner'[p] = w
               /\ reader'[w] \in {"reading", "committing", "sending"}
               => /\ owner[p] = w
                  /\ reader[w] \in {"reading", "committing", "sending"}
                  /\ reader[w] = "committing" => reader'[w] = "committing"
      PROVE  NothingSkipped'
  <2>1. Accounted'
    BY <1>1, <1>2 DEF NothingSkipped, Accounted
  <2>2. ASSUME NEW w \in Workers, reader'[w] = "committing",
               NEW n \in 1..(held'[w][2] - 1)
        PROVE  <<held'[w][1], n>> \in AccountedFor'
    BY <1>1, <1>2, <2>2 DEF NothingSkipped
  <2>3. ASSUME NEW p \in Partitions, NEW w \in Workers, owner'[p] = w,
               reader'[w] \in {"reading", "committing", "sending"},
               NEW n \in 1..position'[p]
        PROVE  \/ <<p, n>> \in AccountedFor'
               \/ reader'[w] = "committing" /\ held'[w] = <<p, n>>
    <3>1. \/ <<p, n>> \in AccountedFor
          \/ reader[w] = "committing" /\ held[w] = <<p, n>>
      BY <1>2, <2>3 DEF NothingSkipped
    <3>. QED
      BY <1>1, <1>2, <2>3, <3>1
  <2>. QED
    BY <2>1, <2>2, <2>3 DEF NothingSkipped
<1>3. ASSUME NEW p \in Partitions, Produce(p) PROVE NothingSkipped'
  BY <1>2, <1>3 DEF Produce
<1>4. ASSUME NEW q \in Partitions, NEW v \in Workers, Assign(q, v)
      PROVE  NothingSkipped'
  <2>1. Accounted'
    BY <1>1, <1>4 DEF NothingSkipped, Accounted, Assign
  <2>2. ASSUME NEW w \in Workers, reader'[w] = "committing",
               NEW n \in 1..(held'[w][2] - 1)
        PROVE  <<held'[w][1], n>> \in AccountedFor'
    BY <1>1, <1>4, <2>2 DEF NothingSkipped, Assign
  <2>3. ASSUME NEW p \in Partitions, NEW w \in Workers, owner'[p] = w,
               reader'[w] \in {"reading", "committing", "sending"},
               NEW n \in 1..position'[p]
        PROVE  \/ <<p, n>> \in AccountedFor'
               \/ reader'[w] = "committing" /\ held'[w] = <<p, n>>
    <3>1. CASE p = q
      <4>1. position'[p] = committed[p]
        BY <1>4, <3>1 DEF Assign, TypeOK
      <4>. QED
        BY <1>1, <2>3, <4>1 DEF NothingSkipped, Accounted
    <3>2. CASE p # q
      <4>1. owner[p] = w /\ position'[p] = position[p]
        BY <1>4, <2>3, <3>2 DEF Assign, TypeOK
      <4>2. held' = held /\ reader' = reader
        BY <1>4 DEF Assign
      <4>. QED
        BY <1>1, <2>3, <4>1, <4>2 DEF NothingSkipped
    <3>. QED
      BY <3>1, <3>2
  <2>. QED
    BY <2>1, <2>2, <2>3 DEF NothingSkipped
<1>5. ASSUME NEW v \in Workers, NEW q \in Partitions, Fetch(v, q)
      PROVE  NothingSkipped'
  <2>1. Accounted'
    BY <1>1, <1>5 DEF NothingSkipped, Accounted, Fetch
  <2>2. /\ reader[v] = "reading" /\ owner[q] = v /\ owner' = owner
        /\ reader'[v] = "committing" /\ held'[v] = <<q, position[q] + 1>>
        /\ position'[q] = position[q] + 1 /\ position[q] \in Nat
        /\ \A p \in Partitions \ {q} : position'[p] = position[p]
        /\ \A w \in Workers \ {v} :
             reader'[w] = reader[w] /\ held'[w] = held[w]
    BY <1>5 DEF Fetch, TypeOK
  <2>3. \A n \in 1..position[q] : <<q, n>> \in AccountedFor
    BY <2>2 DEF NothingSkipped
  <2>4. ASSUME NEW w \in Workers, reader'[w] = "committing",
               NEW n \in 1..(held'[w][2] - 1)
        PROVE  <<held'[w][1], n>> \in AccountedFor'
    <3>1. CASE w = v
      BY <1>1, <2>2, <2>3, <2>4, <3>1
    <3>2. CASE w # v
      BY <1>1, <2>2, <2>4, <3>2 DEF NothingSkipped
    <3>. QED
      BY <3>1, <3>2
  <2>5. ASSUME NEW p \in Partitions, NEW w \in Workers, owner'[p] = w,
               reader'[w] \in {"reading", "committing", "sending"},
               NEW n \in 1..position'[p]
        PROVE  \/ <<p, n>> \in AccountedFor'
               \/ reader'[w] = "committing" /\ held'[w] = <<p, n>>
    <3>1. CASE p = q
      <4>1. w = v
        BY <2>2, <2>5, <3>1
      <4>2. n \in 1..position[q] \/ n = position[q] + 1
        BY <2>2, <2>5, <3>1
      <4>. QED
        BY <1>1, <2>2, <2>3, <3>1, <4>1, <4>2
    <3>2. CASE p # q /\ w = v
      BY <1>1, <2>2, <2>5, <3>2 DEF NothingSkipped
    <3>3. CASE p # q /\ w # v
      BY <1>1, <2>2, <2>5, <3>3 DEF NothingSkipped
    <3>. QED
      BY <3>1, <3>2, <3>3
  <2>. QED
    BY <2>1, <2>4, <2>5 DEF NothingSkipped
\* The offset of v's message is committed, by a commit that returns or by
\* one whose answer is lost.
<1>6. ASSUME NEW v \in Workers, reader[v] = "committing",
             committed' = [committed EXCEPT ![held[v][1]] = held[v][2]],
             held[v] \in AccountedFor', UNCHANGED <<owner, position>>,
             reader'[v] \in {"sending", "failing"},
             \A w \in Workers \ {v} :
               reader'[w] = reader[w] /\ held'[w] = held[w]
      PROVE  NothingSkipped'
  <2>1. /\ held[v] = <<held[v][1], held[v][2]>>
        /\ held[v][1] \in Partitions /\ held[v][2] \in Nat \ {0}
    BY <1>6 DEF TypeOK, Message
  <2>2. ASSUME NEW p \in Partitions, NEW n \in 1..committed'[p]
        PROVE  <<p, n>> \in AccountedFor'
    <3>1. CASE p = held[v][1]
      <4>1. n \in 1..(held[v][2] - 1) \/ n = held[v][2]
        BY <1>6, <2>1, <2>2, <3>1 DEF TypeOK
      <4>. QED
        BY <1>1, <1>6, <2>1, <3>1, <4>1 DEF NothingSkipped
    <3>2. CASE p # held[v][1]
      BY <1>1, <1>6, <2>1, <2>2, <3>2 DEF NothingSkipped, Accounted, TypeOK
    <3>. QED
      BY <3>1, <3>2
  <2>3. ASSUME NEW w \in Workers, reader'[w] = "committing",
               NEW n \in 1..(held'[w][2] - 1)
        PROVE  <<held'[w][1], n>> \in AccountedFor'
    BY <1>1, <1>6, <2>3 DEF NothingSkipped
  <2>4. ASSUME NEW p \in Partitions, NEW w \in Workers, owner'[p] = w,
               reader'[w] \in {"reading", "committing", "sending"},
               NEW n \in 1..position'[p]
        PROVE  \/ <<p, n>> \in AccountedFor'
               \/ reader'[w] = "committing" /\ held'[w] = <<p, n>>
    BY <1>1, <1>6, <2>4 DEF NothingSkipped
  <2>. QED
    BY <2>2, <2>3, <2>4 DEF NothingSkipped, Accounted
<1>7. ASSUME NEW v \in Workers, Commit(v) PROVE NothingSkipped'
  <2>1. held[v] \in Pending(v)'
    BY <1>7 DEF Commit, Pending, InHand, TypeOK
  <2>2. held[v] \in AccountedFor'
    BY <2>1 DEF AccountedFor, Pendings
  <2>. QED
    BY <1>6, <1>7, <2>2 DEF Commit, TypeOK
<1>8. ASSUME NEW v \in Workers, NEW applied \in BOOLEAN, ReadError(v, applied)
      PROVE  NothingSkipped'
  <2>1. CASE applied
    <3>1. held[v] \in AccountedFor'
      BY <1>8, <2>1 DEF ReadError, AccountedFor
    <3>. QED
      BY <1>6, <1>8, <2>1, <3>1 DEF ReadError, TypeOK
  <2>2. CASE ~applied
    BY <1>2, <1>8, <2>2 DEF ReadError, TypeOK
  <2>. QED
    BY <2>1, <2>2
<1>9. ASSUME NEW v \in Workers, NEW ok \in BOOLEAN, Receive(v, ok)
      PROVE  NothingSkipped'
  BY <1>2, <1>9 DEF Receive, TypeOK
<1>10. ASSUME NEW v \in Workers, NEW ok \in BOOLEAN, Tick(v, ok)
       PROVE  NothingSkipped'
  BY <1>2, <1>10 DEF Tick
<1>11. ASSUME NEW v \in Workers, NEW ok \in BOOLEAN, Done(v, ok)
       PROVE  NothingSkipped'
  BY <1>2, <1>11, NoneIsNoMessage DEF Done, Leave, TypeOK
<1>12. ASSUME NEW v \in Workers, Fail(v) PROVE NothingSkipped'
  BY <1>2, <1>12, NoneIsNoMessage DEF Fail, Leave, TypeOK
<1>13. ASSUME Cancel PROVE NothingSkipped'
  BY <1>2, <1>13 DEF Cancel, broker
<1>14. ASSUME Restart PROVE NothingSkipped'
  BY <1>2, <1>14, NoneIsNoMessage DEF Restart
<1>15. CASE UNCHANGED vars
  BY <1>2, <1>15 DEF vars
<1>. QED
  BY <1>3, <1>4, <1>5, <1>7, <1>8, <1>9, <1>10, <1>11, <1>12, <1>13, <1>14,
     <1>15, OutcomesType
     DEF Next, WorkerStep, TypeOK

THEOREM NothingSkippedAlways == Spec => []NothingSkipped
<1>1. Init => NothingSkipped
  BY KafkaWorkerAssumption DEF Init, NothingSkipped, Accounted, AccountedUpto
<1>2. TypeOK /\ TypeOK' /\ NothingSkipped /\ [Next]_vars => NothingSkipped'
  BY NothingSkippedStep
<1>. QED
  BY <1>1, <1>2, TypeCorrect, PTL DEF Spec

(* No committed message is ever forgotten, however the workers fail, crash *)
(* or lose partitions to each other.                                       *)
THEOREM AccountedAlways == Spec => []Accounted
<1>1. NothingSkipped => Accounted
  BY DEF NothingSkipped
<1>. QED
  BY <1>1, NothingSkippedAlways, PTL

-----------------------------------------------------------------------------
(* What holds of KafkaWorker when no partition is taken from a live        *)
(* worker: the messages of a partition are processed in order and at most  *)
(* once, and the group implements AtMostOnce.                              *)

LEMMA InOrderConcat ==
  ASSUME NEW s \in Seq(Message), NEW t \in Seq(Message),
         InOrder(s), InOrder(t), Before(Range(s), Range(t))
  PROVE  InOrder(s \o t)
<1>. DEFINE u == s \o t
<1>1. /\ Len(u) = Len(s) + Len(t) /\ u \in Seq(Message)
      /\ \A i \in 1..Len(s) + Len(t) :
           u[i] = IF i <= Len(s) THEN s[i] ELSE t[i - Len(s)]
  BY ConcatProperties
<1>2. /\ DOMAIN u = 1..Len(u) /\ DOMAIN s = 1..Len(s) /\ DOMAIN t = 1..Len(t)
      /\ Len(s) \in Nat /\ Len(t) \in Nat
  BY <1>1, LenProperties
<1>3. ASSUME NEW i \in DOMAIN u, NEW j \in DOMAIN u, i < j, u[i][1] = u[j][1]
      PROVE  u[i][2] < u[j][2]
  <2>1. CASE j <= Len(s)
    BY <1>1, <1>2, <1>3, <2>1 DEF InOrder
  <2>2. CASE i > Len(s)
    <3>1. /\ i - Len(s) \in DOMAIN t /\ j - Len(s) \in DOMAIN t
          /\ i - Len(s) < j - Len(s)
          /\ u[i] = t[i - Len(s)] /\ u[j] = t[j - Len(s)]
      BY <1>1, <1>2, <1>3, <2>2
    <3>. QED
      BY <1>3, <3>1 DEF InOrder
  <2>3. CASE i <= Len(s) /\ j > Len(s)
    <3>1. /\ i \in DOMAIN s /\ j - Len(s) \in DOMAIN t
          /\ u[i] = s[i] /\ u[j] = t[j - Len(s)]
      BY <1>1, <1>2, <1>3, <2>3
    <3>2. u[i] \in Range(s) /\ u[j] \in Range(t)
      BY <3>1 DEF Range
    <3>. QED
      BY <1>3, <3>2 DEF Before
  <2>. QED
    BY <1>2, <2>1, <2>2, <2>3
<1>. HIDE DEF u
<1>4. InOrder(u)
  BY <1>3 DEF InOrder
<1>. QED
  BY <1>4 DEF u

LEMMA InOrderAppend ==
  ASSUME NEW s \in Seq(Message), NEW m \in Message,
         InOrder(s), Before(Range(s), {m})
  PROVE  InOrder(Append(s, m))
<1>1. <<m>> \in Seq(Message) /\ Append(s, m) = s \o <<m>>
  BY AppendIsConcat
<1>2. Range(<<m>>) \subseteq {m} /\ InOrder(<<m>>)
  BY DEF Range, InOrder
<1>3. Before(Range(s), Range(<<m>>))
  BY <1>2 DEF Before
<1>. QED
  BY <1>1, <1>2, <1>3, InOrderConcat

LEMMA InOrderEmpty == InOrder(<<>>) /\ Range(<<>>) = {}
BY RangeEmpty DEF InOrder

LEMMA InOrderIsInjective ==
  ASSUME NEW s \in Seq(Message), InOrder(s)
  PROVE  IsInjective(s)
<1>1. DOMAIN s \subseteq Nat /\ \A i \in DOMAIN s : s[i][2] \in Nat
  BY LenProperties DEF Message
<1>. QED
  BY <1>1 DEF InOrder, IsInjective

LEMMA WithinLogStep ==
  ASSUME TypeOK, TypeOK', WithinLog, [Next]_vars
  PROVE  WithinLog'
<1>1. ASSUME NEW p \in Partitions, Produce(p) PROVE WithinLog'
  <2>1. /\ log'[p] = log[p] + 1 /\ log'[p] <= MaxLog
        /\ \A q \in Partitions \ {p} : log'[q] = log[q]
        /\ log \in [Partitions -> Nat] /\ committed' = committed
        /\ position' = position /\ reader' = reader /\ held' = held
    BY <1>1, KafkaWorkerAssumption DEF Produce, TypeOK
  <2>2. \A w \in Workers : reader[w] = "committing" =>
          held[w][1] \in Partitions /\ held[w][2] \in Nat
    BY DEF TypeOK, Message
  <2>3. \A q \in Partitions :
          /\ log[q] <= log'[q] /\ log'[q] <= MaxLog
          /\ log[q] \in Nat /\ log'[q] \in Nat
          /\ committed[q] \in Nat /\ position[q] \in Nat
    <3>. SUFFICES ASSUME NEW q \in Partitions
                  PROVE  /\ log[q] <= log'[q] /\ log'[q] <= MaxLog
                         /\ log[q] \in Nat /\ log'[q] \in Nat
                         /\ committed[q] \in Nat /\ position[q] \in Nat
      OBVIOUS
    <3>1. /\ log[q] \in Nat /\ log'[q] \in Nat
          /\ committed[q] \in Nat /\ position[q] \in Nat
      BY DEF TypeOK
    <3>2. log[q] <= MaxLog
      BY DEF WithinLog
    <3>. QED
      BY <2>1, <3>1, <3>2
  <2>4. ASSUME NEW q \in Partitions
        PROVE  committed[q] <= log'[q] /\ position[q] <= log'[q]
    BY <2>3 DEF WithinLog
  <2>5. ASSUME NEW w \in Workers, reader[w] = "committing"
        PROVE  held[w][2] <= log'[held[w][1]]
    BY <2>2, <2>3, <2>5 DEF WithinLog
  <2>. QED
    BY <2>1, <2>3, <2>4, <2>5 DEF WithinLog
<1>2. ASSUME NEW p \in Partitions, NEW w \in Workers, Assign(p, w)
      PROVE  WithinLog'
  BY <1>2 DEF Assign, WithinLog, TypeOK
<1>3. ASSUME NEW w \in Workers, NEW p \in Partitions, Fetch(w, p)
      PROVE  WithinLog'
  <2>1. /\ position'[p] = position[p] + 1 /\ position[p] < log[p]
        /\ position[p] \in Nat /\ log[p] \in Nat
        /\ \A q \in Partitions \ {p} : position'[q] = position[q]
        /\ held'[w] = <<p, position[p] + 1>>
        /\ \A v \in Workers \ {w} : held'[v] = held[v] /\ reader'[v] = reader[v]
        /\ log' = log /\ committed' = committed
    BY <1>3 DEF Fetch, TypeOK
  <2>. QED
    BY <2>1 DEF WithinLog
<1>4. ASSUME NEW w \in Workers, reader[w] = "committing",
             committed' = [committed EXCEPT ![held[w][1]] = held[w][2]],
             log' = log, position' = position,
             \A v \in Workers : reader'[v] = "committing" =>
               reader[v] = "committing" /\ held'[v] = held[v]
      PROVE  WithinLog'
  BY <1>4 DEF WithinLog, TypeOK
<1>5. ASSUME UNCHANGED <<log, committed, position>>,
             \A v \in Workers : reader'[v] = "committing" =>
               reader[v] = "committing" /\ held'[v] = held[v]
      PROVE  WithinLog'
  BY <1>5 DEF WithinLog
<1>6. ASSUME NEW w \in Workers, Commit(w) PROVE WithinLog'
  BY <1>4, <1>6 DEF Commit, TypeOK
<1>7. ASSUME NEW w \in Workers, NEW applied \in BOOLEAN, ReadError(w, applied)
      PROVE  WithinLog'
  BY <1>4, <1>5, <1>7 DEF ReadError, TypeOK
<1>8. ASSUME NEW w \in Workers, NEW ok \in BOOLEAN,
             Receive(w, ok) \/ Tick(w, ok) \/ Done(w, ok)
      PROVE  WithinLog'
  BY <1>5, <1>8 DEF Receive, Tick, Done, TypeOK
<1>9. ASSUME NEW w \in Workers, Fail(w) PROVE WithinLog'
  BY <1>5, <1>9 DEF Fail, TypeOK
<1>10. CASE Cancel \/ Restart \/ UNCHANGED vars
  BY <1>5, <1>10 DEF Cancel, Restart, vars, broker
<1>. QED
  BY <1>1, <1>2, <1>3, <1>6, <1>7, <1>8, <1>9, <1>10, OutcomesType
     DEF Next, WorkerStep, TypeOK

LEMMA WithinLogAlways == Spec => []WithinLog
<1>1. Init => WithinLog
  BY KafkaWorkerAssumption DEF Init, WithinLog
<1>2. TypeOK /\ TypeOK' /\ WithinLog /\ [Next]_vars => WithinLog'
  BY WithinLogStep
<1>. QED
  BY <1>1, <1>2, TypeCorrect, PTL DEF Spec

-----------------------------------------------------------------------------
LEMMA HandTypes ==
  ASSUME TypeOK, NEW w \in Workers
  PROVE  /\ batch[w] \in Seq(Message)
         /\ Range(batch[w]) \subseteq Pending(w)
         /\ InHand(w) \subseteq Pending(w)
         /\ Pending(w) \subseteq Message
         /\ Pending(w) \subseteq AccountedFor
         /\ Range(stored) \subseteq Message
         /\ Range(stored) \cup lost \subseteq AccountedFor
<1>1. Range(stored) \subseteq Message
  BY RangeOfSeq DEF TypeOK
<1>. QED
  BY <1>1, PendingType DEF TypeOK, Pending, Pendings, AccountedFor

LEMMA NotMoved ==
  ASSUME MaxMoves = 0, TypeOK, NEW p \in Partitions, NEW w \in Workers,
         Assign(p, w)
  PROVE  owner[p] = NoWorker
BY DEF TypeOK, Assign

(* The lane of v is left alone by a step that changes nothing of v, of the *)
(* partitions v has or gets, and processes nothing out of turn.            *)
LEMMA LaneFrame ==
  ASSUME TypeOK, TypeOK', NEW v \in Workers, Lane(v),
         batch'[v] = batch[v], held'[v] = held[v], reader'[v] = reader[v],
         Before(Range(stored'), Pending(v)),
         \A p \in Partitions : owner[p] = v \/ owner'[p] = v =>
           /\ owner'[p] = owner[p]
           /\ committed'[p] = committed[p]
           /\ position'[p] = position[p]
  PROVE  Lane(v)'
<1>1. Pending(v)' = Pending(v) /\ InHand(v)' = InHand(v)
  BY DEF Pending, InHand
<1>2. \A m \in Pending(v) : m[1] \in Partitions
  BY HandTypes DEF Message
<1>3. reader[v] = "committing" => held[v][1] \in Partitions
  BY DEF TypeOK, Message
<1>4. \A m \in Pending(v)' : owner'[m[1]] = v
  BY <1>1, <1>2 DEF Lane
<1>5. reader'[v] = "committing" =>
        /\ owner'[held'[v][1]] = v
        /\ held'[v][2] = committed'[held'[v][1]] + 1
        /\ position'[held'[v][1]] = held'[v][2]
  BY <1>3 DEF Lane
<1>6. \A p \in Partitions :
        /\ owner'[p] = v
        /\ \/ reader'[v] \in {"reading", "sending"}
           \/ reader'[v] = "committing" /\ held'[v][1] # p
        => position'[p] = committed'[p]
  BY DEF Lane
<1>7. InOrder(batch'[v]) /\ Before(Range(batch'[v]), InHand(v)')
  BY <1>1 DEF Lane
<1>. QED
  BY <1>1, <1>4, <1>5, <1>6, <1>7 DEF Lane

(* An empty lane.                                                          *)
LEMMA LaneEmpty ==
  ASSUME NEW v \in Workers, batch'[v] = <<>>,
         reader'[v] \notin {"sending", "committing"},
         \/ reader'[v] # "reading"
         \/ \A p \in Partitions : owner'[p] # v
  PROVE  Lane(v)'
<1>1. InHand(v)' = {} /\ Pending(v)' = {}
  BY RangeEmpty DEF InHand, Pending
<1>. QED
  BY <1>1, InOrderEmpty DEF Lane, Before

(* Process gets a batch of w that is in order.                             *)
LEMMA ProcessInOrder ==
  ASSUME TypeOK, SinglePass, MaxMoves = 0, NEW w \in Workers,
         NEW b \in Seq(Message), InOrder(b), Range(b) \subseteq Pending(w)
  PROVE  /\ InOrder(stored \o b)
         /\ Range(stored \o b) = Range(stored) \cup Range(b)
         /\ \A v \in Workers \ {w} : Before(Range(stored \o b), Pending(v))
<1>1. Range(stored \o b) = Range(stored) \cup Range(b)
  BY RangeConcatenation DEF TypeOK
<1>2. Before(Range(stored), Range(b))
  BY DEF SinglePass, Lane, Before
<1>3. InOrder(stored \o b)
  BY <1>2, InOrderConcat DEF TypeOK, SinglePass
<1>4. ASSUME NEW v \in Workers \ {w}
      PROVE  Before(Range(stored \o b), Pending(v))
  <2>1. \A x \in Range(b), y \in Pending(v) : x[1] # y[1]
    BY <1>4 DEF SinglePass, Lane
  <2>. QED
    BY <1>1, <1>4, <2>1 DEF SinglePass, Lane, Before
<1>. QED
  BY <1>1, <1>3, <1>4

LEMMA SinglePassRead ==
  ASSUME MaxMoves = 0, TypeOK, TypeOK', SinglePass, NEW w \in Workers,
         \/ \E p \in Partitions : Fetch(w, p)
         \/ Commit(w)
         \/ \E applied \in BOOLEAN : ReadError(w, applied)
  PROVE  SinglePass'
<1>1. /\ InOrder(stored) /\ Lane(w)
      /\ \A v \in Workers : Lane(v)
      /\ \A m \in AccountedFor : m[2] <= committed[m[1]]
      /\ lost \cap (Range(stored) \cup Pendings) = {}
  BY DEF SinglePass
<1>2. /\ stored' = stored /\ owner' = owner /\ batch' = batch
      /\ \A v \in Workers \ {w} : held'[v] = held[v] /\ reader'[v] = reader[v]
  BY DEF Fetch, Commit, ReadError, TypeOK
<1>3. \A v \in Workers \ {w} : Pending(v)' = Pending(v)
  BY <1>2 DEF Pending, InHand
<1>4. \A m \in AccountedFor : m \in Message /\ committed[m[1]] \in Nat
  <2>1. AccountedFor \subseteq Message
    BY PendingType, RangeOfSeq DEF AccountedFor, Pendings, TypeOK
  <2>. QED
    BY <2>1 DEF Message, TypeOK
<1>5. ASSUME NEW p \in Partitions, Fetch(w, p) PROVE SinglePass'
  <2>1. /\ owner[p] = w /\ reader[w] = "reading" /\ reader'[w] = "committing"
        /\ position'[p] = position[p] + 1 /\ held'[w] = <<p, position[p] + 1>>
        /\ \A q \in Partitions \ {p} : position'[q] = position[q]
        /\ committed' = committed /\ lost' = lost
    BY <1>5 DEF Fetch, TypeOK
  <2>2. Pending(w)' = Pending(w) /\ InHand(w)' = InHand(w)
    BY <1>2, <2>1 DEF Pending, InHand
  <2>3. Lane(w)'
    BY <1>1, <1>2, <2>1, <2>2 DEF Lane
  <2>4. \A v \in Workers \ {w} : Lane(v)'
    BY <1>1, <1>2, <2>1, LaneFrame DEF Lane
  <2>5. Pendings' = Pendings
    BY <1>3, <2>2 DEF Pendings
  <2>. QED
    BY <1>1, <1>2, <2>1, <2>3, <2>4, <2>5 DEF SinglePass, AccountedFor
<1>. DEFINE q == held[w][1]
            m == held[w]
\* Either way the offset of the message in hand gets committed.
<1>6. ASSUME reader[w] = "committing", position' = position,
             committed' = [committed EXCEPT ![q] = held[w][2]]
      PROVE  /\ m \in Message /\ m = <<q, m[2]>>
             /\ owner[q] = w /\ m[2] = committed[q] + 1 /\ position[q] = m[2]
             /\ committed'[q] = m[2]
             /\ \A p \in Partitions \ {q} : committed'[p] = committed[p]
             /\ \A x \in AccountedFor : x[2] <= committed'[x[1]]
             /\ Before(AccountedFor, {m})
             /\ \A v \in Workers \ {w} : Lane(v)'
  <2>1. /\ m \in Message /\ m = <<q, m[2]>> /\ q \in Partitions
        /\ committed[q] \in Nat
    BY <1>6 DEF TypeOK, Message
  <2>2. owner[q] = w /\ m[2] = committed[q] + 1 /\ position[q] = m[2]
    BY <1>1, <1>6 DEF Lane
  <2>3. /\ committed'[q] = m[2]
        /\ \A p \in Partitions \ {q} : committed'[p] = committed[p]
    BY <1>6, <2>1 DEF TypeOK
  <2>4. \A x \in AccountedFor : x[1] \in Partitions /\ x[2] \in Nat
    BY <1>4 DEF Message
  <2>5. \A x \in AccountedFor : x[2] <= committed'[x[1]]
    BY <1>1, <1>4, <2>1, <2>2, <2>3, <2>4
  <2>6. Before(AccountedFor, {m})
    BY <1>1, <2>1, <2>2, <2>4 DEF Before
  <2>7. \A v \in Workers \ {w} : Lane(v)'
    BY <1>1, <1>2, <1>6, <2>2, <2>3, LaneFrame DEF Lane
  <2>. QED
    BY <2>1, <2>2, <2>3, <2>5, <2>6, <2>7
<1>7. ASSUME Commit(w) PROVE SinglePass'
  <2>1. /\ reader[w] = "committing" /\ position' = position
        /\ committed' = [committed EXCEPT ![q] = held[w][2]]
        /\ reader'[w] = "sending" /\ held' = held /\ lost' = lost
    BY <1>7 DEF Commit, TypeOK
  <2>2. /\ InHand(w) = {} /\ InHand(w)' = {m}
        /\ Pending(w) = Range(batch[w]) /\ Pending(w)' = Pending(w) \cup {m}
    BY <1>2, <2>1 DEF Pending, InHand
  <2>3. Before(Range(stored), {m}) /\ Before(Range(batch[w]), {m})
    BY <1>6, <2>1, <2>2, HandTypes DEF Before
  <2>4. Lane(w)'
    <3>1. InOrder(batch'[w]) /\ Before(Range(stored'), Pending(w)')
          /\ Before(Range(batch'[w]), InHand(w)')
      BY <1>1, <1>2, <2>2, <2>3 DEF Lane, Before
    <3>2. \A x \in Pending(w)' : owner'[x[1]] = w
      BY <1>1, <1>2, <1>6, <2>1, <2>2 DEF Lane
    <3>3. \A p \in Partitions : owner'[p] = w => position'[p] = committed'[p]
      BY <1>1, <1>2, <1>6, <2>1 DEF Lane
    <3>. QED
      BY <2>1, <3>1, <3>2, <3>3 DEF Lane
  <2>5. Pendings' = Pendings \cup {m}
    BY <1>3, <2>2 DEF Pendings
  <2>6. m \notin AccountedFor
    BY <1>6, <2>1 DEF Before, Message
  <2>7. \A x \in AccountedFor' : x[2] <= committed'[x[1]]
    BY <1>2, <1>6, <2>1, <2>5 DEF AccountedFor, Message
  <2>8. lost' \cap (Range(stored') \cup Pendings') = {}
    BY <1>1, <1>2, <2>1, <2>5, <2>6 DEF AccountedFor
  <2>. QED
    BY <1>1, <1>2, <1>6, <2>1, <2>4, <2>7, <2>8 DEF SinglePass
<1>8. ASSUME NEW applied \in BOOLEAN, ReadError(w, applied) PROVE SinglePass'
  <2>1. /\ reader[w] # "sending" /\ reader'[w] = "failing" /\ position' = position
    BY <1>8 DEF ReadError, TypeOK
  <2>2. /\ InHand(w) = {} /\ InHand(w)' = {} /\ Pending(w)' = Pending(w)
    BY <1>2, <2>1 DEF Pending, InHand
  <2>3. Pendings' = Pendings
    BY <1>3, <2>2 DEF Pendings
  <2>4. Lane(w)'
    BY <1>1, <1>2, <2>1, <2>2 DEF Lane
  <2>5. CASE applied
    <3>1. /\ reader[w] = "committing" /\ lost' = lost \cup {m}
          /\ committed' = [committed EXCEPT ![q] = held[w][2]]
      BY <1>8, <2>5 DEF ReadError
    <3>2. m \notin AccountedFor
      BY <1>6, <2>1, <3>1 DEF Before, Message
    <3>3. \A x \in AccountedFor' : x[2] <= committed'[x[1]]
      BY <1>2, <1>6, <2>1, <2>3, <3>1 DEF AccountedFor, Message
    <3>4. lost' \cap (Range(stored') \cup Pendings') = {}
      BY <1>1, <1>2, <2>3, <3>1, <3>2 DEF AccountedFor
    <3>. QED
      BY <1>1, <1>2, <1>6, <2>1, <2>4, <3>1, <3>3, <3>4 DEF SinglePass
  <2>6. CASE ~applied
    <3>1. committed' = committed /\ lost' = lost
      BY <1>8, <2>6 DEF ReadError
    <3>2. \A v \in Workers \ {w} : Lane(v)'
      BY <1>1, <1>2, <2>1, <3>1, LaneFrame DEF Lane
    <3>. QED
      BY <1>1, <1>2, <2>3, <2>4, <3>1, <3>2 DEF SinglePass, AccountedFor
  <2>. QED
    BY <2>5, <2>6
<1>. QED
  BY <1>5, <1>7, <1>8

(* Run of w passes the batch b to Process, or keeps it.                    *)
LEMMA SinglePassFlush ==
  ASSUME MaxMoves = 0, TypeOK, TypeOK', SinglePass, NEW w \in Workers,
         NEW b \in Seq(Message), InOrder(b),
         Range(b) \cup InHand(w)' \subseteq Pending(w),
         Before(Range(b), InHand(w)'),
         \/ stored' = stored \o b /\ batch' = [batch EXCEPT ![w] = <<>>]
         \/ stored' = stored /\ batch' = [batch EXCEPT ![w] = b],
         UNCHANGED <<committed, position, owner, lost>>,
         \A v \in Workers \ {w} : held'[v] = held[v] /\ reader'[v] = reader[v],
         reader'[w] \in {"reading", "sending"} =>
           reader[w] \in {"reading", "sending"},
         reader'[w] = "committing" =>
           reader[w] = "committing" /\ held'[w] = held[w]
  PROVE  SinglePass'
<1>1. /\ InOrder(stored) /\ Lane(w)
      /\ \A v \in Workers : Lane(v)
      /\ \A m \in AccountedFor : m[2] <= committed[m[1]]
      /\ lost \cap (Range(stored) \cup Pendings) = {}
  BY DEF SinglePass
<1>2. /\ batch'[w] = <<>> \/ batch'[w] = b
      /\ stored' = stored \/ stored' = stored \o b
      /\ \A v \in Workers \ {w} : batch'[v] = batch[v]
  BY DEF TypeOK
<1>3. \A v \in Workers \ {w} : Pending(v)' = Pending(v)
  BY <1>2 DEF Pending, InHand
<1>4. /\ InOrder(stored') /\ Range(stored') \subseteq Range(stored) \cup Range(b)
      /\ \A v \in Workers \ {w} : Before(Range(stored'), Pending(v))
  <2>1. CASE stored' = stored
    BY <1>1, <2>1 DEF Lane
  <2>2. CASE stored' = stored \o b
    BY <2>2, ProcessInOrder
  <2>. QED
    BY <1>2, <2>1, <2>2
<1>5. \A v \in Workers \ {w} : Lane(v)'
  BY <1>1, <1>2, <1>4, LaneFrame
<1>6. Pending(w)' \subseteq Range(b) \cup InHand(w)'
  BY <1>2, RangeEmpty DEF Pending
<1>7. Lane(w)'
  <2>1. InOrder(batch'[w]) /\ Before(Range(batch'[w]), InHand(w)')
    BY <1>2, InOrderEmpty DEF Before
  <2>2. Before(Range(stored'), Pending(w)')
    <3>1. CASE stored' = stored
      BY <1>1, <1>6, <3>1 DEF Lane, Before
    <3>2. CASE stored' = stored \o b /\ batch'[w] = <<>>
      <4>1. Pending(w)' = InHand(w)'
        BY <3>2, RangeEmpty DEF Pending
      <4>. QED
        BY <1>1, <1>4, <4>1 DEF Lane, Before
    <3>. QED
      BY <3>1, <3>2 DEF TypeOK
  <2>3. \A m \in Pending(w)' : owner'[m[1]] = w
    BY <1>1, <1>6 DEF Lane
  <2>. QED
    BY <1>1, <2>1, <2>2, <2>3 DEF Lane
<1>8. /\ Range(stored') \cup Pendings' \subseteq Range(stored) \cup Pendings
      /\ AccountedFor' \subseteq AccountedFor
  <2>1. Pendings' \subseteq Pendings
    BY <1>3, <1>6 DEF Pendings
  <2>2. Range(b) \subseteq Pendings
    BY DEF Pendings
  <2>. QED
    BY <1>4, <2>1, <2>2 DEF AccountedFor
<1>. QED
  BY <1>1, <1>4, <1>5, <1>7, <1>8 DEF SinglePass

(* Run of w returns: s is processed, l is given up.                        *)
LEMMA SinglePassLeave ==
  ASSUME MaxMoves = 0, TypeOK, TypeOK', SinglePass, NEW w \in Workers,
         NEW s \in Seq(Message), InOrder(s), Range(s) \subseteq Pending(w),
         NEW l \in SUBSET (Pending(w) \ Range(s)),
         stored' = stored \o s, lost' = lost \cup l,
         batch' = [batch EXCEPT ![w] = <<>>],
         reader' = [reader EXCEPT ![w] = "gone"], Leave(w),
         UNCHANGED <<committed, position>>,
         \A v \in Workers \ {w} : held'[v] = held[v]
  PROVE  SinglePass'
<1>1. /\ \A v \in Workers : Lane(v)
      /\ \A m \in AccountedFor : m[2] <= committed[m[1]]
      /\ lost \cap (Range(stored) \cup Pendings) = {}
  BY DEF SinglePass
<1>2. /\ batch'[w] = <<>> /\ reader'[w] = "gone"
      /\ \A v \in Workers \ {w} :
           batch'[v] = batch[v] /\ reader'[v] = reader[v]
  BY DEF TypeOK
<1>3. /\ Pending(w)' = {}
      /\ \A v \in Workers \ {w} : Pending(v)' = Pending(v)
  BY <1>2, RangeEmpty DEF Pending, InHand
<1>4. /\ InOrder(stored') /\ Range(stored') = Range(stored) \cup Range(s)
      /\ \A v \in Workers \ {w} : Before(Range(stored'), Pending(v))
  BY ProcessInOrder
<1>5. \A v \in Workers \ {w} : Lane(v)'
  <2>1. \A v \in Workers \ {w}, p \in Partitions :
          owner[p] = v \/ owner'[p] = v => owner'[p] = owner[p]
    BY NoneIsNoMessage DEF Leave
  <2>. QED
    BY <1>1, <1>2, <1>4, <2>1, LaneFrame
<1>6. Lane(w)'
  BY <1>2, LaneEmpty
<1>7. AccountedFor' \subseteq AccountedFor
  BY <1>3, <1>4 DEF AccountedFor, Pendings
<1>8. lost' \cap (Range(stored') \cup Pendings') = {}
  <2>1. \A v \in Workers \ {w} : Pending(v) \cap Pending(w) = {}
    BY <1>1 DEF Lane
  <2>2. Pendings' \cap Pending(w) = {} /\ Pendings' \subseteq Pendings
    <3>1. Pendings' = UNION {Pending(v)' : v \in Workers}
      BY DEF Pendings
    <3>2. \A m \in Pendings' : \E v \in Workers \ {w} : m \in Pending(v)
      BY <1>3, <3>1
    <3>. QED
      BY <2>1, <3>2, PendingsOf
  <2>3. Range(stored) \cap Pending(w) = {}
    BY <1>1, HandTypes DEF Lane, Before, Message
  <2>4. Pending(w) \subseteq Pendings
    BY DEF Pendings
  <2>. QED
    BY <1>1, <1>4, <2>2, <2>3, <2>4
<1>. QED
  BY <1>1, <1>4, <1>5, <1>6, <1>7, <1>8 DEF SinglePass

LEMMA SinglePassStep ==
  ASSUME MaxMoves = 0, TypeOK, TypeOK', SinglePass, [Next]_vars
  PROVE  SinglePass'
<1>1. /\ \A v \in Workers : Lane(v)
      /\ \A m \in AccountedFor : m[2] <= committed[m[1]]
      /\ lost \cap (Range(stored) \cup Pendings) = {}
  BY DEF SinglePass
<1>2. ASSUME NEW w \in Workers, NEW ok \in BOOLEAN, Receive(w, ok)
      PROVE  SinglePass'
  <2>. DEFINE b == Append(batch[w], held[w])
  <2>1. /\ reader[w] = "sending" /\ held[w] \in Message
        /\ batch[w] \in Seq(Message) /\ InHand(w) = {held[w]}
    BY <1>2 DEF Receive, TypeOK, InHand
  <2>2. /\ b \in Seq(Message) /\ Range(b) = Pending(w)
    BY <2>1, RangeAppend, AppendProperties DEF Pending
  <2>3. InOrder(b)
    BY <1>1, <2>1, InOrderAppend DEF Lane
  <2>4. InHand(w)' = {} /\ reader'[w] = "reading"
    BY <1>2 DEF Receive, TypeOK, InHand
  <2>5. \/ stored' = stored \o b /\ batch' = [batch EXCEPT ![w] = <<>>]
        \/ stored' = stored /\ batch' = [batch EXCEPT ![w] = b]
    BY <1>2 DEF Receive, flush
  <2>6. /\ UNCHANGED <<committed, position, owner, lost>>
        /\ \A v \in Workers \ {w} : held'[v] = held[v] /\ reader'[v] = reader[v]
    BY <1>2 DEF Receive, TypeOK
  <2>7. Before(Range(b), InHand(w)')
    BY <2>4 DEF Before
  <2>8. /\ b \in Seq(Message)
        /\ Range(b) \cup InHand(w)' \subseteq Pending(w)
        /\ reader'[w] = "reading" /\ reader[w] = "sending"
    BY <2>1, <2>2, <2>4
  <2>9. /\ reader'[w] \in {"reading", "sending"} =>
             reader[w] \in {"reading", "sending"}
        /\ reader'[w] = "committing" =>
             reader[w] = "committing" /\ held'[w] = held[w]
    BY <2>8
  <2>. HIDE DEF b
  <2>. QED
    BY <2>3, <2>5, <2>6, <2>7, <2>8, <2>9, SinglePassFlush
<1>3. ASSUME NEW w \in Workers, NEW ok \in BOOLEAN, Tick(w, ok)
      PROVE  SinglePass'
  <2>1. /\ batch[w] \in Seq(Message) /\ InOrder(batch[w])
        /\ Before(Range(batch[w]), InHand(w))
        /\ Range(batch[w]) \cup InHand(w) \subseteq Pending(w)
    BY <1>1 DEF Lane, TypeOK, Pending
  <2>2. /\ UNCHANGED <<committed, position, owner, lost, held, reader>>
        /\ InHand(w)' = InHand(w)
    BY <1>3 DEF Tick, InHand
  <2>3. \/ stored' = stored \o batch[w] /\ batch' = [batch EXCEPT ![w] = <<>>]
        \/ stored' = stored /\ batch' = [batch EXCEPT ![w] = batch[w]]
    BY <1>3 DEF Tick, flush
  <2>. QED
    BY <2>1, <2>2, <2>3, SinglePassFlush
<1>4. ASSUME NEW w \in Workers, NEW ok \in BOOLEAN, Done(w, ok)
      PROVE  SinglePass'
  <2>. DEFINE s == IF ok THEN batch[w] ELSE <<>>
              l == InHand(w) \cup IF ok THEN {} ELSE Range(batch[w])
  <2>1. /\ <<>> \in Seq(Message) /\ batch[w] \in Seq(Message)
        /\ stored \o <<>> = stored
    BY EmptySeq, ConcatEmptySeq DEF TypeOK
  <2>2. s \in Seq(Message) /\ InOrder(s) /\ Range(s) \subseteq Pending(w)
    BY <1>1, <2>1, InOrderEmpty DEF Lane, Pending
  <2>3. InHand(w) \cap Range(batch[w]) = {}
    BY <1>1, HandTypes DEF Lane, Before, Message
  <2>4. l \in SUBSET (Pending(w) \ Range(s))
    BY <2>3, RangeEmpty DEF Pending
  <2>5. stored' = stored \o s /\ lost' = lost \cup l
    BY <1>4, <2>1 DEF Done
  <2>6. /\ batch' = [batch EXCEPT ![w] = <<>>]
        /\ reader' = [reader EXCEPT ![w] = "gone"] /\ Leave(w)
        /\ UNCHANGED <<committed, position>>
        /\ \A v \in Workers \ {w} : held'[v] = held[v]
    BY <1>4 DEF Done, TypeOK
  <2>. HIDE DEF s, l
  <2>. QED
    BY <2>2, <2>4, <2>5, <2>6, SinglePassLeave
<1>5. ASSUME NEW w \in Workers, Fail(w) PROVE SinglePass'
  <2>1. /\ <<>> \in Seq(Message) /\ stored \o <<>> = stored
    BY EmptySeq, ConcatEmptySeq DEF TypeOK
  <2>2. Range(batch[w]) \in SUBSET (Pending(w) \ Range(<<>>))
    BY RangeEmpty DEF Pending
  <2>3. /\ stored' = stored \o <<>> /\ lost' = lost \cup Range(batch[w])
        /\ batch' = [batch EXCEPT ![w] = <<>>]
        /\ reader' = [reader EXCEPT ![w] = "gone"] /\ Leave(w)
        /\ UNCHANGED <<committed, position, held>>
    BY <1>5, <2>1 DEF Fail
  <2>. QED
    BY <2>1, <2>2, <2>3, InOrderEmpty, SinglePassLeave
<1>6. ASSUME Restart PROVE SinglePass'
  <2>1. /\ stored' = stored /\ committed' = committed
        /\ lost' = lost \cup Pendings
        /\ \A p \in Partitions : owner'[p] = NoWorker
        /\ \A w \in Workers : batch'[w] = <<>> /\ reader'[w] = "reading"
    BY <1>6 DEF Restart
  <2>2. \A w \in Workers : Lane(w)' /\ Pending(w)' = {}
    BY <2>1, LaneEmpty, NoneIsNoMessage, RangeEmpty DEF Pending, InHand
  <2>3. Pendings' = {}
    BY <2>2 DEF Pendings
  <2>4. Range(stored) \cap Pendings = {}
    <3>1. \A w \in Workers : Range(stored) \cap Pending(w) = {}
      BY <1>1, HandTypes DEF Lane, Before, Message
    <3>. QED
      BY <3>1 DEF Pendings
  <2>. QED
    BY <1>1, <2>1, <2>2, <2>3, <2>4 DEF SinglePass, AccountedFor
<1>7. ASSUME NEW p \in Partitions, NEW w \in Workers, Assign(p, w)
      PROVE  SinglePass'
  <2>1. /\ owner[p] = NoWorker /\ owner'[p] = w /\ position'[p] = committed[p]
        /\ \A q \in Partitions \ {p} :
             owner'[q] = owner[q] /\ position'[q] = position[q]
        /\ UNCHANGED <<committed, reader, held, batch, stored, lost>>
    BY <1>7, NotMoved DEF Assign, TypeOK
  <2>2. ASSUME NEW v \in Workers PROVE Lane(v)' /\ Pending(v)' = Pending(v)
    <3>1. Pending(v)' = Pending(v) /\ InHand(v)' = InHand(v)
      BY <2>1 DEF Pending, InHand
    <3>2. \A m \in Pending(v) : m[1] \in Partitions
      BY HandTypes DEF Message
    <3>3. reader[v] = "committing" =>
            held[v][1] \in Partitions /\ held[v][1] # p
      BY <1>1, <2>1, NoneIsNoMessage DEF Lane, TypeOK, Message
    <3>4. \A m \in Pending(v) : owner'[m[1]] = v
      BY <1>1, <2>1, <3>2, NoneIsNoMessage DEF Lane
    <3>5. \A q \in Partitions :
            /\ owner'[q] = v
            /\ \/ reader[v] \in {"reading", "sending"}
               \/ reader[v] = "committing" /\ held[v][1] # q
            => position'[q] = committed'[q]
      BY <1>1, <2>1 DEF Lane
    <3>. QED
      BY <1>1, <2>1, <3>1, <3>3, <3>4, <3>5 DEF Lane
  <2>3. Pendings' = Pendings
    BY <2>2 DEF Pendings
  <2>. QED
    BY <1>1, <2>1, <2>2, <2>3 DEF SinglePass, AccountedFor
<1>8. ASSUME UNCHANGED <<committed, owner, position, reader, held, batch,
                         stored, lost>>
      PROVE  SinglePass'
  <2>1. \A v \in Workers : Pending(v)' = Pending(v) /\ InHand(v)' = InHand(v)
    BY <1>8 DEF Pending, InHand
  <2>2. \A v \in Workers : Lane(v)'
    BY <1>1, <1>8, <2>1 DEF Lane
  <2>3. Pendings' = Pendings
    BY <2>1 DEF Pendings
  <2>. QED
    BY <1>1, <1>8, <2>2, <2>3 DEF SinglePass, AccountedFor
<1>9. ASSUME NEW p \in Partitions, Produce(p) PROVE SinglePass'
  BY <1>8, <1>9 DEF Produce
<1>10. CASE Cancel \/ UNCHANGED vars
  BY <1>8, <1>10 DEF Cancel, broker, vars
<1>. QED
  BY <1>2, <1>3, <1>4, <1>5, <1>6, <1>7, <1>9, <1>10, SinglePassRead,
     OutcomesType
     DEF Next, WorkerStep, TypeOK

(* While no partition changes hands each has one lane from the log through *)
(* the reader and the batch to Process, in order: what is stored, batched  *)
(* and in hand are disjoint and all of it lies below the committed offset. *)
LEMMA SinglePassAlways == Spec => []SinglePass
<1>1. Init => SinglePass
  <2>. SUFFICES ASSUME Init PROVE SinglePass
    OBVIOUS
  <2>1. \A w \in Workers : Pending(w) = {} /\ InHand(w) = {}
    BY RangeEmpty DEF Init, Pending, InHand
  <2>2. Pendings = {} /\ AccountedFor = {}
    BY <2>1, RangeEmpty DEF Init, Pendings, AccountedFor
  <2>3. \A w \in Workers : Lane(w)
    BY <2>1, InOrderEmpty, NoneIsNoMessage DEF Init, Lane, Before
  <2>. QED
    BY <2>2, <2>3, InOrderEmpty DEF SinglePass, Init
<1>2. TypeOK /\ TypeOK' /\ SinglePass /\ [Next]_vars => SinglePass'
  <2>1. CASE MaxMoves = 0
    BY <2>1, SinglePassStep
  <2>2. CASE MaxMoves # 0
    BY <2>2 DEF SinglePass
  <2>. QED
    BY <2>1, <2>2
<1>. QED
  BY <1>1, <1>2, TypeCorrect, PTL DEF Spec

(* Process gets the messages of a partition in offset order and none of    *)
(* them twice, whatever fails, as long as no partition changes hands       *)
(* between live workers.                                                   *)
THEOREM StoredInOrderAlways == Spec => []StoredInOrder
<1>1. SinglePass => StoredInOrder
  BY DEF SinglePass, StoredInOrder
<1>. QED
  BY <1>1, SinglePassAlways, PTL

-----------------------------------------------------------------------------
Topic == Partitions \X (1..MaxLog)
Taken == {m \in Topic : m[2] <= committed[m[1]]}

LEMMA TopicIsMessages == Topic \subseteq Message
BY DEF Topic, Message

(* The messages of the workers' lanes are the open ones of AtMostOnce.     *)
LEMMA PendingIsOpen ==
  ASSUME MaxMoves = 0, TypeOK, SinglePass, WithinLog, NEW w \in Workers
  PROVE  Pending(w) \subseteq Taken \ (Range(stored) \cup lost)
<1>. SUFFICES ASSUME NEW m \in Pending(w)
              PROVE  m \in Taken \ (Range(stored) \cup lost)
  OBVIOUS
<1>1. m \in Message /\ m \in AccountedFor
  BY HandTypes
<1>2. /\ m = <<m[1], m[2]>> /\ m[1] \in Partitions /\ m[2] \in Nat \ {0}
      /\ committed[m[1]] \in Nat /\ log[m[1]] \in Nat /\ MaxLog \in Nat
  BY <1>1, KafkaWorkerAssumption DEF Message, TypeOK
<1>3. m[2] <= committed[m[1]] /\ committed[m[1]] <= log[m[1]] /\ log[m[1]] <= MaxLog
  BY <1>1, <1>2 DEF SinglePass, WithinLog
<1>4. m \in Taken
  BY <1>2, <1>3 DEF Taken, Topic
<1>5. m \notin Range(stored)
  BY <1>2 DEF SinglePass, Lane, Before
<1>6. m \notin lost
  BY DEF SinglePass, Pendings
<1>. QED
  BY <1>4, <1>5, <1>6

(* A step that processes s and gives up l settles them.                    *)
LEMMA Settles ==
  ASSUME MaxMoves = 0, TypeOK, SinglePass,
         NEW s \in Seq(Message), InOrder(s),
         Range(s) \subseteq Taken \ (Range(stored) \cup lost),
         NEW l \in SUBSET ((Taken \ (Range(stored) \cup lost)) \ Range(s)),
         stored' = stored \o s, lost' = lost \cup l, committed' = committed
  PROVE  Delivery!Next
<1>. DEFINE n == Len(stored)
            k == Len(stored')
            t == SubSeq(stored', n + 1, k)
<1>1. /\ n \in Nat /\ Len(s) \in Nat /\ k = n + Len(s)
      /\ stored \in Seq(Message) /\ stored' \in Seq(Message)
      /\ \A i \in 1..n + Len(s) :
           stored'[i] = IF i <= n THEN stored[i] ELSE s[i - n]
  BY ConcatProperties, LenProperties DEF TypeOK
<1>2. t = s
  <2>1. \A i \in (n + 1)..k : stored'[i] \in Message
    BY <1>1, ElementOfSeq
  <2>2. /\ t \in Seq(Message)
        /\ Len(t) = IF n + 1 <= k THEN k - (n + 1) + 1 ELSE 0
        /\ \A i \in 1..k - (n + 1) + 1 : t[i] = stored'[n + 1 + i - 1]
    BY <1>1, <2>1, SubSeqProperties
  <2>3. Len(t) = Len(s)
    BY <1>1, <2>2
  <2>4. \A i \in 1..Len(t) : t[i] = s[i]
    BY <1>1, <2>2, <2>3
  <2>. QED
    BY <2>2, <2>3, <2>4, SeqEqual
<1>3. lost' \ lost = l
  OBVIOUS
<1>4. IsInjective(s)
  BY InOrderIsInjective
<1>5. Delivery!Settle(s, l)
  BY <1>4 DEF Delivery!Settle, Delivery!Open, Delivery!IsInjective,
              Delivery!Range, IsInjective, Range, Taken, Topic
<1>. HIDE DEF t
<1>6. Delivery!Settle(t, lost' \ lost)
  BY <1>2, <1>3, <1>5
<1>. USE DEF t
<1>. QED
  BY <1>6 DEF Delivery!Next

LEMMA SettlesNothing ==
  ASSUME MaxMoves = 0, TypeOK, SinglePass,
         NEW l \in SUBSET (Taken \ (Range(stored) \cup lost)),
         stored' = stored, lost' = lost \cup l, committed' = committed
  PROVE  Delivery!Next
<1>1. <<>> \in Seq(Message) /\ InOrder(<<>>) /\ Range(<<>>) = {}
      /\ stored' = stored \o <<>>
  BY EmptySeq, ConcatEmptySeq, InOrderEmpty DEF TypeOK
<1>. QED
  BY <1>1, Settles

(* The offset committed is the next one, so its message is taken now.      *)
LEMMA Takes ==
  ASSUME MaxMoves = 0, TypeOK, SinglePass, WithinLog, NEW w \in Workers,
         reader[w] = "committing",
         committed' = [committed EXCEPT ![held[w][1]] = held[w][2]]
  PROVE  /\ held[w] \in Topic \ Taken
         /\ Taken' = Taken \cup {held[w]}
<1>. DEFINE m == held[w]
            q == held[w][1]
<1>1. /\ m = <<q, m[2]>> /\ q \in Partitions /\ m[2] \in Nat \ {0}
      /\ committed[q] \in Nat /\ log[q] \in Nat /\ MaxLog \in Nat
  BY KafkaWorkerAssumption DEF TypeOK, Message
<1>2. m[2] = committed[q] + 1 /\ m[2] <= log[q] /\ log[q] <= MaxLog
  BY <1>1 DEF SinglePass, Lane, WithinLog
<1>3. m \in Topic \ Taken
  BY <1>1, <1>2 DEF Topic, Taken
<1>4. /\ committed'[q] = m[2]
      /\ \A p \in Partitions \ {q} : committed'[p] = committed[p]
  BY <1>1 DEF TypeOK
<1>5. ASSUME NEW x \in Topic
      PROVE  x[2] <= committed'[x[1]] <=> x[2] <= committed[x[1]] \/ x = m
  <2>1. x = <<x[1], x[2]>> /\ x[1] \in Partitions /\ x[2] \in Nat
    BY DEF Topic
  <2>2. CASE x[1] = q
    BY <1>1, <1>2, <1>4, <2>1, <2>2
  <2>3. CASE x[1] # q
    BY <1>1, <1>4, <2>1, <2>3
  <2>. QED
    BY <2>2, <2>3
<1>6. Taken' = Taken \cup {m}
  BY <1>3, <1>5 DEF Taken
<1>. QED
  BY <1>3, <1>6

LEMMA StepImplements ==
  ASSUME MaxMoves = 0, TypeOK, SinglePass, WithinLog, [Next]_vars
  PROVE  [Delivery!Next]_(Delivery!vars)
<1>. DEFINE Unsettled == Taken \ (Range(stored) \cup lost)
<1>1. \A v \in Workers : Lane(v) /\ Pending(v) \subseteq Unsettled
  BY PendingIsOpen DEF SinglePass
<1>2. ASSUME UNCHANGED <<committed, stored, lost>>
      PROVE  [Delivery!Next]_(Delivery!vars)
  BY <1>2 DEF Delivery!vars
<1>3. ASSUME NEW w \in Workers, Commit(w) PROVE Delivery!Next
  <2>1. /\ held[w] \in Topic /\ held[w] \notin Taken
        /\ Taken' = Taken \cup {held[w]} /\ UNCHANGED <<stored, lost>>
    BY <1>3, Takes DEF Commit
  <2>2. PICK m \in Topic : m = held[w]
    BY <2>1
  <2>3. Delivery!Take(m)
    BY <2>1, <2>2 DEF Delivery!Take, Taken, Topic
  <2>. QED
    BY <2>3 DEF Delivery!Next, Topic
<1>4. ASSUME NEW w \in Workers, ReadError(w, TRUE) PROVE Delivery!Next
  <2>1. /\ held[w] \in Topic /\ held[w] \notin Taken
        /\ Taken' = Taken \cup {held[w]}
        /\ stored' = stored /\ lost' = lost \cup {held[w]}
    BY <1>4, Takes DEF ReadError
  <2>2. PICK m \in Topic : m = held[w]
    BY <2>1
  <2>3. Delivery!Miss(m)
    BY <2>1, <2>2 DEF Delivery!Miss, Taken, Topic
  <2>. QED
    BY <2>3 DEF Delivery!Next, Topic
<1>5. ASSUME NEW w \in Workers, NEW b \in Seq(Message), NEW ok \in BOOLEAN,
             InOrder(b), Range(b) \subseteq Pending(w), flush(w, b, ok),
             UNCHANGED <<committed, lost>>
      PROVE  [Delivery!Next]_(Delivery!vars)
  <2>1. CASE stored' = stored
    BY <1>2, <1>5, <2>1
  <2>2. CASE stored' = stored \o b
    <3>1. Range(b) \subseteq Taken \ (Range(stored) \cup lost)
      BY <1>1, <1>5
    <3>2. {} \in SUBSET ((Taken \ (Range(stored) \cup lost)) \ Range(b))
          /\ lost' = lost \cup {} /\ committed' = committed
      BY <1>5
    <3>. QED
      BY <1>5, <2>2, <3>1, <3>2, Settles
  <2>. QED
    BY <1>5, <2>1, <2>2 DEF flush
<1>6. ASSUME NEW w \in Workers, NEW ok \in BOOLEAN, Receive(w, ok)
      PROVE  [Delivery!Next]_(Delivery!vars)
  <2>. DEFINE b == Append(batch[w], held[w])
  <2>1. CASE stored' = stored
    BY <1>2, <1>6, <2>1 DEF Receive
  <2>2. CASE flush(w, b, ok)
    <3>1. /\ held[w] \in Message /\ batch[w] \in Seq(Message)
          /\ InHand(w) = {held[w]}
      BY <1>6 DEF Receive, TypeOK, InHand
    <3>2. b \in Seq(Message) /\ Range(b) = Pending(w)
      BY <3>1, RangeAppend, AppendProperties DEF Pending
    <3>4. InOrder(b)
      BY <1>1, <3>1, InOrderAppend DEF Lane
    <3>3. UNCHANGED <<committed, lost>>
      BY <1>6 DEF Receive
    <3>. HIDE DEF b
    <3>. QED
      BY <1>5, <2>2, <3>2, <3>3, <3>4
  <2>. QED
    BY <1>6, <2>1, <2>2 DEF Receive
<1>7. ASSUME NEW w \in Workers, NEW ok \in BOOLEAN, Tick(w, ok)
      PROVE  [Delivery!Next]_(Delivery!vars)
  <2>1. /\ batch[w] \in Seq(Message) /\ InOrder(batch[w])
        /\ Range(batch[w]) \subseteq Pending(w)
    BY <1>1 DEF TypeOK, Lane, Pending
  <2>. QED
    BY <1>5, <1>7, <2>1 DEF Tick
<1>8. ASSUME NEW w \in Workers, NEW ok \in BOOLEAN, Done(w, ok)
      PROVE  Delivery!Next
  <2>1. /\ batch[w] \in Seq(Message) /\ InOrder(batch[w])
        /\ Range(batch[w]) \subseteq Pending(w)
        /\ InHand(w) \subseteq Pending(w) \ Range(batch[w])
    <3>1. Lane(w)
      BY <1>1
    <3>2. Range(batch[w]) \subseteq Pending(w) /\ InHand(w) \subseteq Pending(w)
      BY DEF Pending
    <3>3. InHand(w) \subseteq Message
      BY <3>2, HandTypes
    <3>4. \A x \in InHand(w) : x[2] \in Nat
      BY <3>3 DEF Message
    <3>5. \A x \in InHand(w) : x \notin Range(batch[w])
      BY <3>1, <3>4 DEF Lane, Before
    <3>6. batch[w] \in Seq(Message)
      BY DEF TypeOK
    <3>7. InOrder(batch[w])
      BY <3>1 DEF Lane
    <3>. QED
      BY <3>2, <3>5, <3>6, <3>7
  <2>2. committed' = committed
    BY <1>8 DEF Done
  <2>3. CASE ok
    <3>1. stored' = stored \o batch[w] /\ lost' = lost \cup InHand(w)
      BY <1>8, <2>3 DEF Done
    <3>2. /\ Range(batch[w]) \subseteq Taken \ (Range(stored) \cup lost)
          /\ InHand(w) \in
               SUBSET ((Taken \ (Range(stored) \cup lost)) \ Range(batch[w]))
      BY <1>1, <2>1
    <3>. QED
      BY <2>1, <2>2, <3>1, <3>2, Settles
  <2>4. CASE ~ok
    <3>1. stored' = stored /\ lost' = lost \cup Pending(w)
      BY <1>8, <2>4 DEF Done, Pending
    <3>. QED
      BY <1>1, <2>2, <3>1, SettlesNothing
  <2>. QED
    BY <2>3, <2>4
<1>9. ASSUME NEW w \in Workers, Fail(w) PROVE Delivery!Next
  <2>1. /\ stored' = stored /\ lost' = lost \cup Range(batch[w])
        /\ committed' = committed
    BY <1>9 DEF Fail
  <2>2. Range(batch[w]) \in SUBSET (Taken \ (Range(stored) \cup lost))
    BY <1>1 DEF Pending
  <2>. QED
    BY <2>1, <2>2, SettlesNothing
<1>10. ASSUME Restart PROVE Delivery!Next
  <2>1. stored' = stored /\ lost' = lost \cup Pendings /\ committed' = committed
    BY <1>10 DEF Restart
  <2>2. Pendings \in SUBSET (Taken \ (Range(stored) \cup lost))
    BY <1>1, PendingsOf
  <2>. QED
    BY <2>1, <2>2, SettlesNothing
<1>11. ASSUME NEW w \in Workers, ReadError(w, FALSE)
       PROVE  [Delivery!Next]_(Delivery!vars)
  BY <1>2, <1>11 DEF ReadError
<1>12. ASSUME NEW p \in Partitions, Produce(p)
       PROVE  [Delivery!Next]_(Delivery!vars)
  BY <1>2, <1>12 DEF Produce
<1>13. ASSUME NEW p \in Partitions, NEW w \in Workers,
              Assign(p, w) \/ Fetch(w, p)
       PROVE  [Delivery!Next]_(Delivery!vars)
  BY <1>2, <1>13 DEF Assign, Fetch
<1>14. CASE Cancel \/ UNCHANGED vars
  BY <1>2, <1>14 DEF Cancel, broker, vars
<1>. QED
  BY <1>3, <1>4, <1>6, <1>7, <1>8, <1>9, <1>10, <1>11, <1>12, <1>13, <1>14,
     OutcomesType
     DEF Next, WorkerStep, TypeOK

(* Without a rebalance between live workers the consumer group implements  *)
(* at-most-once delivery: every step of every worker, failures, exits and  *)
(* restarts included, takes one message, settles messages, or is not       *)
(* visible.                                                                *)
THEOREM GroupImplementsAtMostOnce ==
  ASSUME MaxMoves = 0
  PROVE  Spec => ImplementsAtMostOnce
<1>1. Init => Delivery!Init
  BY KafkaWorkerAssumption DEF Init, Delivery!Init
<1>2. TypeOK /\ SinglePass /\ WithinLog /\ [Next]_vars
        => [Delivery!Next]_(Delivery!vars)
  BY StepImplements
<1>. QED
  BY <1>1, <1>2, TypeCorrect, SinglePassAlways, WithinLogAlways, PTL
     DEF Spec, ImplementsAtMostOnce, Delivery!Spec
=============================================================================
