--------------------------- MODULE MessagesProofs ---------------------------
(* What holds of Messages for every number of calls, readers, partitions,  *)
(* savers, pages and faults.                                               *)
EXTENDS Messages, FiniteSetTheorems, TLAPS

-----------------------------------------------------------------------------
(* Types.                                                                  *)

LEMMA TypeInit == Init => TypeOK
  BY MessagesAssumption
  DEF Init, TypeOK, Steps, InProgress, Answered, ReadingStates

LEMMA TypeSend ==
  ASSUME TypeOK, NEW c \in Calls,
         \/ Accept(c) \/ Forbid(c) \/ Create(c) \/ CreateFails(c)
         \/ Write(c) \/ Send(c) \/ Drop(c) \/ Written(c) \/ WriteFails(c)
  PROVE  TypeOK'
<1>. USE DEF TypeOK, given, sending, kafka, saving, paging, Goto, Steps, InProgress,
             Answered
<1>1. Fault => faults' \in 0..MaxFaults
  BY MessagesAssumption DEF Fault
<1>2. CASE Accept(c)
  <2>1. clock' \in 0..MaxClock /\ clock' >= clock
    BY <1>2, MessagesAssumption DEF Accept
  <2>2. createdAt' \in [Calls -> 0..clock']
    BY <1>2, <2>1, MessagesAssumption DEF Accept
  <2>. QED
    BY <1>2, <2>1, <2>2 DEF Accept
<1>3. CASE Forbid(c)
  BY <1>1, <1>3 DEF Forbid
<1>4. CASE Create(c)
  BY <1>4 DEF Create
<1>5. CASE CreateFails(c)
  BY <1>1, <1>5 DEF CreateFails
<1>6. CASE Write(c)
  BY <1>6 DEF Write
<1>7. CASE Written(c)
  BY <1>7 DEF Written
<1>8. CASE WriteFails(c)
  BY <1>1, <1>8 DEF WriteFails
<1>9. CASE Send(c)
  BY <1>1, <1>9 DEF Send
<1>10. CASE Drop(c)
  BY <1>1, <1>10 DEF Drop
<1>. QED
  BY <1>2, <1>3, <1>4, <1>5, <1>6, <1>7, <1>8, <1>9, <1>10

(* What an append does to the partition it meets.                          *)
LEMMA Appended ==
  ASSUME TypeOK, NEW c \in Calls, NEW p \in Partitions, Deliver(c, p)
  PROVE  /\ topic' \in [Partitions -> Seq(Calls)]
         /\ \A q \in Partitions :
              /\ Len(topic'[q]) >= Len(topic[q])
              /\ \A i \in 1..Len(topic[q]) : topic'[q][i] = topic[q][i]
              /\ \A i \in 1..Len(topic'[q]) :
                   topic'[q][i] = c \/ i \in 1..Len(topic[q])
         /\ \E i \in 1..Len(topic'[p]) : topic'[p][i] = c
<1>1. /\ topic \in [Partitions -> Seq(Calls)]
      /\ topic' = [topic EXCEPT ![p] = Append(@, c)]
  BY DEF TypeOK, Deliver
<1>2. topic' \in [Partitions -> Seq(Calls)]
  BY <1>1
<1>3. \A q \in Partitions : q # p => topic'[q] = topic[q]
  BY <1>1
<1>4. /\ topic[p] \in Seq(Calls)
      /\ topic'[p] = Append(topic[p], c)
  BY <1>1
<1>5. /\ Len(topic'[p]) = Len(topic[p]) + 1
      /\ Len(topic[p]) \in Nat
      /\ topic'[p][Len(topic[p]) + 1] = c
      /\ \A i \in 1..Len(topic[p]) : topic'[p][i] = topic[p][i]
  BY <1>4
<1>6. \A q \in Partitions : Len(topic[q]) \in Nat
  BY <1>1
<1>7. ASSUME NEW q \in Partitions
      PROVE  /\ Len(topic'[q]) >= Len(topic[q])
             /\ \A i \in 1..Len(topic[q]) : topic'[q][i] = topic[q][i]
             /\ \A i \in 1..Len(topic'[q]) :
                  topic'[q][i] = c \/ i \in 1..Len(topic[q])
  <2>1. CASE q = p
    BY <1>5, <2>1
  <2>2. CASE q # p
    BY <1>3, <1>6, <2>2
  <2>. QED
    BY <2>1, <2>2
<1>8. \E i \in 1..Len(topic'[p]) : topic'[p][i] = c
  BY <1>5
<1>. QED
  BY <1>2, <1>7, <1>8

LEMMA TypeStep == TypeOK /\ [Next]_vars => TypeOK'
<1>. SUFFICES ASSUME TypeOK, [Next]_vars PROVE TypeOK'
  OBVIOUS
<1>1. Fault => faults' \in 0..MaxFaults
  BY MessagesAssumption DEF Fault, TypeOK
<1>2. ASSUME Crash PROVE TypeOK'
  BY <1>1, <1>2
  DEF Crash, TypeOK, Steps, InProgress, ReadingStates, Paged, given, saving
<1>3. ASSUME NEW c \in Calls, NEW p \in Partitions, Deliver(c, p)
      PROVE  TypeOK'
  <2>1. faults' \in 0..MaxFaults
    BY <1>1, <1>3 DEF Deliver, TypeOK
  <2>2. \A q \in Partitions : position[q] <= Len(topic'[q])
    <3>. TAKE q \in Partitions
    <3>1. topic'[q] \in Seq(Calls) /\ topic[q] \in Seq(Calls)
      BY <1>3, Appended DEF TypeOK
    <3>2. Len(topic'[q]) >= Len(topic[q]) /\ position[q] <= Len(topic[q])
      BY <1>3, Appended DEF TypeOK
    <3>3. position[q] \in Nat
      BY DEF TypeOK
    <3>. QED
      BY <3>1, <3>2, <3>3
  <2>3. topic' \in [Partitions -> Seq(Calls)]
    BY <1>3, Appended
  <2>4. wire' \subseteq Calls
    BY <1>3 DEF Deliver, TypeOK
  <2>. QED
    BY <1>3, <2>1, <2>2, <2>3, <2>4 DEF Deliver, TypeOK, given, sending,
                                        saving, paging
<1>4. ASSUME NEW s \in Savers, NEW p \in Partitions, Collect(s, p)
      PROVE  TypeOK'
  <2>1. /\ topic[p] \in Seq(Calls)
        /\ position[p] \in Nat
        /\ position[p] < Len(topic[p])
    BY <1>4 DEF TypeOK, Collect
  <2>2. topic[p][position[p] + 1] \in Calls
    BY <2>1
  <2>3. batch' \in [Savers -> Seq(Calls)]
    BY <1>4, <2>2 DEF TypeOK, Collect
  <2>4. /\ position' \in [Partitions -> Nat]
        /\ \A q \in Partitions : position'[q] <= Len(topic[q])
    BY <1>4, <2>1 DEF TypeOK, Collect
  <2>. QED
    BY <1>4, <2>3, <2>4 DEF TypeOK, Collect, given, sending, kafka, paging
<1>5. ASSUME NEW s \in Savers, Process(s) PROVE TypeOK'
  <2>1. batch[s] \in Seq(Calls)
    BY DEF TypeOK
  <2>2. Range(batch[s]) \subseteq Calls
    BY <2>1 DEF Range
  <2>3. rows' \subseteq Calls /\ batch' \in [Savers -> Seq(Calls)]
    BY <1>5, <2>2 DEF TypeOK, Process
  <2>. QED
    BY <1>5, <2>3 DEF TypeOK, Process, given, sending, kafka, paging
<1>6. ASSUME NEW s \in Savers, SaverCrash(s) PROVE TypeOK'
  BY <1>1, <1>6 DEF TypeOK, SaverCrash, given, sending, kafka, paging
<1>7. ASSUME NEW r \in Readers, Query(r) \/ CountOlder(r) \/ CountFails(r)
      PROVE  TypeOK'
  <2>1. CASE Query(r)
    <3>1. PICK q \in SUBSET Older(cursor[r]) : page' = [page EXCEPT ![r] = q]
      BY <2>1 DEF Query
    <3>2. q \subseteq Calls
      BY <3>1 DEF Older, TypeOK
    <3>. QED
      BY <2>1, <3>1, <3>2 DEF Query, TypeOK, given, sending, kafka, saving,
                              ReadingStates, Paged
  <2>2. CASE CountOlder(r)
    BY <2>2 DEF CountOlder, TypeOK, given, sending, kafka, saving, ReadingStates,
                Paged
  <2>3. CASE CountFails(r)
    BY <1>1, <2>3 DEF CountFails, TypeOK, given, sending, kafka, saving,
                      ReadingStates, Paged
  <2>. QED
    BY <1>7, <2>1, <2>2, <2>3
<1>8. ASSUME NEW r \in Readers, Answer(r) PROVE TypeOK'
  <2>1. page[r] \subseteq Calls
    BY DEF TypeOK
  <2>2. cursor' \in [Readers -> Calls \cup {NoMessage}]
    BY <1>8, <2>1 DEF Answer, TypeOK, Oldest
  <2>. QED
    BY <1>8, <2>1, <2>2 DEF Answer, Return, TypeOK, given, sending, kafka, saving,
                            ReadingStates, Stopped
<1>9. ASSUME NEW r \in Readers, Refuse(r) PROVE TypeOK'
  BY <1>1, <1>9 DEF Refuse, Return, TypeOK, given, sending, kafka, saving,
                    ReadingStates, Stopped
<1>10. ASSUME UNCHANGED vars PROVE TypeOK'
  BY <1>10 DEF vars, TypeOK
<1>. QED
  BY <1>2, <1>3, <1>4, <1>5, <1>6, <1>7, <1>8, <1>9, <1>10, TypeSend DEF Next

(* TypeOK holds in every reachable state (message_handler.go lines 92-122, *)
(* chat_handler.go lines 122-169).                                         *)
THEOREM TypeCorrect == Spec => []TypeOK
<1>. QED
  BY TypeInit, TypeStep, PTL DEF Spec

-----------------------------------------------------------------------------
(* Where messages come from: SendMessage stores before it writes, so       *)
(* everything that is on its way to the saver has a row.                   *)

Published(c) == \E p \in Partitions : \E i \in 1..Len(topic[p]) : topic[p][i] = c

\* It has left the producer.
Sent(c) == c \in wire \cup dropped \/ Published(c)

Origin ==
  /\ \A c \in Calls : step[c] \in {"created", "writing", "ok"} => c \in rows
  /\ \A c \in rows : step[c] # "new"
  /\ pending \cup wire \cup dropped \subseteq rows
  /\ \A p \in Partitions : \A i \in 1..Len(topic[p]) : topic[p][i] \in rows
  /\ \A s \in Savers : \A i \in 1..Len(batch[s]) : batch[s][i] \in rows
  /\ \A c \in Calls : step[c] = "writing" => c \in pending \/ Sent(c)
  /\ \A c \in Calls : step[c] = "ok" => Sent(c)

LEMMA OriginInit == Init => Origin
<1>. SUFFICES ASSUME Init PROVE Origin
  OBVIOUS
<1>1. \A p \in Partitions : 1..Len(topic[p]) = {}
  BY DEF Init
<1>2. \A s \in Savers : 1..Len(batch[s]) = {}
  BY DEF Init
<1>. QED
  BY <1>1, <1>2 DEF Init, Origin

(* The saver's transaction is refused: the first message of its batch is   *)
(* stored already.                                                         *)
LEMMA Refused ==
  ASSUME TypeOK, Origin, NEW s \in Savers, Process(s)
  PROVE  rows' = rows /\ batch' = batch
<1>1. batch[s] \in Seq(Calls) /\ batch[s] # <<>>
  BY DEF TypeOK, Process
<1>2. 1 \in 1..Len(batch[s]) /\ 1 \in DOMAIN batch[s]
  BY <1>1
<1>3. batch[s][1] \in Range(batch[s])
  BY <1>2 DEF Range
<1>4. batch[s][1] \in rows
  BY <1>2 DEF Origin
<1>5. ~Insertable(batch[s])
  BY <1>3, <1>4 DEF Insertable
<1>6. rows' = rows
  BY <1>5 DEF Process
<1>7. batch' = batch
  BY <1>5 DEF Process, TypeOK
<1>. QED
  BY <1>6, <1>7

LEMMA OriginSend ==
  ASSUME TypeOK, Origin, NEW c \in Calls,
         \/ Accept(c) \/ Forbid(c) \/ Create(c) \/ CreateFails(c)
         \/ Write(c) \/ Send(c) \/ Drop(c) \/ Written(c) \/ WriteFails(c)
  PROVE  Origin'
<1>. USE DEF given, sending, kafka, saving, paging, Goto, Sent
<1>1. topic' = topic /\ batch' = batch
  BY DEF Accept, Forbid, Create, CreateFails, Write, Send, Drop, Written,
         WriteFails
<1>2. \A d \in Calls : Published(d)' <=> Published(d)
  BY <1>1 DEF Published
<1>3. step \in [Calls -> Steps] /\ rows \subseteq Calls
  BY DEF TypeOK
<1>4. CASE Accept(c) \/ Forbid(c)
  BY <1>1, <1>2, <1>3, <1>4 DEF Accept, Forbid, Origin
<1>5. CASE Create(c)
  BY <1>1, <1>2, <1>3, <1>5 DEF Create, Origin
<1>6. CASE CreateFails(c)
  BY <1>1, <1>2, <1>3, <1>6 DEF CreateFails, Origin
<1>7. CASE Write(c)
  BY <1>1, <1>2, <1>3, <1>7 DEF Write, Origin
<1>8. CASE Written(c)
  BY <1>1, <1>2, <1>3, <1>8 DEF Written, Origin
<1>9. CASE WriteFails(c)
  BY <1>1, <1>2, <1>3, <1>9 DEF WriteFails, Origin
<1>10. CASE Send(c)
  BY <1>1, <1>2, <1>3, <1>10 DEF Send, Origin
<1>11. CASE Drop(c)
  BY <1>1, <1>2, <1>3, <1>11 DEF Drop, Origin
<1>. QED
  BY <1>4, <1>5, <1>6, <1>7, <1>8, <1>9, <1>10, <1>11

LEMMA OriginStep == TypeOK /\ Origin /\ [Next]_vars => Origin'
<1>. SUFFICES ASSUME TypeOK, Origin, [Next]_vars PROVE Origin'
  OBVIOUS
<1>1. ASSUME Crash PROVE Origin'
  BY <1>1 DEF Crash, TypeOK, Origin, Sent, Published, given, saving, InProgress
<1>2. ASSUME NEW c \in Calls, NEW p \in Partitions, Deliver(c, p)
      PROVE  Origin'
  <2>1. /\ c \in wire /\ c \in rows /\ wire' = wire \ {c}
        /\ UNCHANGED <<step, rows, batch, pending, dropped>>
    BY <1>2 DEF Deliver, Origin, sending, saving
  <2>2. \A q \in Partitions : Len(topic[q]) \in Nat /\ Len(topic'[q]) \in Nat
    BY <1>2, Appended DEF TypeOK
  <2>3. \A d \in Calls : Published(d) => Published(d)'
    <3>. TAKE d \in Calls
    <3>. HAVE Published(d)
    <3>0. PICK q \in Partitions : \E i \in 1..Len(topic[q]) : topic[q][i] = d
      BY DEF Published
    <3>1. PICK i \in 1..Len(topic[q]) : topic[q][i] = d
      BY <3>0
    <3>2. i \in 1..Len(topic'[q]) /\ topic'[q][i] = d
      BY <1>2, <2>2, <3>1, Appended
    <3>. QED
      BY <3>2 DEF Published
  <2>4. Published(c)'
    BY <1>2, Appended DEF Published
  <2>5. \A q \in Partitions : \A i \in 1..Len(topic'[q]) :
          topic'[q][i] \in rows
    <3>. TAKE q \in Partitions
    <3>. TAKE i \in 1..Len(topic'[q])
    <3>1. CASE topic'[q][i] = c
      BY <2>1, <3>1
    <3>2. CASE i \in 1..Len(topic[q])
      BY <1>2, <3>2, Appended DEF Origin
    <3>. QED
      BY <1>2, <3>1, <3>2, Appended
  <2>6. \A d \in Calls : Sent(d) => Sent(d)'
    BY <2>1, <2>3, <2>4 DEF Sent
  <2>. QED
    BY <2>1, <2>5, <2>6 DEF Origin
<1>3. ASSUME NEW s \in Savers, NEW p \in Partitions, Collect(s, p)
      PROVE  Origin'
  <2>1. /\ topic[p] \in Seq(Calls) /\ position[p] \in Nat
        /\ position[p] + 1 \in 1..Len(topic[p])
    BY <1>3 DEF TypeOK, Collect
  <2>2. topic[p][position[p] + 1] \in rows
    BY <2>1 DEF Origin
  <2>3. \A w \in Savers : \A i \in 1..Len(batch'[w]) : batch'[w][i] \in rows
    <3>. TAKE w \in Savers
    <3>1. CASE w # s
      BY <1>3, <3>1 DEF Collect, Origin, TypeOK
    <3>2. CASE w = s
      <4>1. /\ batch[s] \in Seq(Calls)
            /\ batch'[s] = Append(batch[s], topic[p][position[p] + 1])
        BY <1>3 DEF Collect, TypeOK
      <4>2. \A i \in 1..Len(batch'[s]) :
              \/ i \in 1..Len(batch[s]) /\ batch'[s][i] = batch[s][i]
              \/ batch'[s][i] = topic[p][position[p] + 1]
        BY <4>1
      <4>. QED
        BY <2>2, <3>2, <4>2 DEF Origin
    <3>. QED
      BY <3>1, <3>2
  <2>. QED
    BY <1>3, <2>3 DEF Collect, Origin, Sent, Published, sending, kafka
<1>4. ASSUME NEW s \in Savers, Process(s) PROVE Origin'
  <2>1. rows' = rows /\ batch' = batch
    BY <1>4, Refused
  <2>. QED
    BY <1>4, <2>1 DEF Process, Origin, Sent, Published, sending, kafka
<1>5. ASSUME NEW s \in Savers, SaverCrash(s) PROVE Origin'
  <2>1. \A w \in Savers : batch'[w] = batch[w] \/ 1..Len(batch'[w]) = {}
    BY <1>5 DEF SaverCrash, TypeOK
  <2>. QED
    BY <1>5, <2>1 DEF SaverCrash, Origin, Sent, Published, sending, kafka
<1>6. ASSUME NEW r \in Readers,
             \/ Query(r) \/ CountOlder(r) \/ CountFails(r)
             \/ Answer(r) \/ Refuse(r)
      PROVE  Origin'
  <2>1. UNCHANGED <<step, rows, pending, wire, dropped, topic, batch>>
    BY <1>6 DEF Query, CountOlder, CountFails, Answer, Refuse, sending, kafka,
                saving
  <2>. QED
    BY <2>1 DEF Origin, Sent, Published
<1>7. ASSUME UNCHANGED vars PROVE Origin'
  BY <1>7 DEF vars, Origin, Sent, Published
<1>. QED
  BY <1>1, <1>2, <1>3, <1>4, <1>5, <1>6, <1>7, OriginSend DEF Next

LEMMA OriginAlways == Spec => [](TypeOK /\ Origin)
<1>. QED
  BY TypeInit, TypeStep, OriginInit, OriginStep, PTL DEF Spec

(* What is sent to the broker was stored before, whatever fails; and a     *)
(* message answered 200 is stored, and is in the topic, on its way there,  *)
(* or was dropped behind it (message_handler.go lines 102-122).            *)
THEOREM SentIsSavedAlways == Spec => []SentIsSaved
<1>1. TypeOK /\ Origin => SentIsSaved
  <2>. SUFFICES ASSUME TypeOK, Origin PROVE SentIsSaved
    OBVIOUS
  <2>1. ASSUME NEW c PROVE c \in Topic <=> Published(c)
    <3>1. \A p \in Partitions : DOMAIN topic[p] = 1..Len(topic[p])
      BY DEF TypeOK
    <3>. QED
      BY <3>1 DEF Topic, Range, Published
  <2>2. Topic \subseteq rows
    BY <2>1 DEF Origin, Published
  <2>. QED
    BY <2>1, <2>2 DEF Origin, Sent, SentIsSaved
<1>. QED
  BY <1>1, OriginAlways, PTL

(* No step but SendMessage's insert adds a row, and the saver's batch gets *)
(* shorter by nothing but the death of the worker (message_service.go      *)
(* lines 24-39, kafka_worker.go lines 91-105).                             *)
THEOREM SaverStoresNothingAlways == Spec => SaverStoresNothing
<1>. DEFINE Kept == \A s \in Savers : Len(batch'[s]) < Len(batch[s]) =>
                      faults' = faults + 1
<1>1. TypeOK /\ Origin /\ [Next]_vars => SentOrKept
  <2>. SUFFICES ASSUME TypeOK, Origin, [Next]_vars PROVE SentOrKept
    OBVIOUS
  <2>. USE DEF given, sending, kafka, saving, paging
  <2>1. batch' = batch => Kept
    <3>1. \A s \in Savers : Len(batch[s]) \in Nat
      BY DEF TypeOK
    <3>. QED
      BY <3>1
  <2>2. ASSUME NEW c \in Calls, Create(c) \/ CreateFails(c) PROVE SentOrKept
    BY <2>1, <2>2 DEF Create, CreateFails, SentOrKept
  <2>3. ASSUME NEW s \in Savers, Process(s) PROVE SentOrKept
    BY <2>1, <2>3, Refused DEF SentOrKept
  <2>4. ASSUME NEW s \in Savers, NEW p \in Partitions, Collect(s, p)
        PROVE  SentOrKept
    <3>1. /\ position[p] + 1 \in DOMAIN topic[p]
          /\ topic[p] \in Seq(Calls)
      BY <2>4 DEF Collect, TypeOK
    <3>2. \A w \in Savers : /\ Len(batch[w]) \in Nat
                            /\ Len(batch'[w]) >= Len(batch[w])
      BY <2>4, <3>1 DEF Collect, TypeOK
    <3>3. Kept
      BY <3>2
    <3>. QED
      BY <2>4, <3>3 DEF Collect, SentOrKept
  <2>5. ASSUME NEW s \in Savers, SaverCrash(s) PROVE SentOrKept
    BY <2>5 DEF SaverCrash, Fault, SentOrKept
  <2>6. ASSUME NEW c \in Calls,
               \/ Accept(c) \/ Forbid(c) \/ Write(c) \/ Send(c) \/ Drop(c)
               \/ Written(c) \/ WriteFails(c) \/ \E p \in Partitions : Deliver(c, p)
        PROVE  SentOrKept
    <3>1. rows' = rows /\ batch' = batch
      BY <2>6 DEF Accept, Forbid, Write, Send, Drop, Written,
                    WriteFails, Deliver
    <3>. QED
      BY <2>1, <3>1 DEF SentOrKept
  <2>7. ASSUME NEW r \in Readers,
               \/ Query(r) \/ CountOlder(r) \/ CountFails(r)
               \/ Answer(r) \/ Refuse(r)
        PROVE  SentOrKept
    <3>1. rows' = rows /\ batch' = batch
      BY <2>7 DEF Query, CountOlder, CountFails, Answer, Refuse
    <3>. QED
      BY <2>1, <3>1 DEF SentOrKept
  <2>8. ASSUME Crash \/ UNCHANGED vars PROVE SentOrKept
    <3>1. rows' = rows /\ batch' = batch
      BY <2>8 DEF Crash, vars
    <3>. QED
      BY <2>1, <3>1 DEF SentOrKept
  <2>. QED
    BY <2>2, <2>3, <2>4, <2>5, <2>6, <2>7, <2>8 DEF Next
<1>. QED
  BY <1>1, OriginAlways, PTL DEF Spec, SaverStoresNothing

-----------------------------------------------------------------------------
(* Scrolling.  The cursor is the time down to which everything was shown;  *)
(* a page lies below it and leaves out only what is not newer than the     *)
(* page; and without has_more nothing is older than the page.              *)

Below(r, m) == cursor[r] = NoMessage \/ createdAt[m] < createdAt[cursor[r]]

Stored(r) ==
  /\ shown[r] \subseteq rows
  /\ page[r] \subseteq rows
  /\ first[r] \subseteq rows

CursorAt(r) ==
  IF cursor[r] = NoMessage
    THEN shown[r] = {}
    ELSE /\ cursor[r] \in shown[r]
         /\ \A n \in shown[r] : createdAt[n] >= createdAt[cursor[r]]

PageAt(r) ==
  reading[r] \in Paged =>
    /\ \A m \in page[r] : Below(r, m)
    /\ \A m \in first[r] :
         Below(r, m) => \/ m \in page[r]
                        \/ /\ page[r] # {}
                           /\ \A k \in page[r] : createdAt[m] <= createdAt[k]

LastPageAt(r) ==
  reading[r] = "checking" /\ ~hasMore[r] =>
    \A k \in Oldest(page[r]) : \A m \in first[r] :
      createdAt[m] >= createdAt[k]

CompleteAt(r) ==
  \A m \in Above(r) : \E n \in shown[r] :
    n = m \/ createdAt[n] = createdAt[m]

ScrollAt(r) ==
  Stored(r) /\ CursorAt(r) /\ PageAt(r) /\ LastPageAt(r) /\ CompleteAt(r)

Scroll == \A r \in Readers : ScrollAt(r)

LEMMA ScrollInit == Init => Scroll
  BY DEF Init, Scroll, ScrollAt, Stored, CursorAt, PageAt, LastPageAt,
         CompleteAt, Above

(* A reader is not concerned by new rows, nor by the times of messages     *)
(* that are not stored.                                                    *)
LEMMA Undisturbed ==
  ASSUME TypeOK, NEW r \in Readers, ScrollAt(r),
         rows \subseteq rows',
         \A m \in rows : createdAt'[m] = createdAt[m],
         UNCHANGED <<reading[r], page[r], hasMore[r], cursor[r], shown[r],
                     first[r]>>
  PROVE  ScrollAt(r)'
<1>1. Stored(r) /\ Stored(r)'
  BY DEF ScrollAt, Stored
<1>2. CursorAt(r)' /\ (cursor[r] # NoMessage => cursor[r] \in rows)
  BY <1>1 DEF ScrollAt, CursorAt, Stored
<1>3. \A m \in rows : Below(r, m)' <=> Below(r, m)
  BY <1>2 DEF Below
<1>4. PageAt(r)'
  BY <1>1, <1>3 DEF ScrollAt, PageAt, Stored
<1>5. Oldest(page[r])' = Oldest(page[r])
  BY <1>1 DEF Oldest, Stored
<1>6. LastPageAt(r)'
  BY <1>1, <1>5 DEF ScrollAt, LastPageAt, Stored, Oldest
<1>7. Above(r)' = Above(r)
  BY <1>1, <1>2 DEF Above, Stored
<1>8. CompleteAt(r)'
  BY <1>1, <1>7 DEF ScrollAt, CompleteAt, Stored, Above
<1>. QED
  BY <1>1, <1>2, <1>4, <1>6, <1>8 DEF ScrollAt

(* The empty page means that nothing was older.                            *)
LEMMA EmptyPage ==
  ASSUME NEW s, IsFiniteSet(s), IsPage({}, s)
  PROVE  s = {}
<1>1. Cardinality({}) = 0
  BY FS_EmptySet
<1>2. Cardinality(s) \in Nat
  BY FS_CardinalityType
<1>3. Cardinality(s) = 0
  BY <1>1, <1>2, MessagesAssumption DEF IsPage
<1>. QED
  BY <1>3, FS_EmptySet

LEMMA QueryScrolls ==
  ASSUME TypeOK, NEW r \in Readers, ScrollAt(r), Query(r)
  PROVE  ScrollAt(r)'
<1>1. PICK q \in SUBSET Older(cursor[r]) :
        /\ IsPage(q, Older(cursor[r]))
        /\ page' = [page EXCEPT ![r] = q]
  BY DEF Query
<1>2. /\ page'[r] = q
      /\ reading'[r] = "counting"
      /\ first'[r] = IF cursor[r] = NoMessage THEN rows ELSE first[r]
      /\ UNCHANGED <<rows, createdAt, hasMore, cursor, shown>>
  BY <1>1 DEF Query, TypeOK, sending
<1>3. Older(cursor[r]) = {m \in rows : Below(r, m)}
  BY DEF Older, Below
<1>4. Stored(r)' /\ CursorAt(r)' /\ LastPageAt(r)'
  BY <1>2, <1>3 DEF ScrollAt, Stored, CursorAt, LastPageAt
<1>5. IsFiniteSet(Older(cursor[r]))
  <2>1. Older(cursor[r]) \subseteq Calls
    BY DEF Older, TypeOK
  <2>. QED
    BY <2>1, FS_Subset, MessagesAssumption
<1>6. PageAt(r)'
  <2>1. \A m \in q : Below(r, m)
    BY <1>3
  <2>2. ASSUME NEW m \in first'[r], Below(r, m), m \notin q
        PROVE  q # {} /\ \A k \in q : createdAt[m] <= createdAt[k]
    <3>1. m \in Older(cursor[r])
      BY <1>2, <1>3, <2>2 DEF ScrollAt, Stored
    <3>2. q # {}
      BY <1>1, <1>5, <3>1, EmptyPage
    <3>. QED
      BY <1>1, <2>2, <3>1, <3>2 DEF IsPage
  <2>3. \A m : Below(r, m)' <=> Below(r, m)
    BY <1>2 DEF Below
  <2>. QED
    BY <1>2, <2>1, <2>2, <2>3 DEF PageAt
<1>7. CompleteAt(r)'
  <2>1. Above(r)' \subseteq Above(r)
    BY <1>2 DEF Above
  <2>. QED
    BY <1>2, <2>1 DEF ScrollAt, CompleteAt
<1>. QED
  BY <1>4, <1>6, <1>7 DEF ScrollAt

LEMMA CountScrolls ==
  ASSUME TypeOK, NEW r \in Readers, ScrollAt(r), CountOlder(r)
  PROVE  ScrollAt(r)'
<1>1. /\ reading[r] = "counting" /\ reading'[r] = "checking"
      /\ hasMore'[r] = \E m \in Oldest(page[r]) : Older(m) # {}
      /\ UNCHANGED <<rows, createdAt, page, cursor, shown, first>>
  BY DEF CountOlder, TypeOK, sending
<1>2. Stored(r)' /\ CursorAt(r)'
  BY <1>1 DEF ScrollAt, Stored, CursorAt
<1>3. PageAt(r)'
  BY <1>1 DEF ScrollAt, PageAt, Below, Paged
<1>4. LastPageAt(r)'
  <2>. SUFFICES ASSUME ~hasMore'[r], NEW k \in Oldest(page[r]),
                       NEW m \in first[r]
                PROVE  createdAt[m] >= createdAt[k]
    BY <1>1 DEF LastPageAt, Oldest
  <2>1. Older(k) = {}
    BY <1>1
  <2>2. m \in rows /\ k \in rows
    BY DEF ScrollAt, Stored, Oldest
  <2>3. k # NoMessage /\ createdAt[m] \in Int /\ createdAt[k] \in Int
    BY <2>2, MessagesAssumption DEF TypeOK
  <2>. QED
    BY <2>1, <2>2, <2>3 DEF Older
<1>5. CompleteAt(r)'
  BY <1>1 DEF ScrollAt, CompleteAt, Above
<1>. QED
  BY <1>2, <1>3, <1>4, <1>5 DEF ScrollAt

LEMMA MiscountScrolls ==
  ASSUME TypeOK, NEW r \in Readers, ScrollAt(r), CountFails(r)
  PROVE  ScrollAt(r)'
<1>1. /\ reading[r] = "counting" /\ reading'[r] = "miscounted"
      /\ UNCHANGED <<rows, createdAt, page, cursor, shown, first>>
  BY DEF CountFails, TypeOK, sending
<1>2. Stored(r)' /\ CursorAt(r)' /\ LastPageAt(r)'
  BY <1>1 DEF ScrollAt, Stored, CursorAt, LastPageAt
<1>3. PageAt(r)'
  BY <1>1 DEF ScrollAt, PageAt, Below, Paged
<1>4. CompleteAt(r)'
  BY <1>1 DEF ScrollAt, CompleteAt, Above
<1>. QED
  BY <1>2, <1>3, <1>4 DEF ScrollAt

LEMMA AnswerScrolls ==
  ASSUME TypeOK, NEW r \in Readers, ScrollAt(r), Answer(r)
  PROVE  ScrollAt(r)'
<1>1. /\ reading[r] \in Paged /\ reading'[r] \in {"asking", "end", "misled"}
      /\ reading'[r] = "end" => reading[r] = "checking" /\ ~hasMore[r]
      /\ shown'[r] = shown[r] \cup page[r]
      /\ page'[r] = {}
      /\ UNCHANGED <<rows, createdAt, first>>
  BY DEF Answer, Return, TypeOK, sending, Paged
<1>2. \/ page[r] = {} /\ cursor'[r] = cursor[r]
      \/ cursor'[r] \in Oldest(page[r])
  BY DEF Answer, TypeOK
<1>3. /\ shown[r] \subseteq Calls /\ page[r] \subseteq Calls
      /\ first[r] \subseteq Calls
      /\ \A m \in Calls : createdAt[m] \in Int
      /\ NoMessage \notin Calls
  BY MessagesAssumption DEF TypeOK
<1>4. Stored(r)' /\ PageAt(r)' /\ LastPageAt(r)'
  BY <1>1 DEF ScrollAt, Stored, PageAt, LastPageAt, Paged
<1>5. CursorAt(r) /\ PageAt(r) /\ LastPageAt(r) /\ CompleteAt(r)
  BY DEF ScrollAt
<1>6. CASE page[r] = {} /\ cursor'[r] = cursor[r]
  <2>1. CursorAt(r)'
    BY <1>1, <1>5, <1>6 DEF CursorAt
  <2>2. \A m \in first[r] : ~Below(r, m)
    BY <1>1, <1>5, <1>6 DEF PageAt
  <2>3. Above(r)' \subseteq Above(r)
    <3>1. cursor[r] = NoMessage => first[r] = {}
      BY <2>2 DEF Below
    <3>2. cursor[r] # NoMessage => cursor[r] \in Calls
      BY DEF TypeOK
    <3>3. \A m \in first[r] : /\ cursor[r] # NoMessage
                              /\ createdAt[m] >= createdAt[cursor[r]]
      BY <1>3, <2>2, <3>1, <3>2 DEF Below
    <3>. QED
      BY <1>1, <1>6, <3>3 DEF Above
  <2>4. CompleteAt(r)'
    BY <1>1, <1>5, <1>6, <2>3 DEF CompleteAt
  <2>. QED
    BY <1>4, <2>1, <2>4 DEF ScrollAt
<1>7. CASE cursor'[r] \in Oldest(page[r])
  <2>. DEFINE k == cursor'[r]
  <2>1. /\ k \in page[r] /\ k \in Calls /\ k # NoMessage
        /\ \A n \in page[r] : createdAt[k] <= createdAt[n]
    BY <1>3, <1>7 DEF Oldest
  <2>2. Below(r, k)
    BY <1>1, <1>5, <2>1 DEF PageAt
  <2>3. \A n \in shown[r] : createdAt[n] >= createdAt[k]
    BY <1>3, <1>5, <2>1, <2>2 DEF CursorAt, Below
  <2>4. CursorAt(r)'
    BY <1>1, <1>3, <2>1, <2>3 DEF CursorAt
  <2>5. ASSUME NEW m \in Above(r)'
        PROVE  \E n \in shown'[r] : n = m \/ createdAt[n] = createdAt[m]
    <3>1. m \in first[r]
      BY <1>1 DEF Above
    <3>2. createdAt[m] >= createdAt[k]
      <4>1. CASE reading'[r] = "end"
        BY <1>1, <1>5, <1>7, <3>1, <4>1 DEF LastPageAt
      <4>2. CASE reading'[r] # "end"
        BY <1>1, <4>2 DEF Above
      <4>. QED
        BY <4>1, <4>2
    <3>3. CASE Below(r, m)
      <4>1. m \in page[r] \/ createdAt[m] <= createdAt[k]
        BY <1>1, <1>5, <2>1, <3>1, <3>3 DEF PageAt
      <4>2. CASE m \in page[r]
        BY <1>1, <4>2
      <4>3. CASE createdAt[m] <= createdAt[k]
        <5>1. createdAt[m] = createdAt[k]
          BY <1>3, <2>1, <3>1, <3>2, <4>3
        <5>. QED
          BY <1>1, <2>1, <5>1
      <4>. QED
        BY <4>1, <4>2, <4>3
    <3>4. CASE ~Below(r, m)
      <4>1. cursor[r] \in Calls /\ cursor[r] # NoMessage
        BY <3>4 DEF Below, TypeOK
      <4>2. m \in Above(r)
        BY <1>3, <3>1, <3>4, <4>1 DEF Below, Above
      <4>. QED
        BY <1>1, <1>5, <4>2 DEF CompleteAt
    <3>. QED
      BY <3>3, <3>4
  <2>6. CompleteAt(r)'
    BY <1>1, <2>5 DEF CompleteAt
  <2>. QED
    BY <1>4, <2>4, <2>6 DEF ScrollAt
<1>. QED
  BY <1>2, <1>6, <1>7

LEMMA RefuseScrolls ==
  ASSUME TypeOK, NEW r \in Readers, ScrollAt(r), Refuse(r)
  PROVE  ScrollAt(r)'
<1>1. /\ reading'[r] = "forbidden" /\ page'[r] = {}
      /\ UNCHANGED <<rows, createdAt, cursor, shown, first>>
  BY DEF Refuse, Return, TypeOK, sending
<1>2. Above(r)' \subseteq Above(r)
  BY <1>1 DEF Above
<1>. QED
  BY <1>1, <1>2 DEF ScrollAt, Stored, CursorAt, PageAt, LastPageAt,
                    CompleteAt, Paged

LEMMA CrashScrolls ==
  ASSUME TypeOK, NEW r \in Readers, ScrollAt(r), Crash
  PROVE  ScrollAt(r)'
<1>1. /\ reading'[r] \in {reading[r], "asking"}
      /\ reading'[r] \notin Paged
      /\ page'[r] = {}
      /\ UNCHANGED <<rows, createdAt, cursor, shown, first>>
  BY DEF Crash, TypeOK, Paged
<1>2. Above(r)' \subseteq Above(r)
  BY <1>1 DEF Above
<1>. QED
  BY <1>1, <1>2 DEF ScrollAt, Stored, CursorAt, PageAt, LastPageAt,
                    CompleteAt, Paged

LEMMA ScrollStep == TypeOK /\ Origin /\ Scroll /\ [Next]_vars => Scroll'
<1>. SUFFICES ASSUME TypeOK, Origin, Scroll, [Next]_vars, NEW r \in Readers
              PROVE  ScrollAt(r)'
  BY DEF Scroll
<1>. USE DEF given, sending, kafka, saving, paging
<1>1. ScrollAt(r)
  BY DEF Scroll
<1>2. ASSUME rows \subseteq rows', UNCHANGED paging,
             \A m \in rows : createdAt'[m] = createdAt[m]
      PROVE  ScrollAt(r)'
  BY <1>1, <1>2, Undisturbed
<1>3. ASSUME NEW c \in Calls, Accept(c) PROVE ScrollAt(r)'
  <2>1. c \notin rows
    BY <1>3 DEF Accept, Origin
  <2>. QED
    BY <1>2, <1>3, <2>1 DEF Accept, TypeOK
<1>4. ASSUME NEW c \in Calls,
             \/ Forbid(c) \/ Create(c) \/ CreateFails(c) \/ Write(c)
             \/ Send(c) \/ Drop(c) \/ Written(c) \/ WriteFails(c)
             \/ \E p \in Partitions : Deliver(c, p)
      PROVE  ScrollAt(r)'
  BY <1>2, <1>4 DEF Forbid, Create, CreateFails, Write, Send, Drop, Written,
                    WriteFails, Deliver
<1>5. ASSUME NEW s \in Savers,
             \/ \E p \in Partitions : Collect(s, p)
             \/ Process(s) \/ SaverCrash(s)
      PROVE  ScrollAt(r)'
  BY <1>2, <1>5 DEF Collect, Process, SaverCrash
<1>6. ASSUME Crash PROVE ScrollAt(r)'
  BY <1>1, <1>6, CrashScrolls
<1>7. ASSUME NEW q \in Readers,
             \/ Query(q) \/ CountOlder(q) \/ CountFails(q)
             \/ Answer(q) \/ Refuse(q)
      PROVE  ScrollAt(r)'
  <2>1. CASE q = r
    BY <1>1, <1>7, <2>1, QueryScrolls, CountScrolls, MiscountScrolls,
       AnswerScrolls, RefuseScrolls
  <2>2. CASE q # r
    <3>1. /\ UNCHANGED <<rows, createdAt>>
          /\ UNCHANGED <<reading[r], page[r], hasMore[r], cursor[r],
                         shown[r], first[r]>>
      <4>1. CASE Query(q)
        BY <2>2, <4>1 DEF Query, TypeOK
      <4>2. CASE CountOlder(q)
        BY <2>2, <4>2 DEF CountOlder, TypeOK
      <4>3. CASE Answer(q)
        BY <2>2, <4>3 DEF Answer, Return, TypeOK
      <4>4. CASE Refuse(q)
        BY <2>2, <4>4 DEF Refuse, Return, TypeOK
      <4>5. CASE CountFails(q)
        BY <2>2, <4>5 DEF CountFails, TypeOK
      <4>. QED
        BY <1>7, <4>1, <4>2, <4>3, <4>4, <4>5
    <3>. QED
      BY <1>1, <3>1, Undisturbed
  <2>. QED
    BY <2>1, <2>2
<1>8. ASSUME UNCHANGED vars PROVE ScrollAt(r)'
  BY <1>2, <1>8 DEF vars
<1>. QED
  BY <1>3, <1>4, <1>5, <1>6, <1>7, <1>8 DEF Next

LEMMA ScrollAlways == Spec => [](TypeOK /\ Scroll)
<1>. QED
  BY ScrollInit, ScrollStep, OriginAlways, PTL DEF Spec

(* No page repeats a message that was shown before (chat_handler.go lines  *)
(* 126-134).                                                               *)
THEOREM NoneTwiceAlways == Spec => []NoneTwice
<1>1. TypeOK /\ Scroll => NoneTwice
  <2>. SUFFICES ASSUME TypeOK, Scroll, NEW r \in Readers,
                       reading[r] \in Paged,
                       NEW m \in page[r], m \in shown[r]
                PROVE  FALSE
    BY DEF NoneTwice
  <2>1. Below(r, m) /\ CursorAt(r)
    BY DEF Scroll, ScrollAt, PageAt
  <2>2. cursor[r] \in Calls /\ cursor[r] # NoMessage
    BY <2>1, MessagesAssumption DEF CursorAt, TypeOK
  <2>3. createdAt[m] < createdAt[cursor[r]]
    BY <2>1, <2>2 DEF Below
  <2>4. createdAt[m] >= createdAt[cursor[r]]
    BY <2>1, <2>2 DEF CursorAt
  <2>5. m \in Calls /\ createdAt[m] \in Int /\ createdAt[cursor[r]] \in Int
    BY <2>2 DEF TypeOK
  <2>. QED
    BY <2>3, <2>4, <2>5
<1>. QED
  BY <1>1, ScrollAlways, PTL

(* A client that scrolls misses nothing but twins of what it was shown     *)
(* (chat_handler.go lines 126-169).                                        *)
THEOREM ScrollCompleteAlways == Spec => []ScrollComplete
<1>1. Scroll => ScrollComplete
  BY DEF Scroll, ScrollAt, CompleteAt, ScrollComplete
<1>. QED
  BY <1>1, ScrollAlways, PTL
=============================================================================
