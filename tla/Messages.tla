------------------------------ MODULE Messages ------------------------------
(***************************************************************************)
(* The way of a chat message: SendMessage of                               *)
(* internal/transport/rest/message_handler.go stores it in Postgres and    *)
(* writes it to the topic messages-v1, the workers of the consumer collect *)
(* it from there and hand it to MessageSaveHandler.Process, and            *)
(* GetChatHistory of chat_handler.go pages through what is stored.         *)
(*                                                                         *)
(* A message bears the name of the call that made it: SendMessage takes a  *)
(* new uuid, so a client that sends a text again makes another message.    *)
(* The group's assignment of partitions, its rebalances and the ticker are *)
(* the business of KafkaWorker; here a worker reads, keeps its batch when  *)
(* a flush fails, and loses it when it dies.                               *)
(*                                                                         *)
(* kafkaWriter asks for no acknowledgement (cmd/app/producer/main.go lines *)
(* 51-54 leave RequiredAcks at RequireNone): WriteMessages returns when    *)
(* the message was written to the broker's connection, and nobody learns   *)
(* whether the broker appended it.                                         *)
(***************************************************************************)
EXTENDS Integers, Sequences, FiniteSets, Functions

CONSTANTS
  Calls,       \* calls of SendMessage, and the messages they make
  Readers,     \* clients that page through the history
  Partitions,  \* the partitions of messages-v1, 3 in the program
  Savers,      \* the workers of the group of MessageSaveHandler
  Limit,       \* messages on a page
  NoMessage,   \* the cursor of a first page
  MaxClock,    \* bound: readings of the clock that differ
  MaxFaults    \* bound: faults in a behaviour

ASSUME MessagesAssumption ==
  /\ Calls \cap Readers = {}
  /\ IsFiniteSet(Calls)
  /\ NoMessage \notin Calls
  /\ Limit \in Nat \ {0}
  /\ MaxClock \in Nat
  /\ MaxFaults \in Nat

VARIABLES
  members,   \* the calls and readers whose user is a member of the chat
  clock,     \* the last time that time.Now() returned
  step,      \* step[c]: how far SendMessage is, or its answer
  createdAt, \* createdAt[c]: the time the message was stamped with
  rows,      \* the table messages
  pending,   \* messages in the batches of kafkaWriter
  wire,      \* messages written to a connection and not yet at the broker
  dropped,   \* messages that a broker or a connection lost
  topic,     \* topic[p]: the messages appended to partition p
  position,  \* position[p]: messages of p the savers' group has read
  batch,     \* batch[s]: the slice the worker s collects
  reading,   \* reading[r]: where GetChatHistory is, or why r stopped
  page,      \* page[r]: the messages the query returned
  hasMore,   \* hasMore[r]: what the second query found
  cursor,    \* cursor[r]: before_id of the next request
  shown,     \* shown[r]: every message r was answered with
  first,     \* first[r]: what was stored when r read its first page
  faults     \* faults so far

given == <<members, clock>>
sending == <<step, createdAt, pending>>
kafka == <<wire, dropped, topic>>
saving == <<position, batch>>
paging == <<reading, page, hasMore, cursor, shown, first>>
vars == <<members, clock, step, createdAt, rows, pending, wire, dropped,
          topic, position, batch, reading, page, hasMore, cursor, shown, first, faults>>

InProgress == {"stamped", "created", "writing"}
Answered == {"ok", "forbidden", "error"}
Steps == {"new", "cut"} \cup InProgress \cup Answered
Paged == {"counting", "checking", "miscounted"}
Stopped == {"end", "misled", "forbidden"}
ReadingStates == {"asking"} \cup Paged \cup Stopped

Topic == UNION {Range(topic[p]) : p \in Partitions}

Fault ==
  /\ faults < MaxFaults
  /\ faults' = faults + 1

-----------------------------------------------------------------------------
(* SendMessage.                                                            *)

Goto(c, s) == step' = [step EXCEPT ![c] = s]

(* A member's message is stamped before it is inserted, so messages may    *)
(* become visible in another order than their times; two may be stamped    *)
(* with the same time.                                                     *)
Accept(c) ==
  /\ step[c] = "new"
  /\ c \in members
  /\ Goto(c, "stamped")
  /\ clock' \in {t \in {clock, clock + 1} : t <= MaxClock}
  /\ createdAt' = [createdAt EXCEPT ![c] = clock']
  /\ UNCHANGED <<members, rows, pending, kafka, saving, paging, faults>>

(* The error of the count is dropped: when that query fails a member is    *)
(* told 403.                                                               *)
Forbid(c) ==
  /\ step[c] = "new"
  /\ IF c \in members THEN Fault ELSE UNCHANGED faults
  /\ Goto(c, "forbidden")
  /\ UNCHANGED <<given, createdAt, rows, pending, kafka, saving, paging>>

\* Mutant of Create: the row is left to the saver.
CreateNothing(c) ==
  /\ step[c] = "stamped"
  /\ Goto(c, "created")
  /\ UNCHANGED <<given, createdAt, rows, pending, kafka, saving, paging,
                 faults>>

Create(c) ==
  /\ step[c] = "stamped"
  /\ rows' = rows \cup {c}
  /\ Goto(c, "created")
  /\ UNCHANGED <<given, createdAt, pending, kafka, saving, paging, faults>>

(* The insert fails, or it is committed and its answer is lost: 500 either *)
(* way, and nothing is written to Kafka.                                   *)
CreateFails(c) ==
  /\ step[c] = "stamped"
  /\ Fault
  /\ rows' \in {rows, rows \cup {c}}
  /\ Goto(c, "error")
  /\ UNCHANGED <<given, createdAt, pending, kafka, saving, paging>>

(* WriteMessages puts the message in a batch and waits for the batch to be *)
(* written.                                                                *)
Write(c) ==
  /\ step[c] = "created"
  /\ pending' = pending \cup {c}
  /\ Goto(c, "writing")
  /\ UNCHANGED <<given, createdAt, rows, kafka, saving, paging, faults>>

(* An attempt may end with an error when its bytes have left; the writer   *)
(* makes another one.                                                      *)
Send(c) ==
  /\ c \in pending
  /\ wire' = wire \cup {c}
  /\ \/ pending' = pending \ {c} /\ UNCHANGED faults
     \/ UNCHANGED pending /\ Fault
  /\ UNCHANGED <<given, step, createdAt, rows, dropped, topic, saving, paging>>

(* The balancer LeastBytes picks the partition and does not look at the    *)
(* key.                                                                    *)
Deliver(c, p) ==
  /\ c \in wire
  /\ wire' = wire \ {c}
  /\ topic' = [topic EXCEPT ![p] = Append(@, c)]
  /\ UNCHANGED <<given, sending, rows, dropped, saving, paging, faults>>

(* The connection breaks, or the broker cannot append; there is no answer  *)
(* that could say so.                                                      *)
Drop(c) ==
  /\ c \in wire
  /\ Fault
  /\ wire' = wire \ {c}
  /\ dropped' = dropped \cup {c}
  /\ UNCHANGED <<given, sending, rows, topic, saving, paging>>

\* Mutant of Written: the writer is asynchronous.
WrittenAtOnce(c) ==
  /\ step[c] = "writing"
  /\ Goto(c, "ok")
  /\ UNCHANGED <<given, createdAt, rows, pending, kafka, saving, paging,
                 faults>>

Written(c) ==
  /\ step[c] = "writing"
  /\ c \notin pending
  /\ Goto(c, "ok")
  /\ UNCHANGED <<given, createdAt, rows, pending, kafka, saving, paging,
                 faults>>

(* WriteMessages returns an error: its attempts are used up, or the client *)
(* closed the request and the batch it no longer waits for stays with the  *)
(* writer.                                                                 *)
WriteFails(c) ==
  /\ step[c] = "writing"
  /\ Fault
  /\ pending' \in {pending, pending \ {c}}
  /\ Goto(c, "error")
  /\ UNCHANGED <<given, createdAt, rows, kafka, saving, paging>>

(* The producer dies, and with it its calls, the writer's batches, and any *)
(* part of what its connections still hold.                                *)
Crash ==
  /\ Fault
  /\ step' = [c \in Calls |-> IF step[c] \in InProgress THEN "cut"
                                                        ELSE step[c]]
  /\ pending' = {}
  /\ reading' = [r \in Readers |->
                   IF reading[r] \in Paged THEN "asking" ELSE reading[r]]
  /\ page' = [r \in Readers |-> {}]
  /\ hasMore' = [r \in Readers |-> FALSE]
  /\ wire' \in SUBSET wire
  /\ dropped' = dropped \cup (wire \ wire')
  /\ UNCHANGED <<given, createdAt, rows, topic, saving, cursor,
                 shown, first>>

-----------------------------------------------------------------------------
(* The worker and MessageSaveHandler.Process.                              *)

\* Mutant of Collect: the offset of a message read twice is committed twice.
CollectTwice(s, p) ==
  /\ position[p] < Len(topic[p])
  /\ batch' = [batch EXCEPT ![s] = Append(@, topic[p][position[p] + 1])]
  /\ position' = [position EXCEPT ![p] = @ + 2]
  /\ UNCHANGED <<given, sending, rows, kafka, paging, faults>>

Collect(s, p) ==
  /\ position[p] < Len(topic[p])
  /\ batch' = [batch EXCEPT ![s] = Append(@, topic[p][position[p] + 1])]
  /\ position' = [position EXCEPT ![p] = @ + 1]
  /\ UNCHANGED <<given, sending, rows, kafka, paging, faults>>

(* CreateInBatches is one transaction without ON CONFLICT: a key that is   *)
(* stored, or that the batch holds twice, refuses all of it.               *)
Insertable(b) ==
  /\ Range(b) \cap rows = {}
  /\ IsInjective(b)

Process(s) ==
  /\ batch[s] # <<>>
  /\ rows' = IF Insertable(batch[s]) THEN rows \cup Range(batch[s]) ELSE rows
  /\ batch' = [batch EXCEPT ![s] = IF Insertable(@) THEN <<>> ELSE @]
  /\ UNCHANGED <<given, sending, kafka, position, paging, faults>>

SaverCrash(s) ==
  /\ batch[s] # <<>>
  /\ Fault
  /\ batch' = [batch EXCEPT ![s] = <<>>]
  /\ UNCHANGED <<given, sending, rows, kafka, position, paging>>

-----------------------------------------------------------------------------
(* GetChatHistory, called by a client that scrolls until has_more is       *)
(* false.  When the query of the anchor or of the page fails the client is *)
(* told so, and asks again.                                                *)

\* Mutant of Older: the anchor is part of the next page.
OlderOrEqual(m) ==
  {n \in rows : m # NoMessage => createdAt[n] <= createdAt[m]}

Older(m) ==
  {n \in rows : m # NoMessage => createdAt[n] < createdAt[m]}

(* ORDER BY created_at DESC LIMIT: which of two messages of the same time  *)
(* comes first, and so which is cut off, is left open.                     *)
IsPage(q, s) ==
  /\ Cardinality(q) = IF Cardinality(s) < Limit THEN Cardinality(s)
                                                ELSE Limit
  /\ \A m \in q, n \in s \ q : createdAt[n] <= createdAt[m]

Oldest(s) == {m \in s : \A n \in s : createdAt[m] <= createdAt[n]}

Query(r) ==
  /\ reading[r] = "asking"
  /\ \E q \in SUBSET Older(cursor[r]) :
       /\ IsPage(q, Older(cursor[r]))
       /\ page' = [page EXCEPT ![r] = q]
  /\ first' = IF cursor[r] = NoMessage THEN [first EXCEPT ![r] = rows]
                                       ELSE first
  /\ reading' = [reading EXCEPT ![r] = "counting"]
  /\ UNCHANGED <<given, sending, rows, kafka, saving, hasMore, cursor, shown,
                 faults>>

\* Mutant of CountOlder: more is promised only by a page over the limit.
CountOverLimit(r) ==
  /\ reading[r] = "counting"
  /\ hasMore' = [hasMore EXCEPT ![r] = Cardinality(page[r]) > Limit]
  /\ reading' = [reading EXCEPT ![r] = "checking"]
  /\ UNCHANGED <<given, sending, rows, kafka, saving, page, cursor, shown,
                 first, faults>>

(* has_more comes from a second query, which may see newer rows than the   *)
(* first one did.                                                          *)
CountOlder(r) ==
  /\ reading[r] = "counting"
  /\ hasMore' = [hasMore EXCEPT
                   ![r] = \E m \in Oldest(page[r]) : Older(m) # {}]
  /\ reading' = [reading EXCEPT ![r] = "checking"]
  /\ UNCHANGED <<given, sending, rows, kafka, saving, page, cursor, shown,
                 first, faults>>

(* The error of that query is dropped: has_more is false.                  *)
CountFails(r) ==
  /\ reading[r] = "counting"
  /\ Fault
  /\ reading' = [reading EXCEPT ![r] = "miscounted"]
  /\ UNCHANGED <<given, sending, rows, kafka, saving, page, hasMore, cursor,
                 shown, first>>

Return(r) ==
  /\ page' = [page EXCEPT ![r] = {}]
  /\ hasMore' = [hasMore EXCEPT ![r] = FALSE]

(* Membership is checked last, and only then is the page given out.        *)
Answer(r) ==
  /\ reading[r] \in {"checking", "miscounted"}
  /\ r \in members
  /\ shown' = [shown EXCEPT ![r] = @ \cup page[r]]
  /\ \/ page[r] = {} /\ UNCHANGED cursor
     \/ \E m \in Oldest(page[r]) : cursor' = [cursor EXCEPT ![r] = m]
  /\ reading' = [reading EXCEPT ![r] = IF hasMore[r] THEN "asking"
                                       ELSE IF @ = "checking" THEN "end"
                                       ELSE "misled"]
  /\ Return(r)
  /\ UNCHANGED <<given, sending, rows, kafka, saving, first, faults>>

(* So is the error of the count of memberships, as in SendMessage.         *)
Refuse(r) ==
  /\ reading[r] \in {"checking", "miscounted"}
  /\ IF r \in members THEN Fault ELSE UNCHANGED faults
  /\ reading' = [reading EXCEPT ![r] = "forbidden"]
  /\ Return(r)
  /\ UNCHANGED <<given, sending, rows, kafka, saving, cursor, shown, first>>

-----------------------------------------------------------------------------
Init ==
  /\ members \in SUBSET (Calls \cup Readers)
  /\ clock = 0
  /\ step = [c \in Calls |-> "new"]
  /\ createdAt = [c \in Calls |-> 0]
  /\ rows = {}
  /\ pending = {}
  /\ wire = {}
  /\ dropped = {}
  /\ topic = [p \in Partitions |-> <<>>]
  /\ position = [p \in Partitions |-> 0]
  /\ batch = [s \in Savers |-> <<>>]
  /\ reading = [r \in Readers |-> "asking"]
  /\ page = [r \in Readers |-> {}]
  /\ hasMore = [r \in Readers |-> FALSE]
  /\ cursor = [r \in Readers |-> NoMessage]
  /\ shown = [r \in Readers |-> {}]
  /\ first = [r \in Readers |-> {}]
  /\ faults = 0

Next ==
  \/ Crash
  \/ \E c \in Calls : \/ Accept(c)
                      \/ Forbid(c)
                      \/ Create(c)
                      \/ CreateFails(c)
                      \/ Write(c)
                      \/ Send(c)
                      \/ \E p \in Partitions : Deliver(c, p)
                      \/ Drop(c)
                      \/ Written(c)
                      \/ WriteFails(c)
  \/ \E s \in Savers : \/ \E p \in Partitions : Collect(s, p)
                       \/ Process(s)
                       \/ SaverCrash(s)
  \/ \E r \in Readers : \/ Query(r)
                        \/ CountOlder(r)
                        \/ CountFails(r)
                        \/ Answer(r)
                        \/ Refuse(r)

Spec == Init /\ [][Next]_vars

-----------------------------------------------------------------------------
(* The types of the variables: what goes to Kafka bears a time, and nobody *)
(* has read more of a partition than was appended to it (message_handler.go*)
(* lines 92-122, chat_handler.go lines 122-169).                           *)
TypeOK ==
  /\ members \subseteq Calls \cup Readers
  /\ clock \in 0..MaxClock
  /\ step \in [Calls -> Steps]
  /\ createdAt \in [Calls -> 0..clock]
  /\ rows \subseteq Calls
  /\ pending \subseteq Calls
  /\ wire \subseteq Calls
  /\ dropped \subseteq Calls
  /\ topic \in [Partitions -> Seq(Calls)]
  /\ position \in [Partitions -> Nat]
  /\ \A p \in Partitions : position[p] <= Len(topic[p])
  /\ batch \in [Savers -> Seq(Calls)]
  /\ reading \in [Readers -> ReadingStates]
  /\ page \in [Readers -> SUBSET Calls]
  /\ hasMore \in [Readers -> BOOLEAN]
  /\ cursor \in [Readers -> Calls \cup {NoMessage}]
  /\ shown \in [Readers -> SUBSET Calls]
  /\ first \in [Readers -> SUBSET Calls]
  /\ faults \in 0..MaxFaults

(* Whatever fails, the broker is never sent a message that is not stored,  *)
(* and a message answered 200 is stored and has left the producer: it is   *)
(* in the topic, on its way there, or was lost behind the writer's back    *)
(* (message_handler.go lines 102-122, main.go lines 51-54).  After a 500   *)
(* each of the two may have happened, and a client that retries may store  *)
(* its text twice.                                                         *)
SentIsSaved ==
  /\ wire \cup dropped \cup Topic \subseteq rows
  /\ \A c \in Calls :
       step[c] = "ok" => c \in rows /\ c \in wire \cup dropped \cup Topic

(* Only SendMessage ever adds a row.  Whatever the consumer collects was   *)
(* stored before it was written to Kafka, so CreateInBatches of            *)
(* message_service.go line 36 meets a stored key in every batch, and what  *)
(* a worker holds is given up by nothing but its death.                    *)
SentOrKept ==
  /\ rows' # rows =>
       \E c \in Calls : step[c] = "stamped" /\ rows' = rows \cup {c}
  /\ \A s \in Savers :
       Len(batch'[s]) < Len(batch[s]) => faults' = faults + 1

SaverStoresNothing == [][SentOrKept]_vars

(* A client that scrolls is never shown a message twice, although rows     *)
(* appear between its pages in any order of their times (chat_handler.go   *)
(* lines 126-134).                                                         *)
NoneTwice ==
  \A r \in Readers :
    reading[r] \in Paged => page[r] \cap shown[r] = {}

(* What was stored when the client read its first page is shown down to    *)
(* the cursor, and all of it when has_more is false and was not so by an   *)
(* error.  The one exception is a message whose twin, of the same time,    *)
(* ended a page: the cursor is a time, and the twin is skipped             *)
(* (chat_handler.go lines 126-169).                                        *)
Above(r) ==
  {m \in first[r] :
     \/ reading[r] = "end"
     \/ cursor[r] # NoMessage /\ createdAt[m] >= createdAt[cursor[r]]}

ScrollComplete ==
  \A r \in Readers : \A m \in Above(r) :
    \E n \in shown[r] : n = m \/ createdAt[n] = createdAt[m]
=============================================================================
