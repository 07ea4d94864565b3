-------------------------------- MODULE Hub --------------------------------
(***************************************************************************)
(* A pod of the producer with its WebSocket hub: HandleWS of               *)
(* internal/transport/rest/message_handler.go, one goroutine a connection, *)
(* StartChatWatcher of chat_handler.go, one goroutine a pod, and the life  *)
(* of the process from cmd/app/producer/main.go.                           *)
(*                                                                         *)
(* hub.Clients maps a user to a slice of connections, and the handlers     *)
(* change it under hub.Mu.  A slice is a header, an array and a length:    *)
(* append writes into the array while it has room and moves to one twice   *)
(* as long when it has none, and removing a connection shifts the rest of  *)
(* the array in place.  Either way the header that results is stored in    *)
(* the map afterwards, word by word.                                       *)
(*                                                                         *)
(* The watcher takes no lock.  It may read the map while a header is       *)
(* stored, and find the array of one header with the length of the other:  *)
(* if that length does not fit, the header is torn and the watcher reads   *)
(* past the end.  It ranges over what it found while the array changes     *)
(* under it.  The words that a handler writes are taken to become visible  *)
(* in the order of the program.  The RUnlock that ends the watcher's turn  *)
(* is fatal: nobody holds the lock for reading.                            *)
(*                                                                         *)
(* A pod reads the topic in a group of its own with a fresh name, which    *)
(* has no committed offset, so every life of the process starts at the     *)
(* first message.  Whom a message is for is what GetChatParticipants       *)
(* returns (module ChatParticipants).                                      *)
(***************************************************************************)
EXTENDS Integers, Sequences, FiniteSets

CONSTANTS
  Users,
  Sockets,     \* the connections a life of the process may see
  Owner,       \* Owner[s]: the user whose token opened s
  Partitions,  \* partitions of messages-v1
  Nobody,      \* holder of a free lock, content of an unused slot
  MaxLog,      \* bound: messages in a partition
  MayStop,     \* whether the pod is ever told to stop
  MayFail      \* whether a read of the topic ever fails

ASSUME HubAssumption ==
  /\ Owner \in [Sockets -> Users]
  /\ Nobody \notin Sockets
  /\ MaxLog \in Nat
  /\ MayStop \in BOOLEAN
  /\ MayFail \in BOOLEAN

VARIABLES
  up,        \* the process runs
  clients,   \* clients[u]: the header in hub.Clients[u]; NilSlice: no key
  header,    \* the header that the handler at work is about to store
  heap,      \* the arrays that slices refer to
  conn,      \* conn[s]: where the handler of s is
  holder,    \* the handler that holds hub.Mu
  topic,     \* topic[p]: whom each message of the partition is for
  position,  \* position[p]: messages of p read in this life
  watcher,   \* where StartChatWatcher is
  audience,  \* whom the message in its hands is for
  todo,      \* the participants it has not looked up yet
  view,      \* the header it ranges over
  index,     \* connections of that header it has written to
  torn,      \* it found a header in this life that does not fit its array
  sent,      \* sent[s]: times the message was written to s
  expected   \* connections it found in lists that did not shrink since

hub == <<clients, header, heap, conn, holder>>
watching == <<watcher, audience, todo, view, index, torn, sent, expected>>
log == <<topic, position>>
vars == <<up, clients, header, heap, conn, holder, topic, position, watcher,
          audience, todo, view, index, torn, sent, expected>>

NilSlice == [arr |-> 0, len |-> 0]
Array(l) == IF l.arr = 0 THEN <<>> ELSE heap[l.arr]
Listed(l) == {Array(l)[i] : i \in 1..l.len}
SocketsOf(u) == {s \in Sockets : Owner[s] = u}

Fits(l) ==
  /\ l.arr \in 0..Len(heap)
  /\ l.len \in 0..Len(Array(l))

ConnStates == {"new", "adding", "added", "serving", "closing", "removing",
               "removed", "closed"}

(* The handler in its critical section is at work on u's list.             *)
AtWork(u, states) ==
  holder # Nobody /\ Owner[holder] = u /\ conn[holder] \in states

Storing(u) == AtWork(u, {"added", "removed"})
Shrinking(u) == AtWork(u, {"removing", "removed"})

-----------------------------------------------------------------------------
(* The process.                                                            *)

Init ==
  /\ up = FALSE
  /\ clients = [u \in Users |-> NilSlice]
  /\ header = NilSlice
  /\ heap = <<>>
  /\ conn = [s \in Sockets |-> "new"]
  /\ holder = Nobody
  /\ topic = [p \in Partitions |-> <<>>]
  /\ position = [p \in Partitions |-> 0]
  /\ watcher = "reading"
  /\ audience = {}
  /\ todo = {}
  /\ view = NilSlice
  /\ index = 0
  /\ torn = FALSE
  /\ sent = [s \in Sockets |-> 0]
  /\ expected = {}

(* Everything the process holds goes with it: its sockets, its hub and,    *)
(* the name of its group being random, its place in the topic.             *)
Die ==
  /\ up' = FALSE
  /\ clients' = [u \in Users |-> NilSlice]
  /\ header' = NilSlice
  /\ heap' = <<>>
  /\ conn' = [s \in Sockets |-> "new"]
  /\ holder' = Nobody
  /\ position' = [p \in Partitions |-> 0]
  /\ watcher' = "reading"
  /\ audience' = {}
  /\ todo' = {}
  /\ view' = NilSlice
  /\ index' = 0
  /\ torn' = FALSE
  /\ sent' = [s \in Sockets |-> 0]
  /\ expected' = {}
  /\ UNCHANGED topic

(* Kubernetes starts the pod again whenever it ended.                      *)
Start ==
  /\ ~up
  /\ up' = TRUE
  /\ UNCHANGED <<hub, log, watching>>

(* SIGTERM: Shutdown knows nothing of the connections that were upgraded,  *)
(* main waits for neither them nor the watcher, and returns.               *)
Stop ==
  /\ up
  /\ MayStop
  /\ Die

Produce(p, us) ==
  /\ Len(topic[p]) < MaxLog
  /\ topic' = [topic EXCEPT ![p] = Append(@, us)]
  /\ UNCHANGED <<up, hub, position, watching>>

-----------------------------------------------------------------------------
(* HandleWS.                                                               *)

Lock(s, from, to) ==
  /\ up
  /\ conn[s] = from
  /\ holder = Nobody
  /\ holder' = s
  /\ conn' = [conn EXCEPT ![s] = to]
  /\ UNCHANGED <<up, clients, header, heap, log, watcher, audience, todo,
                 view, index, torn, sent>>

Connect(s) == Lock(s, "new", "adding") /\ UNCHANGED expected

Return(s) ==
  /\ Lock(s, "closing", "removing")
  /\ expected' = expected \ SocketsOf(Owner[s])

\* Mutant of Appended: a full array is copied at its length.
AppendedWithoutRoom(l, s) ==
  LET a == Array(l)
  IN  [i \in 1..(IF a = <<>> THEN 1 ELSE Len(a)) |->
         IF i = l.len + 1 THEN s ELSE a[i]]

(* The array after append(l, s): of the same length if l has room in it,   *)
(* else twice as long, as append grows lists of up to 256 connections.     *)
Appended(l, s) ==
  LET a   == Array(l)
      cap == IF l.len < Len(a) THEN Len(a)
             ELSE IF l.len = 0 THEN 1 ELSE 2 * l.len
  IN  [i \in 1..cap |-> IF i = l.len + 1 THEN s
                        ELSE IF i \in DOMAIN a THEN a[i]
                        ELSE Nobody]

(* append writes the array, and afterwards its result is stored.           *)
AppendTo(s) ==
  LET l == clients[Owner[s]]
  IN  /\ conn[s] = "adding"
      /\ IF l.len < Len(Array(l))
           THEN /\ heap' = [heap EXCEPT ![l.arr] = Appended(l, s)]
                /\ header' = [arr |-> l.arr, len |-> l.len + 1]
           ELSE /\ heap' = Append(heap, Appended(l, s))
                /\ header' = [arr |-> Len(heap) + 1, len |-> l.len + 1]
      /\ conn' = [conn EXCEPT ![s] = "added"]
      /\ UNCHANGED <<up, clients, holder, log, watching>>

Store(s, from, to) ==
  /\ conn[s] = from
  /\ clients' = [clients EXCEPT ![Owner[s]] = header]
  /\ header' = NilSlice
  /\ conn' = [conn EXCEPT ![s] = to]
  /\ UNCHANGED <<up, heap, log, watching>>

Register(s) == Store(s, "added", "serving") /\ holder' = Nobody

(* ReadMessage of the socket fails: the client left or the network did.    *)
Disconnect(s) ==
  /\ conn[s] = "serving"
  /\ conn' = [conn EXCEPT ![s] = "closing"]
  /\ UNCHANGED <<up, clients, header, heap, holder, log, watching>>

\* Mutant of Shifted: the removed connection stays, the next one goes.
ShiftedTooLate(l, s) ==
  LET a == Array(l)
      k == CHOOSE i \in 1..l.len : a[i] = s
  IN  [i \in DOMAIN a |-> IF i > k /\ i < l.len THEN a[i + 1] ELSE a[i]]

(* The array after the connections behind s moved up by one; its last slot *)
(* keeps what it holds.                                                    *)
Shifted(l, s) ==
  LET a == Array(l)
      k == CHOOSE i \in 1..l.len : a[i] = s
  IN  [i \in DOMAIN a |-> IF i >= k /\ i < l.len THEN a[i + 1] ELSE a[i]]

(* The deferred function.  A list that is empty before the removal loses   *)
(* its key; no other list does.                                            *)
Shift(s) ==
  LET l == clients[Owner[s]]
  IN  /\ conn[s] = "removing"
      /\ header' = IF l.len = 0 THEN NilSlice
                   ELSE [arr |-> l.arr, len |-> l.len - 1]
      /\ heap' = IF l.len = 0 THEN heap
                 ELSE [heap EXCEPT ![l.arr] = Shifted(l, s)]
      /\ conn' = [conn EXCEPT ![s] = "removed"]
      /\ UNCHANGED <<up, clients, holder, log, watching>>

\* Mutant of Unregister: the lock is not released.
UnregisterLocked(s) == Store(s, "removed", "closed") /\ UNCHANGED holder

Unregister(s) == Store(s, "removed", "closed") /\ holder' = Nobody

-----------------------------------------------------------------------------
(* StartChatWatcher.                                                       *)

(* GetChatParticipants returns nobody when its query fails.                *)
ReadMessage(p) ==
  /\ up
  /\ watcher = "reading"
  /\ position[p] < Len(topic[p])
  /\ position' = [position EXCEPT ![p] = @ + 1]
  /\ watcher' = "pushing"
  /\ audience' \in {topic[p][position'[p]], {}}
  /\ todo' = audience'
  /\ UNCHANGED <<up, hub, topic, view, index, torn, sent, expected>>

(* ReadMessage gives up after its attempts: the watcher returns, and the   *)
(* pod goes on without one.                                                *)
ReadError ==
  /\ up
  /\ MayFail
  /\ watcher = "reading"
  /\ watcher' = "ended"
  /\ UNCHANGED <<up, hub, log, audience, todo, view, index, torn, sent,
                 expected>>

(* What the unlocked read of the map may give.  While a handler is at work *)
(* the key may be missed; while it stores u's header, the array and the    *)
(* length may each be the old one or the new one.                          *)
Found(u) ==
  {clients[u]}
  \cup (IF holder = Nobody THEN {} ELSE {NilSlice})
  \cup (IF ~Storing(u) THEN {}
        ELSE [arr : {clients[u].arr, header.arr},
              len : {clients[u].len, header.len}])

\* Mutant of Lookup: the watcher ranges over all of the hub.
LookupAnyone(u) ==
  /\ watcher = "pushing"
  /\ index = view.len
  /\ view' \in Found(u)
  /\ index' = 0
  /\ torn' = (torn \/ ~Fits(view'))
  /\ UNCHANGED <<up, hub, log, watcher, audience, todo, sent, expected>>

Lookup(u) ==
  /\ watcher = "pushing"
  /\ index = view.len
  /\ u \in todo
  /\ todo' = todo \ {u}
  /\ view' \in Found(u)
  /\ index' = 0
  /\ torn' = (torn \/ ~Fits(view'))
  /\ expected' = IF view' = clients[u] /\ ~Shrinking(u)
                   THEN expected \cup Listed(clients[u])
                   ELSE expected
  /\ UNCHANGED <<up, hub, log, watcher, audience, sent>>

(* The runtime may notice that the map is read while a handler writes it,  *)
(* and ends the process.                                                   *)
MapRace(u) ==
  /\ watcher = "pushing"
  /\ index = view.len
  /\ u \in todo
  /\ holder # Nobody
  /\ Die

(* What slot i of the watcher's array may hold: while a handler writes the *)
(* array, also what the handler puts there.                                *)
InSlot(i) ==
  LET l == clients[Owner[holder]]
  IN  {heap[view.arr][i]} \cup
      (IF holder = Nobody \/ l.arr # view.arr THEN {}
       ELSE IF conn[holder] = "removing" THEN {Shifted(l, holder)[i]}
       ELSE IF conn[holder] = "adding" /\ l.len < Len(Array(l))
         THEN {Appended(l, holder)[i]}
       ELSE {})

\* Mutant of Push: a connection of the list is left out.
PushEveryOther ==
  /\ watcher = "pushing"
  /\ index < view.len
  /\ index < Len(Array(view))
  /\ \E s \in InSlot(index + 1) : sent' = [sent EXCEPT ![s] = @ + 1]
  /\ index' = IF index + 2 > view.len THEN view.len ELSE index + 2
  /\ UNCHANGED <<up, hub, log, watcher, audience, todo, view, torn, expected>>

Push ==
  /\ watcher = "pushing"
  /\ index < view.len
  /\ index < Len(Array(view))
  /\ \E s \in InSlot(index + 1) : sent' = [sent EXCEPT ![s] = @ + 1]
  /\ index' = index + 1
  /\ UNCHANGED <<up, hub, log, watcher, audience, todo, view, torn, expected>>

(* Past the end of an array is other memory, and it may hold a connection  *)
(* of anybody; without an array there is none to read.                     *)
Overrun ==
  /\ watcher = "pushing"
  /\ index < view.len
  /\ index >= Len(Array(view))
  /\ \/ Die
     \/ /\ view.arr # 0
        /\ \E s \in Sockets : sent' = [sent EXCEPT ![s] = @ + 1]
        /\ index' = index + 1
        /\ UNCHANGED <<up, hub, log, watcher, audience, todo, view, torn,
                       expected>>

\* Mutant of RUnlock: the watcher had taken the lock.
RUnlockHeld ==
  /\ watcher = "pushing"
  /\ index = view.len
  /\ todo = {}
  /\ watcher' = "reading"
  /\ view' = NilSlice
  /\ index' = 0
  /\ torn' = FALSE
  /\ sent' = [s \in Sockets |-> 0]
  /\ expected' = {}
  /\ UNCHANGED <<up, hub, log, audience, todo>>

(* Nobody ever holds hub.Mu for reading: the runtime ends the process.     *)
RUnlock ==
  /\ watcher = "pushing"
  /\ index = view.len
  /\ todo = {}
  /\ Die

-----------------------------------------------------------------------------
Handler(s) ==
  Return(s) \/ AppendTo(s) \/ Register(s) \/ Shift(s) \/ Unregister(s)

Watch ==
  \/ \E p \in Partitions : ReadMessage(p)
  \/ \E u \in Users : Lookup(u) \/ MapRace(u)
  \/ Push
  \/ Overrun
  \/ RUnlock

Next ==
  \/ Start
  \/ Stop
  \/ \E p \in Partitions, us \in SUBSET Users : Produce(p, us)
  \/ \E s \in Sockets : Connect(s) \/ Disconnect(s) \/ Handler(s)
  \/ ReadError
  \/ Watch

(* A pod that ended is started again.  The goroutines run; a handler waits *)
(* only for hub.Mu, which grants it in turn, and whoever holds it lets go. *)
(* WriteJSON has no deadline: that a client takes what is written to it is *)
(* assumed.                                                                *)
Fairness ==
  /\ WF_vars(Start)
  /\ WF_vars(Watch)
  /\ \A s \in Sockets : WF_vars(Handler(s))

Spec == Init /\ [][Next]_vars

FairSpec == Spec /\ Fairness

-----------------------------------------------------------------------------
(* The header of u's list when the change under way is done.               *)
Current(u) == IF Storing(u) THEN header ELSE clients[u]

(* The types of the variables: every header fits its array, the watcher's  *)
(* too unless it was torn, and no two users share an array                 *)
(* (message_handler.go lines 142-165).                                     *)
TypeOK ==
  /\ up \in BOOLEAN
  /\ clients \in [Users -> [arr : Nat, len : Nat]]
  /\ header \in [arr : Nat, len : Nat]
  /\ heap \in Seq(Seq(Sockets \cup {Nobody}))
  /\ \A u \in Users : Fits(clients[u]) /\ Fits(Current(u))
  /\ \A u, v \in Users :
       Current(u).arr = Current(v).arr => u = v \/ Current(u).arr = 0
  /\ conn \in [Sockets -> ConnStates]
  /\ holder \in Sockets \cup {Nobody}
  /\ topic \in [Partitions -> Seq(SUBSET Users)]
  /\ \A p \in Partitions : Len(topic[p]) <= MaxLog
  /\ position \in [Partitions -> 0..MaxLog]
  /\ watcher \in {"reading", "pushing", "ended"}
  /\ audience \subseteq Users
  /\ todo \subseteq audience
  /\ view \in [arr : Nat, len : Nat]
  /\ torn \in BOOLEAN
  /\ torn \/ Fits(view)
  /\ index \in 0..view.len
  /\ sent \in [Sockets -> Nat]
  /\ expected \subseteq Sockets

(* Under the lock the list of a user holds exactly the connections that    *)
(* were appended and not yet removed, each once, however they came and     *)
(* went: an append in place and a shift in place lose and repeat nobody    *)
(* (message_handler.go lines 143-165).                                     *)
Registered(s) == conn[s] \in {"added", "serving", "closing", "removing"}

Registry ==
  \A u \in Users :
    LET l == Current(u)
    IN  /\ Listed(l) = {s \in SocketsOf(u) : Registered(s)}
        /\ \A i, j \in 1..l.len : Array(l)[i] = Array(l)[j] => i = j

(* As long as no header was torn, whatever the watcher reads from arrays   *)
(* and headers that change under it, it writes a message to nobody but the *)
(* participants of its chat.  A torn header may send it to anybody's       *)
(* connection (chat_handler.go lines 87-94, message_handler.go lines       *)
(* 143-159).                                                               *)
RightOwner ==
  ~torn => \A s \in Sockets : sent[s] > 0 => Owner[s] \in audience \ todo

(* When the range over a list ends, each of the connections in it was      *)
(* written to exactly once, though others are appended, the array moves or *)
(* the new header is half stored - unless a connection of the list was     *)
(* removed meanwhile, for then the shift may hide one from the watcher and *)
(* show it another twice, or a header was torn (chat_handler.go lines      *)
(* 89-93, message_handler.go lines 144, 159).                              *)
PushedOnce ==
  ~torn /\ index = view.len => \A s \in expected : sent[s] = 1

(* A connection that ended leaves the hub, with its handler or with the    *)
(* process (message_handler.go lines 149-172).                             *)
Unregistered ==
  \A s \in Sockets :
    conn[s] = "closing" ~> s \notin Listed(clients[Owner[s]])

(* Once a message is in the topic no life of the process lasts: each finds *)
(* it again from the start, and dies of the RUnlock after it, unless an    *)
(* error has ended its watcher, and with it all pushing (chat_handler.go   *)
(* lines 58-70, 95).                                                       *)
CrashLoop ==
  (\E p \in Partitions : topic[p] # <<>>) ~> ~up \/ watcher = "ended"
=============================================================================
