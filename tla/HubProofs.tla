----------------------------- MODULE HubProofs -----------------------------
(* What holds of Hub for every number of users, connections and partitions *)
(* and every length of the topic.                                          *)
EXTENDS Hub, TLAPS

-----------------------------------------------------------------------------
(* The inductive invariant.                                                *)

(* The lists when the change under way is done.                            *)
cur == [u \in Users |-> Current(u)]

ListTypes ==
  /\ clients \in [Users -> [arr : Nat, len : Nat]]
  /\ header \in [arr : Nat, len : Nat]
  /\ cur \in [Users -> [arr : Nat, len : Nat]]
  /\ heap \in Seq(Seq(Sockets \cup {Nobody}))
  /\ \A u \in Users : Fits(clients[u]) /\ Fits(cur[u])
  /\ \A u, v \in Users : cur[u].arr = cur[v].arr => u = v \/ cur[u].arr = 0

RestTypes ==
  /\ up \in BOOLEAN
  /\ conn \in [Sockets -> ConnStates]
  /\ holder \in Sockets \cup {Nobody}
  /\ topic \in [Partitions -> Seq(SUBSET Users)]
  /\ \A p \in Partitions : Len(topic[p]) <= MaxLog
  /\ position \in [Partitions -> 0..MaxLog]
  /\ watcher \in {"reading", "pushing", "ended"}
  /\ audience \subseteq Users
  /\ todo \subseteq audience
  /\ view \in [arr : Nat, len : Nat]
  /\ torn \in BOOLEAN
  /\ torn \/ Fits(view)
  /\ index \in 0..view.len
  /\ sent \in [Sockets -> Nat]
  /\ expected \subseteq Sockets

Typed == ListTypes /\ RestTypes

(* hub.Mu excludes.                                                        *)
Exclusive ==
  \A s \in Sockets :
    conn[s] \in {"adding", "added", "removing", "removed"} <=> holder = s

(* The array of a user's list never held the connection of another user.   *)
OwnArrays ==
  \A u \in Users : cur[u].arr # 0 =>
    \A i \in 1..Len(heap[cur[u].arr]) :
      heap[cur[u].arr][i] \in SocketsOf(u) \cup {Nobody}

Roll ==
  \A u \in Users :
    LET l == cur[u]
    IN  /\ Listed(l) = {s \in SocketsOf(u) : Registered(s)}
        /\ \A i, j \in 1..l.len : Array(l)[i] = Array(l)[j] => i = j

(* The stored header and the one to be stored: the old list still lies in  *)
(* its array, and is the beginning of the longer list; a longer list that  *)
(* moved had no room.                                                      *)
Between(s, l, m) ==
  /\ \A i \in 1..l.len : Array(l)[i] \in SocketsOf(Owner[s])
  /\ conn[s] = "removed" => m.arr = l.arr
  /\ conn[s] = "added" =>
       /\ m.len = l.len + 1
       /\ Array(m)[m.len] = s
       /\ \A i \in 1..l.len : Array(m)[i] = Array(l)[i]
       /\ m.arr = l.arr \/ Len(Array(l)) = l.len

Halfway ==
  \A s \in Sockets :
    conn[s] \in {"added", "removed"} => Between(s, clients[Owner[s]], header)

Slot(i) == Array(view)[i]

(* The part of an array that the watcher ranges over holds connections of  *)
(* participants it has looked up, through every append and every shift.    *)
RightView ==
  ~torn =>
    \A i \in 1..view.len :
      Slot(i) \in Sockets /\ Owner[Slot(i)] \in audience \ todo

(* Between two messages the watcher has nothing in its hands.              *)
Resting ==
  watcher = "reading" =>
    /\ view = NilSlice
    /\ index = 0
    /\ sent = [s \in Sockets |-> 0]
    /\ expected = {}

InView(s) == \E k \in 1..view.len : Slot(k) = s

(* A connection that is expected is written to when the range passes the   *)
(* one slot it is in; if it is in none, it has been.  Its list does not    *)
(* shrink: it stays in the slots that the watcher's header covers, or the  *)
(* list has moved to another array and the watcher's is left alone.        *)
Awaited(s) ==
  /\ conn[s] \in {"serving", "closing"}
  /\ ~Shrinking(Owner[s])
  /\ \A k \in 1..view.len :
       Slot(k) = s => sent[s] = IF k <= index THEN 1 ELSE 0
  /\ ~InView(s) => sent[s] = 1
  /\ InView(s) =>
       /\ \A i, j \in 1..view.len : Slot(i) = Slot(j) => i = j
       /\ cur[Owner[s]].arr = view.arr => cur[Owner[s]].len >= view.len

Expecting == ~torn => \A s \in expected : Awaited(s)

Lists == Typed /\ Exclusive /\ OwnArrays /\ Roll /\ Halfway
Pushes == RightView /\ RightOwner /\ Resting
IInv == Lists /\ Pushes /\ Expecting

LEMMA InvariantsFollow == IInv => TypeOK /\ Registry
<1>. SUFFICES ASSUME IInv PROVE TypeOK /\ Registry
  OBVIOUS
<1>1. \A u \in Users : cur[u] = Current(u)
  BY DEF cur
<1>2. ListTypes /\ RestTypes /\ Roll
  BY DEF IInv, Lists, Typed
<1>3. TypeOK
  BY <1>1, <1>2 DEF TypeOK, ListTypes, RestTypes
<1>4. Registry
  BY <1>1, <1>2 DEF Registry, Roll
<1>. QED
  BY <1>3, <1>4

-----------------------------------------------------------------------------
(* The arrays.                                                             *)

LEMMA ArrayFacts ==
  ASSUME Typed, NEW l,
         \/ l = view /\ ~torn
         \/ \E u \in Users : l = cur[u] \/ l = clients[u]
  PROVE  /\ l \in [arr : Nat, len : Nat]
         /\ l.arr \in 0..Len(heap)
         /\ Array(l) \in Seq(Sockets \cup {Nobody})
         /\ l.len \in Nat /\ l.len <= Len(Array(l))
         /\ Len(Array(l)) \in Nat
         /\ l.arr # 0 => Array(l) = heap[l.arr] /\ l.arr \in 1..Len(heap)
         /\ l.arr = 0 => Array(l) = <<>> /\ l.len = 0
<1>1. l \in [arr : Nat, len : Nat] /\ Fits(l)
  <2>1. /\ clients \in [Users -> [arr : Nat, len : Nat]]
        /\ cur \in [Users -> [arr : Nat, len : Nat]]
        /\ \A u \in Users : Fits(clients[u]) /\ Fits(cur[u])
        /\ view \in [arr : Nat, len : Nat] /\ (torn \/ Fits(view))
    BY DEF Typed, ListTypes, RestTypes
  <2>2. CASE l = view /\ ~torn
    BY <2>1, <2>2
  <2>3. CASE \E u \in Users : l = cur[u] \/ l = clients[u]
    <3>1. PICK u \in Users : l = cur[u] \/ l = clients[u]
      BY <2>3
    <3>. QED
      BY <2>1, <3>1
  <2>. QED
    BY <2>2, <2>3
<1>2. /\ heap \in Seq(Seq(Sockets \cup {Nobody}))
      /\ Len(heap) \in Nat
  BY DEF Typed, ListTypes
<1>3. l.arr \in 0..Len(heap) /\ l.len \in 0..Len(Array(l))
  BY <1>1 DEF Fits
<1>4. l.arr # 0 => Array(l) = heap[l.arr] /\ l.arr \in 1..Len(heap)
  BY <1>2, <1>3 DEF Array
<1>5. l.arr = 0 => Array(l) = <<>>
  BY DEF Array
<1>6. Array(l) \in Seq(Sockets \cup {Nobody})
  <2>1. CASE l.arr = 0
    BY <1>5, <2>1
  <2>2. CASE l.arr # 0
    BY <1>2, <1>4, <2>2
  <2>. QED
    BY <2>1, <2>2
<1>7. Len(Array(l)) \in Nat
  BY <1>6
<1>8. l.arr = 0 => l.len = 0
  BY <1>3, <1>5
<1>. QED
  BY <1>1, <1>3, <1>4, <1>5, <1>6, <1>7, <1>8

LEMMA AppendedFacts ==
  ASSUME Typed, NEW u \in Users, NEW s \in Sockets,
         NEW l, l = cur[u], NEW a, a = Array(l),
         NEW b, b = Appended(l, s)
  PROVE  /\ b \in Seq(Sockets \cup {Nobody})
         /\ Len(b) \in Nat
         /\ Len(b) >= l.len + 1
         /\ l.len < Len(a) => Len(b) = Len(a)
         /\ b[l.len + 1] = s
         /\ \A i \in 1..Len(b) :
              i # l.len + 1 => b[i] = IF i \in 1..Len(a) THEN a[i]
                                      ELSE Nobody
<1>1. /\ a \in Seq(Sockets \cup {Nobody})
      /\ l.len \in Nat /\ l.len <= Len(a) /\ Len(a) \in Nat
  BY ArrayFacts
<1>. DEFINE cap == IF l.len < Len(a) THEN Len(a)
                   ELSE IF l.len = 0 THEN 1 ELSE 2 * l.len
            f(i) == IF i = l.len + 1 THEN s
                    ELSE IF i \in DOMAIN a THEN a[i] ELSE Nobody
<1>2. b = [i \in 1..cap |-> f(i)]
  BY DEF Appended
<1>3. /\ cap \in Nat
      /\ cap >= l.len + 1
      /\ l.len < Len(a) => cap = Len(a)
  BY <1>1
<1>4. \A i \in 1..cap : f(i) \in Sockets \cup {Nobody}
  BY <1>1
<1>. HIDE DEF cap, f
<1>5. b \in Seq(Sockets \cup {Nobody}) /\ Len(b) = cap
  BY <1>2, <1>3, <1>4
<1>6. \A i \in 1..cap : b[i] = f(i)
  BY <1>2
<1>7. DOMAIN a = 1..Len(a)
  BY <1>1
<1>8. l.len + 1 \in 1..cap
  BY <1>1, <1>3
<1>. QED
  BY <1>3, <1>5, <1>6, <1>7, <1>8 DEF f

(* What is behind slot k of a list of n moved up by one.                   *)
Moved(a, b, n, k) ==
  \A i \in 1..Len(a) : b[i] = IF i >= k /\ i < n THEN a[i + 1] ELSE a[i]

(* The first slots of b hold the rest of the list l without s, each once.  *)
Without(l, s, b) ==
  /\ \A i \in 1..(l.len - 1) : b[i] \in Listed(l) \ {s}
  /\ \A x \in Listed(l) \ {s} : \E i \in 1..(l.len - 1) : b[i] = x
  /\ \A i, j \in 1..(l.len - 1) : b[i] = b[j] => i = j

(* s is somewhere in the list: what is left of it, and of the array.       *)
LEMMA ShiftedFacts ==
  ASSUME Typed, Roll, NEW u \in Users, NEW l, l = cur[u],
         NEW a, a = Array(l), NEW s, s \in Listed(l), NEW b, b = Shifted(l, s)
  PROVE  /\ b \in Seq(Sockets \cup {Nobody})
         /\ Len(b) = Len(a)
         /\ l.len >= 1
         /\ \E k \in 1..l.len : a[k] = s /\ Moved(a, b, l.len, k)
         /\ Without(l, s, b)
<1>1. /\ a \in Seq(Sockets \cup {Nobody})
      /\ l.len \in Nat /\ l.len <= Len(a) /\ Len(a) \in Nat
  BY ArrayFacts
<1>15. \A i, j \in 1..l.len : a[i] = a[j] => i = j
  BY DEF Roll
<1>. DEFINE k == CHOOSE i \in 1..l.len : a[i] = s
<1>2. \E i \in 1..l.len : a[i] = s
  BY DEF Listed
<1>3. k \in 1..l.len /\ a[k] = s
  BY <1>2
<1>. DEFINE f(i) == IF i >= k /\ i < l.len THEN a[i + 1] ELSE a[i]
<1>4. b = [i \in DOMAIN a |-> f(i)]
  BY DEF Shifted
<1>5. DOMAIN a = 1..Len(a)
  BY <1>1
<1>. HIDE DEF k
<1>6. \A i \in 1..Len(a) : f(i) \in Sockets \cup {Nobody}
  BY <1>1, <1>3
<1>7. b \in Seq(Sockets \cup {Nobody}) /\ Len(b) = Len(a)
  BY <1>1, <1>4, <1>5, <1>6
<1>8. \A i \in 1..Len(a) : b[i] = f(i)
  BY <1>4, <1>5
<1>9. \A i \in 1..(l.len - 1) :
        b[i] = IF i >= k THEN a[i + 1] ELSE a[i]
  BY <1>1, <1>8
<1>10. \A i \in 1..(l.len - 1) : b[i] \in Listed(l) \ {s}
  <2>. TAKE i \in 1..(l.len - 1)
  <2>1. PICK j \in 1..l.len : b[i] = a[j] /\ j # k
    <3>1. CASE i >= k
      <4>1. i + 1 \in 1..l.len /\ i + 1 # k
        BY <1>1, <1>3, <3>1
      <4>. QED
        BY <1>9, <3>1, <4>1
    <3>2. CASE ~(i >= k)
      <4>1. i \in 1..l.len /\ i # k
        BY <1>1, <1>3, <3>2
      <4>. QED
        BY <1>9, <3>2, <4>1
    <3>. QED
      BY <3>1, <3>2
  <2>2. a[j] # s
    BY <1>3, <1>15, <2>1
  <2>. QED
    BY <2>1, <2>2 DEF Listed
<1>11. \A x \in Listed(l) \ {s} : \E i \in 1..(l.len - 1) : b[i] = x
  <2>. TAKE x \in Listed(l) \ {s}
  <2>1. PICK j \in 1..l.len : a[j] = x
    BY DEF Listed
  <2>2. CASE j < k
    <3>1. j \in 1..(l.len - 1) /\ b[j] = x
      BY <1>1, <1>3, <1>9, <2>1, <2>2
    <3>. QED
      BY <3>1
  <2>3. CASE j > k
    <3>1. j - 1 \in 1..(l.len - 1) /\ b[j - 1] = x
      BY <1>1, <1>3, <1>9, <2>1, <2>3
    <3>. QED
      BY <3>1
  <2>. QED
    BY <1>1, <1>3, <2>1, <2>2, <2>3
<1>12. \A i, j \in 1..(l.len - 1) : b[i] = b[j] => i = j
  <2>. SUFFICES ASSUME NEW i \in 1..(l.len - 1), NEW j \in 1..(l.len - 1),
                       b[i] = b[j]
                PROVE  i = j
    OBVIOUS
  <2>. DEFINE m(n) == IF n >= k THEN n + 1 ELSE n
  <2>1. /\ m(i) \in 1..l.len /\ m(j) \in 1..l.len
        /\ m(i) = m(j) => i = j
    BY <1>1, <1>3
  <2>. HIDE DEF m
  <2>2. b[i] = a[m(i)] /\ b[j] = a[m(j)]
    BY <1>9 DEF m
  <2>. QED
    BY <1>15, <2>1, <2>2
<1>13. l.len >= 1
  BY <1>1, <1>3
<1>16. Moved(a, b, l.len, k)
  BY <1>8 DEF Moved
<1>17. Without(l, s, b)
  BY <1>10, <1>11, <1>12 DEF Without
<1>. QED
  BY <1>3, <1>7, <1>13, <1>16, <1>17

-----------------------------------------------------------------------------
(* The two steps of a handler under the lock: it writes an array, and it   *)
(* stores the header.                                                      *)

LEMMA SameCur ==
  ASSUME clients' = clients, header' = header,
         \A u \in Users : Storing(u)' <=> Storing(u)
  PROVE  cur' = cur
BY DEF cur, Current

LEMMA WritesArray ==
  ASSUME Lists, NEW s \in Sockets, NEW to \in {"added", "removed"},
         conn[s] \in {"adding", "removing"},
         conn' = [conn EXCEPT ![s] = to],
         holder' = holder, clients' = clients,
         NEW u, u = Owner[s]
  PROVE  /\ holder = s
         /\ u \in Users
         /\ cur = clients
         /\ cur' = [cur EXCEPT ![u] = header']
<1>1. u \in Users
  BY HubAssumption
<1>2. holder = s /\ s # Nobody
  BY HubAssumption DEF Lists, Exclusive
<1>3. conn \in [Sockets -> ConnStates]
      /\ clients \in [Users -> [arr : Nat, len : Nat]]
  BY DEF Lists, Typed, ListTypes, RestTypes
<1>4. \A v \in Users : ~Storing(v)
  BY <1>2 DEF Storing, AtWork
<1>5. conn'[s] = to
  BY <1>3
<1>6. \A v \in Users : Storing(v)' <=> v = u
  BY <1>2, <1>5 DEF Storing, AtWork
<1>7. cur = clients
  BY <1>3, <1>4 DEF cur, Current
<1>8. \A v \in Users : Current(v)' = IF v = u THEN header' ELSE clients[v]
  BY <1>6 DEF Current
<1>9. cur' = [v \in Users |-> IF v = u THEN header' ELSE clients[v]]
  BY <1>8 DEF cur
<1>. QED
  BY <1>1, <1>2, <1>3, <1>7, <1>9

LEMMA StoresHeader ==
  ASSUME Lists, NEW s \in Sockets, NEW from \in {"added", "removed"},
         NEW to, Store(s, from, to), holder' = Nobody
  PROVE  /\ holder = s
         /\ cur[Owner[s]] = header
         /\ cur' = cur
<1>1. PICK u \in Users : u = Owner[s]
  BY HubAssumption
<1>2. /\ conn[s] = from
      /\ clients' = [clients EXCEPT ![u] = header]
  BY <1>1 DEF Store
<1>3. holder = s /\ s # Nobody
  BY <1>2, HubAssumption DEF Lists, Exclusive
<1>4. clients \in [Users -> [arr : Nat, len : Nat]]
  BY DEF Lists, Typed, ListTypes
<1>5. \A v \in Users : Storing(v) <=> v = u
  BY <1>1, <1>2, <1>3 DEF Storing, AtWork
<1>6. \A v \in Users : ~Storing(v)'
  BY DEF Storing, AtWork
<1>7. \A v \in Users : Current(v)' = Current(v)
  BY <1>2, <1>4, <1>5, <1>6 DEF Current
<1>8. cur[u] = header
  BY <1>5 DEF cur, Current
<1>9. cur' = cur
  BY <1>7 DEF cur
<1>. QED
  BY <1>1, <1>3, <1>8, <1>9

(* What a step that writes an array does: u's list becomes m, in its array *)
(* or in a new one, which is b then; what the map holds stays.             *)
Change(u, m, b) ==
  /\ cur = clients
  /\ clients' = clients
  /\ header' = m
  /\ cur' = [cur EXCEPT ![u] = m]
  /\ m \in [arr : Nat, len : Nat]
  /\ heap' \in Seq(Seq(Sockets \cup {Nobody}))
  /\ Len(heap') >= Len(heap)
  /\ m.arr \in 1..Len(heap')
  /\ heap'[m.arr] = b
  /\ m.len <= Len(b)
  /\ \A i \in 1..Len(heap) : i # m.arr => heap'[i] = heap[i]
  /\ \A i \in 1..Len(b) : b[i] \in SocketsOf(u) \cup {Nobody}
  /\ \/ m.arr = cur[u].arr /\ Len(b) = Len(heap[m.arr])
     \/ m.arr > Len(heap)

LEMMA AppendChange ==
  ASSUME Lists, NEW s \in Sockets, AppendTo(s), NEW u, u = Owner[s],
         NEW l, l = cur[u], NEW b, b = Appended(l, s)
  PROVE  \E m : /\ Change(u, m, b)
                /\ m.len = l.len + 1
                /\ \/ m.arr = l.arr /\ l.len < Len(Array(l))
                   \/ m.arr > Len(heap) /\ Len(Array(l)) = l.len
<1>1. /\ u \in Users
      /\ cur = clients
      /\ cur' = [cur EXCEPT ![u] = header']
      /\ clients' = clients
  <2>1. /\ conn[s] = "adding"
        /\ conn' = [conn EXCEPT ![s] = "added"]
        /\ holder' = holder /\ clients' = clients
    BY DEF AppendTo
  <2>. QED
    BY <2>1, WritesArray
<1>10. l = clients[u]
  BY <1>1
<1>2. PICK a : a = Array(l)
  OBVIOUS
<1>3. /\ l \in [arr : Nat, len : Nat]
      /\ l.arr \in 0..Len(heap)
      /\ a \in Seq(Sockets \cup {Nobody})
      /\ l.len \in Nat /\ l.len <= Len(a)
      /\ Len(a) \in Nat
      /\ l.arr # 0 => a = heap[l.arr] /\ l.arr \in 1..Len(heap)
      /\ l.arr = 0 => a = <<>> /\ l.len = 0
  BY <1>1, <1>2, ArrayFacts DEF Lists
<1>4. /\ b \in Seq(Sockets \cup {Nobody})
      /\ Len(b) \in Nat
      /\ Len(b) >= l.len + 1
      /\ l.len < Len(a) => Len(b) = Len(a)
      /\ b[l.len + 1] = s
      /\ \A i \in 1..Len(b) :
           i # l.len + 1 => b[i] = IF i \in 1..Len(a) THEN a[i]
                                   ELSE Nobody
  BY <1>1, <1>2, AppendedFacts DEF Lists
<1>5. \A i \in 1..Len(a) : a[i] \in SocketsOf(u) \cup {Nobody}
  <2>1. CASE l.arr = 0
    BY <1>3, <2>1
  <2>2. CASE l.arr # 0
    BY <1>1, <1>3, <2>2 DEF Lists, OwnArrays
  <2>. QED
    BY <2>1, <2>2
<1>6. \A i \in 1..Len(b) : b[i] \in SocketsOf(u) \cup {Nobody}
  <2>1. s \in SocketsOf(u)
    BY DEF SocketsOf
  <2>. QED
    BY <1>4, <1>5, <2>1
<1>7. /\ heap \in Seq(Seq(Sockets \cup {Nobody}))
      /\ Len(heap) \in Nat
  BY DEF Lists, Typed, ListTypes
<1>11. IF l.len < Len(a)
         THEN /\ heap' = [heap EXCEPT ![l.arr] = b]
              /\ header' = [arr |-> l.arr, len |-> l.len + 1]
         ELSE /\ heap' = Append(heap, b)
              /\ header' = [arr |-> Len(heap) + 1, len |-> l.len + 1]
  BY <1>2, <1>10 DEF AppendTo
<1>8. CASE l.len < Len(a)
  <2>. DEFINE m == [arr |-> l.arr, len |-> l.len + 1]
  <2>1. l.arr \in 1..Len(heap)
    BY <1>3, <1>8
  <2>2. heap' = [heap EXCEPT ![l.arr] = b] /\ header' = m
    BY <1>8, <1>11
  <2>4. /\ heap' \in Seq(Seq(Sockets \cup {Nobody}))
        /\ Len(heap') = Len(heap)
        /\ heap'[l.arr] = b
        /\ \A i \in 1..Len(heap) : i # l.arr => heap'[i] = heap[i]
    BY <1>4, <1>7, <2>1, <2>2
  <2>5. m \in [arr : Nat, len : Nat] /\ m.arr = l.arr /\ m.len = l.len + 1
    BY <1>3
  <2>6. Len(b) = Len(heap[l.arr])
    BY <1>3, <1>4, <1>8, <2>1
  <2>. HIDE DEF m
  <2>7. Change(u, m, b)
    BY <1>1, <1>4, <1>6, <1>7, <2>1, <2>2, <2>4, <2>5, <2>6 DEF Change
  <2>. QED
    BY <1>2, <1>8, <2>5, <2>7
<1>9. CASE ~(l.len < Len(a))
  <2>. DEFINE m == [arr |-> Len(heap) + 1, len |-> l.len + 1]
  <2>1. heap' = Append(heap, b) /\ header' = m
    BY <1>9, <1>11
  <2>2. /\ heap' \in Seq(Seq(Sockets \cup {Nobody}))
        /\ Len(heap') = Len(heap) + 1
        /\ heap'[Len(heap) + 1] = b
        /\ \A i \in 1..Len(heap) : heap'[i] = heap[i]
    BY <1>4, <1>7, <2>1
  <2>3. /\ m \in [arr : Nat, len : Nat]
        /\ m.arr = Len(heap) + 1
        /\ m.len = l.len + 1
    BY <1>3, <1>7
  <2>4. m.arr > Len(heap) /\ Len(a) = l.len
    BY <1>3, <1>7, <1>9, <2>3
  <2>. HIDE DEF m
  <2>5. Change(u, m, b)
    BY <1>1, <1>4, <1>6, <1>7, <2>1, <2>2, <2>3, <2>4 DEF Change
  <2>. QED
    BY <1>2, <2>3, <2>4, <2>5
<1>. QED
  BY <1>8, <1>9

LEMMA ShiftChange ==
  ASSUME Lists, NEW s \in Sockets, Shift(s), NEW u, u = Owner[s],
         NEW l, l = cur[u], NEW b, b = Shifted(l, s)
  PROVE  /\ s \in Listed(l)
         /\ \A i, j \in 1..l.len : Array(l)[i] = Array(l)[j] => i = j
         /\ \E m : Change(u, m, b) /\ m.len = l.len - 1 /\ m.arr = l.arr
<1>1. /\ u \in Users
      /\ cur = clients
      /\ cur' = [cur EXCEPT ![u] = header']
      /\ clients' = clients
  <2>1. /\ conn[s] = "removing"
        /\ conn' = [conn EXCEPT ![s] = "removed"]
        /\ holder' = holder /\ clients' = clients
    BY DEF Shift
  <2>. QED
    BY <2>1, WritesArray
<1>21. l = clients[u]
  BY <1>1
<1>2. PICK a : a = Array(l)
  OBVIOUS
<1>3. /\ Listed(l) = {t \in SocketsOf(u) : Registered(t)}
      /\ \A i, j \in 1..l.len : a[i] = a[j] => i = j
  BY <1>1, <1>2 DEF Lists, Roll
<1>4. s \in Listed(l)
  BY <1>3 DEF Shift, Registered, SocketsOf
<1>5. /\ l \in [arr : Nat, len : Nat]
      /\ l.arr \in 0..Len(heap)
      /\ a \in Seq(Sockets \cup {Nobody})
      /\ l.len \in Nat /\ l.len <= Len(a)
      /\ Len(a) \in Nat
      /\ l.arr # 0 => a = heap[l.arr] /\ l.arr \in 1..Len(heap)
      /\ l.arr = 0 => a = <<>> /\ l.len = 0
  BY <1>1, <1>2, ArrayFacts DEF Lists
<1>20. Typed /\ OwnArrays /\ Roll
  BY DEF Lists
<1>6. /\ b \in Seq(Sockets \cup {Nobody})
      /\ Len(b) = Len(a)
      /\ l.len >= 1
      /\ \E k \in 1..l.len : a[k] = s /\ Moved(a, b, l.len, k)
  BY <1>1, <1>2, <1>4, <1>20, ShiftedFacts
<1>7. l.arr \in 1..Len(heap) /\ a = heap[l.arr] /\ l.arr # 0
  BY <1>5, <1>6
<1>8. \A i \in 1..Len(a) : a[i] \in SocketsOf(u) \cup {Nobody}
  <2>1. cur[u].arr # 0 /\ a = heap[cur[u].arr]
    BY <1>7
  <2>. QED
    BY <1>1, <1>20, <2>1 DEF OwnArrays
<1>9. \A i \in 1..Len(b) : b[i] \in SocketsOf(u) \cup {Nobody}
  <2>1. PICK k \in 1..l.len :
          \A i \in 1..Len(a) :
            b[i] = IF i >= k /\ i < l.len THEN a[i + 1] ELSE a[i]
    BY <1>6 DEF Moved
  <2>2. \A i \in 1..Len(a) : i < l.len => i + 1 \in 1..Len(a)
    BY <1>5
  <2>. QED
    BY <1>6, <1>8, <2>1, <2>2
<1>10. /\ heap \in Seq(Seq(Sockets \cup {Nobody}))
       /\ Len(heap) \in Nat
  BY DEF Lists, Typed, ListTypes
<1>. DEFINE m == [arr |-> l.arr, len |-> l.len - 1]
<1>11. heap' = [heap EXCEPT ![l.arr] = b] /\ header' = m
  <2>1. l.len # 0
    BY <1>5, <1>6
  <2>. QED
    BY <1>21, <2>1 DEF Shift
<1>13. /\ heap' \in Seq(Seq(Sockets \cup {Nobody}))
       /\ Len(heap') = Len(heap)
       /\ heap'[l.arr] = b
       /\ \A i \in 1..Len(heap) : i # l.arr => heap'[i] = heap[i]
  BY <1>6, <1>7, <1>10, <1>11
<1>14. m \in [arr : Nat, len : Nat] /\ m.arr = l.arr /\ m.len = l.len - 1
  BY <1>5, <1>6
<1>. HIDE DEF m
<1>15. Change(u, m, b)
  BY <1>1, <1>5, <1>6, <1>7, <1>9, <1>10, <1>11, <1>13, <1>14 DEF Change
<1>. QED
  BY <1>2, <1>3, <1>4, <1>14, <1>15

(* What is left of the other lists and of the watcher's.                   *)
ViewAfter(u, m, b) ==
  /\ view.arr = m.arr => view.arr = cur[u].arr /\ Array(view)' = b
  /\ view.arr # m.arr => Array(view)' = Array(view)

LEMMA Changed ==
  ASSUME Lists, NEW u \in Users, NEW m, NEW b, Change(u, m, b), view' = view, torn' = torn
  PROVE  /\ \A v \in Users : v # u =>
              /\ cur'[v] = cur[v]
              /\ cur[v].arr # m.arr
              /\ Array(cur[v])' = Array(cur[v])
         /\ cur'[u] = m
         /\ Array(cur[u])' = b
         /\ ~torn => ViewAfter(u, m, b)
         /\ OwnArrays'
<1>1. /\ cur \in [Users -> [arr : Nat, len : Nat]]
      /\ \A v \in Users : cur[v].arr \in 0..Len(heap)
      /\ \A v, w \in Users :
           cur[v].arr = cur[w].arr => v = w \/ cur[v].arr = 0
      /\ view \in [arr : Nat, len : Nat]
      /\ torn \/ view.arr \in 0..Len(heap)
      /\ Len(heap) \in Nat
  BY DEF Lists, Typed, ListTypes, RestTypes, Fits
<1>2. cur' = [cur EXCEPT ![u] = m]
  BY DEF Change
<1>3. cur'[u] = m /\ \A v \in Users : v # u => cur'[v] = cur[v]
  BY <1>1, <1>2
<1>4. \/ m.arr = cur[u].arr
      \/ m.arr > Len(heap)
  BY DEF Change
<1>5. m.arr \in Nat /\ m.arr # 0 /\ heap'[m.arr] = b
  BY DEF Change
<1>6. \A v \in Users : v # u => cur[v].arr # m.arr
  BY <1>1, <1>4, <1>5
<1>7. \A i \in 1..Len(heap) : i # m.arr => heap'[i] = heap[i]
  BY DEF Change
<1>8. \A v \in Users : v # u => Array(cur[v])' = Array(cur[v])
  <2>. SUFFICES ASSUME NEW v \in Users, v # u
                PROVE  Array(cur[v])' = Array(cur[v])
    OBVIOUS
  <2>1. cur'[v] = cur[v] /\ cur[v].arr \in 0..Len(heap)
        /\ cur[v].arr # m.arr
    BY <1>1, <1>3, <1>6
  <2>. QED
    BY <1>1, <1>7, <2>1 DEF Array
<1>9. Array(cur[u])' = b
  BY <1>3, <1>5 DEF Array
<1>10. ~torn /\ view.arr = m.arr =>
         view.arr = cur[u].arr /\ Array(view)' = b
  BY <1>1, <1>4, <1>5 DEF Array
<1>11. ~torn /\ view.arr # m.arr => Array(view)' = Array(view)
  BY <1>1, <1>7 DEF Array
<1>12. OwnArrays'
  <2>. SUFFICES ASSUME NEW v \in Users, cur'[v].arr # 0,
                       NEW i \in 1..Len(heap'[cur'[v].arr])
                PROVE  heap'[cur'[v].arr][i] \in SocketsOf(v) \cup {Nobody}
    BY DEF OwnArrays, SocketsOf
  <2>1. CASE v = u
    BY <1>3, <1>5, <2>1 DEF Change
  <2>2. CASE v # u
    <3>1. /\ cur'[v] = cur[v]
          /\ heap'[cur[v].arr] = heap[cur[v].arr]
      BY <1>1, <1>3, <1>6, <1>7, <2>2
    <3>. QED
      BY <3>1 DEF Lists, OwnArrays
  <2>. QED
    BY <2>1, <2>2
<1>. QED
  BY <1>3, <1>6, <1>8, <1>9, <1>10, <1>11, <1>12 DEF ViewAfter

LEMMA ChangedTypes ==
  ASSUME Lists, NEW u \in Users, NEW m, NEW b, Change(u, m, b),
         view' = view, torn' = torn
  PROVE  ListTypes' /\ (torn \/ Fits(view)')
<1>1. /\ cur \in [Users -> [arr : Nat, len : Nat]]
      /\ \A v \in Users : Fits(cur[v])
      /\ \A v, w \in Users :
           cur[v].arr = cur[w].arr => v = w \/ cur[v].arr = 0
      /\ view \in [arr : Nat, len : Nat] /\ (torn \/ Fits(view))
      /\ heap \in Seq(Seq(Sockets \cup {Nobody}))
  BY DEF Lists, Typed, ListTypes, RestTypes
<1>2. /\ cur = clients /\ clients' = clients /\ header' = m
      /\ cur' = [cur EXCEPT ![u] = m]
      /\ m \in [arr : Nat, len : Nat]
      /\ heap' \in Seq(Seq(Sockets \cup {Nobody}))
      /\ Len(heap') >= Len(heap)
      /\ m.arr \in 1..Len(heap')
      /\ m.len <= Len(b)
      /\ \/ m.arr = cur[u].arr /\ Len(b) = Len(heap[m.arr])
         \/ m.arr > Len(heap)
  BY DEF Change
<1>3. /\ \A v \in Users : v # u =>
           /\ cur'[v] = cur[v]
           /\ cur[v].arr # m.arr
           /\ Array(cur[v])' = Array(cur[v])
      /\ cur'[u] = m
      /\ Array(cur[u])' = b
  BY Changed
<1>4. Len(heap) \in Nat /\ Len(heap') \in Nat
  BY <1>1, <1>2
<1>9. ASSUME NEW l, l.arr \in 0..Len(heap)
      PROVE  LET a == IF l.arr = 0 THEN <<>> ELSE heap'[l.arr]
             IN  Len(a) = Len(Array(l))
  <2>1. CASE l.arr = 0
    BY <2>1 DEF Array
  <2>2. CASE l.arr # 0 /\ l.arr # m.arr
    <3>1. \A i \in 1..Len(heap) : i # m.arr => heap'[i] = heap[i]
      BY DEF Change
    <3>2. l.arr \in 1..Len(heap)
      BY <1>4, <1>9, <2>2
    <3>3. heap'[l.arr] = heap[l.arr]
      BY <2>2, <3>1, <3>2
    <3>. QED
      BY <2>2, <3>3 DEF Array
  <2>3. CASE l.arr # 0 /\ l.arr = m.arr
    <3>1. Len(b) = Len(heap[m.arr]) /\ heap'[m.arr] = b
      BY <1>2, <1>4, <1>9, <2>3 DEF Change
    <3>. QED
      BY <2>3, <3>1 DEF Array
  <2>. QED
    BY <2>1, <2>2, <2>3
<1>5. \A v \in Users : Fits(cur[v])'
  <2>. SUFFICES ASSUME NEW v \in Users PROVE Fits(cur[v])'
    OBVIOUS
  <2>1. CASE v = u
    <3>1. m.len \in 0..Len(b) /\ m.arr \in 0..Len(heap')
      <4>1. m.len \in Nat /\ m.len <= Len(b)
        BY <1>2
      <4>2. heap'[m.arr] = b /\ b \in Seq(Sockets \cup {Nobody})
        BY <1>2 DEF Change
      <4>3. Len(b) \in Nat
        BY <4>2
      <4>. QED
        BY <1>2, <1>4, <4>1, <4>3
    <3>. QED
      BY <1>3, <2>1, <3>1 DEF Fits
  <2>2. CASE v # u
    <3>1. /\ cur'[v] = cur[v]
          /\ Array(cur[v])' = Array(cur[v])
          /\ cur[v].arr \in 0..Len(heap')
          /\ cur[v].len \in 0..Len(Array(cur[v]))
      BY <1>1, <1>2, <1>3, <1>4, <2>2 DEF Fits
    <3>. QED
      BY <3>1 DEF Fits
  <2>. QED
    BY <2>1, <2>2
<1>10. \A v \in Users : Fits(clients[v])'
  <2>. SUFFICES ASSUME NEW v \in Users PROVE Fits(clients[v])'
    OBVIOUS
  <2>1. /\ clients'[v] = cur[v]
        /\ cur[v].arr \in 0..Len(heap)
        /\ cur[v].len \in 0..Len(Array(cur[v]))
    BY <1>1, <1>2 DEF Fits
  <2>2. Len(IF cur[v].arr = 0 THEN <<>> ELSE heap'[cur[v].arr])
          = Len(Array(cur[v]))
    BY <1>9, <2>1
  <2>. QED
    BY <1>2, <1>4, <2>1, <2>2 DEF Fits, Array
<1>6. \A v, w \in Users :
        cur'[v].arr = cur'[w].arr => v = w \/ cur'[v].arr = 0
  BY <1>1, <1>3
<1>7. torn \/ Fits(view)'
  <2>. SUFFICES ASSUME ~torn PROVE Fits(view)'
    OBVIOUS
  <2>1. /\ view.arr \in 0..Len(heap)
        /\ view.len \in 0..Len(Array(view))
    BY <1>1 DEF Fits
  <2>2. Len(IF view.arr = 0 THEN <<>> ELSE heap'[view.arr]) = Len(Array(view))
    BY <1>9, <2>1
  <2>. QED
    BY <1>2, <1>4, <2>1, <2>2 DEF Fits, Array
<1>8. /\ cur' \in [Users -> [arr : Nat, len : Nat]]
      /\ clients' \in [Users -> [arr : Nat, len : Nat]]
      /\ header' \in [arr : Nat, len : Nat]
  BY <1>1, <1>2
<1>. QED
  BY <1>2, <1>5, <1>6, <1>7, <1>8, <1>10 DEF ListTypes

LEMMA AppendLists ==
  ASSUME Lists, NEW s \in Sockets, AppendTo(s)
  PROVE  Lists'
<1>1. PICK u \in Users : u = Owner[s]
  BY HubAssumption
<1>2. PICK l : l = cur[u]
  OBVIOUS
<1>3. PICK b : b = Appended(l, s)
  OBVIOUS
<1>4. PICK m : /\ Change(u, m, b)
               /\ m.len = l.len + 1
               /\ \/ m.arr = l.arr /\ l.len < Len(Array(l))
                  \/ m.arr > Len(heap) /\ Len(Array(l)) = l.len
  BY <1>1, <1>2, <1>3, AppendChange
<1>5. /\ conn[s] = "adding"
      /\ holder' = holder
      /\ conn' = [conn EXCEPT ![s] = "added"]
      /\ UNCHANGED <<up, log, watching>>
  BY DEF AppendTo
<1>6. Typed /\ Exclusive /\ Roll
  BY DEF Lists
<1>7. view' = view /\ torn' = torn
  BY <1>5 DEF watching
<1>8. Typed'
  <2>1. ListTypes' /\ (torn \/ Fits(view)')
    BY <1>4, <1>7, ChangedTypes
  <2>2. RestTypes
    BY <1>6 DEF Typed
  <2>. QED
    BY <1>5, <2>1, <2>2 DEF Typed, RestTypes, log, watching, ConnStates
<1>9. Exclusive'
  BY <1>5, <1>6, HubAssumption DEF Exclusive, Typed, RestTypes
<1>10. OwnArrays'
  BY <1>4, <1>7, Changed
<1>11. /\ \A v \in Users : v # u =>
            /\ cur'[v] = cur[v]
            /\ Array(cur[v])' = Array(cur[v])
       /\ cur'[u] = m
       /\ Array(cur[u])' = b
  BY <1>4, <1>7, Changed
<1>12. \A t \in Sockets : Registered(t)' <=> Registered(t) \/ t = s
  BY <1>5, <1>6 DEF Registered, Typed, RestTypes
<1>13. Roll'
  <2>. SUFFICES ASSUME NEW v \in Users
                PROVE  /\ Listed(cur[v])' =
                            {t \in SocketsOf(v) : Registered(t)}'
                       /\ \A i, j \in 1..cur'[v].len :
                            Array(cur[v])'[i] = Array(cur[v])'[j]
                              => i = j
    BY DEF Roll
  <2>1. /\ Listed(cur[v]) = {t \in SocketsOf(v) : Registered(t)}
        /\ \A i, j \in 1..cur[v].len :
             Array(cur[v])[i] = Array(cur[v])[j] => i = j
    BY <1>6 DEF Roll
  <2>2. CASE v # u
    <3>1. s \notin SocketsOf(v)
      BY <1>1, <2>2 DEF SocketsOf
    <3>2. Listed(cur[v])' = Listed(cur[v])
      BY <1>11, <2>2 DEF Listed
    <3>3. {t \in SocketsOf(v) : Registered(t)}' =
            {t \in SocketsOf(v) : Registered(t)}
      BY <1>12, <3>1 DEF SocketsOf
    <3>. QED
      BY <1>11, <2>1, <2>2, <3>2, <3>3
  <2>3. CASE v = u
    <3>1. PICK a : a = Array(l)
      OBVIOUS
    <3>2. /\ l.len \in Nat /\ Len(a) \in Nat /\ l.len <= Len(a)
      BY <1>1, <1>2, <1>6, <3>1, ArrayFacts
    <3>3. /\ b[l.len + 1] = s
          /\ Len(b) \in Nat /\ Len(b) >= l.len + 1
          /\ \A i \in 1..Len(b) :
               i # l.len + 1 => b[i] = IF i \in 1..Len(a) THEN a[i]
                                       ELSE Nobody
      BY <1>1, <1>2, <1>3, <1>6, <3>1, AppendedFacts
    <3>4. \A i \in 1..l.len : b[i] = a[i]
      BY <3>2, <3>3
    <3>5. /\ Listed(l) = {t \in SocketsOf(u) : Registered(t)}
          /\ \A i, j \in 1..l.len : a[i] = a[j] => i = j
      BY <1>2, <2>1, <2>3, <3>1
    <3>6. s \notin Listed(l)
      BY <1>5, <3>5 DEF Registered
    <3>7. \A i \in 1..l.len : a[i] # s
      BY <3>1, <3>6 DEF Listed
    <3>8. \A i, j \in 1..(l.len + 1) : b[i] = b[j] => i = j
      <4>. TAKE i \in 1..(l.len + 1), j \in 1..(l.len + 1)
      <4>1. CASE i \in 1..l.len /\ j \in 1..l.len
        BY <3>4, <3>5, <4>1
      <4>2. CASE i \in 1..l.len /\ j = l.len + 1
        BY <3>3, <3>4, <3>7, <4>2
      <4>3. CASE i = l.len + 1 /\ j \in 1..l.len
        BY <3>3, <3>4, <3>7, <4>3
      <4>. QED
        BY <3>2, <4>1, <4>2, <4>3
    <3>9. Listed(cur[v])' = {b[i] : i \in 1..(l.len + 1)}
      BY <1>4, <1>11, <2>3 DEF Listed
    <3>10. {b[i] : i \in 1..(l.len + 1)} = {a[i] : i \in 1..l.len} \cup {s}
      BY <3>2, <3>3, <3>4
    <3>11. {a[i] : i \in 1..l.len} = Listed(l)
      BY <3>1 DEF Listed
    <3>12. {t \in SocketsOf(u) : Registered(t)}' =
             {t \in SocketsOf(u) : Registered(t)} \cup {s}
      BY <1>1, <1>12 DEF SocketsOf
    <3>. QED
      BY <1>4, <1>11, <2>3, <3>5, <3>8, <3>9, <3>10, <3>11, <3>12
  <2>. QED
    BY <2>2, <2>3
<1>14. Halfway'
  <2>. SUFFICES ASSUME NEW t \in Sockets, conn'[t] \in {"added", "removed"}
                PROVE  Between(t, clients[Owner[t]], header)'
    BY DEF Halfway
  <2>1. holder = s /\ t = s
    <3>1. holder' = s /\ holder' = t
      BY <1>5, <1>6, <1>9 DEF Exclusive
    <3>. QED
      BY <1>5, <3>1
  <2>2. conn'[s] = "added"
    BY <1>5, <1>6 DEF Typed, RestTypes
  <2>3. /\ clients' = clients /\ cur = clients /\ header' = m
        /\ clients'[u] = l
    BY <1>2, <1>4 DEF Change
  <2>4. PICK a : a = Array(l)
    OBVIOUS
  <2>5. /\ l.len \in Nat /\ Len(a) \in Nat /\ l.len <= Len(a)
        /\ l.arr \in 0..Len(heap) /\ Len(heap) \in Nat
        /\ l.arr # 0 => a = heap[l.arr]
        /\ l.arr = 0 => a = <<>> /\ l.len = 0
    BY <1>1, <1>2, <1>6, <2>4, ArrayFacts DEF Typed, ListTypes
  <2>6. /\ b[l.len + 1] = s
        /\ Len(b) \in Nat /\ Len(b) >= l.len + 1
        /\ \A i \in 1..Len(b) :
             i # l.len + 1 => b[i] = IF i \in 1..Len(a) THEN a[i]
                                     ELSE Nobody
    BY <1>1, <1>2, <1>3, <1>6, <2>4, AppendedFacts
  <2>7. \A i \in 1..l.len : b[i] = a[i] /\ a[i] \in SocketsOf(u)
    <3>1. \A i \in 1..l.len : b[i] = a[i]
      BY <2>5, <2>6
    <3>2. Listed(l) = {x \in SocketsOf(u) : Registered(x)}
      BY <1>1, <1>2, <1>6 DEF Roll
    <3>. QED
      BY <2>4, <3>1, <3>2 DEF Listed
  <2>8. Array(header)' = b
    BY <1>4, <2>3 DEF Array, Change
  (* The slots of the stored list are the same in the new heap.            *)
  <2>9. /\ \A i \in 1..l.len : Array(clients[u])'[i] = a[i]
        /\ m.arr = l.arr \/ Len(Array(clients[u])') = l.len
    <3>1. CASE m.arr = l.arr
      <4>1. Array(clients[u])' = b
        BY <1>4, <2>3, <3>1 DEF Array, Change
      <4>. QED
        BY <2>7, <3>1, <4>1
    <3>2. CASE m.arr # l.arr
      <4>1. l.arr # 0 => heap'[l.arr] = heap[l.arr]
        BY <1>4, <2>5, <3>2 DEF Change
      <4>2. Array(clients[u])' = a
        BY <2>3, <2>5, <4>1 DEF Array
      <4>. QED
        BY <1>4, <2>4, <3>2, <4>2
    <3>. QED
      BY <3>1, <3>2
  <2>. QED
    BY <1>1, <1>4, <2>1, <2>2, <2>3, <2>6, <2>7, <2>8, <2>9
       DEF Between, SocketsOf
<1>. QED
  BY <1>8, <1>9, <1>10, <1>13, <1>14 DEF Lists

LEMMA ShiftLists ==
  ASSUME Lists, NEW s \in Sockets, Shift(s)
  PROVE  Lists'
<1>1. PICK u \in Users : u = Owner[s]
  BY HubAssumption
<1>2. PICK l : l = cur[u]
  OBVIOUS
<1>3. PICK b : b = Shifted(l, s)
  OBVIOUS
<1>4. /\ s \in Listed(l)
      /\ \E m : Change(u, m, b) /\ m.len = l.len - 1 /\ m.arr = l.arr
  BY <1>1, <1>2, <1>3, ShiftChange
<1>14. PICK m : Change(u, m, b) /\ m.len = l.len - 1 /\ m.arr = l.arr
  BY <1>4
<1>5. /\ conn[s] = "removing"
      /\ holder' = holder
      /\ conn' = [conn EXCEPT ![s] = "removed"]
      /\ UNCHANGED <<up, log, watching>>
  BY DEF Shift
<1>6. Typed /\ Exclusive /\ Roll
  BY DEF Lists
<1>7. view' = view /\ torn' = torn
  BY <1>5 DEF watching
<1>8. Typed'
  <2>1. ListTypes' /\ (torn \/ Fits(view)')
    BY <1>7, <1>14, ChangedTypes
  <2>2. RestTypes
    BY <1>6 DEF Typed
  <2>. QED
    BY <1>5, <2>1, <2>2 DEF Typed, RestTypes, log, watching, ConnStates
<1>9. Exclusive'
  BY <1>5, <1>6, HubAssumption DEF Exclusive, Typed, RestTypes
<1>10. OwnArrays'
  BY <1>7, <1>14, Changed
<1>11. /\ \A v \in Users : v # u =>
            /\ cur'[v] = cur[v]
            /\ Array(cur[v])' = Array(cur[v])
       /\ cur'[u] = m
       /\ Array(cur[u])' = b
  BY <1>7, <1>14, Changed
<1>12. \A t \in Sockets : Registered(t)' <=> Registered(t) /\ t # s
  BY <1>5, <1>6 DEF Registered, Typed, RestTypes
<1>13. Roll'
  <2>. SUFFICES ASSUME NEW v \in Users
                PROVE  /\ Listed(cur[v])' =
                            {t \in SocketsOf(v) : Registered(t)}'
                       /\ \A i, j \in 1..cur'[v].len :
                            Array(cur[v])'[i] = Array(cur[v])'[j]
                              => i = j
    BY DEF Roll
  <2>1. /\ Listed(cur[v]) = {t \in SocketsOf(v) : Registered(t)}
        /\ \A i, j \in 1..cur[v].len :
             Array(cur[v])[i] = Array(cur[v])[j] => i = j
    BY <1>6 DEF Roll
  <2>2. CASE v # u
    <3>1. s \notin SocketsOf(v)
      BY <1>1, <2>2 DEF SocketsOf
    <3>2. Listed(cur[v])' = Listed(cur[v])
      BY <1>11, <2>2 DEF Listed
    <3>3. {t \in SocketsOf(v) : Registered(t)}' =
            {t \in SocketsOf(v) : Registered(t)}
      BY <1>12, <3>1 DEF SocketsOf
    <3>. QED
      BY <1>11, <2>1, <2>2, <3>2, <3>3
  <2>3. CASE v = u
    <3>1. PICK a : a = Array(l)
      OBVIOUS
    <3>2. /\ \A i \in 1..(l.len - 1) : b[i] \in Listed(l) \ {s}
          /\ \A x \in Listed(l) \ {s} : \E i \in 1..(l.len - 1) : b[i] = x
          /\ \A i, j \in 1..(l.len - 1) : b[i] = b[j] => i = j
      <4>1. Without(l, s, b)
        BY <1>1, <1>2, <1>3, <1>4, <1>6, <3>1, ShiftedFacts
      <4>. QED
        BY <4>1 DEF Without
    <3>3. Listed(l) = {t \in SocketsOf(u) : Registered(t)}
      BY <1>2, <2>1, <2>3
    <3>4. Listed(cur[v])' = {b[i] : i \in 1..(l.len - 1)}
      BY <1>11, <1>14, <2>3 DEF Listed
    <3>5. {b[i] : i \in 1..(l.len - 1)} = Listed(l) \ {s}
      BY <3>2
    <3>6. {t \in SocketsOf(u) : Registered(t)}' =
             {t \in SocketsOf(u) : Registered(t)} \ {s}
      BY <1>12 DEF SocketsOf
    <3>. QED
      BY <1>11, <1>14, <2>3, <3>2, <3>3, <3>4, <3>5, <3>6
  <2>. QED
    BY <2>2, <2>3
<1>15. Halfway'
  <2>. SUFFICES ASSUME NEW t \in Sockets, conn'[t] \in {"added", "removed"}
                PROVE  Between(t, clients[Owner[t]], header)'
    BY DEF Halfway
  <2>1. t = s
    <3>1. holder' = s /\ holder' = t
      BY <1>5, <1>6, <1>9 DEF Exclusive
    <3>. QED
      BY <3>1
  <2>2. conn'[s] = "removed"
    BY <1>5, <1>6 DEF Typed, RestTypes
  <2>3. /\ clients' = clients /\ header' = m /\ clients'[u] = l
    BY <1>2, <1>14 DEF Change
  <2>4. PICK a : a = Array(l)
    OBVIOUS
  <2>5. l.len \in Nat /\ Len(a) \in Nat /\ l.len <= Len(a)
    BY <1>1, <1>2, <1>6, <2>4, ArrayFacts
  <2>6. Array(clients[u])' = b
    BY <1>14, <2>3 DEF Array, Change
  <2>7. PICK k \in 1..l.len : Moved(a, b, l.len, k)
    BY <1>1, <1>2, <1>3, <1>4, <1>6, <2>4, ShiftedFacts
  <2>8. \A i \in 1..l.len : a[i] \in SocketsOf(u)
    <3>1. Listed(l) = {x \in SocketsOf(u) : Registered(x)}
      BY <1>1, <1>2, <1>6 DEF Roll
    <3>. QED
      BY <2>4, <3>1 DEF Listed
  <2>9. ASSUME NEW i \in 1..l.len PROVE b[i] \in SocketsOf(u)
    <3>1. b[i] = IF i >= k /\ i < l.len THEN a[i + 1] ELSE a[i]
      BY <2>5, <2>7 DEF Moved
    <3>2. i < l.len => i + 1 \in 1..l.len
      BY <2>5
    <3>. QED
      BY <2>8, <3>1, <3>2
  <2>. QED
    BY <1>1, <1>14, <2>1, <2>2, <2>3, <2>6, <2>9 DEF Between, SocketsOf
<1>. QED
  BY <1>8, <1>9, <1>10, <1>13, <1>15 DEF Lists

LEMMA SameRoll ==
  ASSUME Roll, cur' = cur, heap' = heap,
         \A s \in Sockets : Registered(s)' <=> Registered(s)
  PROVE  Roll'
<1>. SUFFICES ASSUME NEW u \in Users
              PROVE  /\ Listed(cur[u])' = {t \in SocketsOf(u) : Registered(t)}'
                     /\ \A i, j \in 1..cur'[u].len :
                          Array(cur[u])'[i] = Array(cur[u])'[j] => i = j
  BY DEF Roll
<1>1. /\ Listed(cur[u]) = {t \in SocketsOf(u) : Registered(t)}
      /\ \A i, j \in 1..cur[u].len :
           Array(cur[u])[i] = Array(cur[u])[j] => i = j
  BY DEF Roll
<1>2. Array(cur[u])' = Array(cur[u])
  BY DEF Array
<1>3. Listed(cur[u])' = Listed(cur[u])
  BY <1>2 DEF Listed
<1>4. {t \in SocketsOf(u) : Registered(t)}' =
        {t \in SocketsOf(u) : Registered(t)}
  BY DEF SocketsOf
<1>. QED
  BY <1>1, <1>2, <1>3, <1>4

LEMMA SamePushes ==
  ASSUME Pushes, heap' = heap, expected' \subseteq expected,
         UNCHANGED <<watcher, audience, todo, view, index, torn, sent>>
  PROVE  Pushes'
<1>1. \A i : Slot(i)' = Slot(i)
  BY DEF Slot, Array
<1>2. RightView'
  BY <1>1 DEF Pushes, RightView
<1>3. RightOwner'
  BY DEF Pushes, RightOwner
<1>4. Resting'
  BY DEF Pushes, Resting
<1>. QED
  BY <1>2, <1>3, <1>4 DEF Pushes

LEMMA StoreLists ==
  ASSUME Lists, NEW s \in Sockets, Register(s) \/ Unregister(s)
  PROVE  Lists' /\ cur' = cur
<1>1. PICK from \in {"added", "removed"}, to \in {"serving", "closed"} :
        /\ Store(s, from, to) /\ holder' = Nobody
        /\ from = "added" <=> to = "serving"
  BY DEF Register, Unregister
<1>2. /\ conn[s] = from
      /\ clients' = [clients EXCEPT ![Owner[s]] = header]
      /\ header' = NilSlice
      /\ conn' = [conn EXCEPT ![s] = to]
      /\ UNCHANGED <<up, heap, topic, position, watcher, audience, todo,
                     view, index, torn, sent, expected>>
  BY <1>1 DEF Store, log, watching
<1>3. holder = s /\ cur[Owner[s]] = header /\ cur' = cur
  BY <1>1, StoresHeader
<1>4. ListTypes /\ RestTypes /\ Exclusive /\ OwnArrays /\ Roll
        /\ Owner[s] \in Users
  BY HubAssumption DEF Lists, Typed
<1>5. ListTypes'
  <2>1. NilSlice \in [arr : Nat, len : Nat]
    BY DEF NilSlice
  <2>2. \A u \in Users : clients'[u] = clients[u] \/ clients'[u] = cur[u]
    BY <1>2, <1>3, <1>4 DEF ListTypes
  <2>3. \A u \in Users : Fits(clients[u])' /\ Fits(cur[u])'
    <3>. SUFFICES ASSUME NEW u \in Users PROVE Fits(clients[u])' /\ Fits(cur[u])'
      OBVIOUS
    <3>1. Fits(clients[u]) /\ Fits(cur[u])
      BY <1>4 DEF ListTypes
    <3>. QED
      BY <1>2, <1>3, <2>2, <3>1 DEF Fits, Array
  <2>4. clients' \in [Users -> [arr : Nat, len : Nat]]
    BY <1>2, <1>4 DEF ListTypes
  <2>. QED
    BY <1>2, <1>3, <1>4, <2>1, <2>3, <2>4 DEF ListTypes
<1>6. RestTypes'
  <2>1. torn \/ Fits(view)'
    BY <1>2, <1>4 DEF RestTypes, Fits, Array
  <2>. QED
    BY <1>1, <1>2, <1>4, <2>1 DEF RestTypes, ConnStates
<1>7. Exclusive'
  BY <1>1, <1>2, <1>4, HubAssumption DEF Exclusive, RestTypes
<1>8. OwnArrays'
  BY <1>2, <1>3, <1>4 DEF OwnArrays, SocketsOf
<1>9. \A t \in Sockets : Registered(t)' <=> Registered(t)
  BY <1>1, <1>2, <1>4 DEF Registered, RestTypes
<1>10. Roll'
  BY <1>2, <1>3, <1>4, <1>9, SameRoll
<1>11. Halfway'
  BY <1>1, <1>7, HubAssumption DEF Halfway, Exclusive
<1>. QED
  BY <1>3, <1>5, <1>6, <1>7, <1>8, <1>10, <1>11 DEF Lists, Typed

-----------------------------------------------------------------------------
(* The watcher while a handler changes the lists.                          *)

(* A watcher that ranges over the array of u's list looked u up.           *)
LEMMA SharedArray ==
  ASSUME Lists, RightView, ~torn, NEW u \in Users, cur[u].arr = view.arr,
         NEW i \in 1..view.len
  PROVE  /\ view.arr # 0
         /\ Array(view) = heap[view.arr] /\ Array(cur[u]) = heap[view.arr]
         /\ Slot(i) \in SocketsOf(u)
         /\ u \in audience \ todo
<1>1. /\ view.len \in Nat
      /\ view.len <= Len(Array(view))
      /\ Len(Array(view)) \in Nat
      /\ view.arr # 0 => Array(view) = heap[view.arr]
      /\ view.arr = 0 => Array(view) = <<>> /\ view.len = 0
  BY ArrayFacts DEF Lists
<1>2. view.arr # 0
  BY <1>1
<1>3. Array(view) = heap[view.arr] /\ Array(cur[u]) = heap[view.arr]
  BY <1>1, <1>2 DEF Array
<1>4. i \in 1..Len(heap[view.arr])
  BY <1>1, <1>3
<1>5. heap[view.arr][i] \in SocketsOf(u) \cup {Nobody}
  BY <1>2, <1>4 DEF Lists, OwnArrays
<1>6. Slot(i) \in Sockets /\ Owner[Slot(i)] \in audience \ todo
  BY DEF RightView
<1>7. Slot(i) = heap[view.arr][i]
  BY <1>3 DEF Slot
<1>8. Slot(i) \in SocketsOf(u)
  BY <1>5, <1>6, <1>7, HubAssumption
<1>. QED
  BY <1>2, <1>3, <1>6, <1>8 DEF SocketsOf

(* What a handler at work in the array of u's list does to a slot that the *)
(* watcher ranges over.                                                    *)
LEMMA SlotShifted ==
  ASSUME Lists, RightView, ~torn, NEW u \in Users, NEW l, l = cur[u],
         NEW s, s \in Listed(l), NEW b, b = Shifted(l, s),
         l.arr = view.arr, NEW i \in 1..view.len
  PROVE  Slot(i) \in SocketsOf(u) /\ b[i] \in SocketsOf(u)
<1>1. PICK a : a = Array(l)
  OBVIOUS
<1>2. Typed /\ Roll
  BY DEF Lists
<1>3. /\ l.len \in Nat /\ Len(a) \in Nat /\ l.len <= Len(a)
      /\ view.len \in Nat /\ view.len <= Len(Array(view))
  BY <1>1, <1>2, ArrayFacts
<1>4. \E k \in 1..l.len : a[k] = s /\ Moved(a, b, l.len, k)
  <2>1. u \in Users /\ l = cur[u] /\ s \in Listed(l) /\ b = Shifted(l, s)
    OBVIOUS
  <2>2. Typed
    BY <1>2
  <2>3. Roll
    BY <1>2
  <2>4. /\ b \in Seq(Sockets \cup {Nobody})
        /\ \E k \in 1..l.len : a[k] = s /\ Moved(a, b, l.len, k)
    BY <1>1, <2>1, <2>2, <2>3, ShiftedFacts
  <2>. QED
    BY <2>4
<1>5. PICK k \in 1..l.len : a[k] = s /\ Moved(a, b, l.len, k)
  BY <1>4
<1>6. \A j \in 1..l.len : a[j] \in SocketsOf(u)
  <2>1. Listed(l) = {t \in SocketsOf(u) : Registered(t)}
    BY <1>2 DEF Roll
  <2>. QED
    BY <1>1, <2>1 DEF Listed
<1>7. Array(view) = heap[view.arr] /\ Array(cur[u]) = heap[view.arr]
        /\ Slot(i) \in SocketsOf(u)
  BY SharedArray
<1>8. Slot(i) = a[i] /\ i \in 1..Len(a)
  BY <1>1, <1>3, <1>7 DEF Slot
<1>9. b[i] = IF i >= k /\ i < l.len THEN a[i + 1] ELSE a[i]
  BY <1>5, <1>8 DEF Moved
<1>10. CASE i >= k /\ i < l.len
  <2>1. i + 1 \in 1..l.len
    BY <1>3, <1>10
  <2>. QED
    BY <1>6, <1>7, <1>9, <1>10, <2>1
<1>. QED
  BY <1>7, <1>8, <1>9, <1>10

LEMMA SlotAppended ==
  ASSUME Lists, RightView, ~torn, NEW u \in Users, NEW l, l = cur[u],
         NEW s \in Sockets, NEW b, b = Appended(l, s),
         l.arr = view.arr, l.len < Len(Array(l)), NEW i \in 1..view.len
  PROVE  /\ Slot(i) \in SocketsOf(u)
         /\ i = l.len + 1 => b[i] = s
         /\ i # l.len + 1 => b[i] = Slot(i)
<1>1. PICK a : a = Array(l)
  OBVIOUS
<1>2. Typed
  BY DEF Lists
<1>3. /\ l.len \in Nat /\ Len(a) \in Nat /\ l.len <= Len(a)
      /\ view.len \in Nat /\ view.len <= Len(Array(view))
  BY <1>1, <1>2, ArrayFacts
<1>4. /\ b \in Seq(Sockets \cup {Nobody})
      /\ Len(b) \in Nat
      /\ Len(b) >= l.len + 1
      /\ l.len < Len(a) => Len(b) = Len(a)
      /\ b[l.len + 1] = s
      /\ \A j \in 1..Len(b) :
           j # l.len + 1 => b[j] = IF j \in 1..Len(a) THEN a[j]
                                   ELSE Nobody
  BY <1>1, <1>2, AppendedFacts
<1>5. Array(view) = heap[view.arr] /\ Array(cur[u]) = heap[view.arr]
        /\ Slot(i) \in SocketsOf(u)
  BY SharedArray
<1>6. Slot(i) = a[i] /\ i \in 1..Len(a)
  BY <1>1, <1>3, <1>5 DEF Slot
<1>. QED
  BY <1>1, <1>4, <1>5, <1>6

LEMMA PushesChange ==
  ASSUME Lists, Pushes, NEW u \in Users, NEW m, NEW b, Change(u, m, b),
         UNCHANGED watching,
         ~torn /\ view.arr = m.arr => \A i \in 1..view.len : b[i] \in Sockets
  PROVE  Pushes'
<1>1. /\ view' = view /\ audience' = audience /\ todo' = todo
      /\ sent' = sent /\ expected' = expected /\ index' = index
      /\ watcher' = watcher /\ torn' = torn
  BY DEF watching
<1>2. ~torn => ViewAfter(u, m, b)
  BY <1>1, Changed
<1>3. RightView'
  <2>. SUFFICES ASSUME ~torn, NEW i \in 1..view.len
                PROVE  /\ Slot(i)' \in Sockets
                       /\ Owner[Slot(i)'] \in audience \ todo
    BY <1>1 DEF RightView
  <2>1. CASE view.arr # m.arr
    BY <1>2, <2>1 DEF Slot, Pushes, RightView, ViewAfter
  <2>2. CASE view.arr = m.arr
    <3>5. view.arr = cur[u].arr /\ Array(view)' = b
      BY <1>2, <2>2 DEF ViewAfter
    <3>1. u \in audience \ todo
      BY <3>5, SharedArray DEF Pushes
    <3>2. Slot(i)' = b[i]
      BY <3>5 DEF Slot
    <3>3. i \in 1..Len(b)
      <4>1. /\ view.len \in Nat /\ view.len <= Len(Array(view))
            /\ Len(Array(view)) \in Nat
            /\ view.arr \in 0..Len(heap)
        BY ArrayFacts DEF Lists
      <4>2. Array(view) = heap[view.arr]
        BY <3>5, SharedArray DEF Pushes
      <4>3. Len(heap) \in Nat
        BY DEF Lists, Typed, ListTypes
      <4>4. Len(b) = Len(heap[m.arr])
        BY <2>2, <4>1, <4>3 DEF Change
      <4>. QED
        BY <2>2, <4>1, <4>2, <4>4
    <3>4. b[i] \in SocketsOf(u) \cup {Nobody} /\ b[i] \in Sockets
      BY <2>2, <3>3 DEF Change
    <3>. QED
      BY <3>1, <3>2, <3>4, HubAssumption DEF SocketsOf
  <2>. QED
    BY <2>1, <2>2
<1>4. RightOwner'
  BY <1>1 DEF Pushes, RightOwner
<1>5. Resting'
  BY <1>1 DEF Pushes, Resting
<1>. QED
  BY <1>3, <1>4, <1>5 DEF Pushes

LEMMA AppendPushes ==
  ASSUME IInv, NEW s \in Sockets, AppendTo(s)
  PROVE  Pushes' /\ Expecting'
<1>1. PICK u \in Users : u = Owner[s]
  BY HubAssumption
<1>2. PICK l : l = cur[u]
  OBVIOUS
<1>3. PICK b : b = Appended(l, s)
  OBVIOUS
<1>4. Lists /\ Pushes /\ Expecting /\ Typed /\ RightView /\ Exclusive
  BY DEF IInv, Lists, Pushes
<1>5. PICK m : /\ Change(u, m, b)
               /\ m.len = l.len + 1
               /\ \/ m.arr = l.arr /\ l.len < Len(Array(l))
                  \/ m.arr > Len(heap)
  BY <1>1, <1>2, <1>3, <1>4, AppendChange
<1>6. /\ conn[s] = "adding"
      /\ holder' = holder
      /\ conn' = [conn EXCEPT ![s] = "added"]
      /\ UNCHANGED watching
      /\ view' = view /\ audience' = audience /\ todo' = todo
      /\ sent' = sent /\ expected' = expected /\ index' = index
      /\ torn' = torn
  BY DEF AppendTo, watching
<1>7. holder = s
  BY <1>4, <1>6 DEF Exclusive
<1>8. /\ l.len \in Nat /\ view.len \in Nat
      /\ Len(heap) \in Nat
      /\ torn \/ view.arr \in 0..Len(heap)
  <2>1. l.len \in Nat
    BY <1>1, <1>2, <1>4, ArrayFacts
  <2>2. view.len \in Nat /\ Len(heap) \in Nat
    BY <1>4 DEF Typed, ListTypes, RestTypes
  <2>3. torn \/ view.arr \in 0..Len(heap)
    BY <1>4 DEF Typed, RestTypes, Fits
  <2>. QED
    BY <2>1, <2>2, <2>3
<1>10. /\ cur'[u] = m
       /\ \A v \in Users : v # u => cur'[v] = cur[v]
       /\ ~torn => ViewAfter(u, m, b)
  BY <1>4, <1>5, <1>6, Changed
(* All slots of the watcher's header but one are left alone.               *)
<1>11. ~torn /\ view.arr = m.arr =>
         \A i \in 1..view.len : b[i] = IF i = l.len + 1 THEN s ELSE Slot(i)
  <2>1. ~torn /\ view.arr = m.arr => m.arr = l.arr /\ l.len < Len(Array(l))
    BY <1>5, <1>8
  <2>. QED
    BY <1>1, <1>2, <1>3, <1>4, <2>1, SlotAppended
<1>12. Pushes'
  <2>1. ~torn /\ view.arr = m.arr => \A i \in 1..view.len : b[i] \in Sockets
    BY <1>4, <1>11 DEF RightView
  <2>. QED
    BY <1>4, <1>5, <1>6, <2>1, PushesChange
<1>13. ASSUME ~torn, NEW e \in expected
       PROVE  /\ e # s /\ e \in Sockets /\ Awaited(e)
              /\ InView(e) => \A i \in 1..view.len : Slot(i)' = Slot(i)
              /\ InView(e)' <=> InView(e)
  <2>0. Awaited(e)
    BY <1>4, <1>13 DEF Expecting
  <2>1. e # s /\ e \in Sockets
    BY <1>4, <1>6, <2>0 DEF Awaited, Typed, RestTypes
  <2>2. CASE view.arr # m.arr
    <3>1. \A i \in 1..view.len : Slot(i)' = Slot(i)
      BY <1>10, <1>13, <2>2 DEF Slot, ViewAfter
    <3>. QED
      BY <1>6, <2>0, <2>1, <3>1 DEF InView
  <2>3. CASE view.arr = m.arr
    <3>5. view.arr = cur[u].arr /\ Array(view)' = b
      BY <1>10, <1>13, <2>3 DEF ViewAfter
    <3>1. \A i \in 1..view.len :
            Slot(i)' = IF i = l.len + 1 THEN s ELSE Slot(i)
      BY <1>11, <1>13, <2>3, <3>5 DEF Slot
    <3>2. InView(e) => \A i \in 1..view.len : Slot(i)' = Slot(i)
      <4>. SUFFICES ASSUME InView(e)
                    PROVE  \A i \in 1..view.len : Slot(i)' = Slot(i)
        OBVIOUS
      <4>1. PICK k \in 1..view.len : Slot(k) = e
        BY DEF InView
      <4>2. e \in SocketsOf(u)
        BY <1>4, <1>13, <3>5, <4>1, SharedArray
      <4>3. cur[u].len >= view.len
        BY <2>0, <3>5, <4>2 DEF Awaited, SocketsOf
      <4>. QED
        BY <1>2, <1>8, <3>1, <4>3
    <3>3. InView(e)' => InView(e)
      BY <1>6, <2>1, <3>1 DEF InView
    <3>4. InView(e) => InView(e)'
      BY <1>6, <3>2 DEF InView
    <3>. QED
      BY <2>0, <2>1, <3>2, <3>3, <3>4
  <2>. QED
    BY <2>2, <2>3
<1>14. Expecting'
  <2>. SUFFICES ASSUME ~torn, NEW e \in expected
                PROVE  Awaited(e)'
    BY <1>6 DEF Expecting
  <2>1. /\ conn[e] \in {"serving", "closing"}
        /\ \A k \in 1..view.len :
             Slot(k) = e => sent[e] = IF k <= index THEN 1 ELSE 0
        /\ ~InView(e) => sent[e] = 1
        /\ InView(e) =>
             /\ \A i, j \in 1..view.len : Slot(i) = Slot(j) => i = j
             /\ cur[Owner[e]].arr = view.arr =>
                  cur[Owner[e]].len >= view.len
    BY <1>13 DEF Awaited
  <2>2. conn'[e] \in {"serving", "closing"}
    BY <1>4, <1>6, <1>13, <2>1 DEF Typed, RestTypes
  <2>3. ~Shrinking(Owner[e])'
    BY <1>4, <1>6, <1>7 DEF Shrinking, AtWork, Typed, RestTypes
  <2>4. \A k \in 1..view.len : Slot(k)' = e =>
          sent[e] = IF k <= index THEN 1 ELSE 0
    <3>. SUFFICES ASSUME NEW k \in 1..view.len, Slot(k)' = e
                  PROVE  sent[e] = IF k <= index THEN 1 ELSE 0
      OBVIOUS
    <3>1. InView(e)'
      BY <1>6 DEF InView
    <3>2. Slot(k) = e
      BY <1>13, <3>1
    <3>. QED
      BY <2>1, <3>2
  <2>5. InView(e)' /\ cur'[Owner[e]].arr = view.arr =>
          cur'[Owner[e]].len >= view.len
    <3>. SUFFICES ASSUME InView(e), cur'[Owner[e]].arr = view.arr
                  PROVE  cur'[Owner[e]].len >= view.len
      BY <1>13
    <3>1. Owner[e] \in Users
      BY <1>13, HubAssumption
    <3>2. CASE Owner[e] = u
      <4>1. m.arr = view.arr
        BY <1>10, <3>2
      <4>2. l.len >= view.len
        BY <1>2, <1>10, <2>1, <3>2, <4>1 DEF ViewAfter
      <4>. QED
        BY <1>5, <1>8, <1>10, <3>2, <4>2
    <3>3. CASE Owner[e] # u
      BY <1>10, <2>1, <3>1, <3>3
    <3>. QED
      BY <3>2, <3>3
  <2>6. InView(e)' =>
          \A i, j \in 1..view.len : Slot(i)' = Slot(j)' => i = j
    BY <1>13, <2>1
  <2>7. ~InView(e)' => sent[e] = 1
    BY <1>13, <2>1
  <2>. QED
    BY <1>6, <2>2, <2>3, <2>4, <2>5, <2>6, <2>7 DEF Awaited
<1>. QED
  BY <1>12, <1>14

(* What is expected of the connections whose lists a step leaves alone, or *)
(* that the watcher does not range over.                                   *)
LEMMA ExpectingKept ==
  ASSUME Expecting, expected' \subseteq expected,
         view' = view, index' = index, sent' = sent, torn' = torn,
         ~torn => \A e \in expected' :
           Awaited(e) =>
             /\ conn'[e] \in {"serving", "closing"}
             /\ ~Shrinking(Owner[e])'
             /\ \/ ~InView(e) /\ ~InView(e)'
                \/ /\ \A i \in 1..view.len : Slot(i)' = Slot(i)
                   /\ cur'[Owner[e]] = cur[Owner[e]]
  PROVE  Expecting'
<1>. SUFFICES ASSUME ~torn, NEW e \in expected'
              PROVE  Awaited(e)'
  BY DEF Expecting
<1>4. Awaited(e)
  BY DEF Expecting
<1>1. /\ \A k \in 1..view.len :
           Slot(k) = e => sent[e] = IF k <= index THEN 1 ELSE 0
      /\ ~InView(e) => sent[e] = 1
      /\ InView(e) =>
           /\ \A i, j \in 1..view.len : Slot(i) = Slot(j) => i = j
           /\ cur[Owner[e]].arr = view.arr => cur[Owner[e]].len >= view.len
  BY <1>4 DEF Awaited
<1>5. conn'[e] \in {"serving", "closing"} /\ ~Shrinking(Owner[e])'
  BY <1>4
<1>2. CASE ~InView(e) /\ ~InView(e)'
  <2>1. \A k \in 1..view.len : Slot(k)' # e
    BY <1>2 DEF InView
  <2>. QED
    BY <1>1, <1>2, <1>5, <2>1 DEF Awaited
<1>3. CASE /\ \A i \in 1..view.len : Slot(i)' = Slot(i)
           /\ cur'[Owner[e]] = cur[Owner[e]]
  <2>1. InView(e)' <=> InView(e)
    BY <1>3 DEF InView
  <2>. QED
    BY <1>1, <1>3, <1>5, <2>1 DEF Awaited
<1>. QED
  BY <1>2, <1>3, <1>4

LEMMA ShiftPushes ==
  ASSUME IInv, NEW s \in Sockets, Shift(s)
  PROVE  Pushes' /\ Expecting'
<1>1. PICK u \in Users : u = Owner[s]
  BY HubAssumption
<1>2. PICK l : l = cur[u]
  OBVIOUS
<1>3. PICK b : b = Shifted(l, s)
  OBVIOUS
<1>4. Lists /\ Pushes /\ Expecting /\ Typed /\ RightView /\ Roll
        /\ Exclusive
  BY DEF IInv, Lists, Pushes
<1>5. /\ s \in Listed(l)
      /\ \E m : Change(u, m, b) /\ m.len = l.len - 1 /\ m.arr = l.arr
  BY <1>1, <1>2, <1>3, <1>4, ShiftChange
<1>6. PICK m : Change(u, m, b) /\ m.len = l.len - 1 /\ m.arr = l.arr
  BY <1>5
<1>7. /\ conn[s] = "removing"
      /\ holder' = holder
      /\ conn' = [conn EXCEPT ![s] = "removed"]
      /\ UNCHANGED watching
      /\ view' = view /\ audience' = audience /\ todo' = todo
      /\ sent' = sent /\ expected' = expected /\ index' = index
      /\ torn' = torn
  BY DEF Shift, watching
<1>8. holder = s /\ s # Nobody
  BY <1>4, <1>7, HubAssumption DEF Exclusive
<1>11. /\ cur'[u] = m
       /\ \A v \in Users : v # u => cur'[v] = cur[v]
       /\ ~torn => ViewAfter(u, m, b)
  BY <1>4, <1>6, <1>7, Changed
<1>13. ~torn /\ view.arr = m.arr => \A i \in 1..view.len :
         Slot(i) \in SocketsOf(u) /\ b[i] \in SocketsOf(u)
  <2>1. view.arr = m.arr => l.arr = view.arr
    BY <1>6
  <2>. QED
    BY <1>1, <1>2, <1>3, <1>4, <1>5, <2>1, SlotShifted
<1>14. Pushes'
  <2>1. ~torn /\ view.arr = m.arr => \A i \in 1..view.len : b[i] \in Sockets
    BY <1>13 DEF SocketsOf
  <2>. QED
    BY <1>4, <1>6, <1>7, <2>1, PushesChange
<1>15. Expecting'
  <2>1. ASSUME ~torn, NEW e \in expected, Awaited(e)
        PROVE  /\ conn'[e] \in {"serving", "closing"}
               /\ ~Shrinking(Owner[e])'
               /\ \/ ~InView(e) /\ ~InView(e)'
                  \/ /\ \A i \in 1..view.len : Slot(i)' = Slot(i)
                     /\ cur'[Owner[e]] = cur[Owner[e]]
    <3>1. e \in Sockets /\ conn[e] \in {"serving", "closing"}
          /\ ~Shrinking(Owner[e])
      BY <1>4, <2>1 DEF Awaited, Typed, RestTypes
    <3>2. e # s /\ conn'[e] \in {"serving", "closing"}
      BY <1>4, <1>7, <3>1 DEF Typed, RestTypes
    <3>4. Owner[e] # u /\ Owner[e] \in Users
      BY <1>1, <1>7, <1>8, <3>1, HubAssumption DEF Shrinking, AtWork
    <3>3. ~Shrinking(Owner[e])'
      BY <1>1, <1>7, <1>8, <3>4 DEF Shrinking, AtWork
    <3>5. cur'[Owner[e]] = cur[Owner[e]]
      BY <1>11, <3>4
    <3>6. CASE view.arr # m.arr
      BY <1>11, <2>1, <3>2, <3>3, <3>5, <3>6 DEF Slot, ViewAfter
    <3>7. CASE view.arr = m.arr
      <4>1. \A i \in 1..view.len : Slot(i) # e /\ b[i] # e
        BY <1>13, <2>1, <3>4, <3>7 DEF SocketsOf
      <4>2. \A i \in 1..view.len : Slot(i)' # e
        BY <1>11, <2>1, <3>7, <4>1 DEF Slot, ViewAfter
      <4>3. ~InView(e) /\ ~InView(e)'
        BY <1>7, <4>1, <4>2 DEF InView
      <4>. QED
        BY <3>2, <3>3, <4>3
    <3>. QED
      BY <3>6, <3>7
  <2>. QED
    BY <1>4, <1>7, <2>1, ExpectingKept
<1>. QED
  BY <1>14, <1>15

LEMMA StorePushes ==
  ASSUME IInv, NEW s \in Sockets, Register(s) \/ Unregister(s)
  PROVE  Pushes' /\ Expecting'
<1>1. Lists /\ Pushes /\ Expecting /\ Typed
  BY DEF IInv, Lists
<1>2. /\ conn[s] \in {"added", "removed"}
      /\ \E to : conn' = [conn EXCEPT ![s] = to]
      /\ holder' = Nobody
      /\ UNCHANGED <<heap, watcher, audience, todo, view, index, torn, sent,
                     expected>>
  BY DEF Register, Unregister, Store, watching
<1>3. cur' = cur
  BY <1>1, StoreLists
<1>4. Pushes'
  BY <1>1, <1>2, SamePushes
<1>5. Expecting'
  <2>1. ASSUME ~torn, NEW e \in expected, Awaited(e)
        PROVE  /\ conn'[e] \in {"serving", "closing"}
               /\ ~Shrinking(Owner[e])'
               /\ \A i \in 1..view.len : Slot(i)' = Slot(i)
               /\ cur'[Owner[e]] = cur[Owner[e]]
    <3>1. e \in Sockets /\ conn[e] \in {"serving", "closing"}
      BY <1>1, <2>1 DEF Awaited, Typed, RestTypes
    <3>2. conn'[e] = conn[e]
      BY <1>1, <1>2, <3>1 DEF Typed, RestTypes
    <3>3. ~Shrinking(Owner[e])'
      BY <1>2 DEF Shrinking, AtWork
    <3>. QED
      BY <1>2, <1>3, <3>1, <3>2, <3>3 DEF Slot, Array
  <2>. QED
    BY <1>1, <1>2, <2>1, ExpectingKept
<1>. QED
  BY <1>4, <1>5

-----------------------------------------------------------------------------
(* The steps of a handler that leave the lists alone.                      *)

(* No handler is halfway but who was.                                      *)
LEMMA SameLists ==
  ASSUME Lists, UNCHANGED <<clients, header, heap>>,
         RestTypes', Exclusive',
         \A s \in Sockets : conn'[s] # conn[s] =>
           /\ {conn[s], conn'[s]} \cap {"added", "removed"} = {}
           /\ Registered(s)' <=> Registered(s),
         \A u \in Users : Storing(u)' <=> Storing(u)
  PROVE  Lists' /\ cur' = cur
<1>1. cur' = cur
  BY SameCur
<1>2. ListTypes /\ OwnArrays /\ Roll /\ Halfway
  BY DEF Lists, Typed
<1>3. ListTypes'
  BY <1>1, <1>2 DEF ListTypes, Fits, Array
<1>4. OwnArrays'
  BY <1>1, <1>2 DEF OwnArrays, SocketsOf
<1>5. \A s \in Sockets : Registered(s)' <=> Registered(s)
  BY DEF Registered
<1>6. Roll'
  BY <1>1, <1>2, <1>5, SameRoll
<1>7. Halfway'
  <2>. SUFFICES ASSUME NEW s \in Sockets, conn'[s] \in {"added", "removed"}
                PROVE  Between(s, clients[Owner[s]], header)'
    BY DEF Halfway
  <2>1. conn'[s] = conn[s]
    OBVIOUS
  <2>2. Between(s, clients[Owner[s]], header)
    BY <1>2, <2>1 DEF Halfway
  <2>. QED
    BY <2>1, <2>2 DEF Between, Array, SocketsOf
<1>. QED
  BY <1>1, <1>3, <1>4, <1>6, <1>7 DEF Lists, Typed

LEMMA SameHub ==
  ASSUME Lists, UNCHANGED hub, RestTypes'
  PROVE  Lists' /\ cur' = cur
<1>1. UNCHANGED <<clients, header, heap, conn, holder>>
  BY DEF hub
<1>2. Exclusive'
  BY <1>1 DEF Lists, Exclusive
<1>3. \A u \in Users : Storing(u)' <=> Storing(u)
  BY <1>1 DEF Storing, AtWork
<1>. QED
  BY <1>1, <1>2, <1>3, SameLists

LEMMA LockStep ==
  ASSUME IInv, NEW s \in Sockets, Connect(s) \/ Return(s)
  PROVE  IInv'
<1>1. /\ Lists /\ Pushes /\ Expecting /\ RestTypes /\ Exclusive
  BY DEF IInv, Lists, Typed
<1>2. PICK from \in {"new", "closing"}, to \in {"adding", "removing"} :
        /\ conn[s] = from
        /\ from = "closing" <=> to = "removing"
        /\ holder = Nobody
        /\ holder' = s
        /\ conn' = [conn EXCEPT ![s] = to]
        /\ UNCHANGED <<up, clients, header, heap, topic, position, watcher,
                       audience, todo, view, index, torn, sent>>
        /\ expected' \subseteq expected
        /\ to = "removing" => expected' = expected \ SocketsOf(Owner[s])
  BY DEF Connect, Return, Lock, log
<1>8. /\ conn \in [Sockets -> ConnStates]
      /\ \A t \in Sockets : conn'[t] = IF t = s THEN to ELSE conn[t]
      /\ s # Nobody
  BY <1>1, <1>2, HubAssumption DEF RestTypes
<1>3. RestTypes'
  <2>1. torn \/ Fits(view)'
    BY <1>1, <1>2 DEF RestTypes, Fits, Array
  <2>2. conn' \in [Sockets -> ConnStates]
    BY <1>2, <1>8 DEF ConnStates
  <2>. QED
    BY <1>1, <1>2, <2>1, <2>2 DEF RestTypes
<1>11. /\ to \in {"adding", "removing"} /\ from \in {"new", "closing"}
       /\ conn[s] = from /\ holder = Nobody /\ holder' = s
  BY <1>2
<1>4. Exclusive'
  BY <1>1, <1>8, <1>11, HubAssumption DEF Exclusive
<1>5. \A t \in Sockets : conn'[t] # conn[t] =>
        /\ {conn[t], conn'[t]} \cap {"added", "removed"} = {}
        /\ Registered(t)' <=> Registered(t)
  BY <1>2, <1>8 DEF Registered
<1>9. \A u \in Users : Storing(u)' <=> Storing(u)
  BY <1>2, <1>8 DEF Storing, AtWork
<1>6. Lists' /\ Pushes' /\ cur' = cur
  BY <1>1, <1>2, <1>3, <1>4, <1>5, <1>9, SameLists, SamePushes
<1>7. Expecting'
  <2>1. ASSUME ~torn, NEW e \in expected', Awaited(e)
        PROVE  /\ conn'[e] \in {"serving", "closing"}
               /\ ~Shrinking(Owner[e])'
               /\ \A i \in 1..view.len : Slot(i)' = Slot(i)
               /\ cur'[Owner[e]] = cur[Owner[e]]
    <3>1. e \in expected /\ e \in Sockets
          /\ conn[e] \in {"serving", "closing"}
      BY <1>1, <1>2, <2>1 DEF Awaited, RestTypes
    <3>2. to = "removing" => Owner[e] # Owner[s]
      BY <1>2, <3>1 DEF SocketsOf
    <3>3. ~Shrinking(Owner[e])'
      BY <1>2, <1>8, <3>2 DEF Shrinking, AtWork
    <3>4. e # s
      BY <1>2, <3>1, <3>2
    <3>. QED
      BY <1>2, <1>6, <1>8, <3>1, <3>3, <3>4 DEF Slot, Array
  <2>. QED
    BY <1>1, <1>2, <2>1, ExpectingKept
<1>. QED
  BY <1>6, <1>7 DEF IInv

LEMMA DisconnectStep ==
  ASSUME IInv, NEW s \in Sockets, Disconnect(s)
  PROVE  IInv'
<1>1. /\ Lists /\ Pushes /\ Expecting /\ RestTypes /\ Exclusive
  BY DEF IInv, Lists, Typed
<1>2. /\ conn[s] = "serving"
      /\ conn' = [conn EXCEPT ![s] = "closing"]
      /\ UNCHANGED <<up, clients, header, heap, holder, topic, position,
                     watcher, audience, todo, view, index, torn, sent,
                     expected>>
  BY DEF Disconnect, log, watching
<1>8. /\ conn \in [Sockets -> ConnStates]
      /\ \A t \in Sockets : conn'[t] = IF t = s THEN "closing" ELSE conn[t]
      /\ holder \in Sockets \cup {Nobody}
  BY <1>1, <1>2 DEF RestTypes
<1>3. RestTypes'
  <2>1. torn \/ Fits(view)'
    BY <1>1, <1>2 DEF RestTypes, Fits, Array
  <2>2. conn' \in [Sockets -> ConnStates]
    BY <1>2, <1>8 DEF ConnStates
  <2>. QED
    BY <1>1, <1>2, <2>1, <2>2 DEF RestTypes
<1>4. Exclusive'
  BY <1>1, <1>2, <1>8 DEF Exclusive
<1>5. \A t \in Sockets : conn'[t] # conn[t] =>
        /\ {conn[t], conn'[t]} \cap {"added", "removed"} = {}
        /\ Registered(t)' <=> Registered(t)
  BY <1>2, <1>8 DEF Registered
<1>9. \A u \in Users : Storing(u)' <=> Storing(u)
  BY <1>2, <1>8 DEF Storing, AtWork
<1>6. Lists' /\ Pushes' /\ cur' = cur
  BY <1>1, <1>2, <1>3, <1>4, <1>5, <1>9, SameLists, SamePushes
<1>7. Expecting'
  <2>1. ASSUME ~torn, NEW e \in expected, Awaited(e)
        PROVE  /\ conn'[e] \in {"serving", "closing"}
               /\ ~Shrinking(Owner[e])'
               /\ \A i \in 1..view.len : Slot(i)' = Slot(i)
               /\ cur'[Owner[e]] = cur[Owner[e]]
    <3>1. e \in Sockets /\ conn[e] \in {"serving", "closing"}
          /\ ~Shrinking(Owner[e])
      BY <1>1, <2>1 DEF Awaited, RestTypes
    <3>3. ~Shrinking(Owner[e])'
      BY <1>2, <1>8, <3>1 DEF Shrinking, AtWork
    <3>. QED
      BY <1>2, <1>6, <1>8, <3>1, <3>3 DEF Slot, Array
  <2>. QED
    BY <1>1, <1>2, <2>1, ExpectingKept
<1>. QED
  BY <1>6, <1>7 DEF IInv

-----------------------------------------------------------------------------
(* The steps of the watcher.                                               *)

(* Before a message is read nothing is expected and nothing written.       *)
LEMMA RestingStep ==
  ASSUME IInv, watcher = "reading", UNCHANGED hub, RestTypes',
         UNCHANGED <<view, index, torn, sent, expected>>,
         watcher' # "reading"
  PROVE  IInv'
<1>1. Lists /\ Pushes
  BY DEF IInv
<1>2. /\ view = NilSlice /\ index = 0
      /\ sent = [s \in Sockets |-> 0] /\ expected = {}
  BY <1>1 DEF Pushes, Resting
<1>3. view'.len = 0
  BY <1>2 DEF NilSlice
<1>4. Lists'
  BY <1>1, SameHub
<1>5. Pushes'
  BY <1>2, <1>3 DEF Pushes, RightView, RightOwner, Resting
<1>6. Expecting'
  BY <1>2 DEF Expecting
<1>. QED
  BY <1>4, <1>5, <1>6 DEF IInv

LEMMA ReadMessageStep ==
  ASSUME IInv, NEW p \in Partitions, ReadMessage(p)
  PROVE  IInv'
<1>1. RestTypes
  BY DEF IInv, Lists, Typed
<1>2. /\ watcher = "reading"
      /\ position[p] < Len(topic[p])
      /\ position' = [position EXCEPT ![p] = @ + 1]
      /\ watcher' = "pushing"
      /\ audience' \in {topic[p][position'[p]], {}}
      /\ todo' = audience'
      /\ UNCHANGED hub
      /\ UNCHANGED <<up, heap, conn, holder, topic, view, index, torn, sent,
                     expected>>
  BY DEF ReadMessage, hub
<1>3. RestTypes'
  <2>1. /\ topic[p] \in Seq(SUBSET Users) /\ Len(topic[p]) <= MaxLog
        /\ position[p] \in Nat /\ position'[p] = position[p] + 1
    BY <1>1, <1>2 DEF RestTypes
  <2>2. position'[p] \in 1..Len(topic[p])
    BY <1>2, <2>1
  <2>3. topic[p][position'[p]] \in SUBSET Users
    BY <2>1, <2>2
  <2>4. audience' \subseteq Users /\ todo' \subseteq audience'
    BY <1>2, <2>3
  <2>5. position' \in [Partitions -> 0..MaxLog]
    BY <1>1, <1>2, <2>1, <2>2, HubAssumption DEF RestTypes
  <2>6. torn \/ Fits(view)'
    BY <1>1, <1>2 DEF RestTypes, Fits, Array
  <2>. QED
    BY <1>1, <1>2, <2>4, <2>5, <2>6 DEF RestTypes
<1>. QED
  BY <1>2, <1>3, RestingStep

LEMMA ReadErrorStep ==
  ASSUME IInv, ReadError
  PROVE  IInv'
<1>1. RestTypes
  BY DEF IInv, Lists, Typed
<1>2. /\ watcher = "reading"
      /\ watcher' = "ended"
      /\ UNCHANGED hub
      /\ UNCHANGED <<up, heap, conn, holder, topic, position, audience, todo,
                     view, index, torn, sent, expected>>
  BY DEF ReadError, hub, log
<1>3. RestTypes'
  <2>1. torn \/ Fits(view)'
    BY <1>1, <1>2 DEF RestTypes, Fits, Array
  <2>. QED
    BY <1>1, <1>2, <2>1 DEF RestTypes
<1>. QED
  BY <1>2, <1>3, RestingStep

(* The range over a list ends: whoever is expected was written to.         *)
LEMMA AllWritten ==
  ASSUME IInv, ~torn, index = view.len, NEW e \in expected
  PROVE  sent[e] = 1
<1>1. /\ \A k \in 1..view.len :
           Slot(k) = e => sent[e] = IF k <= index THEN 1 ELSE 0
      /\ ~InView(e) => sent[e] = 1
  BY DEF IInv, Expecting, Awaited
<1>2. view.len \in Nat
  BY DEF IInv, Lists, Typed, RestTypes
<1>. QED
  BY <1>1, <1>2 DEF InView

(* What the unlocked read gives: if it fits its array, the slots of it are *)
(* connections of u; if it is what the map held, and no connection is      *)
(* being removed, it is the beginning of the list under change.            *)
LEMMA FoundFacts ==
  ASSUME Lists, NEW u \in Users, NEW l \in Found(u)
  PROVE  /\ l \in [arr : Nat, len : Nat]
         /\ Fits(l) => \A i \in 1..l.len : Array(l)[i] \in SocketsOf(u)
         /\ Listed(clients[u]) \subseteq SocketsOf(u)
         /\ ~Shrinking(u) =>
              /\ clients[u].len <= cur[u].len
              /\ \A i \in 1..clients[u].len :
                   /\ Array(clients[u])[i] = Array(cur[u])[i]
                   /\ conn[Array(clients[u])[i]] \in {"serving", "closing"}
<1>1. Typed /\ ListTypes /\ RestTypes /\ Exclusive /\ Roll /\ Halfway
  BY DEF Lists, Typed
<1>2. PICK k : k = clients[u]
  OBVIOUS
<1>3. PICK c : c = cur[u]
  OBVIOUS
<1>4. /\ k \in [arr : Nat, len : Nat] /\ k.len \in Nat
      /\ k.len <= Len(Array(k)) /\ Len(Array(k)) \in Nat
  BY <1>1, <1>2, ArrayFacts
<1>5. /\ c \in [arr : Nat, len : Nat] /\ c.len \in Nat
  BY <1>1, <1>3, ArrayFacts
<1>6. /\ Listed(c) = {s \in SocketsOf(u) : Registered(s)}
      /\ \A i, j \in 1..c.len : Array(c)[i] = Array(c)[j] => i = j
      /\ \A i \in 1..c.len : Array(c)[i] \in SocketsOf(u)
  <2>1. /\ Listed(c) = {s \in SocketsOf(u) : Registered(s)}
        /\ \A i, j \in 1..c.len : Array(c)[i] = Array(c)[j] => i = j
    BY <1>1, <1>3 DEF Roll
  <2>2. \A i \in 1..c.len : Array(c)[i] \in Listed(c)
    BY DEF Listed
  <2>. QED
    BY <2>1, <2>2
<1>7. CASE ~Storing(u)
  <2>1. c = k
    BY <1>2, <1>3, <1>7 DEF cur, Current
  <2>2. l = k \/ l = NilSlice
    BY <1>2, <1>7 DEF Found
  <2>3. l \in [arr : Nat, len : Nat] /\ \A i \in 1..l.len : l = k
    BY <1>4, <2>2 DEF NilSlice
  <2>4. ASSUME ~Shrinking(u), NEW i \in 1..k.len
        PROVE  conn[Array(k)[i]] \in {"serving", "closing"}
    <3>1. PICK s : s = Array(k)[i]
      OBVIOUS
    <3>2. s \in SocketsOf(u) /\ Registered(s)
      <4>1. s \in Listed(c)
        BY <2>1, <3>1 DEF Listed
      <4>. QED
        BY <1>6, <4>1
    <3>3. s \in Sockets /\ Owner[s] = u
      BY <3>2 DEF SocketsOf
    <3>4. conn[s] \notin {"added", "removing"}
      <4>. SUFFICES ASSUME conn[s] \in {"added", "removing"} PROVE FALSE
        OBVIOUS
      <4>1. holder = s /\ s # Nobody
        BY <1>1, <3>3, HubAssumption DEF Exclusive
      <4>. QED
        BY <1>7, <2>4, <3>3, <4>1 DEF Storing, Shrinking, AtWork
    <3>. QED
      BY <3>1, <3>2, <3>4 DEF Registered
  <2>. QED
    BY <1>2, <1>3, <1>4, <1>6, <2>1, <2>3, <2>4 DEF Listed
<1>8. CASE Storing(u)
  <2>1. PICK s \in Sockets :
          /\ s = holder /\ Owner[s] = u /\ conn[s] \in {"added", "removed"}
    BY <1>1, <1>8 DEF Storing, AtWork, RestTypes
  <2>2. c = header
    BY <1>3, <1>8 DEF cur, Current
  <2>3. Between(s, k, c)
    BY <1>1, <1>2, <2>1, <2>2 DEF Halfway
  <2>4. \A i \in 1..k.len : Array(k)[i] \in SocketsOf(u)
    BY <2>1, <2>3 DEF Between
  <2>5. \/ l = k
        \/ l = NilSlice
        \/ l \in [arr : {k.arr, c.arr}, len : {k.len, c.len}]
    BY <1>2, <2>2 DEF Found
  <2>6. l \in [arr : Nat, len : Nat]
    BY <1>4, <1>5, <2>5 DEF NilSlice
  <2>7. ASSUME Fits(l), NEW i \in 1..l.len
        PROVE  Array(l)[i] \in SocketsOf(u)
    <3>1. \A d : d.arr = k.arr => Array(d) = Array(k)
      BY DEF Array
    <3>2. \A d : d.arr = c.arr => Array(d) = Array(c)
      BY DEF Array
    <3>3. l.len \in {0, k.len, c.len} /\ l.len # 0
      BY <1>4, <2>5, <2>6, <2>7 DEF NilSlice
    <3>4. l.arr \in {k.arr, c.arr}
      BY <2>5, <3>3 DEF NilSlice
    <3>5. CASE l.arr = k.arr /\ l.len = k.len
      BY <2>4, <3>1, <3>5
    <3>6. CASE l.arr = c.arr /\ l.len = c.len
      BY <1>6, <3>2, <3>6
    <3>7. CASE k.arr = c.arr
      BY <3>3, <3>4, <3>5, <3>6, <3>7
    <3>8. CASE k.arr # c.arr
      <4>1. /\ conn[s] = "added" /\ c.len = k.len + 1
            /\ Len(Array(k)) = k.len
        BY <2>1, <2>3, <3>8 DEF Between
      <4>2. CASE l.arr = k.arr /\ l.len = c.len
        BY <1>4, <2>7, <3>1, <4>1, <4>2 DEF Fits
      <4>3. CASE l.arr = c.arr /\ l.len = k.len
        <5>1. i \in 1..c.len
          BY <1>4, <4>1, <4>3
        <5>. QED
          BY <1>6, <3>2, <4>3, <5>1
      <4>. QED
        BY <3>3, <3>4, <3>5, <3>6, <4>2, <4>3
    <3>. QED
      BY <3>7, <3>8
  <2>8. ASSUME ~Shrinking(u)
        PROVE  /\ k.len <= c.len
               /\ \A i \in 1..k.len :
                    /\ Array(k)[i] = Array(c)[i]
                    /\ conn[Array(k)[i]] \in {"serving", "closing"}
    <3>1. conn[s] = "added"
      <4>1. s # Nobody
        BY HubAssumption
      <4>. QED
        BY <2>1, <2>8, <4>1 DEF Shrinking, AtWork
    <3>2. /\ c.len = k.len + 1
          /\ Array(c)[c.len] = s
          /\ \A i \in 1..k.len : Array(c)[i] = Array(k)[i]
      BY <2>3, <3>1 DEF Between
    <3>3. ASSUME NEW i \in 1..k.len
          PROVE  conn[Array(k)[i]] \in {"serving", "closing"}
      <4>1. PICK t : t = Array(c)[i]
        OBVIOUS
      <4>2. i \in 1..c.len /\ c.len \in 1..c.len /\ i # c.len
        BY <1>4, <1>5, <3>2
      <4>3. t # s
        BY <1>6, <3>2, <4>1, <4>2
      <4>4. t \in SocketsOf(u) /\ Registered(t)
        <5>1. t \in Listed(c)
          BY <4>1, <4>2 DEF Listed
        <5>. QED
          BY <1>6, <5>1
      <4>5. conn[t] \notin {"added", "removing"}
        BY <1>1, <2>1, <4>3, <4>4 DEF Exclusive, SocketsOf
      <4>6. conn[t] \in {"serving", "closing"}
        BY <4>4, <4>5 DEF Registered
      <4>. QED
        BY <3>2, <4>1, <4>6
    <3>. QED
      BY <1>4, <3>2, <3>3
  <2>9. Listed(k) \subseteq SocketsOf(u)
    BY <2>4 DEF Listed
  <2>. QED
    BY <1>2, <1>3, <2>6, <2>7, <2>8, <2>9
<1>. QED
  BY <1>7, <1>8

LEMMA LookupStep ==
  ASSUME IInv, NEW u \in Users, Lookup(u)
  PROVE  IInv'
<1>1. Lists /\ Pushes /\ Expecting /\ RestTypes /\ Roll /\ RightOwner
        /\ Typed
  BY DEF IInv, Lists, Pushes, Typed
<1>2. PICK l \in Found(u) :
        /\ watcher = "pushing"
        /\ index = view.len
        /\ u \in todo
        /\ todo' = todo \ {u}
        /\ view' = l
        /\ index' = 0
        /\ torn' = (torn \/ ~Fits(view'))
        /\ expected' = IF l = clients[u] /\ ~Shrinking(u)
                         THEN expected \cup Listed(clients[u])
                         ELSE expected
        /\ UNCHANGED hub
        /\ UNCHANGED <<up, clients, heap, conn, holder, topic, position,
                       watcher, audience, sent>>
  BY DEF Lookup, hub, log
<1>3. /\ l \in [arr : Nat, len : Nat]
      /\ Fits(l) => \A i \in 1..l.len : Array(l)[i] \in SocketsOf(u)
      /\ Listed(clients[u]) \subseteq SocketsOf(u)
      /\ ~Shrinking(u) =>
           /\ clients[u].len <= cur[u].len
           /\ \A i \in 1..clients[u].len :
                /\ Array(clients[u])[i] = Array(cur[u])[i]
                /\ conn[Array(clients[u])[i]] \in {"serving", "closing"}
  BY <1>1, FoundFacts
<1>7. \A i : Slot(i)' = Array(l)[i]
  BY <1>2 DEF Slot, Array
<1>8. torn' \in BOOLEAN /\ (torn' \/ Fits(l)) /\ (torn' <=> torn \/ ~Fits(l))
  <2>1. Fits(view') <=> Fits(l)
    BY <1>2
  <2>. QED
    BY <1>1, <1>2, <2>1 DEF RestTypes
<1>9. RestTypes'
  <2>1. torn' \/ Fits(view)'
    BY <1>2, <1>8 DEF Fits, Array
  <2>2. expected' \subseteq Sockets
    BY <1>1, <1>2, <1>3 DEF RestTypes, SocketsOf
  <2>3. index' \in 0..view'.len /\ view' \in [arr : Nat, len : Nat]
    BY <1>2, <1>3
  <2>4. todo' \subseteq audience'
    BY <1>1, <1>2 DEF RestTypes
  <2>5. torn' \in BOOLEAN
    BY <1>8
  <2>. QED
    BY <1>1, <1>2, <2>1, <2>2, <2>3, <2>4, <2>5 DEF RestTypes
<1>11. Lists' /\ cur' = cur
  BY <1>1, <1>2, <1>9, SameHub
<1>12. u \in audience \ todo' /\ todo' \subseteq todo
  BY <1>1, <1>2 DEF RestTypes
<1>13. Pushes'
  <2>1. RightView'
    <3>. SUFFICES ASSUME ~torn', NEW i \in 1..l.len
                  PROVE  Slot(i)' \in Sockets
                         /\ Owner[Slot(i)'] \in audience \ todo'
      BY <1>2 DEF RightView
    <3>1. Slot(i)' \in SocketsOf(u)
      BY <1>3, <1>7, <1>8
    <3>. QED
      BY <1>12, <3>1 DEF SocketsOf
  <2>2. RightOwner'
    BY <1>1, <1>2, <1>8 DEF RightOwner
  <2>3. Resting'
    BY <1>2 DEF Resting
  <2>. QED
    BY <2>1, <2>2, <2>3 DEF Pushes
<1>14. ASSUME ~torn', NEW e \in expected
       PROVE  /\ conn[e] \in {"serving", "closing"}
              /\ ~Shrinking(Owner[e])
              /\ sent[e] = 1
              /\ ~InView(e)'
  <2>0. ~torn /\ Fits(l)
    BY <1>8, <1>14
  <2>1. /\ conn[e] \in {"serving", "closing"} /\ ~Shrinking(Owner[e])
        /\ e \in Sockets
    BY <1>1, <2>0 DEF Expecting, Awaited, RestTypes
  <2>2. sent[e] = 1
    BY <1>2, <2>0, AllWritten
  <2>3. Owner[e] \in audience \ todo
    BY <1>1, <2>0, <2>1, <2>2 DEF RightOwner
  <2>4. e \notin SocketsOf(u)
    BY <1>2, <2>3 DEF SocketsOf
  <2>5. ~InView(e)'
    BY <1>2, <1>3, <1>7, <2>0, <2>4 DEF InView
  <2>. QED
    BY <2>1, <2>2, <2>5
<1>15. ASSUME ~torn', l = clients[u], ~Shrinking(u), NEW e \in Listed(l)
       PROVE  /\ conn[e] \in {"serving", "closing"}
              /\ Owner[e] = u
              /\ sent[e] = 0
              /\ InView(e)'
  <2>1. PICK k \in 1..l.len : Array(l)[k] = e
    BY DEF Listed
  <2>2. e \in Sockets /\ Owner[e] = u
    BY <1>3, <1>15 DEF SocketsOf
  <2>3. conn[e] \in {"serving", "closing"}
    BY <1>3, <1>15, <2>1
  <2>4. sent[e] \in Nat /\ ~(sent[e] > 0)
    BY <1>1, <1>2, <1>8, <1>15, <2>2 DEF RightOwner, RestTypes
  <2>6. InView(e)'
    BY <1>2, <1>7, <2>1 DEF InView
  <2>. QED
    BY <2>2, <2>3, <2>4, <2>6
<1>16. Expecting'
  <2>. SUFFICES ASSUME ~torn', NEW e \in expected'
                PROVE  Awaited(e)'
    BY DEF Expecting
  <2>0. l.len \in Nat
    BY <1>3
  <2>1. CASE e \in expected
    <3>1. ~Shrinking(Owner[e])' /\ conn'[e] = conn[e]
      BY <1>2, <1>14, <2>1 DEF Shrinking, AtWork
    <3>2. \A k \in 1..l.len : Slot(k)' # e
      BY <1>2, <1>14, <2>1 DEF InView
    <3>3. /\ conn[e] \in {"serving", "closing"} /\ sent[e] = 1
          /\ ~InView(e)'
      BY <1>14, <2>1
    <3>. QED
      BY <1>2, <3>1, <3>2, <3>3 DEF Awaited
  <2>2. CASE e \notin expected
    <3>1. l = clients[u] /\ ~Shrinking(u) /\ e \in Listed(l)
      BY <1>2, <2>2
    <3>2. /\ conn[e] \in {"serving", "closing"} /\ Owner[e] = u
          /\ sent[e] = 0 /\ InView(e)'
      BY <1>15, <3>1
    <3>3. ~Shrinking(Owner[e])' /\ conn'[e] = conn[e]
      BY <1>2, <3>1, <3>2 DEF Shrinking, AtWork
    <3>4. cur'[Owner[e]].len >= l.len
      <4>1. cur[u].len \in Nat /\ l.len <= cur[u].len
        BY <1>1, <1>3, <3>1, ArrayFacts
      <4>. QED
        BY <1>11, <2>0, <3>2, <4>1
    <3>5. \A i, j \in 1..l.len : Slot(i)' = Slot(j)' => i = j
      <4>1. \A i, j \in 1..cur[u].len :
              Array(cur[u])[i] = Array(cur[u])[j] => i = j
        BY <1>1 DEF Roll
      <4>2. \A i \in 1..l.len : Slot(i)' = Array(cur[u])[i]
        BY <1>3, <1>7, <3>1
      <4>3. \A i \in 1..l.len : i \in 1..cur[u].len
        <5>1. cur[u].len \in Nat /\ l.len <= cur[u].len
          BY <1>1, <1>3, <3>1, ArrayFacts
        <5>. QED
          BY <2>0, <5>1
      <4>. QED
        BY <4>1, <4>2, <4>3
    <3>6. \A k \in 1..l.len : ~(k <= 0)
      BY <2>0
    <3>. QED
      BY <1>2, <3>2, <3>3, <3>4, <3>5, <3>6 DEF Awaited
  <2>. QED
    BY <2>1, <2>2
<1>. QED
  BY <1>11, <1>13, <1>16 DEF IInv

(* What Push finds in a slot.                                              *)
LEMMA FoundInSlot ==
  ASSUME IInv, ~torn, index < view.len, NEW i, i = index + 1,
         NEW x \in InSlot(i)
  PROVE  /\ x \in Sockets /\ Owner[x] \in audience \ todo
         /\ \A e \in expected : InView(e) => (x = e <=> Slot(i) = e)
         /\ \A e \in expected : ~InView(e) => x # e
<1>1. Lists /\ Pushes /\ Expecting /\ Typed /\ Exclusive /\ Roll
        /\ RightView
  BY DEF IInv, Lists, Pushes
<1>2. i \in 1..view.len /\ view.arr # 0 /\ Array(view) = heap[view.arr]
  <2>1. index \in Nat /\ view.len \in Nat
    BY <1>1 DEF Typed, RestTypes
  <2>2. /\ view.arr # 0 => Array(view) = heap[view.arr]
        /\ view.arr = 0 => view.len = 0
    BY <1>1, ArrayFacts
  <2>. QED
    BY <2>1, <2>2
<1>3. Slot(i) = heap[view.arr][i]
  BY <1>2 DEF Slot
<1>4. CASE x = Slot(i)
  BY <1>1, <1>2, <1>4 DEF RightView, InView
<1>5. ASSUME x # Slot(i)
      PROVE  /\ holder \in Sockets /\ conn[holder] \in {"adding", "removing"}
             /\ cur[Owner[holder]].arr = view.arr
             /\ conn[holder] = "removing" =>
                  x = Shifted(cur[Owner[holder]], holder)[i]
             /\ conn[holder] = "adding" =>
                  /\ cur[Owner[holder]].len < Len(Array(cur[Owner[holder]]))
                  /\ x = Appended(cur[Owner[holder]], holder)[i]
  <2>1. holder \in Sockets \cup {Nobody} /\ holder # Nobody
    BY <1>1, <1>3, <1>5 DEF InSlot, Typed, RestTypes
  <2>2. conn[holder] \in {"adding", "removing"}
    BY <1>3, <1>5, <2>1 DEF InSlot
  <2>3. cur[Owner[holder]] = clients[Owner[holder]]
    BY <2>1, <2>2, HubAssumption DEF cur, Current, Storing, AtWork
  <2>. QED
    BY <1>3, <1>5, <2>1, <2>2, <2>3 DEF InSlot
<1>6. ASSUME x # Slot(i)
      PROVE  /\ x \in Sockets /\ Owner[x] \in audience \ todo
             /\ \A e \in expected : InView(e) => (x = e <=> Slot(i) = e)
             /\ \A e \in expected : ~InView(e) => x # e
  <2>1. PICK s \in Sockets : s = holder
    BY <1>5, <1>6
  <2>2. PICK u \in Users : u = Owner[s]
    BY HubAssumption
  <2>3. PICK l : l = cur[u]
    OBVIOUS
  <2>4. l.arr = view.arr /\ conn[s] \in {"adding", "removing"}
    BY <1>5, <1>6, <2>1, <2>2, <2>3
  <2>5. u \in audience \ todo
    BY <1>1, <1>2, <2>3, <2>4, SharedArray
  <2>6. CASE conn[s] = "removing"
    <3>1. PICK b : b = Shifted(l, s)
      OBVIOUS
    <3>2. x = b[i]
      BY <1>5, <1>6, <2>1, <2>2, <2>3, <2>6, <3>1
    <3>3. s \in Listed(l)
      BY <1>1, <2>2, <2>3, <2>6 DEF Roll, Registered, SocketsOf
    <3>4. \A j \in 1..view.len : Slot(j) \in SocketsOf(u)
      BY <1>1, <2>3, <2>4, SharedArray
    <3>5. x \in SocketsOf(u)
      BY <1>1, <1>2, <2>2, <2>3, <2>4, <3>1, <3>2, <3>3, SlotShifted
    <3>6. \A e \in expected : e \notin SocketsOf(u)
      <4>. SUFFICES ASSUME NEW e \in expected PROVE Owner[e] # u
        BY DEF SocketsOf
      <4>1. ~Shrinking(Owner[e])
        BY <1>1 DEF Expecting, Awaited
      <4>. QED
        BY <2>1, <2>2, <2>6, <4>1, HubAssumption DEF Shrinking, AtWork
    <3>7. \A e \in expected : ~InView(e) /\ x # e
      BY <3>4, <3>5, <3>6 DEF InView
    <3>. QED
      BY <2>5, <3>5, <3>7 DEF SocketsOf
  <2>7. CASE conn[s] = "adding"
    <3>1. PICK b : b = Appended(l, s)
      OBVIOUS
    <3>2. x = b[i] /\ l.len < Len(Array(l))
      BY <1>5, <1>6, <2>1, <2>2, <2>3, <2>7, <3>1
    <3>3. /\ i = l.len + 1 => b[i] = s
          /\ i # l.len + 1 => b[i] = Slot(i)
      BY <1>1, <1>2, <2>2, <2>3, <2>4, <3>1, <3>2, SlotAppended
    <3>4. i = l.len + 1 /\ x = s
      BY <1>6, <3>2, <3>3
    <3>5. \A e \in expected : x # e
      BY <1>1, <2>7, <3>4 DEF Expecting, Awaited
    <3>6. \A e \in expected : InView(e) => Slot(i) # e
      <4>. SUFFICES ASSUME NEW e \in expected, Slot(i) = e
                    PROVE  FALSE
        OBVIOUS
      <4>1. InView(e)
        BY <1>2 DEF InView
      <4>2. Owner[e] = u
        BY <1>1, <1>2, <2>3, <2>4, SharedArray DEF SocketsOf
      <4>3. l.len >= view.len
        BY <1>1, <2>3, <2>4, <4>1, <4>2 DEF Expecting, Awaited
      <4>4. l.len \in Nat /\ view.len \in Nat
        BY <1>1, <2>3, ArrayFacts
      <4>. QED
        BY <1>2, <3>4, <4>3, <4>4
    <3>. QED
      BY <2>2, <2>5, <3>4, <3>5, <3>6
  <2>. QED
    BY <2>4, <2>6, <2>7
<1>. QED
  BY <1>4, <1>6

LEMMA PushStep ==
  ASSUME IInv, Push
  PROVE  IInv'
<1>1. Lists /\ Pushes /\ Expecting /\ RestTypes /\ RightOwner /\ RightView
  BY DEF IInv, Lists, Pushes, Typed
<1>2. PICK x \in InSlot(index + 1) : sent' = [sent EXCEPT ![x] = @ + 1]
  BY DEF Push
<1>3. /\ watcher = "pushing"
      /\ index < view.len
      /\ index' = index + 1
      /\ UNCHANGED hub
      /\ UNCHANGED <<up, heap, conn, holder, topic, position, watcher,
                     audience, todo, view, torn, expected>>
  BY DEF Push, hub, log
<1>4. PICK i : i = index + 1
  OBVIOUS
<1>5. ~torn =>
        /\ x \in Sockets /\ Owner[x] \in audience \ todo
        /\ \A e \in expected : InView(e) => (x = e <=> Slot(i) = e)
        /\ \A e \in expected : ~InView(e) => x # e
  BY <1>2, <1>3, <1>4, FoundInSlot
<1>6. /\ index \in Nat /\ view.len \in Nat /\ i \in 1..view.len
      /\ sent \in [Sockets -> Nat]
  BY <1>1, <1>3, <1>4 DEF RestTypes
<1>7. \A t \in Sockets : sent'[t] = IF t = x THEN sent[t] + 1 ELSE sent[t]
  BY <1>2, <1>6
<1>8. RestTypes'
  <2>2. torn \/ Fits(view)'
    BY <1>1, <1>3 DEF RestTypes, Fits, Array
  <2>1. sent' = [t \in Sockets |-> IF t = x THEN sent[t] + 1 ELSE sent[t]]
    BY <1>2, <1>6
  <2>3. sent' \in [Sockets -> Nat]
    BY <1>6, <2>1
  <2>4. index' \in 0..view'.len
    BY <1>3, <1>6
  <2>. QED
    BY <1>1, <1>3, <2>2, <2>3, <2>4 DEF RestTypes
<1>10. Lists' /\ cur' = cur
  BY <1>1, <1>3, <1>8, SameHub
<1>11. \A j : Slot(j)' = Slot(j)
  BY <1>3 DEF Slot, Array
<1>12. Pushes'
  <2>1. RightView'
    BY <1>1, <1>3, <1>11 DEF RightView
  <2>2. RightOwner'
    BY <1>1, <1>3, <1>5, <1>7 DEF RightOwner
  <2>3. Resting'
    BY <1>3 DEF Resting
  <2>. QED
    BY <2>1, <2>2, <2>3 DEF Pushes
<1>13. Expecting'
  <2>. SUFFICES ASSUME ~torn, NEW e \in expected PROVE Awaited(e)'
    BY <1>3 DEF Expecting
  <2>1. /\ conn[e] \in {"serving", "closing"}
        /\ ~Shrinking(Owner[e])
        /\ \A k \in 1..view.len :
             Slot(k) = e => sent[e] = IF k <= index THEN 1 ELSE 0
        /\ ~InView(e) => sent[e] = 1
        /\ InView(e) =>
             /\ \A j, k \in 1..view.len : Slot(j) = Slot(k) => j = k
             /\ cur[Owner[e]].arr = view.arr => cur[Owner[e]].len >= view.len
    BY <1>1 DEF Expecting, Awaited
  <2>2. ~Shrinking(Owner[e])' /\ conn'[e] = conn[e]
    BY <1>3, <2>1 DEF Shrinking, AtWork
  <2>3. e \in Sockets
    BY <1>1 DEF RestTypes
  <2>4. ~InView(e) => sent'[e] = 1
    BY <1>5, <1>7, <2>1, <2>3
  <2>5. ASSUME NEW k \in 1..view.len, Slot(k) = e
        PROVE  sent'[e] = IF k <= i THEN 1 ELSE 0
    <3>1. InView(e)
      BY <2>5 DEF InView
    <3>2. Slot(i) = e <=> i = k
      BY <1>6, <2>1, <2>5, <3>1
    <3>3. x = e <=> i = k
      BY <1>5, <3>1, <3>2
    <3>4. sent[e] = IF k <= index THEN 1 ELSE 0
      BY <2>1, <2>5
    <3>. QED
      BY <1>4, <1>6, <1>7, <2>3, <3>3, <3>4
  <2>6. InView(e)' <=> InView(e)
    BY <1>3, <1>11 DEF InView
  <2>. QED
    BY <1>3, <1>4, <1>10, <1>11, <2>1, <2>2, <2>4, <2>5, <2>6 DEF Awaited
<1>. QED
  BY <1>10, <1>12, <1>13 DEF IInv

(* Only a torn header lets the watcher read past the end of an array.      *)
LEMMA OverrunStep ==
  ASSUME IInv, Overrun, ~Die
  PROVE  IInv'
<1>1. Lists /\ Pushes /\ Expecting /\ RestTypes /\ Typed
  BY DEF IInv, Lists, Typed
<1>2. PICK x \in Sockets : sent' = [sent EXCEPT ![x] = @ + 1]
  BY DEF Overrun
<1>3. /\ watcher = "pushing"
      /\ index < view.len
      /\ index >= Len(Array(view))
      /\ index' = index + 1
      /\ UNCHANGED hub
      /\ UNCHANGED <<up, heap, topic, position, watcher, audience, todo,
                     view, torn, expected>>
  BY DEF Overrun, hub, log
<1>4. index \in Nat /\ view.len \in Nat /\ sent \in [Sockets -> Nat]
  BY <1>1 DEF RestTypes
<1>5. torn
  <2>. SUFFICES ASSUME ~torn PROVE FALSE
    OBVIOUS
  <2>1. view.len <= Len(Array(view)) /\ Len(Array(view)) \in Nat
    BY <1>1, ArrayFacts
  <2>. QED
    BY <1>3, <1>4, <2>1
<1>6. RestTypes'
  <2>1. index' \in 0..view'.len /\ sent' \in [Sockets -> Nat]
    BY <1>2, <1>3, <1>4
  <2>. QED
    BY <1>1, <1>3, <1>5, <2>1 DEF RestTypes, hub
<1>7. Lists'
  BY <1>1, <1>3, <1>6, SameHub
<1>8. Pushes'
  BY <1>3, <1>5 DEF Pushes, RightView, RightOwner, Resting
<1>9. Expecting'
  BY <1>3, <1>5 DEF Expecting
<1>. QED
  BY <1>7, <1>8, <1>9 DEF IInv

-----------------------------------------------------------------------------
(* The process.                                                            *)

Written ==
  /\ topic \in [Partitions -> Seq(SUBSET Users)]
  /\ \A p \in Partitions : Len(topic[p]) <= MaxLog

(* A life that has not begun.                                              *)
Blank ==
  /\ up \in BOOLEAN
  /\ Written
  /\ clients = [u \in Users |-> NilSlice]
  /\ header = NilSlice
  /\ heap = <<>>
  /\ conn = [s \in Sockets |-> "new"]
  /\ holder = Nobody
  /\ position = [p \in Partitions |-> 0]
  /\ watcher = "reading"
  /\ audience = {}
  /\ todo = {}
  /\ view = NilSlice
  /\ index = 0
  /\ torn = FALSE
  /\ sent = [s \in Sockets |-> 0]
  /\ expected = {}

LEMMA BlankHolds == Blank => IInv
<1>. SUFFICES ASSUME Blank PROVE IInv
  OBVIOUS
<1>1. NilSlice \in [arr : Nat, len : Nat] /\ NilSlice.arr = 0
        /\ NilSlice.len = 0
  BY DEF NilSlice
<1>2. Array(NilSlice) = <<>> /\ Fits(NilSlice)
  BY <1>1 DEF Array, Fits, Blank
<1>3. /\ \A u \in Users : clients[u] = NilSlice
      /\ cur = [u \in Users |-> NilSlice]
  BY DEF Blank, cur, Current, Storing, AtWork
<1>4. view = NilSlice
  BY DEF Blank
<1>5. Typed
  <2>1. /\ clients \in [Users -> [arr : Nat, len : Nat]]
        /\ cur \in [Users -> [arr : Nat, len : Nat]]
    BY <1>1, <1>3 DEF Blank
  <2>2. heap \in Seq(Seq(Sockets \cup {Nobody}))
    BY DEF Blank
  <2>3. /\ conn \in [Sockets -> ConnStates]
        /\ position \in [Partitions -> 0..MaxLog]
        /\ sent \in [Sockets -> Nat]
    BY HubAssumption DEF Blank, ConnStates
  <2>4. index \in 0..view.len
    BY <1>1, <1>4 DEF Blank
  <2>5. \A u, v \in Users : cur[u].arr = cur[v].arr => u = v \/ cur[u].arr = 0
    BY <1>1, <1>3
  <2>6. ListTypes
    BY <1>1, <1>2, <1>3, <2>1, <2>2, <2>5 DEF ListTypes, Blank
  <2>7. RestTypes
    BY <1>1, <1>2, <1>4, <2>3, <2>4 DEF RestTypes, Blank, Written
  <2>. QED
    BY <2>6, <2>7 DEF Typed
<1>6. Exclusive /\ Halfway
  BY HubAssumption DEF Exclusive, Halfway, Blank
<1>7. OwnArrays
  BY <1>1, <1>3 DEF OwnArrays
<1>8. Roll
  <2>. SUFFICES ASSUME NEW u \in Users
                PROVE  /\ Listed(NilSlice) =
                            {s \in SocketsOf(u) : Registered(s)}
                       /\ \A i, j \in 1..NilSlice.len :
                            Array(NilSlice)[i] = Array(NilSlice)[j] => i = j
    BY <1>3 DEF Roll
  <2>1. Listed(NilSlice) = {}
    BY <1>1 DEF Listed
  <2>2. \A s \in Sockets : ~Registered(s)
    BY DEF Registered, Blank
  <2>. QED
    BY <1>1, <2>1, <2>2 DEF SocketsOf
<1>9. Pushes
  BY <1>1, <1>4 DEF Pushes, RightView, RightOwner, Resting, Blank
<1>10. Expecting
  BY DEF Expecting, Blank
<1>. QED
  BY <1>5, <1>6, <1>7, <1>8, <1>9, <1>10 DEF IInv, Lists

LEMMA BlankHoldsNext == Blank' => IInv'
BY BlankHolds, PTL

LEMMA DieStep ==
  ASSUME IInv, Die
  PROVE  IInv'
<1>1. Written'
  BY DEF IInv, Lists, Typed, RestTypes, Die, Written
<1>2. Blank'
  BY <1>1 DEF Die, Blank, NilSlice
<1>. QED
  BY <1>2, BlankHoldsNext

(* The hub and the watcher do not move.                                    *)
LEMMA OutsideStep ==
  ASSUME IInv, UNCHANGED <<hub, position, watching>>,
         up' \in BOOLEAN, Written'
  PROVE  IInv'
<1>1. Lists /\ Pushes /\ Expecting /\ RestTypes
  BY DEF IInv, Lists, Typed
<1>2. UNCHANGED <<clients, header, heap, conn, holder, position, watcher,
                  audience, todo, view, index, torn, sent, expected>>
  BY DEF hub, watching
<1>3. RestTypes'
  <2>2. torn \/ Fits(view)'
    BY <1>1, <1>2 DEF RestTypes, Fits, Array
  <2>. QED
    BY <1>1, <1>2, <2>2 DEF RestTypes, Written
<1>5. Lists' /\ cur' = cur /\ Pushes'
  BY <1>1, <1>2, <1>3, SameHub, SamePushes
<1>6. Expecting'
  <2>1. ASSUME ~torn, NEW e \in expected, Awaited(e)
        PROVE  /\ conn'[e] \in {"serving", "closing"}
               /\ ~Shrinking(Owner[e])'
               /\ \A i \in 1..view.len : Slot(i)' = Slot(i)
               /\ cur'[Owner[e]] = cur[Owner[e]]
    BY <1>1, <1>2, <1>5, <2>1 DEF Awaited, Shrinking, AtWork, Slot, Array
  <2>. QED
    BY <1>1, <1>2, <2>1, ExpectingKept
<1>. QED
  BY <1>5, <1>6 DEF IInv

LEMMA ProduceStep ==
  ASSUME IInv, NEW p \in Partitions, NEW us \in SUBSET Users, Produce(p, us)
  PROVE  IInv'
<1>1. /\ up \in BOOLEAN /\ MaxLog \in Nat
      /\ topic \in [Partitions -> Seq(SUBSET Users)]
      /\ \A q \in Partitions : Len(topic[q]) <= MaxLog
  BY HubAssumption DEF IInv, Lists, Typed, RestTypes
<1>2. /\ Len(topic[p]) < MaxLog
      /\ topic' = [topic EXCEPT ![p] = Append(@, us)]
      /\ UNCHANGED <<up, hub, position, watching>>
  BY DEF Produce
<1>3. Append(topic[p], us) \in Seq(SUBSET Users)
      /\ Len(Append(topic[p], us)) <= MaxLog
  BY <1>1, <1>2
<1>4. Written'
  BY <1>1, <1>2, <1>3 DEF Written
<1>. QED
  BY <1>1, <1>2, <1>4, OutsideStep

LEMMA StartStep ==
  ASSUME IInv, Start
  PROVE  IInv'
<1>1. Written'
  BY DEF IInv, Lists, Typed, RestTypes, Start, log, Written
<1>. QED
  BY <1>1, OutsideStep DEF Start, log

LEMMA Initially == Init => IInv
<1>. SUFFICES ASSUME Init PROVE Blank
  BY BlankHolds
<1>1. Written
  BY HubAssumption DEF Init, Written
<1>. QED
  BY <1>1 DEF Init, Blank

LEMMA Inductive == IInv /\ [Next]_vars => IInv'
<1>. SUFFICES ASSUME IInv, [Next]_vars
              PROVE  IInv'
  OBVIOUS
<1>1. CASE Start
  BY <1>1, StartStep
<1>2. CASE Stop
  BY <1>2, DieStep DEF Stop
<1>3. ASSUME NEW p \in Partitions, NEW us \in SUBSET Users, Produce(p, us)
      PROVE  IInv'
  BY <1>3, ProduceStep
<1>4. ASSUME NEW s \in Sockets, Connect(s) \/ Return(s)
      PROVE  IInv'
  BY <1>4, LockStep
<1>5. ASSUME NEW s \in Sockets, Disconnect(s)
      PROVE  IInv'
  BY <1>5, DisconnectStep
<1>6. ASSUME NEW s \in Sockets, AppendTo(s)
      PROVE  IInv'
  BY <1>6, AppendLists, AppendPushes DEF IInv
<1>7. ASSUME NEW s \in Sockets, Shift(s)
      PROVE  IInv'
  BY <1>7, ShiftLists, ShiftPushes DEF IInv
<1>15. ASSUME NEW s \in Sockets, Register(s) \/ Unregister(s)
       PROVE  IInv'
  BY <1>15, StoreLists, StorePushes DEF IInv
<1>8. ASSUME NEW p \in Partitions, ReadMessage(p)
      PROVE  IInv'
  BY <1>8, ReadMessageStep
<1>9. ASSUME NEW u \in Users, Lookup(u)
      PROVE  IInv'
  BY <1>9, LookupStep
<1>10. ASSUME NEW u \in Users, MapRace(u)
       PROVE  IInv'
  BY <1>10, DieStep DEF MapRace
<1>11. CASE Push
  BY <1>11, PushStep
<1>16. CASE Overrun
  BY <1>16, DieStep, OverrunStep
<1>12. CASE RUnlock
  BY <1>12, DieStep DEF RUnlock
<1>13. CASE ReadError
  BY <1>13, ReadErrorStep
<1>14. CASE UNCHANGED vars
  <2>1. Written'
    BY <1>14 DEF IInv, Lists, Typed, RestTypes, vars, Written
  <2>2. UNCHANGED <<hub, position, watching>> /\ up' \in BOOLEAN
    BY <1>14 DEF IInv, Lists, Typed, RestTypes, vars, hub, watching
  <2>. QED
    BY <2>1, <2>2, OutsideStep
<1>. QED
  BY <1>1, <1>2, <1>3, <1>4, <1>5, <1>6, <1>7, <1>8, <1>9, <1>10, <1>11,
     <1>12, <1>13, <1>14, <1>15, <1>16 DEF Next, Handler, Watch

LEMMA Invariance == Spec => []IInv
BY Initially, Inductive, PTL DEF Spec

-----------------------------------------------------------------------------
(* Every header that the hub holds, or is about to hold, fits its array,   *)
(* and so does the watcher's unless it was torn; no two users share an     *)
(* array, whatever appends and removals came before (message_handler.go    *)
(* lines 142-165).                                                         *)
THEOREM TypeCorrect == Spec => []TypeOK
BY Invariance, InvariantsFollow, PTL

(* hub.Clients lists exactly the connections that were appended and not    *)
(* yet removed, each once, for any number of users and connections         *)
(* (message_handler.go lines 143-165).                                     *)
THEOREM RegistryAlways == Spec => []Registry
BY Invariance, InvariantsFollow, PTL

(* As long as no header was torn, the unlocked reads of StartChatWatcher   *)
(* never write a message to the connection of a user it is not for,        *)
(* wherever they interleave with the appends, the shifts and the stores of *)
(* HandleWS, and with any number of users (chat_handler.go lines 87-94).   *)
THEOREM RightOwnerAlways == Spec => []RightOwner
<1>1. IInv => RightOwner
  BY DEF IInv, Pushes
<1>. QED
  BY Invariance, <1>1, PTL

(* As long as no header was torn, each connection of the lists that did    *)
(* not shrink meanwhile is written to exactly once when the range over its *)
(* list ends (chat_handler.go lines 89-93, message_handler.go lines 144,   *)
(* 159).                                                                   *)
THEOREM PushedOnceAlways == Spec => []PushedOnce
<1>1. IInv => PushedOnce
  BY AllWritten DEF PushedOnce
<1>. QED
  BY Invariance, <1>1, PTL
=============================================================================
