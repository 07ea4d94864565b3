----------------------- MODULE ChatParticipantsProofs -----------------------
(* What holds of ChatParticipants for every set of users and of readers    *)
(* and every number of faults.                                             *)
EXTENDS ChatParticipants, TLAPS

(* Every variable has the type its comment gives it, in every state.       *)
THEOREM TypeCorrect == Spec => []TypeOK
<1>1. Init => TypeOK
  <2>1. 0 \in 0..MaxFaults /\ Founders \in SUBSET Users
    BY ChatParticipantsAssumption
  <2>2. Init => join \in [Users -> JoinStates]
    BY DEF Init, JoinStates
  <2>. QED
    BY <2>1, <2>2 DEF Init, TypeOK, CallStates
<1>2. TypeOK /\ [Next]_vars => TypeOK'
  <2>. SUFFICES ASSUME TypeOK, [Next]_vars PROVE TypeOK'
    OBVIOUS
  <2>. USE DEF TypeOK, CallStates, JoinStates
  <2>1. Fault => faults' \in 0..MaxFaults
    BY ChatParticipantsAssumption DEF Fault
  <2>2. ASSUME NEW r \in Readers, Call(r) \/ Crash(r) PROVE TypeOK'
    BY <2>1, <2>2 DEF Call, Crash, table, redis
  <2>3. ASSUME NEW r \in Readers, SMembersHit(r) \/ SMembersMiss(r)
        PROVE  TypeOK'
    BY <2>1, <2>3 DEF SMembersHit, SMembersMiss, table, redis
  <2>4. ASSUME NEW r \in Readers, Pluck(r) \/ PluckError(r) PROVE TypeOK'
    BY <2>1, <2>4 DEF Pluck, PluckError, table, redis
  <2>5. ASSUME NEW r \in Readers, SAdd(r) \/ Expire(r) PROVE TypeOK'
    BY <2>1, <2>5 DEF SAdd, Expire, table
  <2>6. ASSUME NEW u \in Users, Create(u) \/ Del(u) PROVE TypeOK'
    <3>1. CASE Del(u)
      BY <2>1, <3>1 DEF Del, table, redis
    <3>2. CASE Create(u)
      <4>1. members' \in SUBSET Users
        BY <3>2 DEF Create
      <4>2. past' \in SUBSET SUBSET Users
        BY <3>2, <4>1 DEF Create
      <4>. QED
        BY <3>2, <4>1, <4>2 DEF Create, redis
    <3>. QED
      BY <2>6, <3>1, <3>2
  <2>7. CASE DropKey
    BY <2>7 DEF DropKey, table
  <2>8. CASE UNCHANGED vars
    BY <2>8 DEF vars, table
  <2>. QED
    BY <2>2, <2>3, <2>4, <2>5, <2>6, <2>7, <2>8
       DEF Next, ReaderStep, Expired, Evicted
<1>. QED
  BY <1>1, <1>2, PTL DEF Spec

(* Of two lists the chat had, one has all of the other.                    *)
LEMMA UnionIsPast ==
  ASSUME Snapshots, NEW s \in past
  PROVE  cache \cup s \in past
<1>1. CASE cache \subseteq s
  <2>1. cache \cup s = s
    BY <1>1
  <2>. QED
    BY <2>1
<1>2. CASE s \subseteq cache /\ cache \in past
  <2>1. cache \cup s = cache
    BY <1>2
  <2>. QED
    BY <1>2, <2>1
<1>3. cache = {} \/ cache \in past
  BY DEF Snapshots
<1>4. cache \in past => cache \subseteq s \/ s \subseteq cache
  BY DEF Snapshots
<1>. QED
  BY <1>1, <1>2, <1>3, <1>4

(* No step but Create and SAdd makes a set that was not there: the key is  *)
(* left alone or dropped, and a call has what the members were.            *)
LEMMA SnapshotsStep ==
  ASSUME TypeOK, Snapshots, [Next]_vars
  PROVE  Snapshots'
<1>1. ASSUME NEW r \in Readers, SAdd(r) PROVE Snapshots'
  <2>1. rows[r] \in past
    BY <1>1 DEF SAdd, Snapshots
  <2>2. cache' \in {cache, cache \cup rows[r]} /\ UNCHANGED table
    BY <1>1 DEF SAdd
  <2>3. cache \cup rows[r] \in past
    BY <2>1, UnionIsPast
  <2>4. cache' \in past \cup {{}}
    BY <2>2, <2>3 DEF Snapshots
  <2>5. \A q \in Readers : call'[q] \in {"sadd", "expire"} => rows'[q] \in past
    BY <1>1, <2>1 DEF SAdd, Snapshots, TypeOK
  <2>. QED
    BY <2>2, <2>4, <2>5 DEF Snapshots, table
<1>2. ASSUME NEW r \in Readers, Pluck(r) PROVE Snapshots'
  BY <1>2 DEF Pluck, table, redis, TypeOK, Snapshots
<1>3. ASSUME NEW u \in Users, Create(u) PROVE Snapshots'
  <2>1. /\ members' = members \cup {u} /\ past' = past \cup {members'}
        /\ UNCHANGED <<cache, call, rows>>
    BY <1>3 DEF Create, redis
  <2>2. \A s \in past' : Founders \subseteq s /\ s \subseteq members'
    BY <2>1 DEF Snapshots
  <2>3. \A s, t \in past' : s \subseteq t \/ t \subseteq s
    BY <2>1, <2>2 DEF Snapshots
  <2>. QED
    BY <2>1, <2>2, <2>3 DEF Snapshots
<1>4. ASSUME UNCHANGED table, cache' = cache \/ cache' = {},
             \A r \in Readers : call'[r] \in {"sadd", "expire"} =>
               call[r] \in {"sadd", "expire"} /\ rows'[r] = rows[r]
      PROVE  Snapshots'
  BY <1>4 DEF table, Snapshots
<1>5. ASSUME NEW r \in Readers,
             Call(r) \/ SMembersHit(r) \/ SMembersMiss(r) \/ PluckError(r)
               \/ Expire(r) \/ Crash(r)
      PROVE  Snapshots'
  BY <1>4, <1>5
     DEF Call, SMembersHit, SMembersMiss, PluckError, Expire, Crash, redis, TypeOK
<1>6. ASSUME NEW u \in Users, Del(u) PROVE Snapshots'
  BY <1>4, <1>6 DEF Del, redis
<1>7. CASE DropKey \/ UNCHANGED vars
  BY <1>4, <1>7 DEF DropKey, vars
<1>. QED
  BY <1>1, <1>2, <1>3, <1>5, <1>6, <1>7
     DEF Next, ReaderStep, Expired, Evicted

LEMMA SnapshotsAlways == Spec => []Snapshots
<1>1. Init => Snapshots
  BY DEF Init, Snapshots
<1>2. TypeOK /\ Snapshots /\ [Next]_vars => Snapshots'
  BY SnapshotsStep
<1>. QED
  BY <1>1, <1>2, TypeCorrect, PTL DEF Spec

(* The key never holds a part of the members, for any number of calls,     *)
(* joins, expiries, evictions and faults.                                  *)
THEOREM WholeOrAbsentAlways == Spec => []WholeOrAbsent
<1>1. Snapshots => WholeOrAbsent
  BY DEF Snapshots, WholeOrAbsent
<1>. QED
  BY <1>1, SnapshotsAlways, PTL

(* A step of a reader is one of MembersView or changes nothing it shows.   *)
LEMMA ReaderImplements ==
  ASSUME TypeOK, Snapshots, NEW r \in Readers,
         Call(r) \/ ReaderStep(r) \/ Crash(r)
  PROVE  [View!Next]_View!vars
<1>1. CASE Call(r) \/ SMembersMiss(r) \/ Crash(r)
  BY <1>1 DEF Call, SMembersMiss, Crash, table, redis, View!vars
<1>2. ASSUME NEW s \in past \cup {{}}, answer' = [answer EXCEPT ![r] = s],
             UNCHANGED <<members, past, cache>>
      PROVE  View!Next
  BY <1>2 DEF View!Next, View!Reply
<1>3. CASE SMembersHit(r)
  BY <1>2, <1>3 DEF SMembersHit, table, redis, Snapshots
<1>4. CASE Pluck(r)
  <2>1. CASE members = {}
    BY <1>2, <1>4, <2>1 DEF Pluck, table, redis
  <2>2. CASE members # {}
    BY <1>4, <2>2 DEF Pluck, table, redis, View!vars
  <2>. QED
    BY <2>1, <2>2
<1>5. CASE PluckError(r)
  BY <1>2, <1>5 DEF PluckError, table, redis
<1>6. CASE SAdd(r)
  <2>1. CASE cache' = cache
    BY <1>6, <2>1 DEF SAdd, table, View!vars
  <2>2. CASE cache' = cache \cup rows[r]
    <3>1. rows[r] \in past
      BY <1>6 DEF SAdd, Snapshots
    <3>2. cache' \in past
      BY <2>2, <3>1, UnionIsPast
    <3>. QED
      BY <1>6, <2>2, <3>2 DEF SAdd, table, View!Next, View!Fill
  <2>. QED
    BY <1>6, <2>1, <2>2 DEF SAdd
<1>7. CASE Expire(r)
  BY <1>2, <1>7 DEF Expire, table, Snapshots
<1>. QED
  BY <1>1, <1>3, <1>4, <1>5, <1>6, <1>7 DEF ReaderStep

(* The cache keeps the promise of MembersView: whatever the interleaving   *)
(* of fills, deletions, expiries, evictions and faults, an answer is empty *)
(* or what the members were at one moment, and the key is set only to      *)
(* such a list that has all it had before.                                 *)
THEOREM CacheImplementsMembersView == Spec => ImplementsMembersView
<1>1. Init => View!Init
  BY ChatParticipantsAssumption DEF Init, View!Init
<1>2. TypeOK /\ Snapshots /\ [Next]_vars => [View!Next]_View!vars
  <2>. SUFFICES ASSUME TypeOK, Snapshots, [Next]_vars
                PROVE  [View!Next]_View!vars
    OBVIOUS
  <2>1. ASSUME NEW u \in Users, Create(u) PROVE View!Next
    BY <2>1 DEF Create, redis, View!Next, View!Join
  <2>2. ASSUME NEW u \in Users, Del(u) PROVE [View!Next]_View!vars
    BY <2>2 DEF Del, table, redis, View!Next, View!Drop, View!vars
  <2>3. CASE DropKey
    BY <2>3 DEF DropKey, table, View!Next, View!Drop
  <2>4. CASE UNCHANGED vars
    BY <2>4 DEF vars, table, View!vars
  <2>. QED
    BY <2>1, <2>2, <2>3, <2>4, ReaderImplements
       DEF Next, Expired, Evicted
<1>. QED
  BY <1>1, <1>2, TypeCorrect, SnapshotsAlways, PTL
     DEF Spec, ImplementsMembersView, View!Spec
=============================================================================
