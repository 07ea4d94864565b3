-------------------------- MODULE ChatParticipants --------------------------
(***************************************************************************)
(* The members of one group chat and their cache in Redis:                 *)
(* GetChatParticipants and JoinChat of internal/transport/rest/            *)
(* chat_handler.go.                                                        *)
(*                                                                         *)
(* Every API pod reads the members through the cache whenever a message of *)
(* the chat arrives; JoinChat inserts a row in Postgres and then deletes   *)
(* the cache key.  Each command to Redis and each query is a step of its   *)
(* own, so the fill of one pod interleaves with the invalidation of        *)
(* another and with the expiry of the key.                                 *)
(***************************************************************************)
EXTENDS Naturals, FiniteSets

CONSTANTS
  Users,     \* who may join the chat
  Founders,  \* its members from the start
  Readers,   \* the goroutines that call GetChatParticipants
  MaxFaults  \* bound: commands that fail and pods that die in mid-call

ASSUME ChatParticipantsAssumption ==
  Founders \subseteq Users /\ MaxFaults \in Nat

VARIABLES
  members,  \* chat_members in Postgres, the rows of this chat
  past,     \* what members has been so far; nothing reads it
  cache,    \* the set under chat_members:<id> in Redis, {} for no key
  ttl,      \* the key has an expiry
  call,     \* call[r]: the next command of r's call
  rows,     \* rows[r]: what Pluck gave that call
  answer,   \* answer[r]: what r's last call returned
  owed,     \* owed[r]: members whose JoinChat returned before r's call
  join,     \* join[u]: how far the JoinChat of u is
  faults    \* faults so far

table == <<members, past>>
redis == <<cache, ttl>>
vars == <<table, cache, ttl, call, rows, answer, owed, join, faults>>

CallStates == {"idle", "smembers", "pluck", "sadd", "expire"}
JoinStates == {"out", "created", "joined"}

Fault == faults < MaxFaults /\ faults' = faults + 1

-----------------------------------------------------------------------------
(* GetChatParticipants.                                                    *)

Call(r) ==
  /\ call[r] = "idle"
  /\ call' = [call EXCEPT ![r] = "smembers"]
  /\ owed' = [owed EXCEPT ![r] = {u \in Users : join[u] = "joined"}]
  /\ UNCHANGED <<table, redis, rows, answer, join, faults>>

(* A set in the cache is the answer.  No key and no answer from Redis are  *)
(* the same to the code: it goes to Postgres.                              *)
SMembersHit(r) ==
  /\ call[r] = "smembers"
  /\ cache # {}
  /\ answer' = [answer EXCEPT ![r] = cache]
  /\ call' = [call EXCEPT ![r] = "idle"]
  /\ UNCHANGED <<table, redis, rows, owed, join, faults>>

SMembersMiss(r) ==
  /\ call[r] = "smembers"
  /\ \/ cache = {} /\ UNCHANGED faults
     \/ Fault
  /\ call' = [call EXCEPT ![r] = "pluck"]
  /\ UNCHANGED <<table, redis, rows, answer, owed, join>>

\* Mutant of Pluck: ids are appended to a slice made with its final length.
PluckAppending(r) ==
  /\ call[r] = "pluck"
  /\ rows' = [rows EXCEPT ![r] = members \cup {""}]
  /\ call' = [call EXCEPT ![r] = "sadd"]
  /\ UNCHANGED <<table, cache, ttl, answer, owed, join, faults>>

Pluck(r) ==
  /\ call[r] = "pluck"
  /\ rows' = [rows EXCEPT ![r] = members]
  /\ IF members = {}
       THEN /\ answer' = [answer EXCEPT ![r] = {}]
            /\ call' = [call EXCEPT ![r] = "idle"]
       ELSE /\ call' = [call EXCEPT ![r] = "sadd"]
            /\ UNCHANGED answer
  /\ UNCHANGED <<table, redis, owed, join, faults>>

(* A failed query returns no participants at all.                          *)
PluckError(r) ==
  /\ call[r] = "pluck"
  /\ Fault
  /\ answer' = [answer EXCEPT ![r] = {}]
  /\ call' = [call EXCEPT ![r] = "idle"]
  /\ UNCHANGED <<table, redis, rows, owed, join>>

\* Mutant of SAdd: the call returns without an Expire.
SAddOnly(r) ==
  /\ call[r] = "sadd"
  /\ cache' = cache \cup rows[r]
  /\ answer' = [answer EXCEPT ![r] = rows[r]]
  /\ call' = [call EXCEPT ![r] = "idle"]
  /\ UNCHANGED <<table, ttl, rows, owed, join, faults>>

\* Mutant of SAdd: the key is set to what was read.
SAddOver(r) ==
  /\ call[r] = "sadd"
  /\ cache' = rows[r]
  /\ call' = [call EXCEPT ![r] = "expire"]
  /\ UNCHANGED <<table, ttl, rows, answer, owed, join, faults>>

(* SADD adds to the set there is, which another call may have put there;   *)
(* it leaves the expiry of an existing key alone and gives a new one none. *)
(* The errors of both commands are dropped.                                *)
SAdd(r) ==
  /\ call[r] = "sadd"
  /\ \/ cache' = cache \cup rows[r] /\ UNCHANGED faults
     \/ Fault /\ UNCHANGED cache
  /\ call' = [call EXCEPT ![r] = "expire"]
  /\ UNCHANGED <<table, ttl, rows, answer, owed, join>>

Expire(r) ==
  /\ call[r] = "expire"
  /\ \/ ttl' = (cache # {}) /\ UNCHANGED faults
     \/ Fault /\ UNCHANGED ttl
  /\ answer' = [answer EXCEPT ![r] = rows[r]]
  /\ call' = [call EXCEPT ![r] = "idle"]
  /\ UNCHANGED <<table, cache, rows, owed, join>>

(* The pod dies in mid-call; the reader is one of its next incarnation.    *)
Crash(r) ==
  /\ call[r] # "idle"
  /\ Fault
  /\ call' = [call EXCEPT ![r] = "idle"]
  /\ UNCHANGED <<table, redis, rows, answer, owed, join>>

-----------------------------------------------------------------------------
(* JoinChat, from the insert on.  A second request of the same user fails  *)
(* on the primary key and changes nothing.                                 *)

Create(u) ==
  /\ join[u] = "out"
  /\ members' = members \cup {u}
  /\ past' = past \cup {members'}
  /\ join' = [join EXCEPT ![u] = "created"]
  /\ UNCHANGED <<redis, call, rows, answer, owed, faults>>

\* Mutant of Del: the new member is added to the key instead.
DelByAdding(u) ==
  /\ join[u] = "created"
  /\ cache' = cache \cup {u}
  /\ join' = [join EXCEPT ![u] = "joined"]
  /\ UNCHANGED <<table, ttl, call, rows, answer, owed, faults>>

Del(u) ==
  /\ join[u] = "created"
  /\ \/ cache' = {} /\ ttl' = FALSE /\ UNCHANGED faults
     \/ Fault /\ UNCHANGED redis
  /\ join' = [join EXCEPT ![u] = "joined"]
  /\ UNCHANGED <<table, call, rows, answer, owed>>

-----------------------------------------------------------------------------
(* Redis drops the key when it expires, and any key when memory is short   *)
(* (allkeys-lru).                                                          *)

DropKey ==
  /\ cache # {}
  /\ cache' = {}
  /\ ttl' = FALSE
  /\ UNCHANGED <<table, call, rows, answer, owed, join, faults>>

Expired == ttl /\ DropKey
Evicted == DropKey

Init ==
  /\ members = Founders
  /\ past = {Founders}
  /\ cache = {}
  /\ ttl = FALSE
  /\ call = [r \in Readers |-> "idle"]
  /\ rows = [r \in Readers |-> {}]
  /\ answer = [r \in Readers |-> {}]
  /\ owed = [r \in Readers |-> {}]
  /\ join = [u \in Users |-> IF u \in Founders THEN "joined" ELSE "out"]
  /\ faults = 0

ReaderStep(r) ==
  SMembersHit(r) \/ SMembersMiss(r) \/ Pluck(r) \/ PluckError(r) \/ SAdd(r)
    \/ Expire(r)

Next ==
  \/ \E r \in Readers : Call(r) \/ ReaderStep(r) \/ Crash(r)
  \/ \E u \in Users : Create(u) \/ Del(u)
  \/ Expired
  \/ Evicted

Spec == Init /\ [][Next]_vars

(* Started calls and requests go on, and an hour passes sooner or later.   *)
(* Nobody has to call or to join, and no key has to be evicted.            *)
Fairness ==
  /\ \A r \in Readers : WF_vars(ReaderStep(r))
  /\ \A u \in Users : WF_vars(Del(u))
  /\ WF_vars(Expired)

FairSpec == Spec /\ Fairness

-----------------------------------------------------------------------------
TypeOK ==
  /\ members \in SUBSET Users
  /\ past \in SUBSET SUBSET Users
  /\ cache \in SUBSET Users
  /\ ttl \in BOOLEAN
  /\ call \in [Readers -> CallStates]
  /\ rows \in [Readers -> SUBSET Users]
  /\ answer \in [Readers -> SUBSET Users]
  /\ owed \in [Readers -> SUBSET Users]
  /\ join \in [Users -> JoinStates]
  /\ faults \in 0..MaxFaults

(* Whatever the interleaving of fills, invalidations, expiries and faults, *)
(* the key holds no part of the members: it is absent, or it has everyone  *)
(* who was in the chat from the start and nobody who is not in it.  The    *)
(* watcher sends to whom the key names, so a part would cut members off.   *)
WholeOrAbsent ==
  cache # {} => Founders \subseteq cache /\ cache \subseteq members

(* A cached set that lacks a member, which a fill may put back just after  *)
(* JoinChat deleted it, does not stay: without faults the cache is at last *)
(* always absent or right.                                                 *)
FreshCache == cache = {} \/ cache = members
EventuallyFresh == [](faults = 0) => <>[]FreshCache

(* What makes these inductive: the members grow one by one, the key has    *)
(* what they were at one moment, and so has every call that is to write    *)
(* to it or to answer from what it read.                                   *)
Snapshots ==
  /\ members \in past
  /\ \A s \in past : Founders \subseteq s /\ s \subseteq members
  /\ \A s, t \in past : s \subseteq t \/ t \subseteq s
  /\ cache \in past \cup {{}}
  /\ \A r \in Readers : call[r] \in {"sadd", "expire"} => rows[r] \in past

(* The readers, the cache and JoinChat together keep the promise of        *)
(* MembersView: an old list, written back by a call that read it before    *)
(* others joined, is one the chat had and never cuts a later one down      *)
(* (chat_handler.go lines 19-57 and 224-237).                                  *)
View == INSTANCE MembersView
ImplementsMembersView == View!Spec

(* What the comment in JoinChat says of the deletion, that it makes        *)
(* GetChatParticipants rebuild the list: a call made after JoinChat        *)
(* returned has the new member in its answer.                              *)
FreshAfterJoin ==
  \A r \in Readers : call[r] = "idle" => owed[r] \subseteq answer[r]
=============================================================================
