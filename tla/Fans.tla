------------------------------- MODULE Fans -------------------------------
(***************************************************************************)
(* The profiles that liked a user: GetLikingProfiles of                    *)
(* internal/transport/rest/reaction_handler.go, and the commands of        *)
(* internal/service/reaction_service.go on the same key of Redis.          *)
(*                                                                         *)
(* fans:<user> is a set for the reaction workers, who add and remove fans, *)
(* and a sorted set for GetLikingProfiles, which fills it from Postgres    *)
(* when it finds no fans there.  Redis refuses a command on a key of the   *)
(* other kind, and all refusals are dropped: whoever comes second gets     *)
(* nothing, and neither sees what the other stored.                        *)
(*                                                                         *)
(* One user.  A page is of the latest likes there are in the sorted set,   *)
(* a later page is any part of it.                                         *)
(***************************************************************************)
EXTENDS Naturals, Sequences, SequencesExt, FiniteSets

CONSTANTS
  Requests,  \* calls of GetLikingProfiles in flight at the same time
  Users,     \* who may like the user
  PageSize,  \* the parameter limit, 20 unless given
  MaxFaults  \* bound: failed commands and dead processes

VARIABLES
  likes,   \* who liked the user, in the order of created_at
  rated,   \* whom the user has reacted to
  told,    \* whose like a worker has entered into Redis
  kind,    \* what fans:<user> is
  cached,  \* what is in it
  ttl,     \* it expires
  stage,   \* stage[r]: how far request r has come
  ids,     \* ids[r]: the fans it read from Postgres
  shown,   \* fans that were in an answer
  faults   \* faults so far

vars == <<likes, rated, told, kind, cached, ttl, stage, ids, shown, faults>>

Stages == {"idle", "query", "add", "expire", "find"}

Init ==
  /\ likes = <<>>
  /\ rated = {}
  /\ told = {}
  /\ kind = "none"
  /\ cached = {}
  /\ ttl = FALSE
  /\ stage = [r \in Requests |-> "idle"]
  /\ ids = [r \in Requests |-> {}]
  /\ shown = {}
  /\ faults = 0

Advance(r, from, to) ==
  stage[r] = from /\ stage' = [stage EXCEPT ![r] = to]

Fault == faults < MaxFaults /\ faults' = faults + 1

Later(v) ==
  {w \in ToSet(likes) :
     \E i, j \in DOMAIN likes : i < j /\ likes[i] = v /\ likes[j] = w}

\* The n latest likes of those in F.
Latest(F, n) == {v \in F : Cardinality(F \cap Later(v)) < n}

Fans == ToSet(likes) \ rated

-----------------------------------------------------------------------------
(* The reaction workers.                                                   *)

Store(v) ==
  /\ v \notin ToSet(likes)
  /\ likes' = Append(likes, v)
  /\ UNCHANGED <<rated, told, kind, cached, ttl, stage, ids, shown, faults>>

(* The key becomes k with the entries c; a key without any does not exist. *)
Becomes(k, c) ==
  /\ cached' = c
  /\ kind' = IF c = {} THEN "none" ELSE k
  /\ ttl' = (ttl /\ c # {})

(* A command that makes c of a key of kind k; another kind refuses it.     *)
Command(k, c) ==
  IF kind \in {k, "none"}
    THEN Becomes(k, c)
    ELSE UNCHANGED <<kind, cached, ttl>>

AddFan(v) ==
  /\ v \in ToSet(likes) \ told
  /\ told' = told \cup {v}
  /\ \/ UNCHANGED faults /\ Command("set", cached \cup {v})
     \/ Fault /\ UNCHANGED <<kind, cached, ttl>>
  /\ UNCHANGED <<likes, rated, stage, ids, shown>>

Rate(v) ==
  /\ v \notin rated
  /\ rated' = rated \cup {v}
  /\ UNCHANGED <<likes, told, kind, cached, ttl, stage, ids, shown, faults>>

(* A like that met a like of the user is a match.                          *)
RemoveFan(v) ==
  /\ v \in rated \cap told
  /\ Command("set", cached \ {v})
  /\ UNCHANGED <<likes, rated, told, stage, ids, shown, faults>>

Elapse ==
  /\ ttl
  /\ Becomes("none", {})
  /\ UNCHANGED <<likes, rated, told, stage, ids, shown, faults>>

-----------------------------------------------------------------------------
(* GetLikingProfiles.                                                      *)

(* The key of a sorted set with entries on the page is answered from.      *)
Read(r, first) ==
  /\ stage[r] = "idle"
  /\ \/ /\ kind = "zset"
        /\ \E page \in IF first THEN {Latest(cached, PageSize)}
                       ELSE SUBSET cached \ {{}} :
             /\ Cardinality(page) <= PageSize
             /\ shown' = shown \cup page
        /\ UNCHANGED <<stage, faults>>
     \/ /\ \/ kind # "zset" \/ ~first
           \/ faults < MaxFaults
        /\ faults' = IF kind = "zset" /\ first THEN faults + 1 ELSE faults
        /\ Advance(r, "idle", "query")
        /\ UNCHANGED shown
  /\ UNCHANGED <<likes, rated, told, kind, cached, ttl, ids>>

(* The cursor is not in this query; its limit of 100 is left out.          *)
Query(r) ==
  /\ Advance(r, "query", IF Fans = {} THEN "idle" ELSE "add")
  /\ ids' = [ids EXCEPT ![r] = Fans]
  /\ UNCHANGED <<likes, rated, told, kind, cached, ttl, shown, faults>>

Add(r) ==
  /\ Advance(r, "add", "expire")
  /\ \/ UNCHANGED faults /\ Command("zset", cached \cup ids[r])
     \/ Fault /\ UNCHANGED <<kind, cached, ttl>>
  /\ UNCHANGED <<likes, rated, told, ids, shown>>

\* The set of the workers gets a time to live as well.
Expire(r) ==
  /\ Advance(r, "expire", "find")
  /\ \/ ttl' = (kind # "none") /\ UNCHANGED faults
     \/ Fault /\ UNCHANGED ttl
  /\ UNCHANGED <<likes, rated, told, kind, cached, ids, shown>>

\* Mutant of Page: the oldest likes come first.
PageOldest(r) ==
  ids[r] \ Latest(ids[r], Cardinality(ids[r]) - PageSize)

Page(r) == Latest(ids[r], PageSize)

Answer(r) ==
  /\ Advance(r, "find", "idle")
  /\ shown' = shown \cup Page(r)
  /\ ids' = [ids EXCEPT ![r] = {}]
  /\ UNCHANGED <<likes, rated, told, kind, cached, ttl, faults>>

(* The process ends, the client leaves and its context with it, or a query *)
(* fails, whose error answers nothing.                                     *)
Die(r) ==
  /\ stage[r] # "idle"
  /\ Fault
  /\ stage' = [stage EXCEPT ![r] = "idle"]
  /\ ids' = [ids EXCEPT ![r] = {}]
  /\ UNCHANGED <<likes, rated, told, kind, cached, ttl, shown>>

GetLikingProfiles(r) == Query(r) \/ Add(r) \/ Expire(r) \/ Answer(r)

Next ==
  \/ \E v \in Users : Store(v) \/ AddFan(v) \/ Rate(v) \/ RemoveFan(v)
  \/ Elapse
  \/ \E r \in Requests :
       \/ Read(r, TRUE) \/ Read(r, FALSE)
       \/ GetLikingProfiles(r)
       \/ Die(r)

(* Redis expires what has a time to live, requests run to their end, and   *)
(* the user asks for the first page again and again.                       *)
Fairness ==
  /\ WF_vars(Elapse)
  /\ \A r \in Requests :
       WF_vars(GetLikingProfiles(r)) /\ WF_vars(Read(r, TRUE))

Spec == Init /\ [][Next]_vars

FairSpec == Spec /\ Fairness

-----------------------------------------------------------------------------
(* The types of the variables; a key exists if and only if it holds        *)
(* something, and only then has a time to live (reaction_handler.go lines  *)
(* 117-142, reaction_service.go lines 81-92).                              *)
TypeOK ==
  /\ likes \in Seq(Users)
  /\ rated \subseteq Users
  /\ told \subseteq ToSet(likes)
  /\ kind \in {"none", "set", "zset"}
  /\ cached \subseteq ToSet(likes)
  /\ kind = "none" <=> cached = {}
  /\ ttl \in BOOLEAN
  /\ ttl => cached # {}
  /\ stage \in [Requests -> Stages]
  /\ ids \in [Requests -> SUBSET ToSet(likes)]
  /\ shown \subseteq ToSet(likes)
  /\ faults \in 0..MaxFaults

\* A sorted set that nothing will remove and no first page refreshes.
Stuck == kind = "zset" /\ ~ttl /\ \A r \in Requests : stage[r] # "expire"

(* A fan whom the user has not reacted to, and who is not behind a page of *)
(* later fans, is some day in the first page of a user who keeps asking,   *)
(* in whatever order the workers and the requests get at the key, which is *)
(* a set for one and a sorted set for the other; unless a fault left the   *)
(* sorted set without a time to live for ever (reaction_handler.go lines   *)
(* 117-145, reaction_service.go lines 81-89).                              *)
EventuallySeen ==
  <>[]Stuck \/
  \A v \in Users :
    v \in Fans ~> v \in shown \cup rated \/ v \notin Latest(Fans, PageSize)
=============================================================================
