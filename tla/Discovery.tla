----------------------------- MODULE Discovery -----------------------------
(***************************************************************************)
(* The queue of profiles a user is offered: GetDiscovery of                *)
(* internal/transport/rest/reaction_handler.go.                            *)
(*                                                                         *)
(* GetDiscovery answers from the head of the list under discovery_queue:   *)
(* <user> in Redis and trims from it what it answered; when the list is    *)
(* empty it is filled with profiles the user has not reacted to.  Reading  *)
(* and trimming are two commands with queries between them, and requests   *)
(* of one user may overlap.  The errors of all commands are dropped.       *)
(*                                                                         *)
(* What the user has reacted to is what the table reactions says, where    *)
(* the reaction workers store what they read (module ReactionMatch).       *)
(***************************************************************************)
EXTENDS Naturals, Sequences, SequencesExt

CONSTANTS
  Requests,    \* calls of GetDiscovery in flight at the same time
  Candidates,  \* the profiles of the other users
  Limits,      \* values of the parameter limit, 1..20 in the code
  PageSize,    \* what a filling request answers at most, 10 in the code
  FillSize,    \* what it puts into the queue at most, 100 in the code
  MaxFaults    \* bound: failed commands and expiries

VARIABLES
  stored,    \* profiles the table reactions has a reaction of the user to
  queue,     \* the list in Redis
  stage,     \* stage[r]: how far request r has come
  ids,       \* ids[r]: the profiles it has in hand
  unseen,    \* profiles the last filling put into it that no answer had
  orderly,   \* since then: one request at a time, no failure, no expiry
  faults     \* faults so far

vars == <<stored, queue, stage, ids, unseen, orderly, faults>>

Stages == {"idle", "empty", "push", "trim"}

Least(a, b) == IF a < b THEN a ELSE b
First(n, s) == SubSeq(s, 1, Least(n, Len(s)))

Init ==
  /\ stored \in SUBSET Candidates
  /\ queue = <<>>
  /\ stage = [r \in Requests |-> "idle"]
  /\ ids = [r \in Requests |-> <<>>]
  /\ unseen = {}
  /\ orderly = TRUE
  /\ faults = 0

Advance(r, from, to) ==
  stage[r] = from /\ stage' = [stage EXCEPT ![r] = to]

Alone(r) == \A q \in Requests \ {r} : stage[q] = "idle"

Fault == faults < MaxFaults /\ faults' = faults + 1

(* A command of Redis takes effect or fails.                               *)
Redis(q) ==
  \/ queue' = q /\ UNCHANGED <<orderly, faults>>
  \/ Fault /\ orderly' = FALSE /\ UNCHANGED queue

-----------------------------------------------------------------------------
(* GetDiscovery.                                                           *)

(* LRANGE takes the index of the last element: one more than limit.        *)
Read(r, limit) ==
  LET head == First(limit + 1, queue)
  IN  /\ \/ /\ head # <<>>
            /\ Advance(r, "idle", "trim")
            /\ ids' = [ids EXCEPT ![r] = head]
            /\ UNCHANGED faults
         \/ /\ head = <<>> \/ faults < MaxFaults
            /\ Advance(r, "idle", "empty")
            /\ faults' = IF head = <<>> THEN faults ELSE faults + 1
            /\ UNCHANGED ids
      /\ orderly' = (orderly /\ Alone(r) /\ faults' = faults)
      /\ UNCHANGED <<stored, queue, unseen>>

\* The lists of profiles within the limit, each profile in it once.
Lists ==
  {s \in UNION {[1..n -> Candidates] : n \in 0..FillSize} : IsInjective(s)}

\* Profiles without a stored reaction: all of them, unless the limit is met.
Unrated(s) ==
  /\ ToSet(s) \subseteq Candidates \ stored
  /\ Len(s) < FillSize => ToSet(s) = Candidates \ stored

(* The order is that of the query plan: Order follows Pluck, which has run *)
(* the query.                                                              *)
Query(r) ==
  /\ \E s \in Lists :
       /\ Unrated(s)
       /\ ids' = [ids EXCEPT ![r] = s]
       /\ Advance(r, "empty", IF s = <<>> THEN "idle" ELSE "push")
  /\ UNCHANGED <<stored, queue, unseen, orderly, faults>>

(* RPUSH and EXPIRE; then the first of the candidates are at hand.  A      *)
(* failed EXPIRE is left out: the list goes when it is trimmed.            *)
Push(r) ==
  /\ Advance(r, "push", "trim")
  /\ \/ /\ queue' = queue \o ids[r]
        /\ unseen' = ToSet(ids[r])
        /\ orderly' = (queue = <<>> /\ Alone(r))
        /\ UNCHANGED faults
     \/ /\ Fault
        /\ orderly' = FALSE
        /\ UNCHANGED <<queue, unseen>>
  /\ ids' = [ids EXCEPT ![r] = First(PageSize, @)]
  /\ UNCHANGED stored

\* Mutant of Trimmed: a page is what the request asked for.
TrimmedByPage(r) == SubSeq(queue, PageSize + 1, Len(queue))

Trimmed(r) == SubSeq(queue, Len(ids[r]) + 1, Len(queue))

(* The profiles are read, the queue is trimmed, and they are answered.     *)
Trim(r) ==
  /\ Advance(r, "trim", "idle")
  /\ Redis(Trimmed(r))
  /\ unseen' = unseen \ ToSet(ids[r])
  /\ ids' = [ids EXCEPT ![r] = <<>>]
  /\ UNCHANGED stored

(* The error of that query is dropped: the queue is trimmed of profiles    *)
(* that no answer had.                                                     *)
TrimUnread(r) ==
  /\ Advance(r, "trim", "idle")
  /\ Fault
  /\ queue' = Trimmed(r)
  /\ orderly' = FALSE
  /\ ids' = [ids EXCEPT ![r] = <<>>]
  /\ UNCHANGED <<stored, unseen>>

(* The process ends, the client leaves and the commands of its context     *)
(* fail from here on, or the query of the candidates fails.                *)
Die(r) ==
  /\ stage[r] # "idle"
  /\ Fault
  /\ stage' = [stage EXCEPT ![r] = "idle"]
  /\ ids' = [ids EXCEPT ![r] = <<>>]
  /\ orderly' = FALSE
  /\ UNCHANGED <<stored, queue, unseen>>

(* The hour of EXPIRE is over.                                             *)
Expired ==
  /\ queue # <<>>
  /\ Fault
  /\ queue' = <<>>
  /\ orderly' = FALSE
  /\ UNCHANGED <<stored, stage, ids, unseen>>

(* A reaction worker stores a reaction of the user.                        *)
Store(c) ==
  /\ stored' = stored \cup {c}
  /\ UNCHANGED <<queue, stage, ids, unseen, orderly, faults>>

GetDiscovery(r) ==
  \/ \E limit \in Limits : Read(r, limit)
  \/ Query(r)
  \/ Push(r)
  \/ Trim(r)
  \/ TrimUnread(r)

Next ==
  \/ \E r \in Requests : GetDiscovery(r) \/ Die(r)
  \/ Expired
  \/ \E c \in Candidates : Store(c)

Spec == Init /\ [][Next]_vars

-----------------------------------------------------------------------------
(* The types of the variables; a request that is to trim has something in  *)
(* hand (reaction_handler.go lines 32-57).                                 *)
TypeOK ==
  /\ stored \subseteq Candidates
  /\ queue \in Seq(Candidates)
  /\ stage \in [Requests -> Stages]
  /\ ids \in [Requests -> Seq(Candidates)]
  /\ \A r \in Requests : stage[r] \in {"push", "trim"} <=> ids[r] # <<>>
  /\ unseen \subseteq Candidates
  /\ orderly \in BOOLEAN
  /\ faults \in 0..MaxFaults

(* While requests do not overlap and nothing fails, the queue holds the    *)
(* profiles of its filling that were not answered, each once: what is      *)
(* trimmed is what was answered, whatever the limits of the requests       *)
(* (reaction_handler.go lines 32-57).                                      *)
NothingDropped ==
  orderly /\ (\A r \in Requests : stage[r] = "idle") =>
    ToSet(queue) = unseen /\ IsInjective(queue)
=============================================================================
