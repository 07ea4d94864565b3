----------------------------- MODULE ChatLists -----------------------------
(***************************************************************************)
(* The list of a user's chats: GetChats and JoinChat of                    *)
(* internal/transport/rest/chat_handler.go, and what a match adds to it in *)
(* checkMatch of internal/service/reaction_service.go.                     *)
(*                                                                         *)
(* The sorted set user_chats:<user> in Redis is the list.  GetChats fills  *)
(* it from chat_members when the page it asked for is empty, and lets it   *)
(* expire after a day.  A match adds its dialog to the set whether there   *)
(* is one or not, before its transaction is committed, and as a uuid.UUID, *)
(* which the client of Redis writes as 16 bytes and not as its text: the   *)
(* query of any page that has such an entry fails, and its error is        *)
(* dropped.  JoinChat does not touch the set.                              *)
(*                                                                         *)
(* One user.  Scores are left out: a page is any part of the set, the      *)
(* first page is empty only if the set is.                                 *)
(***************************************************************************)
EXTENDS Naturals, FiniteSets

CONSTANTS
  Requests,  \* calls of GetChats in flight at the same time
  Chats,     \* the chats the user may get into
  PageSize,  \* the parameter limit, 20 unless given
  MaxFaults  \* bound: failed commands and dead processes

VARIABLES
  member,  \* chats with a row of the user in chat_members
  open,    \* dialogs in the set whose transaction has not ended
  list,    \* entries of the set that are the text of a chat's id
  raw,     \* entries that are the bytes of one
  ttl,     \* the set expires
  stage,   \* stage[r]: how far request r has come
  ids,     \* ids[r]: the chats it read from chat_members
  shown,   \* chats that were in an answer
  faults   \* faults so far

vars == <<member, open, list, raw, ttl, stage, ids, shown, faults>>

Stages == {"idle", "empty", "add", "expire", "find"}

Init ==
  /\ member = {}
  /\ open = {}
  /\ list = {}
  /\ raw = {}
  /\ ttl = FALSE
  /\ stage = [r \in Requests |-> "idle"]
  /\ ids = [r \in Requests |-> {}]
  /\ shown = {}
  /\ faults = 0

Advance(r, from, to) ==
  stage[r] = from /\ stage' = [stage EXCEPT ![r] = to]

Fault == faults < MaxFaults /\ faults' = faults + 1

Entries == ({"text"} \X list) \cup ({"bytes"} \X raw)
Exists == Entries # {}

-----------------------------------------------------------------------------
(* The chats of the user.                                                  *)

JoinChat(c) ==
  /\ c \notin member \cup open
  /\ member' = member \cup {c}
  /\ UNCHANGED <<open, list, raw, ttl, stage, ids, shown, faults>>

Match(c) ==
  /\ c \notin member \cup open
  /\ open' = open \cup {c}
  /\ \/ raw' = raw \cup {c} /\ UNCHANGED faults
     \/ Fault /\ UNCHANGED raw
  /\ UNCHANGED <<member, list, ttl, stage, ids, shown>>

CommitMatch(c) ==
  /\ c \in open
  /\ open' = open \ {c}
  /\ \/ member' = member \cup {c} /\ UNCHANGED faults
     \/ Fault /\ UNCHANGED member
  /\ UNCHANGED <<list, raw, ttl, stage, ids, shown>>

Elapse ==
  /\ ttl
  /\ list' = {}
  /\ raw' = {}
  /\ ttl' = FALSE
  /\ UNCHANGED <<member, open, stage, ids, shown, faults>>

-----------------------------------------------------------------------------
(* GetChats.                                                               *)

IsPage(page, first) ==
  /\ page \subseteq Entries
  /\ Cardinality(page) <= PageSize
  /\ first /\ Exists => page # {}

\* What the query of the chats finds.
Found(page) ==
  IF \E e \in page : e[1] = "bytes"
    THEN {}
    ELSE {c \in member : <<"text", c>> \in page}

(* A page that has entries is answered; one that is empty, or whose        *)
(* command failed, is looked up in chat_members.                           *)
Read(r, first) ==
  /\ stage[r] = "idle"
  /\ \E page \in SUBSET Entries :
       /\ IsPage(page, first)
       /\ \/ /\ page # {}
             /\ shown' = shown \cup Found(page)
             /\ UNCHANGED <<stage, faults>>
          \/ /\ (page = {} /\ UNCHANGED faults) \/ Fault
             /\ Advance(r, "idle", "empty")
             /\ UNCHANGED shown
  /\ UNCHANGED <<member, open, list, raw, ttl, ids>>

(* Neither the cursor nor the limit is in this query.                      *)
Pluck(r) ==
  /\ Advance(r, "empty", IF member = {} THEN "idle" ELSE "add")
  /\ ids' = [ids EXCEPT ![r] = member]
  /\ UNCHANGED <<member, open, list, raw, ttl, shown, faults>>

Add(r) ==
  /\ Advance(r, "add", "expire")
  /\ \/ list' = list \cup ids[r] /\ UNCHANGED faults
     \/ Fault /\ UNCHANGED list
  /\ UNCHANGED <<member, open, raw, ttl, ids, shown>>

\* EXPIRE of a key that does not exist does nothing.
Expire(r) ==
  /\ Advance(r, "expire", "find")
  /\ \/ ttl' = Exists /\ UNCHANGED faults
     \/ Fault /\ UNCHANGED ttl
  /\ UNCHANGED <<member, open, list, raw, ids, shown>>

\* Mutant of Answer: the chats that were read are cut to one page.
AnswerCut(r) ==
  /\ Advance(r, "find", "idle")
  /\ shown' = shown \cup
       CHOOSE s \in SUBSET ids[r] :
         Cardinality(s) = IF Cardinality(ids[r]) < PageSize
                            THEN Cardinality(ids[r]) ELSE PageSize
  /\ ids' = [ids EXCEPT ![r] = {}]
  /\ UNCHANGED <<member, open, list, raw, ttl, faults>>

Answer(r) ==
  /\ Advance(r, "find", "idle")
  /\ shown' = shown \cup ids[r]
  /\ ids' = [ids EXCEPT ![r] = {}]
  /\ UNCHANGED <<member, open, list, raw, ttl, faults>>

(* The process ends, the client leaves and its context with it, or a query *)
(* fails, whose error answers nothing.                                     *)
Die(r) ==
  /\ stage[r] # "idle"
  /\ Fault
  /\ stage' = [stage EXCEPT ![r] = "idle"]
  /\ ids' = [ids EXCEPT ![r] = {}]
  /\ UNCHANGED <<member, open, list, raw, ttl, shown>>

GetChats(r) == Pluck(r) \/ Add(r) \/ Expire(r) \/ Answer(r)

Next ==
  \/ \E c \in Chats : JoinChat(c) \/ Match(c) \/ CommitMatch(c)
  \/ Elapse
  \/ \E r \in Requests :
       Read(r, TRUE) \/ Read(r, FALSE) \/ GetChats(r) \/ Die(r)

(* Redis expires what has a time to live, requests run to their end, and   *)
(* the user asks for the first page again and again.                       *)
Fairness ==
  /\ WF_vars(Elapse)
  /\ \A r \in Requests : WF_vars(GetChats(r)) /\ WF_vars(Read(r, TRUE))

Spec == Init /\ [][Next]_vars

FairSpec == Spec /\ Fairness

-----------------------------------------------------------------------------
(* The types of the variables; only a set that exists has a time to live   *)
(* (chat_handler.go lines 271-293).                                        *)
TypeOK ==
  /\ member \subseteq Chats
  /\ open \subseteq Chats \ member
  /\ list \subseteq Chats
  /\ raw \subseteq Chats
  /\ ttl \in BOOLEAN
  /\ ttl => Exists
  /\ stage \in [Requests -> Stages]
  /\ ids \in [Requests -> SUBSET Chats]
  /\ shown \subseteq member
  /\ faults \in 0..MaxFaults

\* Nothing will remove the set, and nothing but a request past its end will
\* fill it.
Stuck == Exists /\ ~ttl /\ \A r \in Requests : stage[r] # "expire"

(* Every chat of a user who keeps asking for the list is in an answer some *)
(* day, whether joined, where it takes the expiry of the set, or matched,  *)
(* where the entry of the match hides what is on its page until then;      *)
(* unless the set is for ever one that does not expire, as a match makes   *)
(* when there is none (chat_handler.go lines 271-306, reaction_service.go  *)
(* lines 121-122).                                                         *)
EventuallyListed ==
  <>[]Stuck \/ \A c \in Chats : c \in member ~> c \in shown
=============================================================================
