--------------------------- MODULE ReactionMatch ---------------------------
(***************************************************************************)
(* ReactionHandler of internal/service/reaction_service.go: a batch of     *)
(* reactions is inserted into Postgres, then each of them is checked for a *)
(* match in Redis, and a match opens a dialog in a Postgres transaction.   *)
(*                                                                         *)
(* The workers of the group "reaction-processor" run Process at the same   *)
(* time, and the two likes of a couple are in different partitions, so     *)
(* their checks interleave at every command to Redis.  No lock and no      *)
(* transaction spans the commands: that a couple is noticed at all depends *)
(* on their order in checkMatch.                                           *)
(*                                                                         *)
(* The API works on two of the keys.  GetLikingProfiles makes a sorted set *)
(* of fans:<user> when there is none, and a time to live for whatever is   *)
(* there; a command for the other kind of set is refused, and no error of  *)
(* Redis is looked at.  GetChats gives user_chats:<user> a time to live.   *)
(* (The answers of the two are the subject of Fans and ChatLists.)         *)
(***************************************************************************)
EXTENDS Naturals, Sequences, FiniteSets, Functions

CONSTANTS
  Users,      \* registered users
  Groups,     \* member sets of the group chats there are
  Workers,    \* the workers of the consumer process
  Requests,   \* the reactions in the topic
  Askers,     \* users who call GetLikingProfiles, one call at a time
  HasRdb,     \* NewReactionHandler keeps the client of Redis; FALSE in the code
  MaxFaults   \* bound: failed commands, lost keys and dead processes

Actions == {"like", "dislike", "superlike"}
Reaction == [from : Users, to : Users, action : Actions]
ChatId == Users \X Users

ASSUME ReactionMatchAssumption ==
  /\ Groups \subseteq SUBSET Users
  /\ Requests \subseteq Reaction
  /\ Askers \subseteq Users
  /\ HasRdb \in BOOLEAN
  /\ MaxFaults \in Nat

VARIABLES
  topic,      \* reactions not yet read by the group
  reactions,  \* the table reactions
  fans,       \* fans[u]: what fans:<u> in Redis holds while it is a set
  sorted,     \* sorted[u]: what it holds while it is a sorted set
  expiring,   \* users whose fans:<u> has a time to live
  likes,      \* likes[u]: the set under my_likes:<u> in Redis
  chats,      \* committed dialogs, each named by the reaction that made it
  listed,     \* listed[u]: dialogs under user_chats:<u> in Redis
  news,       \* notifications sent: <<user, type, reaction behind it>>
  batch,      \* batch[w]: what worker w collected
  todo,       \* todo[w]: reactions of the running Process not checked yet
  pc,         \* pc[w]: the next command of worker w
  asking,     \* asking[u]: where the call of GetLikingProfiles of u is
  found,      \* found[u]: the fans that call read from Postgres
  faults      \* faults so far

redis == <<fans, sorted, expiring, likes, listed>>
local == <<batch, todo, pc>>
pages == <<asking, found>>
vars == <<topic, reactions, redis, chats, news, local, pages, faults>>

Steps == {"idle", "next", "add_fan", "add_like", "check", "rem_fan",
          "rem_fan_back", "rem_like", "rem_like_back", "find", "create",
          "list_from", "list_to", "tell_from", "tell_to", "commit",
          "tell_like"}

Fault == faults < MaxFaults /\ faults' = faults + 1

Like(a, b) == [from |-> a, to |-> b, action |-> "like"]
Liked(a, b) == Like(a, b) \in reactions
Rated(a, b) == \E s \in reactions : s.from = a /\ s.to = b

\* UNIQUE(from_user_id, to_user_id) of the table.
SamePair(r, s) == r.from = s.from /\ r.to = s.to
Insertable(b) ==
  /\ \A i \in DOMAIN b : \A s \in reactions : ~SamePair(b[i], s)
  /\ \A i, j \in DOMAIN b : SamePair(b[i], b[j]) => i = j

-----------------------------------------------------------------------------
(* The worker around Process.                                              *)

(* A reaction reaches the group when a worker takes it, in any order and at *)
(* any time.                                                               *)
Take(w, r) ==
  /\ pc[w] = "idle"
  /\ r \in topic
  /\ topic' = topic \ {r}
  /\ batch' = [batch EXCEPT ![w] = Append(@, r)]
  /\ UNCHANGED <<pages, reactions, redis, chats, news, todo, pc, faults>>

(* The insert is all or nothing.  One that fails leaves the batch with the *)
(* worker, to be tried again with whatever comes after it.                 *)
Process(w) ==
  /\ pc[w] = "idle"
  /\ batch[w] # <<>>
  /\ Insertable(batch[w])
  /\ reactions' = reactions \cup Range(batch[w])
  /\ todo' = [todo EXCEPT ![w] = batch[w]]
  /\ batch' = [batch EXCEPT ![w] = <<>>]
  /\ pc' = [pc EXCEPT ![w] = "next"]
  /\ UNCHANGED <<pages, topic, redis, chats, news, faults>>

(* The consumer process ends and is started again; the offsets of what its *)
(* workers had are committed, an open transaction is rolled back.          *)
Restarted ==
  /\ batch' = [w \in Workers |-> <<>>]
  /\ todo' = [w \in Workers |-> <<>>]
  /\ pc' = [w \in Workers |-> "idle"]

Crash ==
  /\ Fault
  /\ Restarted
  /\ UNCHANGED <<pages, topic, reactions, redis, chats, news>>

(* A handler without a client panics at its first command, which ends the  *)
(* process.                                                                *)
Panic(w) ==
  /\ pc[w] = "next"
  /\ todo[w] # <<>>
  /\ Head(todo[w]).action \in {"like", "dislike"}
  /\ Restarted
  /\ UNCHANGED <<pages, topic, reactions, redis, chats, news, faults>>

-----------------------------------------------------------------------------
(* checkMatch, one command a step.  r is the reaction it is called with.   *)

At(w, p, r) == pc[w] = p /\ todo[w] # <<>> /\ r = Head(todo[w])

Goto(w, p) == pc' = [pc EXCEPT ![w] = p] /\ UNCHANGED <<batch, todo>>

\* Mutant of Finish: a return that leaves the loop of Process.
FinishReturning(w) ==
  /\ todo' = [todo EXCEPT ![w] = Tail(@)]
  /\ pc' = [pc EXCEPT ![w] = "idle"]
  /\ UNCHANGED batch

Finish(w) ==
  /\ todo' = [todo EXCEPT ![w] = Tail(@)]
  /\ pc' = [pc EXCEPT ![w] = "next"]
  /\ UNCHANGED batch

\* The errors of these commands are dropped.  A key that has lost its last
\* entry is no key any more, and has no time to live.
Redis(f, l, s) ==
  \/ /\ fans' = f
     /\ likes' = l
     /\ listed' = s
     /\ expiring' = {u \in expiring : f[u] # {} \/ sorted[u] # {}}
     /\ UNCHANGED <<sorted, faults>>
  \/ Fault /\ UNCHANGED redis

Plus(set, u, v) == [set EXCEPT ![u] = @ \cup {v}]
Minus(set, u, v) == [set EXCEPT ![u] = @ \ {v}]

ProcessEnd(w) ==
  /\ pc[w] = "next"
  /\ todo[w] = <<>>
  /\ Goto(w, "idle")
  /\ UNCHANGED <<pages, topic, reactions, redis, chats, news, faults>>

Begin(w) ==
  /\ pc[w] = "next"
  /\ todo[w] # <<>>
  /\ Head(todo[w]).action = "like"
  /\ Goto(w, "add_fan")
  /\ UNCHANGED <<pages, topic, reactions, redis, chats, news, faults>>

Dislike(w) ==
  /\ pc[w] = "next"
  /\ todo[w] # <<>>
  /\ Head(todo[w]).action = "dislike"
  /\ Redis(Minus(fans, Head(todo[w]).to, Head(todo[w]).from), likes, listed)
  /\ Finish(w)
  /\ UNCHANGED <<pages, topic, reactions, chats, news>>

OtherAction(w) ==
  /\ pc[w] = "next"
  /\ todo[w] # <<>>
  /\ Head(todo[w]).action \notin {"like", "dislike"}
  /\ Finish(w)
  /\ UNCHANGED <<pages, topic, reactions, redis, chats, news, faults>>

\* SADD is refused while the key is a sorted set.  So is SREM, and as fans[u]
\* is empty then, Minus needs no such case.
FanAdded(u, v) == IF sorted[u] = {} THEN Plus(fans, u, v) ELSE fans

\* Mutant of AddFan: key and member are swapped.
AddFanSwapped(w, r) ==
  /\ At(w, "add_fan", r)
  /\ Redis(FanAdded(r.from, r.to), likes, listed)
  /\ Goto(w, "add_like")
  /\ UNCHANGED <<pages, topic, reactions, chats, news>>

AddFan(w, r) ==
  /\ At(w, "add_fan", r)
  /\ Redis(FanAdded(r.to, r.from), likes, listed)
  /\ Goto(w, "add_like")
  /\ UNCHANGED <<pages, topic, reactions, chats, news>>

AddLike(w, r) ==
  /\ At(w, "add_like", r)
  /\ Redis(fans, Plus(likes, r.from, r.to), listed)
  /\ Goto(w, "check")
  /\ UNCHANGED <<pages, topic, reactions, chats, news>>

\* Mutant of Check: it asks for the like just added.
CheckOwn(w, r) ==
  /\ At(w, "check", r)
  /\ Goto(w, IF r.to \in likes[r.from] THEN "rem_fan" ELSE "tell_like")
  /\ UNCHANGED <<pages, topic, reactions, redis, chats, news, faults>>

(* No answer from Redis is taken for a no.                                 *)
Check(w, r) ==
  /\ At(w, "check", r)
  /\ \/ /\ r.from \in likes[r.to]
        /\ Goto(w, "rem_fan")
        /\ UNCHANGED faults
     \/ /\ \/ r.from \notin likes[r.to] /\ UNCHANGED faults
           \/ Fault
        /\ Goto(w, "tell_like")
  /\ UNCHANGED <<pages, topic, reactions, redis, chats, news>>

\* Mutant of TellLike: the notification names the sender.
TellLiker(w, r) ==
  /\ At(w, "tell_like", r)
  /\ news' = news \cup {<<r.to, "new_like", r.from>>}
  /\ Finish(w)
  /\ UNCHANGED <<pages, topic, reactions, redis, chats, faults>>

TellLike(w, r) ==
  /\ At(w, "tell_like", r)
  /\ \/ news' = news \cup {<<r.to, "new_like", <<r.from, r.to>>>>}
        /\ UNCHANGED faults
     \/ Fault /\ UNCHANGED news
  /\ Finish(w)
  /\ UNCHANGED <<pages, topic, reactions, redis, chats>>

RemFan(w, r) ==
  /\ At(w, "rem_fan", r)
  /\ Redis(Minus(fans, r.to, r.from), likes, listed)
  /\ Goto(w, "rem_fan_back")
  /\ UNCHANGED <<pages, topic, reactions, chats, news>>

\* Mutant of RemFanBack: the first SREM once more.
RemFanTwice(w, r) ==
  /\ At(w, "rem_fan_back", r)
  /\ Redis(Minus(fans, r.to, r.from), likes, listed)
  /\ Goto(w, "rem_like")
  /\ UNCHANGED <<pages, topic, reactions, chats, news>>

RemFanBack(w, r) ==
  /\ At(w, "rem_fan_back", r)
  /\ Redis(Minus(fans, r.from, r.to), likes, listed)
  /\ Goto(w, "rem_like")
  /\ UNCHANGED <<pages, topic, reactions, chats, news>>

RemLike(w, r) ==
  /\ At(w, "rem_like", r)
  /\ Redis(fans, Minus(likes, r.from, r.to), listed)
  /\ Goto(w, "rem_like_back")
  /\ UNCHANGED <<pages, topic, reactions, chats, news>>

RemLikeBack(w, r) ==
  /\ At(w, "rem_like_back", r)
  /\ Redis(fans, Minus(likes, r.to, r.from), listed)
  /\ Goto(w, "find")
  /\ UNCHANGED <<pages, topic, reactions, chats, news>>

-----------------------------------------------------------------------------
(* The transaction of a match.  It reads what is committed and its own     *)
(* rows stay invisible until Commit, while the commands to Redis and Kafka *)
(* in it take effect at once.                                              *)

\* The query counts the rows of the two users in a chat, a dialog or not;
\* with one user twice it finds none.
Shared(a, b) ==
  /\ a # b
  /\ \/ \E c \in chats : {a, b} = {c[1], c[2]}
     \/ \E g \in Groups : {a, b} \subseteq g

\* Mutant of Find: the test for "no chat" is the wrong way round.
FindInverted(w, r) ==
  /\ At(w, "find", r)
  /\ IF Shared(r.from, r.to) THEN Goto(w, "create") ELSE Finish(w)
  /\ UNCHANGED <<pages, topic, reactions, redis, chats, news, faults>>

Find(w, r) ==
  /\ At(w, "find", r)
  /\ IF Shared(r.from, r.to) THEN Finish(w) ELSE Goto(w, "create")
  /\ UNCHANGED <<pages, topic, reactions, redis, chats, news, faults>>

\* The chat and its two members; a user's own like breaks the primary key
\* of chat_members.
CreateChat(w, r) ==
  /\ At(w, "create", r)
  /\ \/ r.from # r.to /\ Goto(w, "list_from") /\ UNCHANGED faults
     \/ r.from = r.to /\ Finish(w) /\ UNCHANGED faults
     \/ Fault /\ Finish(w)
  /\ UNCHANGED <<pages, topic, reactions, redis, chats, news>>

ListFrom(w, r) ==
  /\ At(w, "list_from", r)
  /\ Redis(fans, likes, Plus(listed, r.from, <<r.from, r.to>>))
  /\ Goto(w, "list_to")
  /\ UNCHANGED <<pages, topic, reactions, chats, news>>

ListTo(w, r) ==
  /\ At(w, "list_to", r)
  /\ Redis(fans, likes, Plus(listed, r.to, <<r.from, r.to>>))
  /\ Goto(w, "tell_from")
  /\ UNCHANGED <<pages, topic, reactions, chats, news>>

\* Mutant of TellMatch: both notifications go to the sender.
TellSender(w, r, at, u, after) ==
  /\ At(w, at, r)
  /\ news' = news \cup {<<r.from, "match", <<r.from, r.to>>>>}
  /\ Goto(w, after)
  /\ UNCHANGED <<pages, topic, reactions, redis, chats, faults>>

TellMatch(w, r, at, u, after) ==
  /\ At(w, at, r)
  /\ \/ news' = news \cup {<<u, "match", <<r.from, r.to>>>>}
        /\ UNCHANGED faults
     \/ Fault /\ UNCHANGED news
  /\ Goto(w, after)
  /\ UNCHANGED <<pages, topic, reactions, redis, chats>>

Commit(w, r) ==
  /\ At(w, "commit", r)
  /\ \/ chats' = chats \cup {<<r.from, r.to>>} /\ UNCHANGED faults
     \/ Fault /\ UNCHANGED chats
  /\ Finish(w)
  /\ UNCHANGED <<pages, topic, reactions, redis, news>>

(* Redis may drop a key when memory is short; it has no other copy.        *)
NoFansKey(u) ==
  /\ fans' = [fans EXCEPT ![u] = {}]
  /\ sorted' = [sorted EXCEPT ![u] = {}]
  /\ expiring' = expiring \ {u}

Evict(u) ==
  /\ Fault
  /\ \/ NoFansKey(u) /\ UNCHANGED <<likes, listed>>
     \/ /\ likes' = [likes EXCEPT ![u] = {}]
        /\ UNCHANGED <<fans, sorted, expiring, listed>>
     \/ /\ listed' = [listed EXCEPT ![u] = {}]
        /\ UNCHANGED <<fans, sorted, expiring, likes>>
  /\ UNCHANGED <<pages, topic, reactions, chats, news, local>>

-----------------------------------------------------------------------------
(* The API on the same keys.                                               *)

Advance(u, from, to) ==
  asking[u] = from /\ asking' = [asking EXCEPT ![u] = to]

(* GetLikingProfiles asks Postgres when the command on the key fails or    *)
(* returns nothing, as it does for a page past the end of the sorted set.  *)
AskFans(u) ==
  /\ u \in Askers
  /\ Advance(u, "idle", "add")
  /\ found' = [found EXCEPT
                 ![u] = {v \in Users : Liked(v, u) /\ ~Rated(u, v)}]
  /\ found'[u] # {}
  /\ UNCHANGED <<topic, reactions, redis, chats, news, local, faults>>

\* ZADD is refused while the key is a set.
FillFans(u) ==
  /\ Advance(u, "add", "expire")
  /\ \/ /\ fans[u] = {}
        /\ sorted' = [sorted EXCEPT ![u] = @ \cup found[u]]
        /\ UNCHANGED faults
     \/ fans[u] # {} /\ UNCHANGED <<sorted, faults>>
     \/ Fault /\ UNCHANGED sorted
  /\ found' = [found EXCEPT ![u] = {}]
  /\ UNCHANGED <<topic, reactions, fans, expiring, likes, listed, chats, news,
                 local>>

\* EXPIRE takes a key of either kind.
ExpireFans(u) ==
  /\ Advance(u, "expire", "idle")
  /\ \/ /\ expiring' = expiring \cup
                         IF fans[u] # {} \/ sorted[u] # {} THEN {u} ELSE {}
        /\ UNCHANGED faults
     \/ Fault /\ UNCHANGED expiring
  /\ UNCHANGED <<topic, reactions, fans, sorted, likes, listed, chats, news,
                 local, found>>

(* The client leaves and its context with it, or the pod dies.             *)
StopAsking(u) ==
  /\ asking[u] # "idle"
  /\ Fault
  /\ asking' = [asking EXCEPT ![u] = "idle"]
  /\ found' = [found EXCEPT ![u] = {}]
  /\ UNCHANGED <<topic, reactions, redis, chats, news, local>>

ElapseFans(u) ==
  /\ u \in expiring
  /\ NoFansKey(u)
  /\ UNCHANGED <<pages, topic, reactions, likes, listed, chats, news, local,
                 faults>>

(* GetChats of a user who is in a chat may add the chats it finds to the   *)
(* list, and gives the list a time to live, at any time; what it adds is   *)
(* in another format and is left out here.                                 *)
ElapseList(u) ==
  /\ \/ \E c \in chats : u \in {c[1], c[2]}
     \/ \E g \in Groups : u \in g
  /\ listed' = [listed EXCEPT ![u] = {}]
  /\ UNCHANGED <<pages, topic, reactions, fans, sorted, expiring, likes, chats,
                 news, local, faults>>

-----------------------------------------------------------------------------
Init ==
  /\ topic = Requests
  /\ reactions = {}
  /\ fans = [u \in Users |-> {}]
  /\ sorted = [u \in Users |-> {}]
  /\ expiring = {}
  /\ likes = [u \in Users |-> {}]
  /\ chats = {}
  /\ listed = [u \in Users |-> {}]
  /\ news = {}
  /\ batch = [w \in Workers |-> <<>>]
  /\ todo = [w \in Workers |-> <<>>]
  /\ pc = [w \in Workers |-> "idle"]
  /\ asking = [u \in Users |-> "idle"]
  /\ found = [u \in Users |-> {}]
  /\ faults = 0

CheckMatch(w, r) ==
  \/ AddFan(w, r) \/ AddLike(w, r) \/ Check(w, r) \/ TellLike(w, r)
  \/ RemFan(w, r) \/ RemFanBack(w, r) \/ RemLike(w, r) \/ RemLikeBack(w, r)
  \/ Find(w, r) \/ CreateChat(w, r) \/ ListFrom(w, r) \/ ListTo(w, r)
  \/ TellMatch(w, r, "tell_from", r.from, "tell_to")
  \/ TellMatch(w, r, "tell_to", r.to, "commit")
  \/ Commit(w, r)

FirstCommand(w) == IF HasRdb THEN Begin(w) \/ Dislike(w) ELSE Panic(w)

WorkerStep(w) ==
  \/ FirstCommand(w) \/ OtherAction(w) \/ ProcessEnd(w)
  \/ \E r \in Requests : CheckMatch(w, r)

ApiStep(u) ==
  \/ AskFans(u) \/ FillFans(u) \/ ExpireFans(u) \/ StopAsking(u)
  \/ ElapseFans(u) \/ ElapseList(u)

Next ==
  \/ \E w \in Workers : \/ \E r \in Requests : Take(w, r)
                        \/ Process(w)
                        \/ WorkerStep(w)
  \/ \E u \in Users : ApiStep(u) \/ Evict(u)
  \/ Crash

Spec == Init /\ [][Next]_vars

(* A Process that has begun goes on.                                       *)
FairSpec == Spec /\ \A w \in Workers : WF_vars(WorkerStep(w))

-----------------------------------------------------------------------------
(* The types of the variables; a key is of one kind at a time, and only    *)
(* one that exists has a time to live (reaction_service.go lines 81-94,    *)
(* reaction_handler.go lines 140-141).                                     *)
TypeOK ==
  /\ topic \subseteq Requests
  /\ reactions \subseteq Requests
  /\ fans \in [Users -> SUBSET Users]
  /\ sorted \in [Users -> SUBSET Users]
  /\ \A u \in Users : fans[u] = {} \/ sorted[u] = {}
  /\ expiring \subseteq {u \in Users : fans[u] # {} \/ sorted[u] # {}}
  /\ likes \in [Users -> SUBSET Users]
  /\ chats \subseteq ChatId
  /\ listed \in [Users -> SUBSET ChatId]
  /\ news \subseteq Users \X {"match", "new_like"} \X ChatId
  /\ batch \in [Workers -> Seq(Requests)]
  /\ todo \in [Workers -> Seq(Requests)]
  /\ pc \in [Workers -> Steps]
  /\ asking \in [Users -> {"idle", "add", "expire"}]
  /\ found \in [Users -> SUBSET Users]
  /\ faults \in 0..MaxFaults

(* A dialog and the news of a match mean that both users liked each other, *)
(* whatever the workers do at the same time and whatever fails, though the *)
(* table is never asked: only Redis is, which several workers fill and     *)
(* empty.                                                                  *)
NoFalseMatch ==
  /\ \A c \in chats : Liked(c[1], c[2]) /\ Liked(c[2], c[1])
  /\ \A n \in news : n[2] = "match" =>
       n[1] \in {n[3][1], n[3][2]} /\ Liked(n[3][1], n[3][2])
         /\ Liked(n[3][2], n[3][1])

\* Worker w checks the reaction of a to b, or has still to check it.
Checking(w, a, b) ==
  \E i \in DOMAIN todo[w] : todo[w][i].from = a /\ todo[w][i].to = b
InCheck(a, b) == \E w \in Workers : Checking(w, a, b) \/ Checking(w, b, a)

(* No couple is missed: of two checks at the same time at least one sees   *)
(* the like of the other, so when both are over the couple has a chat.     *)
CoupleMatched ==
  faults = 0 /\ HasRdb =>
    \A a, b \in Users :
      a # b /\ Liked(a, b) /\ Liked(b, a) /\ ~InCheck(a, b) => Shared(a, b)

(* Nothing of a matched couple stays behind in Redis for good, where it    *)
(* would show either of them a fan they have already met: what one check   *)
(* removes no other one adds afterwards.  A fan that GetLikingProfiles put *)
(* into a sorted set is out of the workers' reach, but that set has a time *)
(* to live, or the call that made it is about to give it one               *)
(* (reaction_service.go lines 81-94, reaction_handler.go lines 117-141).   *)
CoupleCleared ==
  faults = 0 =>
    \A a, b \in Users :
      a # b /\ Liked(a, b) /\ Liked(b, a) /\ ~InCheck(a, b) =>
        /\ a \notin fans[b] /\ b \notin likes[a]
        /\ a \in sorted[b] => b \in expiring \/ asking[b] = "expire"

(* A like that is not answered is kept for the check of the answer to      *)
(* find, and its receiver has been told.  It is also among the fans of a   *)
(* receiver who never calls GetLikingProfiles; after such a call the key   *)
(* may be of the other kind or expire, and the like is found in Postgres   *)
(* only (reaction_service.go lines 81-86 and 131, reaction_handler.go      *)
(* lines 126-141).                                                         *)
LikeRemembered ==
  faults = 0 /\ HasRdb =>
    \A a, b \in Users :
      a # b /\ Liked(a, b) /\ ~Rated(b, a) /\ ~InCheck(a, b) =>
        /\ b \in likes[a]
        /\ <<b, "new_like", <<a, b>>>> \in news
        /\ b \notin Askers => a \in fans[b]

\* A worker has announced the dialog c, or is about to, and will commit it.
Opening(c) ==
  \E w \in Workers :
    /\ pc[w] \in {"list_to", "tell_from", "tell_to", "commit"}
    /\ todo[w] # <<>>
    /\ c = <<Head(todo[w]).from, Head(todo[w]).to>>

(* Both members of a dialog have been told of it; and what anybody was     *)
(* told of, or finds in the list of chats, is a dialog or is about to be   *)
(* one, unless a transaction failed (reaction_service.go lines 96-129).    *)
(* That the list has the dialog cannot be promised: it may expire before   *)
(* the dialog is committed.                                                *)
MatchAnnounced ==
  faults = 0 =>
    /\ \A c \in chats : \A u \in {c[1], c[2]} : <<u, "match", c>> \in news
    /\ \A c \in ChatId, u \in Users :
         <<u, "match", c>> \in news \/ c \in listed[u] =>
           c \in chats \/ Opening(c)

(* As NewReactionHandler builds the handler nothing is ever checked: of    *)
(* all that is stored, over all restarts, no like reaches Redis, nobody is *)
(* told of any and no dialog is opened (reaction_service.go lines 25, 72   *)
(* and 81).                                                                *)
NothingChecked ==
  ~HasRdb =>
    /\ chats = {} /\ news = {}
    /\ \A u \in Users : fans[u] = {} /\ likes[u] = {} /\ listed[u] = {}

(* Two likes of each other that were stored lead to a chat.                *)
CouplesMeet ==
  \A r \in {q \in Requests : q.action = "like" /\ q.from # q.to} :
    HasRdb /\ Liked(r.from, r.to) /\ Liked(r.to, r.from)
      ~> Shared(r.from, r.to) \/ faults # 0

MatchSteps == {"rem_fan", "rem_fan_back", "rem_like", "rem_like_back", "find",
               "create", "list_from", "list_to", "tell_from", "tell_to",
               "commit"}
LikeSteps == MatchSteps \cup {"add_fan", "add_like", "check", "tell_like"}

(* NoFalseMatch, made inductive: Redis holds stored likes only, and who    *)
(* works on a match has seen one of the other user.                        *)
LikesStored == \A a, b \in Users : b \in likes[a] => Liked(a, b)
TodoStored(w) ==
  /\ \A i \in DOMAIN todo[w] : todo[w][i] \in reactions
  /\ pc[w] = "idle" => todo[w] = <<>>
  /\ pc[w] \in LikeSteps =>
       todo[w] # <<>> /\ Head(todo[w]).action = "like"
  /\ pc[w] \in MatchSteps => Liked(Head(todo[w]).to, Head(todo[w]).from)

Justified ==
  NoFalseMatch /\ LikesStored /\ \A w \in Workers : TodoStored(w)

(* CoupleMatched, made inductive.  A stored like has not been added yet,   *)
(* or is in the set of its sender, or is part of a match; and where both   *)
(* likes are in the sets somebody is just before the check that sees it.   *)
Waiting(w, a, b) ==
  \E i \in DOMAIN todo[w] :
    todo[w][i] = Like(a, b)
      /\ (i > 1 \/ pc[w] \in {"next", "add_fan", "add_like"})
HeadIs(w, a, b) ==
  todo[w] # <<>> /\ Head(todo[w]) \in {Like(a, b), Like(b, a)}
Meeting(a, b) ==
  Shared(a, b) \/ \E w \in Workers : pc[w] \in MatchSteps /\ HeadIs(w, a, b)

Kept(a, b) ==
  Liked(a, b) => \/ \E w \in Workers : Waiting(w, a, b)
                 \/ b \in likes[a]
                 \/ Meeting(a, b)
Noticed(a, b) ==
  b \in likes[a] /\ a \in likes[b] =>
    \/ Meeting(a, b)
    \/ \E w \in Workers : pc[w] = "check" /\ HeadIs(w, a, b)

NoneMissed ==
  faults = 0 /\ HasRdb =>
    \A a, b \in Users : a # b => Kept(a, b) /\ Noticed(a, b)

(* What Process says of itself, that it checks the stored reactions for    *)
(* matches: CouplesMeet of the handler as NewReactionHandler makes it.     *)
MatchesChecked ==
  \A r \in {q \in Requests : q.action = "like" /\ q.from # q.to} :
    Liked(r.from, r.to) /\ Liked(r.to, r.from)
      ~> Shared(r.from, r.to) \/ faults # 0
=============================================================================
