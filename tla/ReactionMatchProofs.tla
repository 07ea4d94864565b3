------------------------ MODULE ReactionMatchProofs ------------------------
(* Proofs about ReactionMatch.                                             *)
EXTENDS ReactionMatch, TLAPS

USE ReactionMatchAssumption

-----------------------------------------------------------------------------
LEMMA SubsetAdd ==
  ASSUME NEW S, NEW T, S \subseteq T, NEW x \in T
  PROVE  S \cup {x} \subseteq T
  OBVIOUS

(* The parts of TypeOK that a command to Redis, and that a step of a worker *)
(* within its batch, can disturb.                                          *)
RedisTypeOK ==
  /\ fans \in [Users -> SUBSET Users]
  /\ sorted \in [Users -> SUBSET Users]
  /\ \A u \in Users : fans[u] = {} \/ sorted[u] = {}
  /\ expiring \subseteq {u \in Users : fans[u] # {} \/ sorted[u] # {}}
  /\ likes \in [Users -> SUBSET Users]
  /\ listed \in [Users -> SUBSET ChatId]
  /\ faults \in 0..MaxFaults

LocalTypeOK ==
  /\ batch \in [Workers -> Seq(Requests)]
  /\ todo \in [Workers -> Seq(Requests)]
  /\ pc \in [Workers -> Steps]

LEMMA SameRedisType ==
  ASSUME TypeOK, UNCHANGED redis, faults' \in 0..MaxFaults
  PROVE  RedisTypeOK'
<1>1. /\ fans' = fans /\ sorted' = sorted /\ expiring' = expiring
      /\ likes' = likes /\ listed' = listed
  BY DEF redis
<1> QED
  BY <1>1 DEF TypeOK, RedisTypeOK

LEMMA FaultType == TypeOK /\ (UNCHANGED faults \/ Fault) => faults' \in 0..MaxFaults
  BY DEF TypeOK, Fault

(* A command that changes the sets within their types.                     *)
LEMMA RedisType ==
  ASSUME TypeOK,
         NEW f \in [Users -> SUBSET Users],
         NEW l \in [Users -> SUBSET Users],
         NEW s \in [Users -> SUBSET ChatId],
         \A u \in Users : f[u] = {} \/ sorted[u] = {},
         Redis(f, l, s)
  PROVE  RedisTypeOK'
<1>1. CASE Fault /\ UNCHANGED redis
  BY <1>1, FaultType, SameRedisType
<1>2. CASE /\ fans' = f /\ likes' = l /\ listed' = s
           /\ expiring' = {u \in expiring : f[u] # {} \/ sorted[u] # {}}
           /\ UNCHANGED <<sorted, faults>>
  BY <1>2 DEF TypeOK, RedisTypeOK
<1> QED
  BY <1>1, <1>2 DEF Redis

(* Fans come and go within their type, and none is added to a sorted set.  *)
LEMMA FansType ==
  ASSUME TypeOK, NEW u \in Users, NEW v \in Users
  PROVE  /\ FanAdded(u, v) \in [Users -> SUBSET Users]
         /\ \A x \in Users : FanAdded(u, v)[x] = {} \/ sorted[x] = {}
         /\ Minus(fans, u, v) \in [Users -> SUBSET Users]
         /\ \A x \in Users : Minus(fans, u, v)[x] = {} \/ sorted[x] = {}
<1>1. fans \in [Users -> SUBSET Users]
      /\ \A x \in Users : fans[x] = {} \/ sorted[x] = {}
  BY DEF TypeOK
<1>2. \A x \in Users :
        FanAdded(u, v)[x] \in {fans[x], fans[x] \cup {v}}
          /\ (FanAdded(u, v)[x] # fans[x] => x = u /\ sorted[u] = {})
  BY <1>1 DEF FanAdded, Plus
<1>3. FanAdded(u, v) \in [Users -> SUBSET Users]
  BY <1>1 DEF FanAdded, Plus
<1>4. /\ Minus(fans, u, v) \in [Users -> SUBSET Users]
      /\ \A x \in Users : Minus(fans, u, v)[x] \subseteq fans[x]
  BY <1>1 DEF Minus
<1>5. \A x \in Users : Minus(fans, u, v)[x] = {} \/ sorted[x] = {}
  <2> SUFFICES ASSUME NEW x \in Users, fans[x] = {}
               PROVE  Minus(fans, u, v)[x] = {}
    BY <1>1
  <2> QED
    BY <1>4
<1> QED
  BY <1>1, <1>2, <1>3, <1>4, <1>5

(* Where a step of a worker goes, its types stay right.                    *)
LEMMA LocalType ==
  ASSUME TypeOK, NEW w \in Workers,
         \/ \E p \in Steps : Goto(w, p)
         \/ Finish(w) /\ todo[w] # <<>>
  PROVE  LocalTypeOK'
<1>1. ASSUME NEW p \in Steps, Goto(w, p)
      PROVE  LocalTypeOK'
  BY <1>1 DEF TypeOK, Goto, LocalTypeOK
<1>2. ASSUME Finish(w), todo[w] # <<>>
      PROVE  LocalTypeOK'
  <2>1. Tail(todo[w]) \in Seq(Requests)
    BY <1>2 DEF TypeOK
  <2> QED
    BY <1>2, <2>1 DEF TypeOK, Finish, Steps, LocalTypeOK
<1> QED
  BY <1>1, <1>2

(* What the current reaction of a worker is made of.                       *)
LEMMA RequestType ==
  ASSUME NEW r \in Requests
  PROVE  r.from \in Users /\ r.to \in Users /\ r.action \in Actions
         /\ <<r.from, r.to>> \in ChatId
  BY DEF Reaction, ChatId

LEMMA RestartedType ==
  ASSUME Restarted
  PROVE  LocalTypeOK'
  BY DEF Restarted, Steps, LocalTypeOK

-----------------------------------------------------------------------------
(* Type correctness.                                                       *)
LEMMA CheckMatchType ==
  ASSUME TypeOK, NEW w \in Workers, NEW r \in Requests, CheckMatch(w, r)
  PROVE  TypeOK'
<1> /\ r.from \in Users /\ r.to \in Users
    /\ <<r.from, r.to>> \in ChatId
  BY RequestType
<1> USE DEF Steps, pages
<1>1. CASE AddFan(w, r)
  <2>1. /\ FanAdded(r.to, r.from) \in [Users -> SUBSET Users]
        /\ \A x \in Users : FanAdded(r.to, r.from)[x] = {} \/ sorted[x] = {}
    BY FansType
  <2>2. Redis(FanAdded(r.to, r.from), likes, listed)
    BY <1>1 DEF AddFan
  <2>3. Goto(w, "add_like")
    BY <1>1 DEF AddFan
  <2>4. RedisTypeOK'
    BY <2>1, <2>2, RedisType DEF TypeOK
  <2>5. LocalTypeOK'
    BY <2>3, LocalType
  <2> QED
    BY <1>1, <2>4, <2>5 DEF AddFan, TypeOK, RedisTypeOK,
      LocalTypeOK
<1>2. CASE AddLike(w, r)
  <2>1. Plus(likes, r.from, r.to) \in [Users -> SUBSET Users]
    BY DEF TypeOK, Plus, Minus
  <2>2. Redis(fans, Plus(likes, r.from, r.to), listed)
    BY <1>2 DEF AddLike
  <2>3. Goto(w, "check")
    BY <1>2 DEF AddLike
  <2>4. RedisTypeOK'
    BY <2>1, <2>2, RedisType DEF TypeOK
  <2>5. LocalTypeOK'
    BY <2>3, LocalType
  <2> QED
    BY <1>2, <2>4, <2>5 DEF AddLike, TypeOK, RedisTypeOK,
      LocalTypeOK
<1>3. CASE RemFan(w, r)
  <2>1. /\ Minus(fans, r.to, r.from) \in [Users -> SUBSET Users]
        /\ \A x \in Users : Minus(fans, r.to, r.from)[x] = {} \/ sorted[x] = {}
    BY FansType
  <2>2. Redis(Minus(fans, r.to, r.from), likes, listed)
    BY <1>3 DEF RemFan
  <2>3. Goto(w, "rem_fan_back")
    BY <1>3 DEF RemFan
  <2>4. RedisTypeOK'
    BY <2>1, <2>2, RedisType DEF TypeOK
  <2>5. LocalTypeOK'
    BY <2>3, LocalType
  <2> QED
    BY <1>3, <2>4, <2>5 DEF RemFan, TypeOK, RedisTypeOK,
      LocalTypeOK
<1>4. CASE RemFanBack(w, r)
  <2>1. /\ Minus(fans, r.from, r.to) \in [Users -> SUBSET Users]
        /\ \A x \in Users : Minus(fans, r.from, r.to)[x] = {} \/ sorted[x] = {}
    BY FansType
  <2>2. Redis(Minus(fans, r.from, r.to), likes, listed)
    BY <1>4 DEF RemFanBack
  <2>3. Goto(w, "rem_like")
    BY <1>4 DEF RemFanBack
  <2>4. RedisTypeOK'
    BY <2>1, <2>2, RedisType DEF TypeOK
  <2>5. LocalTypeOK'
    BY <2>3, LocalType
  <2> QED
    BY <1>4, <2>4, <2>5 DEF RemFanBack, TypeOK, RedisTypeOK,
      LocalTypeOK
<1>5. CASE RemLike(w, r)
  <2>1. Minus(likes, r.from, r.to) \in [Users -> SUBSET Users]
    BY DEF TypeOK, Plus, Minus
  <2>2. Redis(fans, Minus(likes, r.from, r.to), listed)
    BY <1>5 DEF RemLike
  <2>3. Goto(w, "rem_like_back")
    BY <1>5 DEF RemLike
  <2>4. RedisTypeOK'
    BY <2>1, <2>2, RedisType DEF TypeOK
  <2>5. LocalTypeOK'
    BY <2>3, LocalType
  <2> QED
    BY <1>5, <2>4, <2>5 DEF RemLike, TypeOK, RedisTypeOK,
      LocalTypeOK
<1>6. CASE RemLikeBack(w, r)
  <2>1. Minus(likes, r.to, r.from) \in [Users -> SUBSET Users]
    BY DEF TypeOK, Plus, Minus
  <2>2. Redis(fans, Minus(likes, r.to, r.from), listed)
    BY <1>6 DEF RemLikeBack
  <2>3. Goto(w, "find")
    BY <1>6 DEF RemLikeBack
  <2>4. RedisTypeOK'
    BY <2>1, <2>2, RedisType DEF TypeOK
  <2>5. LocalTypeOK'
    BY <2>3, LocalType
  <2> QED
    BY <1>6, <2>4, <2>5 DEF RemLikeBack, TypeOK, RedisTypeOK,
      LocalTypeOK
<1>7. CASE ListFrom(w, r)
  <2>1. Plus(listed, r.from, <<r.from, r.to>>) \in [Users -> SUBSET ChatId]
    BY DEF TypeOK, Plus, Minus
  <2>2. Redis(fans, likes, Plus(listed, r.from, <<r.from, r.to>>))
    BY <1>7 DEF ListFrom
  <2>3. Goto(w, "list_to")
    BY <1>7 DEF ListFrom
  <2>4. RedisTypeOK'
    BY <2>1, <2>2, RedisType DEF TypeOK
  <2>5. LocalTypeOK'
    BY <2>3, LocalType
  <2> QED
    BY <1>7, <2>4, <2>5 DEF ListFrom, TypeOK, RedisTypeOK,
      LocalTypeOK
<1>8. CASE ListTo(w, r)
  <2>1. Plus(listed, r.to, <<r.from, r.to>>) \in [Users -> SUBSET ChatId]
    BY DEF TypeOK, Plus, Minus
  <2>2. Redis(fans, likes, Plus(listed, r.to, <<r.from, r.to>>))
    BY <1>8 DEF ListTo
  <2>3. Goto(w, "tell_from")
    BY <1>8 DEF ListTo
  <2>4. RedisTypeOK'
    BY <2>1, <2>2, RedisType DEF TypeOK
  <2>5. LocalTypeOK'
    BY <2>3, LocalType
  <2> QED
    BY <1>8, <2>4, <2>5 DEF ListTo, TypeOK, RedisTypeOK,
      LocalTypeOK
<1>9. CASE Check(w, r)
  <2>1. todo[w] # <<>> /\ (Goto(w, "rem_fan") \/ Goto(w, "tell_like"))
    BY <1>9 DEF Check, At
  <2>2. LocalTypeOK'
    BY <2>1, LocalType
  <2>3. /\ UNCHANGED <<topic, reactions, chats, news, asking, found, redis>>
        /\ faults' \in 0..MaxFaults
    BY <1>9, FaultType DEF Check
  <2>4. RedisTypeOK'
    BY <2>3, SameRedisType
  <2> QED
    BY <2>2, <2>3, <2>4 DEF TypeOK, RedisTypeOK, LocalTypeOK
<1>10. CASE TellLike(w, r)
  <2>1. todo[w] # <<>> /\ (Finish(w))
    BY <1>10 DEF TellLike, At
  <2>2. LocalTypeOK'
    BY <2>1, LocalType
  <2>3. <<r.to, "new_like", <<r.from, r.to>>>>
          \in Users \X {"match", "new_like"} \X ChatId
    OBVIOUS
  <2>4. news \cup {<<r.to, "new_like", <<r.from, r.to>>>>}
          \subseteq Users \X {"match", "new_like"} \X ChatId
    BY <2>3, SubsetAdd DEF TypeOK
  <2>5. /\ news' \subseteq Users \X {"match", "new_like"} \X ChatId
        /\ faults' \in 0..MaxFaults
    BY <1>10, <2>4 DEF TellLike, TypeOK, Fault
  <2> QED
    BY <1>10, <2>2, <2>5 DEF TellLike, TypeOK, redis,
      LocalTypeOK
<1>11. CASE Find(w, r)
  <2>1. todo[w] # <<>> /\ (Goto(w, "create") \/ Finish(w))
    BY <1>11 DEF Find, At
  <2>2. LocalTypeOK'
    BY <2>1, LocalType
  <2>3. /\ UNCHANGED <<topic, reactions, chats, news, asking, found, redis>>
        /\ faults' \in 0..MaxFaults
    BY <1>11, FaultType DEF Find
  <2>4. RedisTypeOK'
    BY <2>3, SameRedisType
  <2> QED
    BY <2>2, <2>3, <2>4 DEF TypeOK, RedisTypeOK, LocalTypeOK
<1>12. CASE CreateChat(w, r)
  <2>1. todo[w] # <<>> /\ (Goto(w, "list_from") \/ Finish(w))
    BY <1>12 DEF CreateChat, At
  <2>2. LocalTypeOK'
    BY <2>1, LocalType
  <2>3. /\ UNCHANGED <<topic, reactions, chats, news, asking, found, redis>>
        /\ faults' \in 0..MaxFaults
    BY <1>12, FaultType DEF CreateChat
  <2>4. RedisTypeOK'
    BY <2>3, SameRedisType
  <2> QED
    BY <2>2, <2>3, <2>4 DEF TypeOK, RedisTypeOK, LocalTypeOK
<1>13. CASE Commit(w, r)
  <2>1. todo[w] # <<>> /\ (Finish(w))
    BY <1>13 DEF Commit, At
  <2>2. LocalTypeOK'
    BY <2>1, LocalType
  <2>3. chats \cup {<<r.from, r.to>>} \subseteq ChatId
    BY SubsetAdd DEF TypeOK
  <2>4. chats' \subseteq ChatId /\ faults' \in 0..MaxFaults
    BY <1>13, <2>3 DEF Commit, TypeOK, Fault
  <2> QED
    BY <1>13, <2>2, <2>4 DEF Commit, TypeOK, redis,
      LocalTypeOK
<1>14. CASE TellMatch(w, r, "tell_from", r.from, "tell_to")
  <2>1. Goto(w, "tell_to")
    BY <1>14 DEF TellMatch
  <2>2. LocalTypeOK'
    BY <2>1, LocalType
  <2>3. <<r.from, "match", <<r.from, r.to>>>>
          \in Users \X {"match", "new_like"} \X ChatId
    OBVIOUS
  <2>4. news \cup {<<r.from, "match", <<r.from, r.to>>>>}
          \subseteq Users \X {"match", "new_like"} \X ChatId
    BY <2>3, SubsetAdd DEF TypeOK
  <2>5. /\ news' \subseteq Users \X {"match", "new_like"} \X ChatId
        /\ faults' \in 0..MaxFaults
    BY <1>14, <2>4 DEF TellMatch, TypeOK, Fault
  <2> QED
    BY <1>14, <2>2, <2>5 DEF TellMatch, TypeOK, redis,
      LocalTypeOK
<1>15. CASE TellMatch(w, r, "tell_to", r.to, "commit")
  <2>1. Goto(w, "commit")
    BY <1>15 DEF TellMatch
  <2>2. LocalTypeOK'
    BY <2>1, LocalType
  <2>3. <<r.to, "match", <<r.from, r.to>>>>
          \in Users \X {"match", "new_like"} \X ChatId
    OBVIOUS
  <2>4. news \cup {<<r.to, "match", <<r.from, r.to>>>>}
          \subseteq Users \X {"match", "new_like"} \X ChatId
    BY <2>3, SubsetAdd DEF TypeOK
  <2>5. /\ news' \subseteq Users \X {"match", "new_like"} \X ChatId
        /\ faults' \in 0..MaxFaults
    BY <1>15, <2>4 DEF TellMatch, TypeOK, Fault
  <2> QED
    BY <1>15, <2>2, <2>5 DEF TellMatch, TypeOK, redis,
      LocalTypeOK
<1> QED
  BY <1>1, <1>2, <1>3, <1>4, <1>5, <1>6, <1>7, <1>8, <1>9, <1>10, <1>11, <1>12, <1>13, <1>14, <1>15 DEF CheckMatch

LEMMA NoFansKeyType ==
  ASSUME TypeOK, NEW u \in Users, NoFansKey(u),
         likes' \in [Users -> SUBSET Users],
         listed' \in [Users -> SUBSET ChatId],
         faults' \in 0..MaxFaults
  PROVE  RedisTypeOK'
<1>1. /\ fans' = [fans EXCEPT ![u] = {}]
      /\ sorted' = [sorted EXCEPT ![u] = {}]
      /\ expiring' = expiring \ {u}
  BY DEF NoFansKey
<1>2. /\ fans' \in [Users -> SUBSET Users]
      /\ sorted' \in [Users -> SUBSET Users]
      /\ \A x \in Users : fans'[x] = {} \/ sorted'[x] = {}
  BY <1>1 DEF TypeOK
<1>3. expiring' \subseteq {x \in Users : fans'[x] # {} \/ sorted'[x] # {}}
  BY <1>1 DEF TypeOK
<1> QED
  BY <1>2, <1>3 DEF RedisTypeOK

(* What the API leaves alone, whichever call it is.                        *)
LEMMA ApiFrame ==
  ASSUME NEW u, ApiStep(u)
  PROVE  /\ UNCHANGED <<topic, reactions, likes, chats, news, batch, todo, pc>>
         /\ UNCHANGED faults \/ Fault
<1>1. CASE AskFans(u)
  BY <1>1 DEF AskFans, redis, local
<1>2. CASE FillFans(u)
  BY <1>2 DEF FillFans, local
<1>3. CASE ExpireFans(u)
  BY <1>3 DEF ExpireFans, local
<1>4. CASE StopAsking(u)
  BY <1>4 DEF StopAsking, redis, local
<1>5. CASE ElapseFans(u)
  BY <1>5 DEF ElapseFans, local
<1>6. CASE ElapseList(u)
  BY <1>6 DEF ElapseList, local
<1> QED
  BY <1>1, <1>2, <1>3, <1>4, <1>5, <1>6 DEF ApiStep

LEMMA ApiType ==
  ASSUME TypeOK, NEW u \in Users, ApiStep(u)
  PROVE  TypeOK'
<1>1. /\ UNCHANGED <<topic, reactions, likes, chats, news, batch, todo, pc>>
      /\ faults' \in 0..MaxFaults
  BY ApiFrame DEF TypeOK, Fault
<1>2. SUFFICES RedisTypeOK' /\ /\ asking' \in [Users -> {"idle", "add", "expire"}]
                             /\ found' \in [Users -> SUBSET Users]
  BY <1>1 DEF TypeOK, RedisTypeOK
<1>3. CASE AskFans(u)
  <2>1. {v \in Users : Liked(v, u) /\ ~Rated(u, v)} \in SUBSET Users
    OBVIOUS
  <2>2. /\ UNCHANGED redis
        /\ asking' = [asking EXCEPT ![u] = "add"]
        /\ found' = [found EXCEPT
                       ![u] = {v \in Users : Liked(v, u) /\ ~Rated(u, v)}]
    BY <1>3 DEF AskFans, Advance
  <2>3. RedisTypeOK'
    BY <1>1, <2>2 DEF RedisTypeOK, TypeOK, redis
  <2> QED
    BY <2>1, <2>2, <2>3 DEF TypeOK
<1>4. CASE FillFans(u)
  <2>1. /\ UNCHANGED <<fans, expiring, likes, listed>>
        /\ asking' = [asking EXCEPT ![u] = "expire"]
        /\ found' = [found EXCEPT ![u] = {}]
        /\ \/ fans[u] = {} /\ sorted' = [sorted EXCEPT ![u] = @ \cup found[u]]
           \/ UNCHANGED sorted
    BY <1>4 DEF FillFans, Advance
  <2>a. /\ sorted \in [Users -> SUBSET Users] /\ found[u] \subseteq Users
        /\ \A x \in Users : fans[x] = {} \/ sorted[x] = {}
        /\ \A x \in expiring : x \in Users /\ (fans[x] # {} \/ sorted[x] # {})
    BY DEF TypeOK
  <2>b. ASSUME fans[u] = {}, sorted' = [sorted EXCEPT ![u] = @ \cup found[u]]
        PROVE  RedisTypeOK'
    <3>1. sorted' \in [Users -> SUBSET Users]
      BY <2>a, <2>b
    <3>2. \A x \in Users : sorted[x] \subseteq sorted'[x] /\ (x # u => sorted'[x] = sorted[x])
      BY <2>a, <2>b
    <3>3. \A x \in Users : fans[x] = {} \/ sorted'[x] = {}
      BY <2>a, <2>b, <3>2
    <3>4. expiring \subseteq {x \in Users : fans[x] # {} \/ sorted'[x] # {}}
      BY <2>a, <3>2
    <3> QED
      BY <1>1, <2>1, <3>1, <3>3, <3>4 DEF RedisTypeOK, TypeOK
  <2>c. ASSUME UNCHANGED sorted
        PROVE  RedisTypeOK'
    <3>1. UNCHANGED redis
      BY <2>1, <2>c DEF redis
    <3> QED
      BY <1>1, <3>1, SameRedisType
  <2>3. RedisTypeOK'
    BY <2>1, <2>b, <2>c
  <2> QED
    BY <2>1, <2>3 DEF TypeOK
<1>5. CASE ExpireFans(u)
  <2>1. /\ UNCHANGED <<fans, sorted, likes, listed, found>>
        /\ asking' = [asking EXCEPT ![u] = "idle"]
        /\ \/ expiring' = expiring
           \/ /\ fans[u] # {} \/ sorted[u] # {}
              /\ expiring' = expiring \cup {u}
    BY <1>5 DEF ExpireFans, Advance
  <2>2. RedisTypeOK'
    BY <1>1, <2>1 DEF RedisTypeOK, TypeOK
  <2> QED
    BY <2>1, <2>2 DEF TypeOK
<1>6. CASE StopAsking(u)
  <2>1. /\ UNCHANGED redis
        /\ asking' = [asking EXCEPT ![u] = "idle"]
        /\ found' = [found EXCEPT ![u] = {}]
    BY <1>6 DEF StopAsking
  <2>2. RedisTypeOK'
    BY <1>1, <2>1 DEF RedisTypeOK, TypeOK, redis
  <2> QED
    BY <2>1, <2>2 DEF TypeOK
<1>7. CASE ElapseFans(u)
  <2>1. NoFansKey(u) /\ UNCHANGED <<asking, found, likes, listed>>
    BY <1>7 DEF ElapseFans, pages
  <2> QED
    BY <1>1, <2>1, NoFansKeyType DEF TypeOK
<1>8. CASE ElapseList(u)
  <2>1. /\ UNCHANGED <<asking, found, fans, sorted, expiring>>
        /\ listed' = [listed EXCEPT ![u] = {}]
    BY <1>8 DEF ElapseList, pages
  <2> QED
    BY <1>1, <2>1 DEF RedisTypeOK, TypeOK
<1> QED
  BY <1>3, <1>4, <1>5, <1>6, <1>7, <1>8 DEF ApiStep

LEMMA TypeInductive == TypeOK /\ [Next]_vars => TypeOK'
<1> SUFFICES ASSUME TypeOK, [Next]_vars
             PROVE  TypeOK'
  OBVIOUS
<1>1. ASSUME NEW w \in Workers, NEW r \in Requests, Take(w, r)
      PROVE  TypeOK'
  <2>1. Append(batch[w], r) \in Seq(Requests)
    BY DEF TypeOK
  <2>2. /\ UNCHANGED <<reactions, redis, chats, news, asking, found, faults>>
        /\ topic' \subseteq Requests
    BY <1>1 DEF Take, TypeOK, pages
  <2>3. LocalTypeOK'
    BY <1>1, <2>1 DEF Take, TypeOK, LocalTypeOK
  <2>4. RedisTypeOK'
    BY <2>2, SameRedisType, FaultType
  <2> QED
    BY <2>2, <2>3, <2>4 DEF TypeOK, RedisTypeOK, LocalTypeOK
<1>2. ASSUME NEW w \in Workers, Process(w)
      PROVE  TypeOK'
  <2>1. batch[w] \in Seq(Requests) /\ Range(batch[w]) \subseteq Requests
    BY DEF TypeOK, Range
  <2>2. /\ UNCHANGED <<topic, redis, chats, news, asking, found, faults>>
        /\ reactions' \subseteq Requests
    BY <1>2, <2>1 DEF Process, TypeOK, pages
  <2>3. LocalTypeOK'
    BY <1>2, <2>1 DEF Process, TypeOK, LocalTypeOK, Steps
  <2>4. RedisTypeOK'
    BY <2>2, SameRedisType, FaultType
  <2> QED
    BY <2>2, <2>3, <2>4 DEF TypeOK, RedisTypeOK, LocalTypeOK
<1>3. ASSUME NEW w \in Workers, Panic(w)
      PROVE  TypeOK'
  <2>1. /\ UNCHANGED <<topic, reactions, redis, chats, news, asking, found,
                       faults>>
        /\ LocalTypeOK'
    BY <1>3, RestartedType DEF Panic, pages
  <2>2. RedisTypeOK'
    BY <2>1, SameRedisType, FaultType
  <2> QED
    BY <2>1, <2>2 DEF TypeOK, RedisTypeOK, LocalTypeOK
<1>4. ASSUME NEW w \in Workers, ProcessEnd(w) \/ Begin(w) \/ OtherAction(w)
      PROVE  TypeOK'
  <2>1. \/ \E p \in Steps : Goto(w, p)
        \/ Finish(w) /\ todo[w] # <<>>
    BY <1>4 DEF ProcessEnd, Begin, OtherAction, Steps
  <2>2. LocalTypeOK'
    BY <2>1, LocalType
  <2>3. UNCHANGED <<topic, reactions, redis, chats, news, asking, found, faults>>
    BY <1>4 DEF ProcessEnd, Begin, OtherAction, pages
  <2>4. RedisTypeOK'
    BY <2>3, SameRedisType, FaultType
  <2> QED
    BY <2>2, <2>3, <2>4 DEF TypeOK, RedisTypeOK, LocalTypeOK
<1>5. ASSUME NEW w \in Workers, Dislike(w)
      PROVE  TypeOK'
  <2>a. Head(todo[w]) \in Requests
    BY <1>5 DEF Dislike, TypeOK
  <2>1. Head(todo[w]).from \in Users /\ Head(todo[w]).to \in Users
    BY <2>a, RequestType
  <2>2. /\ Minus(fans, Head(todo[w]).to, Head(todo[w]).from)
             \in [Users -> SUBSET Users]
        /\ \A x \in Users :
             \/ Minus(fans, Head(todo[w]).to, Head(todo[w]).from)[x] = {}
             \/ sorted[x] = {}
    BY <2>1, FansType
  <2>3. RedisTypeOK'
    BY <1>5, <2>2, RedisType DEF TypeOK, Dislike
  <2>4. LocalTypeOK'
    BY <1>5, LocalType DEF Dislike
  <2> QED
    BY <1>5, <2>3, <2>4 DEF Dislike, TypeOK, pages, RedisTypeOK, LocalTypeOK
<1>6. ASSUME NEW w \in Workers, NEW r \in Requests, CheckMatch(w, r)
      PROVE  TypeOK'
  BY <1>6, CheckMatchType
<1>7. ASSUME NEW u \in Users, Evict(u)
      PROVE  TypeOK'
  <2>1. /\ faults' \in 0..MaxFaults
        /\ UNCHANGED <<asking, found, topic, reactions, chats, news, batch,
                       todo, pc>>
    BY <1>7 DEF Evict, Fault, TypeOK, local, pages
  <2>2. RedisTypeOK'
    <3>1. CASE NoFansKey(u) /\ UNCHANGED <<likes, listed>>
      BY <2>1, <3>1, NoFansKeyType DEF TypeOK
    <3>2. CASE /\ likes' = [likes EXCEPT ![u] = {}]
               /\ UNCHANGED <<fans, sorted, expiring, listed>>
      BY <2>1, <3>2 DEF TypeOK, RedisTypeOK
    <3>3. CASE /\ listed' = [listed EXCEPT ![u] = {}]
               /\ UNCHANGED <<fans, sorted, expiring, likes>>
      BY <2>1, <3>3 DEF TypeOK, RedisTypeOK
    <3> QED
      BY <1>7, <3>1, <3>2, <3>3 DEF Evict
  <2> QED
    BY <2>1, <2>2 DEF TypeOK, RedisTypeOK
<1>8. CASE Crash
  <2>1. /\ UNCHANGED <<topic, reactions, redis, chats, news, asking, found>>
        /\ faults' \in 0..MaxFaults
        /\ LocalTypeOK'
    BY <1>8, RestartedType, FaultType DEF Crash, pages
  <2>2. RedisTypeOK'
    BY <2>1, SameRedisType
  <2> QED
    BY <2>1, <2>2 DEF TypeOK, RedisTypeOK, LocalTypeOK
<1>9. CASE UNCHANGED vars
  <2>1. UNCHANGED <<topic, reactions, redis, chats, news, batch, todo, pc,
                    asking, found, faults>>
    BY <1>9 DEF vars, local, pages
  <2>2. RedisTypeOK'
    BY <2>1, SameRedisType, FaultType
  <2> QED
    BY <2>1, <2>2 DEF TypeOK, RedisTypeOK
<1>10. ASSUME NEW u \in Users, ApiStep(u)
       PROVE  TypeOK'
  BY <1>10, ApiType
<1> QED
  BY <1>1, <1>2, <1>3, <1>4, <1>5, <1>6, <1>7, <1>8, <1>9, <1>10
  DEF Next, WorkerStep, FirstCommand

(* The state of the handler, of Redis and of Postgres has its type.        *)
THEOREM TypeCorrect == Spec => []TypeOK
<1>1. Init => TypeOK
  BY DEF Init, TypeOK, Steps
<1> QED
  BY <1>1, TypeInductive, PTL DEF Spec

-----------------------------------------------------------------------------
(* No match without two likes.                                             *)

(* The step of a worker within checkMatch leaves the others as they are.   *)
LEMMA GotoStored ==
  ASSUME TypeOK, Justified, NEW w \in Workers, NEW p \in Steps \ {"idle"},
         Goto(w, p), UNCHANGED reactions,
         p \in LikeSteps => todo[w] # <<>> /\ Head(todo[w]).action = "like",
         p \in MatchSteps => Liked(Head(todo[w]).to, Head(todo[w]).from)
  PROVE  \A v \in Workers : TodoStored(v)'
<1> SUFFICES ASSUME NEW v \in Workers PROVE TodoStored(v)'
  OBVIOUS
<1>1. TodoStored(v)
  BY DEF Justified
<1>2. pc' = [pc EXCEPT ![w] = p] /\ UNCHANGED <<batch, todo>>
  BY DEF Goto
<1>3. CASE v = w
  BY <1>1, <1>2, <1>3 DEF TodoStored, TypeOK, Liked
<1>4. CASE v # w
  BY <1>1, <1>2, <1>4 DEF TodoStored, TypeOK, Liked
<1> QED
  BY <1>3, <1>4

LEMMA FinishStored ==
  ASSUME TypeOK, Justified, NEW w \in Workers, Finish(w), todo[w] # <<>>,
         UNCHANGED reactions
  PROVE  \A v \in Workers : TodoStored(v)'
<1> SUFFICES ASSUME NEW v \in Workers PROVE TodoStored(v)'
  OBVIOUS
<1>1. TodoStored(v)
  BY DEF Justified
<1>2. /\ todo' = [todo EXCEPT ![w] = Tail(todo[w])]
      /\ pc' = [pc EXCEPT ![w] = "next"]
  BY DEF Finish
<1>3. CASE v = w
  <2>1. todo'[v] = Tail(todo[v]) /\ pc'[v] = "next" /\ todo[v] \in Seq(Requests)
    BY <1>2, <1>3 DEF TypeOK
  <2>2. \A i \in DOMAIN todo'[v] :
          i + 1 \in DOMAIN todo[v] /\ todo'[v][i] = todo[v][i + 1]
    BY <2>1, <1>3
  <2> QED
    BY <1>1, <2>1, <2>2 DEF TodoStored, LikeSteps, MatchSteps
<1>4. CASE v # w
  BY <1>1, <1>2, <1>4 DEF TodoStored, TypeOK, Liked
<1> QED
  BY <1>3, <1>4

LEMMA RestartedStored ==
  ASSUME Restarted
  PROVE  \A v \in Workers : TodoStored(v)'
<1> SUFFICES ASSUME NEW v \in Workers PROVE TodoStored(v)'
  OBVIOUS
<1>1. pc'[v] = "idle" /\ todo'[v] = <<>>
  BY DEF Restarted
<1> QED
  BY <1>1 DEF TodoStored, LikeSteps, MatchSteps

(* A worker in checkMatch is there for a stored like.                      *)
LEMMA Current ==
  ASSUME TypeOK, Justified, NEW w \in Workers, NEW r, NEW p \in LikeSteps,
         At(w, p, r)
  PROVE  /\ r \in Requests /\ r.from \in Users /\ r.to \in Users
         /\ r = Like(r.from, r.to) /\ Liked(r.from, r.to)
         /\ todo[w] # <<>> /\ Head(todo[w]) = r /\ r.action = "like"
         /\ p \in MatchSteps => Liked(r.to, r.from)
<1>1. pc[w] = p /\ todo[w] # <<>> /\ r = Head(todo[w]) /\ TodoStored(w)
  BY DEF At, Justified
<1>2. /\ todo[w] \in Seq(Requests) /\ r = todo[w][1] /\ 1 \in DOMAIN todo[w]
      /\ r \in Requests
  BY <1>1 DEF TypeOK
<1>3. r \in Requests /\ r.from \in Users /\ r.to \in Users
  BY <1>2, RequestType
<1>4. r.action = "like" /\ r \in reactions
  BY <1>1, <1>2 DEF TodoStored
<1>5. r = Like(r.from, r.to)
  BY <1>3, <1>4 DEF Like, Reaction
<1>6. Liked(r.from, r.to)
  BY <1>4, <1>5 DEF Liked
<1>7. p \in MatchSteps => Liked(r.to, r.from)
  BY <1>1 DEF TodoStored
<1> QED
  BY <1>1, <1>2, <1>3, <1>4, <1>5, <1>6, <1>7

(* What was stored stays stored.                                           *)
LEMMA KeptStored ==
  ASSUME TypeOK, Justified, UNCHANGED <<reactions, likes, chats, news>>
  PROVE  NoFalseMatch' /\ LikesStored'
  BY DEF Justified, NoFalseMatch, LikesStored, Liked

LEMMA CheckMatchJustified ==
  ASSUME TypeOK, Justified, NEW w \in Workers, NEW r \in Requests,
         CheckMatch(w, r)
  PROVE  Justified'
<1> USE DEF LikeSteps, MatchSteps, Steps
<1>0. UNCHANGED reactions
  BY DEF CheckMatch, AddFan, AddLike, Check, TellLike, RemFan, RemFanBack,
         RemLike, RemLikeBack, Find, CreateChat, ListFrom, ListTo, TellMatch,
         Commit
<1>1. CASE AddFan(w, r)
  <2>1. /\ Head(todo[w]) = r /\ todo[w] # <<>> /\ r.action = "like"
        /\ r \in Requests /\ r.from \in Users /\ r.to \in Users
        /\ Liked(r.from, r.to)
    BY <1>1, Current DEF AddFan
  <2>2. Goto(w, "add_like")
    BY <1>1 DEF AddFan
  <2>3. \A v \in Workers : TodoStored(v)'
    BY <1>0, <2>1, <2>2, GotoStored
  <2>4. UNCHANGED <<reactions, likes, chats, news>>
    BY <1>1 DEF AddFan, Redis, redis
  <2> QED
    BY <2>3, <2>4, KeptStored DEF Justified
<1>2. CASE AddLike(w, r)
  <2>1. /\ Head(todo[w]) = r /\ todo[w] # <<>> /\ r.action = "like"
        /\ r \in Requests /\ r.from \in Users /\ r.to \in Users
        /\ Liked(r.from, r.to)
    BY <1>2, Current DEF AddLike
  <2>2. Goto(w, "check")
    BY <1>2 DEF AddLike
  <2>3. \A v \in Workers : TodoStored(v)'
    BY <1>0, <2>1, <2>2, GotoStored
  <2>4. likes' = Plus(likes, r.from, r.to) \/ likes' = likes
    BY <1>2 DEF AddLike, Redis, redis
  <2>a. likes \in [Users -> SUBSET Users]
    BY DEF TypeOK
  <2>b. \A a, b \in Users :
          b \in likes'[a] => b \in likes[a] \/ (a = r.from /\ b = r.to)
    BY <2>4, <2>a DEF Plus
  <2>5. LikesStored'
    BY <1>0, <2>1, <2>b DEF Justified, LikesStored, Liked
  <2>6. NoFalseMatch'
    BY <1>2, <1>0 DEF AddLike, Justified, NoFalseMatch, Liked
  <2> QED
    BY <2>3, <2>5, <2>6 DEF Justified
<1>3. CASE RemFan(w, r)
  <2>1. /\ Head(todo[w]) = r /\ todo[w] # <<>> /\ r.action = "like"
        /\ r \in Requests /\ r.from \in Users /\ r.to \in Users
        /\ Liked(r.from, r.to)
        /\ Liked(r.to, r.from)
    BY <1>3, Current DEF RemFan
  <2>2. Goto(w, "rem_fan_back")
    BY <1>3 DEF RemFan
  <2>3. \A v \in Workers : TodoStored(v)'
    BY <1>0, <2>1, <2>2, GotoStored
  <2>4. UNCHANGED <<reactions, likes, chats, news>>
    BY <1>3 DEF RemFan, Redis, redis
  <2> QED
    BY <2>3, <2>4, KeptStored DEF Justified
<1>4. CASE RemFanBack(w, r)
  <2>1. /\ Head(todo[w]) = r /\ todo[w] # <<>> /\ r.action = "like"
        /\ r \in Requests /\ r.from \in Users /\ r.to \in Users
        /\ Liked(r.from, r.to)
        /\ Liked(r.to, r.from)
    BY <1>4, Current DEF RemFanBack
  <2>2. Goto(w, "rem_like")
    BY <1>4 DEF RemFanBack
  <2>3. \A v \in Workers : TodoStored(v)'
    BY <1>0, <2>1, <2>2, GotoStored
  <2>4. UNCHANGED <<reactions, likes, chats, news>>
    BY <1>4 DEF RemFanBack, Redis, redis
  <2> QED
    BY <2>3, <2>4, KeptStored DEF Justified
<1>5. CASE RemLike(w, r)
  <2>1. /\ Head(todo[w]) = r /\ todo[w] # <<>> /\ r.action = "like"
        /\ r \in Requests /\ r.from \in Users /\ r.to \in Users
        /\ Liked(r.from, r.to)
        /\ Liked(r.to, r.from)
    BY <1>5, Current DEF RemLike
  <2>2. Goto(w, "rem_like_back")
    BY <1>5 DEF RemLike
  <2>3. \A v \in Workers : TodoStored(v)'
    BY <1>0, <2>1, <2>2, GotoStored
  <2>4. likes' = Minus(likes, r.from, r.to) \/ likes' = likes
    BY <1>5 DEF RemLike, Redis, redis
  <2>a. likes \in [Users -> SUBSET Users]
    BY DEF TypeOK
  <2>b. \A a, b \in Users : b \in likes'[a] => b \in likes[a]
    BY <2>4, <2>a DEF Minus
  <2>5. LikesStored'
    BY <1>0, <2>b DEF Justified, LikesStored, Liked
  <2>6. NoFalseMatch'
    BY <1>5, <1>0 DEF RemLike, Justified, NoFalseMatch, Liked
  <2> QED
    BY <2>3, <2>5, <2>6 DEF Justified
<1>6. CASE RemLikeBack(w, r)
  <2>1. /\ Head(todo[w]) = r /\ todo[w] # <<>> /\ r.action = "like"
        /\ r \in Requests /\ r.from \in Users /\ r.to \in Users
        /\ Liked(r.from, r.to)
        /\ Liked(r.to, r.from)
    BY <1>6, Current DEF RemLikeBack
  <2>2. Goto(w, "find")
    BY <1>6 DEF RemLikeBack
  <2>3. \A v \in Workers : TodoStored(v)'
    BY <1>0, <2>1, <2>2, GotoStored
  <2>4. likes' = Minus(likes, r.to, r.from) \/ likes' = likes
    BY <1>6 DEF RemLikeBack, Redis, redis
  <2>a. likes \in [Users -> SUBSET Users]
    BY DEF TypeOK
  <2>b. \A a, b \in Users : b \in likes'[a] => b \in likes[a]
    BY <2>4, <2>a DEF Minus
  <2>5. LikesStored'
    BY <1>0, <2>b DEF Justified, LikesStored, Liked
  <2>6. NoFalseMatch'
    BY <1>6, <1>0 DEF RemLikeBack, Justified, NoFalseMatch, Liked
  <2> QED
    BY <2>3, <2>5, <2>6 DEF Justified
<1>7. CASE ListFrom(w, r)
  <2>1. /\ Head(todo[w]) = r /\ todo[w] # <<>> /\ r.action = "like"
        /\ r \in Requests /\ r.from \in Users /\ r.to \in Users
        /\ Liked(r.from, r.to)
        /\ Liked(r.to, r.from)
    BY <1>7, Current DEF ListFrom
  <2>2. Goto(w, "list_to")
    BY <1>7 DEF ListFrom
  <2>3. \A v \in Workers : TodoStored(v)'
    BY <1>0, <2>1, <2>2, GotoStored
  <2>4. UNCHANGED <<reactions, likes, chats, news>>
    BY <1>7 DEF ListFrom, Redis, redis
  <2> QED
    BY <2>3, <2>4, KeptStored DEF Justified
<1>8. CASE ListTo(w, r)
  <2>1. /\ Head(todo[w]) = r /\ todo[w] # <<>> /\ r.action = "like"
        /\ r \in Requests /\ r.from \in Users /\ r.to \in Users
        /\ Liked(r.from, r.to)
        /\ Liked(r.to, r.from)
    BY <1>8, Current DEF ListTo
  <2>2. Goto(w, "tell_from")
    BY <1>8 DEF ListTo
  <2>3. \A v \in Workers : TodoStored(v)'
    BY <1>0, <2>1, <2>2, GotoStored
  <2>4. UNCHANGED <<reactions, likes, chats, news>>
    BY <1>8 DEF ListTo, Redis, redis
  <2> QED
    BY <2>3, <2>4, KeptStored DEF Justified
<1>9. CASE Check(w, r)
  <2>1. /\ Head(todo[w]) = r /\ todo[w] # <<>> /\ r.action = "like"
        /\ r \in Requests /\ r.from \in Users /\ r.to \in Users
        /\ Liked(r.from, r.to)
    BY <1>9, Current DEF Check
  <2>2. r.from \in likes[r.to] => Liked(r.to, r.from)
    BY <2>1 DEF Justified, LikesStored
  <2>3. \/ r.from \in likes[r.to] /\ Goto(w, "rem_fan")
        \/ Goto(w, "tell_like")
    BY <1>9 DEF Check
  <2>4. \A v \in Workers : TodoStored(v)'
    BY <1>0, <2>1, <2>2, <2>3, GotoStored
  <2>5. UNCHANGED <<reactions, likes, chats, news>>
    BY <1>9 DEF Check, redis
  <2> QED
    BY <2>4, <2>5, KeptStored DEF Justified
<1>10. CASE TellLike(w, r)
  <2>1. /\ Head(todo[w]) = r /\ todo[w] # <<>> /\ r.action = "like"
        /\ r \in Requests /\ r.from \in Users /\ r.to \in Users
        /\ Liked(r.from, r.to)
    BY <1>10, Current DEF TellLike
  <2>2. \A v \in Workers : TodoStored(v)'
    BY <1>10, <1>0, <2>1, FinishStored DEF TellLike
  <2>3. LikesStored' /\ UNCHANGED chats
    BY <1>10, <1>0 DEF TellLike, redis, Justified, LikesStored, Liked
  <2>4. \A n \in news' : n[2] = "match" => n \in news
    BY <1>10 DEF TellLike
  <2>5. NoFalseMatch'
    BY <1>0, <2>3, <2>4 DEF Justified, NoFalseMatch, Liked
  <2> QED
    BY <2>2, <2>3, <2>5 DEF Justified
<1>11. CASE Find(w, r)
  <2>1. /\ Head(todo[w]) = r /\ todo[w] # <<>> /\ r.action = "like"
        /\ r \in Requests /\ r.from \in Users /\ r.to \in Users
        /\ Liked(r.from, r.to)
        /\ Liked(r.to, r.from)
    BY <1>11, Current DEF Find
  <2>2. Finish(w) \/ Goto(w, "create")
    BY <1>11 DEF Find
  <2>3. \A v \in Workers : TodoStored(v)'
    BY <1>0, <2>1, <2>2, GotoStored, FinishStored
  <2>4. UNCHANGED <<reactions, likes, chats, news>>
    BY <1>11 DEF Find, redis
  <2> QED
    BY <2>3, <2>4, KeptStored DEF Justified
<1>12. CASE CreateChat(w, r)
  <2>1. /\ Head(todo[w]) = r /\ todo[w] # <<>> /\ r.action = "like"
        /\ r \in Requests /\ r.from \in Users /\ r.to \in Users
        /\ Liked(r.from, r.to)
        /\ Liked(r.to, r.from)
    BY <1>12, Current DEF CreateChat
  <2>2. Finish(w) \/ Goto(w, "list_from")
    BY <1>12 DEF CreateChat
  <2>3. \A v \in Workers : TodoStored(v)'
    BY <1>0, <2>1, <2>2, GotoStored, FinishStored
  <2>4. UNCHANGED <<reactions, likes, chats, news>>
    BY <1>12 DEF CreateChat, redis
  <2> QED
    BY <2>3, <2>4, KeptStored DEF Justified
<1>13. CASE TellMatch(w, r, "tell_from", r.from, "tell_to")
  <2>1. /\ Head(todo[w]) = r /\ todo[w] # <<>> /\ r.action = "like"
        /\ r \in Requests /\ r.from \in Users /\ r.to \in Users
        /\ Liked(r.from, r.to)
        /\ Liked(r.to, r.from)
    BY <1>13, Current DEF TellMatch
  <2>2. \A v \in Workers : TodoStored(v)'
    BY <1>13, <1>0, <2>1, GotoStored DEF TellMatch
  <2>3. LikesStored' /\ UNCHANGED chats
    BY <1>13, <1>0 DEF TellMatch, redis, Justified, LikesStored, Liked
  <2>4. \A n \in news' :
          n \in news \/ n = <<r.from, "match", <<r.from, r.to>>>>
    BY <1>13 DEF TellMatch
  <2>5. NoFalseMatch'
    BY <1>0, <2>1, <2>3, <2>4 DEF Justified, NoFalseMatch, Liked
  <2> QED
    BY <2>2, <2>3, <2>5 DEF Justified
<1>14. CASE TellMatch(w, r, "tell_to", r.to, "commit")
  <2>1. /\ Head(todo[w]) = r /\ todo[w] # <<>> /\ r.action = "like"
        /\ r \in Requests /\ r.from \in Users /\ r.to \in Users
        /\ Liked(r.from, r.to)
        /\ Liked(r.to, r.from)
    BY <1>14, Current DEF TellMatch
  <2>2. \A v \in Workers : TodoStored(v)'
    BY <1>14, <1>0, <2>1, GotoStored DEF TellMatch
  <2>3. LikesStored' /\ UNCHANGED chats
    BY <1>14, <1>0 DEF TellMatch, redis, Justified, LikesStored, Liked
  <2>4. \A n \in news' :
          n \in news \/ n = <<r.to, "match", <<r.from, r.to>>>>
    BY <1>14 DEF TellMatch
  <2>5. NoFalseMatch'
    BY <1>0, <2>1, <2>3, <2>4 DEF Justified, NoFalseMatch, Liked
  <2> QED
    BY <2>2, <2>3, <2>5 DEF Justified
<1>15. CASE Commit(w, r)
  <2>1. /\ Head(todo[w]) = r /\ todo[w] # <<>> /\ r.action = "like"
        /\ r \in Requests /\ r.from \in Users /\ r.to \in Users
        /\ Liked(r.from, r.to)
        /\ Liked(r.to, r.from)
    BY <1>15, Current DEF Commit
  <2>2. \A v \in Workers : TodoStored(v)'
    BY <1>15, <1>0, <2>1, FinishStored DEF Commit
  <2>3. LikesStored' /\ UNCHANGED news
    BY <1>15, <1>0 DEF Commit, redis, Justified, LikesStored, Liked
  <2>4. \A c \in chats' : c \in chats \/ c = <<r.from, r.to>>
    BY <1>15 DEF Commit
  <2>5. NoFalseMatch'
    BY <1>0, <2>1, <2>3, <2>4 DEF Justified, NoFalseMatch, Liked
  <2> QED
    BY <2>2, <2>3, <2>5 DEF Justified
<1> QED
  BY <1>1, <1>2, <1>3, <1>4, <1>5, <1>6, <1>7, <1>8, <1>9, <1>10, <1>11, <1>12, <1>13, <1>14, <1>15 DEF CheckMatch

LEMMA JustifiedInductive == TypeOK /\ Justified /\ [Next]_vars => Justified'
<1> SUFFICES ASSUME TypeOK, Justified, [Next]_vars
             PROVE  Justified'
  OBVIOUS
<1> USE DEF LikeSteps, MatchSteps, Steps
<1>1. ASSUME NEW w \in Workers, NEW r \in Requests, Take(w, r)
      PROVE  Justified'
  <2>1. UNCHANGED <<reactions, likes, chats, news, todo, pc>>
    BY <1>1 DEF Take, redis
  <2>2. \A v \in Workers : TodoStored(v)'
    BY <2>1 DEF Justified, TodoStored, Liked
  <2> QED
    BY <2>1, <2>2, KeptStored DEF Justified
<1>2. ASSUME NEW w \in Workers, Process(w)
      PROVE  Justified'
  <2>1. /\ reactions' = reactions \cup Range(batch[w])
        /\ todo' = [todo EXCEPT ![w] = batch[w]]
        /\ pc' = [pc EXCEPT ![w] = "next"]
        /\ UNCHANGED <<likes, chats, news>>
    BY <1>2 DEF Process, redis
  <2>2. NoFalseMatch' /\ LikesStored'
    BY <2>1 DEF Justified, NoFalseMatch, LikesStored, Liked
  <2>3. ASSUME NEW v \in Workers
        PROVE  TodoStored(v)'
    <3>1. CASE v = w
      BY <2>1, <3>1 DEF TodoStored, TypeOK, Range
    <3>2. CASE v # w
      <4>1. todo'[v] = todo[v] /\ pc'[v] = pc[v] /\ TodoStored(v)
        BY <2>1, <3>2 DEF TypeOK, Justified
      <4> QED
        BY <2>1, <4>1 DEF TodoStored, Liked
    <3> QED
      BY <3>1, <3>2
  <2> QED
    BY <2>2, <2>3 DEF Justified
<1>3. ASSUME Restarted, UNCHANGED <<reactions, likes, chats, news>>
      PROVE  Justified'
  BY <1>3, KeptStored, RestartedStored DEF Justified
<1>4. ASSUME NEW w \in Workers,
             ProcessEnd(w) \/ Begin(w) \/ Dislike(w) \/ OtherAction(w)
      PROVE  Justified'
  <2>1. UNCHANGED <<reactions, likes, chats, news>>
    BY <1>4 DEF ProcessEnd, Begin, Dislike, OtherAction, Redis, redis
  <2>2. CASE ProcessEnd(w)
    <3>1. /\ pc' = [pc EXCEPT ![w] = "idle"]
          /\ UNCHANGED todo /\ todo[w] = <<>>
      BY <2>2 DEF ProcessEnd, Goto
    <3>2. \A v \in Workers : TodoStored(v)'
      BY <2>1, <3>1 DEF Justified, TodoStored, Liked, TypeOK
    <3> QED
      BY <2>1, <3>2, KeptStored DEF Justified
  <2>3. CASE Begin(w)
    <3>1. /\ Goto(w, "add_fan") /\ todo[w] # <<>>
          /\ Head(todo[w]).action = "like"
      BY <2>3 DEF Begin
    <3>2. \A v \in Workers : TodoStored(v)'
      BY <2>1, <3>1, GotoStored
    <3> QED
      BY <2>1, <3>2, KeptStored DEF Justified
  <2>4. CASE Dislike(w) \/ OtherAction(w)
    <3>1. Finish(w) /\ todo[w] # <<>>
      BY <2>4 DEF Dislike, OtherAction
    <3>2. \A v \in Workers : TodoStored(v)'
      BY <2>1, <3>1, FinishStored
    <3> QED
      BY <2>1, <3>2, KeptStored DEF Justified
  <2> QED
    BY <1>4, <2>2, <2>3, <2>4
<1>5. ASSUME NEW w \in Workers, NEW r \in Requests, CheckMatch(w, r)
      PROVE  Justified'
  BY <1>5, CheckMatchJustified
<1>6. ASSUME NEW u \in Users, Evict(u)
      PROVE  Justified'
  <2>1. UNCHANGED <<reactions, chats, news, todo, pc>>
    BY <1>6 DEF Evict, local
  <2>2. likes' = likes \/ likes' = [likes EXCEPT ![u] = {}]
    BY <1>6 DEF Evict, NoFansKey
  <2>a. likes \in [Users -> SUBSET Users]
    BY DEF TypeOK
  <2>b. \A a, b \in Users : b \in likes'[a] => b \in likes[a]
    BY <2>2, <2>a
  <2>3. LikesStored'
    BY <2>1, <2>b DEF Justified, LikesStored, Liked
  <2>4. NoFalseMatch' /\ \A v \in Workers : TodoStored(v)'
    BY <2>1 DEF Justified, NoFalseMatch, TodoStored, Liked
  <2> QED
    BY <2>3, <2>4 DEF Justified
<1>7. CASE UNCHANGED vars
  BY <1>7 DEF vars, redis, local, Justified, NoFalseMatch, LikesStored,
              TodoStored, Liked
<1>8. ASSUME NEW w \in Workers, Panic(w)
      PROVE  Justified'
  BY <1>8, <1>3 DEF Panic, redis
<1>9. CASE Crash
  BY <1>9, <1>3 DEF Crash, redis
<1>10. ASSUME NEW u \in Users, ApiStep(u)
       PROVE  Justified'
  <2>1. UNCHANGED <<reactions, likes, chats, news, todo, pc>>
    BY <1>10, ApiFrame
  <2>2. \A v \in Workers : TodoStored(v)'
    BY <2>1 DEF Justified, TodoStored, Liked
  <2> QED
    BY <2>1, <2>2, KeptStored DEF Justified
<1> QED
  BY <1>1, <1>2, <1>4, <1>5, <1>6, <1>7, <1>8, <1>9, <1>10
  DEF Next, WorkerStep, FirstCommand

LEMMA JustifiedAlways == Spec => []Justified
<1>1. Init => Justified
  BY DEF Init, Justified, NoFalseMatch, LikesStored, TodoStored, LikeSteps,
         MatchSteps
<1> QED
  BY <1>1, JustifiedInductive, TypeCorrect, PTL DEF Spec

(* Whatever the workers interleave and whatever fails, a dialog and the    *)
(* news of a match stand on two stored likes.                              *)
THEOREM NoFalseMatchAlways == Spec => []NoFalseMatch
<1>1. Justified => NoFalseMatch
  BY DEF Justified
<1> QED
  BY <1>1, JustifiedAlways, PTL

-----------------------------------------------------------------------------
(* No couple is missed.                                                    *)

LEMMA SharedStays ==
  ASSUME chats \subseteq chats', NEW a, NEW b, Shared(a, b)
  PROVE  Shared(a, b)'
  BY DEF Shared

(* What a step of worker w has to keep, for all that is said of couples to *)
(* be kept.                                                                *)
LEMMA CoupleStep ==
  ASSUME NEW w \in Workers,
         chats \subseteq chats', UNCHANGED reactions,
         \A v \in Workers \ {w} : pc'[v] = pc[v] /\ todo'[v] = todo[v],
         \A a, b \in Users : a # b => Kept(a, b) /\ Noticed(a, b),
         \A a, b \in Users : Waiting(w, a, b) =>
           Waiting(w, a, b)' \/ b \in likes'[a],
         \A a, b \in Users : a # b =>
           (b \in likes[a] => b \in likes'[a] \/ Meeting(a, b)'),
         \A a, b \in Users : a # b =>
           (pc[w] \in MatchSteps /\ HeadIs(w, a, b) => Meeting(a, b)'),
         \A a, b \in Users : a # b =>
           (b \in likes'[a] /\ a \in likes'[b] =>
              \/ b \in likes[a] /\ a \in likes[b]
              \/ pc'[w] = "check" /\ HeadIs(w, a, b)'),
         \A a, b \in Users : a # b =>
           (pc[w] = "check" /\ HeadIs(w, a, b)
              /\ b \in likes'[a] /\ a \in likes'[b] => Meeting(a, b)')
  PROVE  \A a, b \in Users : a # b => (Kept(a, b) /\ Noticed(a, b))'
<1> SUFFICES ASSUME NEW a \in Users, NEW b \in Users, a # b
             PROVE  (Kept(a, b) /\ Noticed(a, b))'
  OBVIOUS
<1>1. Meeting(a, b) => Meeting(a, b)'
  <2>1. ASSUME NEW v \in Workers, pc[v] \in MatchSteps, HeadIs(v, a, b)
        PROVE  Meeting(a, b)'
    <3>1. CASE v = w
      BY <2>1, <3>1
    <3>2. CASE v # w
      BY <2>1, <3>2 DEF Meeting, HeadIs
    <3> QED
      BY <3>1, <3>2
  <2>2. Shared(a, b) => Shared(a, b)'
    BY SharedStays
  <2> QED
    BY <2>1, <2>2 DEF Meeting
<1>2. Kept(a, b)'
  <2>1. SUFFICES ASSUME Liked(a, b)'
                 PROVE  \/ \E v \in Workers : Waiting(v, a, b)'
                        \/ b \in likes'[a]
                        \/ Meeting(a, b)'
    BY DEF Kept
  <2>2. Liked(a, b)
    BY <2>1 DEF Liked
  <2>3. ASSUME NEW v \in Workers, Waiting(v, a, b)
        PROVE  Waiting(v, a, b)' \/ b \in likes'[a]
    <3>1. CASE v = w
      BY <2>3, <3>1
    <3>2. CASE v # w
      BY <2>3, <3>2 DEF Waiting
    <3> QED
      BY <3>1, <3>2
  <2> QED
    BY <1>1, <2>2, <2>3 DEF Kept
<1>3. Noticed(a, b)'
  <2>1. SUFFICES ASSUME b \in likes'[a], a \in likes'[b]
                 PROVE  \/ Meeting(a, b)'
                        \/ \E v \in Workers :
                             pc'[v] = "check" /\ HeadIs(v, a, b)'
    BY DEF Noticed
  <2>2. CASE pc'[w] = "check" /\ HeadIs(w, a, b)'
    BY <2>2
  <2>3. CASE b \in likes[a] /\ a \in likes[b]
    <3>1. CASE Meeting(a, b)
      BY <1>1, <3>1
    <3>2. ASSUME NEW v \in Workers, pc[v] = "check", HeadIs(v, a, b)
          PROVE  \/ Meeting(a, b)'
                 \/ pc'[v] = "check" /\ HeadIs(v, a, b)'
      <4>1. CASE v = w
        BY <2>1, <3>2, <4>1
      <4>2. CASE v # w
        BY <3>2, <4>2 DEF HeadIs
      <4> QED
        BY <4>1, <4>2
    <3> QED
      BY <2>3, <3>1, <3>2 DEF Noticed
  <2> QED
    BY <2>1, <2>2, <2>3
<1> QED
  BY <1>2, <1>3

(* A worker that goes on within a reaction, or to the next one, leaves the *)
(* other workers and what is still to be added.                            *)
LEMMA GotoWaiting ==
  ASSUME TypeOK, NEW w \in Workers, NEW p \in Steps, Goto(w, p),
         pc[w] \in {"next", "add_fan", "add_like"} =>
           p \in {"next", "add_fan", "add_like"} \/ todo[w] = <<>>
  PROVE  /\ \A v \in Workers \ {w} : pc'[v] = pc[v] /\ todo'[v] = todo[v]
         /\ pc'[w] = p /\ todo'[w] = todo[w]
         /\ \A a, b \in Users : HeadIs(w, a, b)' <=> HeadIs(w, a, b)
         /\ \A a, b \in Users : Waiting(w, a, b) => Waiting(w, a, b)'
<1>1. pc' = [pc EXCEPT ![w] = p] /\ todo' = todo
  BY DEF Goto
<1>2. pc'[w] = p /\ todo'[w] = todo[w]
  BY <1>1 DEF TypeOK
<1>3. \A a, b \in Users : Waiting(w, a, b) => Waiting(w, a, b)'
  BY <1>2 DEF Waiting
<1> QED
  BY <1>1, <1>2, <1>3 DEF TypeOK, HeadIs

LEMMA FinishWaiting ==
  ASSUME TypeOK, NEW w \in Workers, Finish(w), todo[w] # <<>>,
         pc[w] \in {"next", "add_fan", "add_like"} =>
           Head(todo[w]).action # "like"
  PROVE  /\ \A v \in Workers \ {w} : pc'[v] = pc[v] /\ todo'[v] = todo[v]
         /\ pc'[w] = "next"
         /\ \A a, b \in Users : Waiting(w, a, b) => Waiting(w, a, b)'
<1>1. /\ todo' = [todo EXCEPT ![w] = Tail(todo[w])]
      /\ pc' = [pc EXCEPT ![w] = "next"]
  BY DEF Finish
<1>2. pc'[w] = "next" /\ todo'[w] = Tail(todo[w])
      /\ todo[w] \in Seq(Requests)
  BY <1>1 DEF TypeOK
<1>3. ASSUME NEW a \in Users, NEW b \in Users, Waiting(w, a, b)
      PROVE  Waiting(w, a, b)'
  <2>1. PICK i \in DOMAIN todo[w] :
          /\ todo[w][i] = Like(a, b)
          /\ i > 1 \/ pc[w] \in {"next", "add_fan", "add_like"}
    BY <1>3 DEF Waiting
  <2>2. i > 1
    <3>1. i = 1 => Head(todo[w]) = Like(a, b)
      BY <1>2, <2>1
    <3> QED
      BY <1>2, <2>1, <3>1 DEF Like
  <2>3. i - 1 \in DOMAIN todo'[w] /\ todo'[w][i - 1] = Like(a, b)
    BY <1>2, <2>1, <2>2
  <2> QED
    BY <1>2, <2>3 DEF Waiting
<1> QED
  BY <1>1, <1>2, <1>3 DEF TypeOK

(* The couple a worker is about.                                           *)
LEMMA HeadPair ==
  ASSUME NEW w \in Workers, NEW r, todo[w] # <<>>, Head(todo[w]) = r,
         r = Like(r.from, r.to), NEW a, NEW b
  PROVE  /\ HeadIs(w, a, b) => \/ a = r.from /\ b = r.to
                               \/ a = r.to /\ b = r.from
         /\ (a = r.from /\ b = r.to) \/ (a = r.to /\ b = r.from)
              => HeadIs(w, a, b)
<1>1. r = Like(a, b) => a = r.from /\ b = r.to
  BY DEF Like
<1>2. r = Like(b, a) => b = r.from /\ a = r.to
  BY DEF Like
<1> QED
  BY <1>1, <1>2 DEF HeadIs

(* Each command of checkMatch keeps what is said of couples.         *)
LEMMA CheckMatchCouples ==
  ASSUME TypeOK, Justified, faults = 0, faults' = 0,
         \A a, b \in Users : a # b => Kept(a, b) /\ Noticed(a, b),
         NEW w \in Workers, NEW r \in Requests, CheckMatch(w, r)
  PROVE  \A a, b \in Users : a # b => (Kept(a, b) /\ Noticed(a, b))'
<1>0. /\ UNCHANGED reactions
      /\ ~Fault
      /\ likes \in [Users -> SUBSET Users]
  <2>1. UNCHANGED reactions
    BY DEF CheckMatch, AddFan, AddLike, Check, TellLike, RemFan, RemFanBack,
           RemLike, RemLikeBack, Find, CreateChat, ListFrom, ListTo,
           TellMatch, Commit
  <2> QED
    BY <2>1 DEF TypeOK, Fault
<1>1. CASE AddFan(w, r)
  <2>1. /\ Head(todo[w]) = r /\ todo[w] # <<>> /\ r.action = "like"
        /\ r.from \in Users /\ r.to \in Users
        /\ r = Like(r.from, r.to)
        /\ pc[w] = "add_fan"
    BY <1>1, Current DEF AddFan, At, LikeSteps, MatchSteps
  <2>2. /\ \A v \in Workers \ {w} : pc'[v] = pc[v] /\ todo'[v] = todo[v]
        /\ pc'[w] = "add_like"
        /\ \A a, b \in Users : HeadIs(w, a, b)' <=> HeadIs(w, a, b)
        /\ \A a, b \in Users : Waiting(w, a, b) => Waiting(w, a, b)'
    <3>1. Goto(w, "add_like") /\ "add_like" \in Steps
      BY <1>1 DEF AddFan, Steps
    <3> QED
      BY <2>1, <3>1, GotoWaiting
  <2>3. chats \subseteq chats' /\ likes' = likes
    BY <1>0, <1>1 DEF AddFan, Redis, redis
  <2>4. \A a, b \in Users : Waiting(w, a, b) =>
          Waiting(w, a, b)' \/ b \in likes'[a]
    BY <2>2
  <2>5. \A a, b \in Users : a # b =>
          (b \in likes[a] => b \in likes'[a] \/ Meeting(a, b)')
    BY <2>3
  <2>6. \A a, b \in Users : a # b =>
          (pc[w] \in MatchSteps /\ HeadIs(w, a, b) => Meeting(a, b)')
    BY <2>1 DEF MatchSteps
  <2>7. \A a, b \in Users : a # b =>
          (b \in likes'[a] /\ a \in likes'[b] =>
             \/ b \in likes[a] /\ a \in likes[b]
             \/ pc'[w] = "check" /\ HeadIs(w, a, b)')
    BY <2>3
  <2>8. \A a, b \in Users : a # b =>
          (pc[w] = "check" /\ HeadIs(w, a, b)
             /\ b \in likes'[a] /\ a \in likes'[b] => Meeting(a, b)')
    BY <2>1
  <2> QED
    BY <1>0, <2>2, <2>3, <2>4, <2>5, <2>6, <2>7, <2>8, CoupleStep
<1>2. CASE AddLike(w, r)
  <2>1. /\ Head(todo[w]) = r /\ todo[w] # <<>> /\ r.action = "like"
        /\ r.from \in Users /\ r.to \in Users
        /\ r = Like(r.from, r.to)
        /\ pc[w] = "add_like"
    BY <1>2, Current DEF AddLike, At, LikeSteps, MatchSteps
  <2>3. chats \subseteq chats' /\ likes' = Plus(likes, r.from, r.to)
    BY <1>0, <1>2 DEF AddLike, Redis
  <2>9. \A a, b \in Users :
          b \in likes'[a] <=> b \in likes[a] \/ (a = r.from /\ b = r.to)
    BY <1>0, <2>1, <2>3 DEF Plus
  <2>2. /\ \A v \in Workers \ {w} : pc'[v] = pc[v] /\ todo'[v] = todo[v]
        /\ pc'[w] = "check" /\ todo'[w] = todo[w]
    BY <1>2 DEF AddLike, Goto, TypeOK
  <2>4. \A a, b \in Users : Waiting(w, a, b) =>
          Waiting(w, a, b)' \/ b \in likes'[a]
    <3>1. SUFFICES ASSUME NEW a \in Users, NEW b \in Users,
                          Waiting(w, a, b), ~Waiting(w, a, b)'
                   PROVE  b \in likes'[a]
      OBVIOUS
    <3>2. PICK i \in DOMAIN todo[w] : todo[w][i] = Like(a, b)
      BY <3>1 DEF Waiting
    <3>3. ~(i > 1)
      BY <2>2, <3>1, <3>2 DEF Waiting
    <3>4. r = Like(a, b)
      BY <2>1, <3>2, <3>3 DEF TypeOK
    <3>5. a = r.from /\ b = r.to
      BY <3>4 DEF Like
    <3> QED
      BY <2>9, <3>5
  <2>5. \A a, b \in Users : a # b =>
          (b \in likes[a] => b \in likes'[a] \/ Meeting(a, b)')
    BY <2>9
  <2>6. \A a, b \in Users : a # b =>
          (pc[w] \in MatchSteps /\ HeadIs(w, a, b) => Meeting(a, b)')
    BY <2>1 DEF MatchSteps
  <2>7. \A a, b \in Users : a # b =>
          (b \in likes'[a] /\ a \in likes'[b] =>
             \/ b \in likes[a] /\ a \in likes[b]
             \/ pc'[w] = "check" /\ HeadIs(w, a, b)')
    <3>1. SUFFICES ASSUME NEW a \in Users, NEW b \in Users,
                          b \in likes'[a], a \in likes'[b],
                          ~(b \in likes[a] /\ a \in likes[b])
                   PROVE  HeadIs(w, a, b)'
      BY <2>2
    <3>2. \/ a = r.from /\ b = r.to
          \/ a = r.to /\ b = r.from
      BY <2>9, <3>1
    <3>3. HeadIs(w, r.from, r.to) /\ HeadIs(w, r.to, r.from)
      BY <2>1 DEF HeadIs
    <3>4. HeadIs(w, a, b)
      BY <3>2, <3>3
    <3> QED
      BY <2>2, <3>4 DEF HeadIs
  <2>8. \A a, b \in Users : a # b =>
          (pc[w] = "check" /\ HeadIs(w, a, b)
             /\ b \in likes'[a] /\ a \in likes'[b] => Meeting(a, b)')
    BY <2>1
  <2> QED
    BY <1>0, <2>2, <2>3, <2>4, <2>5, <2>6, <2>7, <2>8, CoupleStep
<1>3. CASE Check(w, r)
  <2>1. /\ Head(todo[w]) = r /\ todo[w] # <<>> /\ r.action = "like"
        /\ r.from \in Users /\ r.to \in Users
        /\ r = Like(r.from, r.to)
        /\ pc[w] = "check"
    BY <1>3, Current DEF Check, At, LikeSteps, MatchSteps
  <2>3. chats \subseteq chats' /\ likes' = likes
    BY <1>3 DEF Check, redis
  <2>9. \/ Goto(w, "rem_fan")
        \/ Goto(w, "tell_like") /\ r.from \notin likes[r.to]
    BY <1>0, <1>3 DEF Check
  <2>2. /\ \A v \in Workers \ {w} : pc'[v] = pc[v] /\ todo'[v] = todo[v]
        /\ \A a, b \in Users : HeadIs(w, a, b)' <=> HeadIs(w, a, b)
        /\ \A a, b \in Users : Waiting(w, a, b) => Waiting(w, a, b)'
        /\ pc'[w] = "rem_fan" \/ r.from \notin likes[r.to]
    BY <2>1, <2>9, GotoWaiting DEF Steps
  <2>4. \A a, b \in Users : Waiting(w, a, b) =>
          Waiting(w, a, b)' \/ b \in likes'[a]
    BY <2>2
  <2>5. \A a, b \in Users : a # b =>
          (b \in likes[a] => b \in likes'[a] \/ Meeting(a, b)')
    BY <2>3
  <2>6. \A a, b \in Users : a # b =>
          (pc[w] \in MatchSteps /\ HeadIs(w, a, b) => Meeting(a, b)')
    BY <2>1 DEF MatchSteps
  <2>7. \A a, b \in Users : a # b =>
          (b \in likes'[a] /\ a \in likes'[b] =>
             \/ b \in likes[a] /\ a \in likes[b]
             \/ pc'[w] = "check" /\ HeadIs(w, a, b)')
    BY <2>3
  <2>8. \A a, b \in Users : a # b =>
          (pc[w] = "check" /\ HeadIs(w, a, b)
             /\ b \in likes'[a] /\ a \in likes'[b] => Meeting(a, b)')
    <3>1. SUFFICES ASSUME NEW a \in Users, NEW b \in Users, HeadIs(w, a, b),
                          b \in likes[a], a \in likes[b]
                   PROVE  Meeting(a, b)'
      BY <2>3
    <3>2. r.from \in likes[r.to]
      BY <2>1, <3>1, HeadPair
    <3> QED
      BY <2>2, <3>1, <3>2 DEF Meeting, MatchSteps
  <2> QED
    BY <1>0, <2>2, <2>3, <2>4, <2>5, <2>6, <2>7, <2>8, CoupleStep
<1>4. CASE TellLike(w, r)
  <2>1. /\ Head(todo[w]) = r /\ todo[w] # <<>> /\ r.action = "like"
        /\ r.from \in Users /\ r.to \in Users
        /\ r = Like(r.from, r.to)
        /\ pc[w] = "tell_like"
    BY <1>4, Current DEF TellLike, At, LikeSteps, MatchSteps
  <2>2. /\ \A v \in Workers \ {w} : pc'[v] = pc[v] /\ todo'[v] = todo[v]
        /\ pc'[w] = "next"
        /\ \A a, b \in Users : Waiting(w, a, b) => Waiting(w, a, b)'
    BY <1>4, <2>1, FinishWaiting DEF TellLike
  <2>3. chats \subseteq chats' /\ likes' = likes
    BY <1>4 DEF TellLike, redis
  <2>4. \A a, b \in Users : Waiting(w, a, b) =>
          Waiting(w, a, b)' \/ b \in likes'[a]
    BY <2>2
  <2>5. \A a, b \in Users : a # b =>
          (b \in likes[a] => b \in likes'[a] \/ Meeting(a, b)')
    BY <2>3
  <2>6. \A a, b \in Users : a # b =>
          (pc[w] \in MatchSteps /\ HeadIs(w, a, b) => Meeting(a, b)')
    BY <2>1 DEF MatchSteps
  <2>7. \A a, b \in Users : a # b =>
          (b \in likes'[a] /\ a \in likes'[b] =>
             \/ b \in likes[a] /\ a \in likes[b]
             \/ pc'[w] = "check" /\ HeadIs(w, a, b)')
    BY <2>3
  <2>8. \A a, b \in Users : a # b =>
          (pc[w] = "check" /\ HeadIs(w, a, b)
             /\ b \in likes'[a] /\ a \in likes'[b] => Meeting(a, b)')
    BY <2>1
  <2> QED
    BY <1>0, <2>2, <2>3, <2>4, <2>5, <2>6, <2>7, <2>8, CoupleStep
<1>5. CASE RemFan(w, r)
  <2>1. /\ Head(todo[w]) = r /\ todo[w] # <<>> /\ r.action = "like"
        /\ r.from \in Users /\ r.to \in Users
        /\ r = Like(r.from, r.to)
        /\ pc[w] = "rem_fan"
    BY <1>5, Current DEF RemFan, At, LikeSteps, MatchSteps
  <2>2. /\ \A v \in Workers \ {w} : pc'[v] = pc[v] /\ todo'[v] = todo[v]
        /\ pc'[w] = "rem_fan_back"
        /\ \A a, b \in Users : HeadIs(w, a, b)' <=> HeadIs(w, a, b)
        /\ \A a, b \in Users : Waiting(w, a, b) => Waiting(w, a, b)'
    <3>1. Goto(w, "rem_fan_back") /\ "rem_fan_back" \in Steps
      BY <1>5 DEF RemFan, Steps
    <3> QED
      BY <2>1, <3>1, GotoWaiting
  <2>3. chats \subseteq chats' /\ likes' = likes
    BY <1>0, <1>5 DEF RemFan, Redis, redis
  <2>4. \A a, b \in Users : Waiting(w, a, b) =>
          Waiting(w, a, b)' \/ b \in likes'[a]
    BY <2>2
  <2>5. \A a, b \in Users : a # b =>
          (b \in likes[a] => b \in likes'[a] \/ Meeting(a, b)')
    BY <2>3
  <2>6. \A a, b \in Users : a # b =>
          (pc[w] \in MatchSteps /\ HeadIs(w, a, b) => Meeting(a, b)')
    BY <2>2 DEF Meeting, MatchSteps
  <2>7. \A a, b \in Users : a # b =>
          (b \in likes'[a] /\ a \in likes'[b] =>
             \/ b \in likes[a] /\ a \in likes[b]
             \/ pc'[w] = "check" /\ HeadIs(w, a, b)')
    BY <2>3
  <2>8. \A a, b \in Users : a # b =>
          (pc[w] = "check" /\ HeadIs(w, a, b)
             /\ b \in likes'[a] /\ a \in likes'[b] => Meeting(a, b)')
    BY <2>1
  <2> QED
    BY <1>0, <2>2, <2>3, <2>4, <2>5, <2>6, <2>7, <2>8, CoupleStep
<1>6. CASE RemFanBack(w, r)
  <2>1. /\ Head(todo[w]) = r /\ todo[w] # <<>> /\ r.action = "like"
        /\ r.from \in Users /\ r.to \in Users
        /\ r = Like(r.from, r.to)
        /\ pc[w] = "rem_fan_back"
    BY <1>6, Current DEF RemFanBack, At, LikeSteps, MatchSteps
  <2>2. /\ \A v \in Workers \ {w} : pc'[v] = pc[v] /\ todo'[v] = todo[v]
        /\ pc'[w] = "rem_like"
        /\ \A a, b \in Users : HeadIs(w, a, b)' <=> HeadIs(w, a, b)
        /\ \A a, b \in Users : Waiting(w, a, b) => Waiting(w, a, b)'
    <3>1. Goto(w, "rem_like") /\ "rem_like" \in Steps
      BY <1>6 DEF RemFanBack, Steps
    <3> QED
      BY <2>1, <3>1, GotoWaiting
  <2>3. chats \subseteq chats' /\ likes' = likes
    BY <1>0, <1>6 DEF RemFanBack, Redis, redis
  <2>4. \A a, b \in Users : Waiting(w, a, b) =>
          Waiting(w, a, b)' \/ b \in likes'[a]
    BY <2>2
  <2>5. \A a, b \in Users : a # b =>
          (b \in likes[a] => b \in likes'[a] \/ Meeting(a, b)')
    BY <2>3
  <2>6. \A a, b \in Users : a # b =>
          (pc[w] \in MatchSteps /\ HeadIs(w, a, b) => Meeting(a, b)')
    BY <2>2 DEF Meeting, MatchSteps
  <2>7. \A a, b \in Users : a # b =>
          (b \in likes'[a] /\ a \in likes'[b] =>
             \/ b \in likes[a] /\ a \in likes[b]
             \/ pc'[w] = "check" /\ HeadIs(w, a, b)')
    BY <2>3
  <2>8. \A a, b \in Users : a # b =>
          (pc[w] = "check" /\ HeadIs(w, a, b)
             /\ b \in likes'[a] /\ a \in likes'[b] => Meeting(a, b)')
    BY <2>1
  <2> QED
    BY <1>0, <2>2, <2>3, <2>4, <2>5, <2>6, <2>7, <2>8, CoupleStep
<1>7. CASE RemLike(w, r)
  <2>1. /\ Head(todo[w]) = r /\ todo[w] # <<>> /\ r.action = "like"
        /\ r.from \in Users /\ r.to \in Users
        /\ r = Like(r.from, r.to)
        /\ pc[w] = "rem_like"
    BY <1>7, Current DEF RemLike, At, LikeSteps, MatchSteps
  <2>2. /\ \A v \in Workers \ {w} : pc'[v] = pc[v] /\ todo'[v] = todo[v]
        /\ pc'[w] = "rem_like_back"
        /\ \A a, b \in Users : HeadIs(w, a, b)' <=> HeadIs(w, a, b)
        /\ \A a, b \in Users : Waiting(w, a, b) => Waiting(w, a, b)'
    <3>1. Goto(w, "rem_like_back") /\ "rem_like_back" \in Steps
      BY <1>7 DEF RemLike, Steps
    <3> QED
      BY <2>1, <3>1, GotoWaiting
  <2>3. chats \subseteq chats' /\ likes' = Minus(likes, r.from, r.to)
    BY <1>0, <1>7 DEF RemLike, Redis
  <2>9. \A a, b \in Users :
          b \in likes'[a] <=> b \in likes[a] /\ ~(a = r.from /\ b = r.to)
    BY <1>0, <2>1, <2>3 DEF Minus
  <2>4. \A a, b \in Users : Waiting(w, a, b) =>
          Waiting(w, a, b)' \/ b \in likes'[a]
    BY <2>2
  <2>5. \A a, b \in Users : a # b =>
          (b \in likes[a] => b \in likes'[a] \/ Meeting(a, b)')
    <3>1. SUFFICES ASSUME NEW a \in Users, NEW b \in Users,
                          b \in likes[a], b \notin likes'[a]
                   PROVE  Meeting(a, b)'
      OBVIOUS
    <3>2. a = r.from /\ b = r.to
      BY <2>9, <3>1
    <3>3. HeadIs(w, r.from, r.to) /\ HeadIs(w, r.to, r.from)
      BY <2>1 DEF HeadIs
    <3>4. HeadIs(w, a, b)
      BY <3>2, <3>3
    <3> QED
      BY <2>2, <3>4 DEF Meeting, MatchSteps
  <2>6. \A a, b \in Users : a # b =>
          (pc[w] \in MatchSteps /\ HeadIs(w, a, b) => Meeting(a, b)')
    BY <2>2 DEF Meeting, MatchSteps
  <2>7. \A a, b \in Users : a # b =>
          (b \in likes'[a] /\ a \in likes'[b] =>
             \/ b \in likes[a] /\ a \in likes[b]
             \/ pc'[w] = "check" /\ HeadIs(w, a, b)')
    BY <2>9
  <2>8. \A a, b \in Users : a # b =>
          (pc[w] = "check" /\ HeadIs(w, a, b)
             /\ b \in likes'[a] /\ a \in likes'[b] => Meeting(a, b)')
    BY <2>1
  <2> QED
    BY <1>0, <2>2, <2>3, <2>4, <2>5, <2>6, <2>7, <2>8, CoupleStep
<1>8. CASE RemLikeBack(w, r)
  <2>1. /\ Head(todo[w]) = r /\ todo[w] # <<>> /\ r.action = "like"
        /\ r.from \in Users /\ r.to \in Users
        /\ r = Like(r.from, r.to)
        /\ pc[w] = "rem_like_back"
    BY <1>8, Current DEF RemLikeBack, At, LikeSteps, MatchSteps
  <2>2. /\ \A v \in Workers \ {w} : pc'[v] = pc[v] /\ todo'[v] = todo[v]
        /\ pc'[w] = "find"
        /\ \A a, b \in Users : HeadIs(w, a, b)' <=> HeadIs(w, a, b)
        /\ \A a, b \in Users : Waiting(w, a, b) => Waiting(w, a, b)'
    <3>1. Goto(w, "find") /\ "find" \in Steps
      BY <1>8 DEF RemLikeBack, Steps
    <3> QED
      BY <2>1, <3>1, GotoWaiting
  <2>3. chats \subseteq chats' /\ likes' = Minus(likes, r.to, r.from)
    BY <1>0, <1>8 DEF RemLikeBack, Redis
  <2>9. \A a, b \in Users :
          b \in likes'[a] <=> b \in likes[a] /\ ~(a = r.to /\ b = r.from)
    BY <1>0, <2>1, <2>3 DEF Minus
  <2>4. \A a, b \in Users : Waiting(w, a, b) =>
          Waiting(w, a, b)' \/ b \in likes'[a]
    BY <2>2
  <2>5. \A a, b \in Users : a # b =>
          (b \in likes[a] => b \in likes'[a] \/ Meeting(a, b)')
    <3>1. SUFFICES ASSUME NEW a \in Users, NEW b \in Users,
                          b \in likes[a], b \notin likes'[a]
                   PROVE  Meeting(a, b)'
      OBVIOUS
    <3>2. a = r.to /\ b = r.from
      BY <2>9, <3>1
    <3>3. HeadIs(w, r.from, r.to) /\ HeadIs(w, r.to, r.from)
      BY <2>1 DEF HeadIs
    <3>4. HeadIs(w, a, b)
      BY <3>2, <3>3
    <3> QED
      BY <2>2, <3>4 DEF Meeting, MatchSteps
  <2>6. \A a, b \in Users : a # b =>
          (pc[w] \in MatchSteps /\ HeadIs(w, a, b) => Meeting(a, b)')
    BY <2>2 DEF Meeting, MatchSteps
  <2>7. \A a, b \in Users : a # b =>
          (b \in likes'[a] /\ a \in likes'[b] =>
             \/ b \in likes[a] /\ a \in likes[b]
             \/ pc'[w] = "check" /\ HeadIs(w, a, b)')
    BY <2>9
  <2>8. \A a, b \in Users : a # b =>
          (pc[w] = "check" /\ HeadIs(w, a, b)
             /\ b \in likes'[a] /\ a \in likes'[b] => Meeting(a, b)')
    BY <2>1
  <2> QED
    BY <1>0, <2>2, <2>3, <2>4, <2>5, <2>6, <2>7, <2>8, CoupleStep
<1>9. CASE Find(w, r)
  <2>1. /\ Head(todo[w]) = r /\ todo[w] # <<>> /\ r.action = "like"
        /\ r.from \in Users /\ r.to \in Users
        /\ r = Like(r.from, r.to)
        /\ pc[w] = "find"
    BY <1>9, Current DEF Find, At, LikeSteps, MatchSteps
  <2>3. chats \subseteq chats' /\ likes' = likes
    BY <1>9 DEF Find, redis
  <2>9. \/ Shared(r.from, r.to) /\ Finish(w)
        \/ Goto(w, "create")
    BY <1>9 DEF Find
  <2>2. /\ \A v \in Workers \ {w} : pc'[v] = pc[v] /\ todo'[v] = todo[v]
        /\ \A a, b \in Users : Waiting(w, a, b) => Waiting(w, a, b)'
        /\ \/ Shared(r.from, r.to)
           \/ /\ pc'[w] = "create"
              /\ \A a, b \in Users : HeadIs(w, a, b)' <=> HeadIs(w, a, b)
    <3>1. CASE Shared(r.from, r.to) /\ Finish(w)
      BY <2>1, <3>1, FinishWaiting
    <3>2. CASE Goto(w, "create")
      <4>1. "create" \in Steps
        BY DEF Steps
      <4> QED
        BY <2>1, <3>2, <4>1, GotoWaiting
    <3> QED
      BY <2>9, <3>1, <3>2
  <2>4. \A a, b \in Users : Waiting(w, a, b) =>
          Waiting(w, a, b)' \/ b \in likes'[a]
    BY <2>2
  <2>5. \A a, b \in Users : a # b =>
          (b \in likes[a] => b \in likes'[a] \/ Meeting(a, b)')
    BY <2>3
  <2>6. \A a, b \in Users : a # b =>
          (pc[w] \in MatchSteps /\ HeadIs(w, a, b) => Meeting(a, b)')
    <3>1. SUFFICES ASSUME NEW a \in Users, NEW b \in Users, HeadIs(w, a, b)
                   PROVE  Meeting(a, b)'
      OBVIOUS
    <3>2. CASE Shared(r.from, r.to)
      <4>0. \/ a = r.from /\ b = r.to
            \/ a = r.to /\ b = r.from
        BY <2>1, <3>1, HeadPair
      <4>1. Shared(a, b)
        BY <3>2, <4>0 DEF Shared
      <4> QED
        BY <2>3, <4>1, SharedStays DEF Meeting
    <3>3. CASE ~Shared(r.from, r.to)
      BY <2>2, <3>1, <3>3 DEF Meeting, MatchSteps
    <3> QED
      BY <3>2, <3>3
  <2>7. \A a, b \in Users : a # b =>
          (b \in likes'[a] /\ a \in likes'[b] =>
             \/ b \in likes[a] /\ a \in likes[b]
             \/ pc'[w] = "check" /\ HeadIs(w, a, b)')
    BY <2>3
  <2>8. \A a, b \in Users : a # b =>
          (pc[w] = "check" /\ HeadIs(w, a, b)
             /\ b \in likes'[a] /\ a \in likes'[b] => Meeting(a, b)')
    BY <2>1
  <2> QED
    BY <1>0, <2>2, <2>3, <2>4, <2>5, <2>6, <2>7, <2>8, CoupleStep
<1>10. CASE CreateChat(w, r)
  <2>1. /\ Head(todo[w]) = r /\ todo[w] # <<>> /\ r.action = "like"
        /\ r.from \in Users /\ r.to \in Users
        /\ r = Like(r.from, r.to)
        /\ pc[w] = "create"
    BY <1>10, Current DEF CreateChat, At, LikeSteps, MatchSteps
  <2>3. chats \subseteq chats' /\ likes' = likes
    BY <1>10 DEF CreateChat, redis
  <2>9. \/ r.from = r.to /\ Finish(w)
        \/ Goto(w, "list_from")
    BY <1>0, <1>10 DEF CreateChat
  <2>2. /\ \A v \in Workers \ {w} : pc'[v] = pc[v] /\ todo'[v] = todo[v]
        /\ \A a, b \in Users : Waiting(w, a, b) => Waiting(w, a, b)'
        /\ \/ r.from = r.to
           \/ /\ pc'[w] = "list_from"
              /\ \A a, b \in Users : HeadIs(w, a, b)' <=> HeadIs(w, a, b)
    <3>1. CASE r.from = r.to /\ Finish(w)
      BY <2>1, <3>1, FinishWaiting
    <3>2. CASE Goto(w, "list_from")
      <4>1. "list_from" \in Steps
        BY DEF Steps
      <4> QED
        BY <2>1, <3>2, <4>1, GotoWaiting
    <3> QED
      BY <2>9, <3>1, <3>2
  <2>4. \A a, b \in Users : Waiting(w, a, b) =>
          Waiting(w, a, b)' \/ b \in likes'[a]
    BY <2>2
  <2>5. \A a, b \in Users : a # b =>
          (b \in likes[a] => b \in likes'[a] \/ Meeting(a, b)')
    BY <2>3
  <2>6. \A a, b \in Users : a # b =>
          (pc[w] \in MatchSteps /\ HeadIs(w, a, b) => Meeting(a, b)')
    <3>1. SUFFICES ASSUME NEW a \in Users, NEW b \in Users, a # b,
                          HeadIs(w, a, b)
                   PROVE  Meeting(a, b)'
      OBVIOUS
    <3>2. r.from # r.to
      BY <2>1, <3>1, HeadPair
    <3> QED
      BY <2>2, <3>1, <3>2 DEF Meeting, MatchSteps
  <2>7. \A a, b \in Users : a # b =>
          (b \in likes'[a] /\ a \in likes'[b] =>
             \/ b \in likes[a] /\ a \in likes[b]
             \/ pc'[w] = "check" /\ HeadIs(w, a, b)')
    BY <2>3
  <2>8. \A a, b \in Users : a # b =>
          (pc[w] = "check" /\ HeadIs(w, a, b)
             /\ b \in likes'[a] /\ a \in likes'[b] => Meeting(a, b)')
    BY <2>1
  <2> QED
    BY <1>0, <2>2, <2>3, <2>4, <2>5, <2>6, <2>7, <2>8, CoupleStep
<1>11. CASE ListFrom(w, r)
  <2>1. /\ Head(todo[w]) = r /\ todo[w] # <<>> /\ r.action = "like"
        /\ r.from \in Users /\ r.to \in Users
        /\ r = Like(r.from, r.to)
        /\ pc[w] = "list_from"
    BY <1>11, Current DEF ListFrom, At, LikeSteps, MatchSteps
  <2>2. /\ \A v \in Workers \ {w} : pc'[v] = pc[v] /\ todo'[v] = todo[v]
        /\ pc'[w] = "list_to"
        /\ \A a, b \in Users : HeadIs(w, a, b)' <=> HeadIs(w, a, b)
        /\ \A a, b \in Users : Waiting(w, a, b) => Waiting(w, a, b)'
    <3>1. Goto(w, "list_to") /\ "list_to" \in Steps
      BY <1>11 DEF ListFrom, Steps
    <3> QED
      BY <2>1, <3>1, GotoWaiting
  <2>3. chats \subseteq chats' /\ likes' = likes
    BY <1>0, <1>11 DEF ListFrom, Redis, redis
  <2>4. \A a, b \in Users : Waiting(w, a, b) =>
          Waiting(w, a, b)' \/ b \in likes'[a]
    BY <2>2
  <2>5. \A a, b \in Users : a # b =>
          (b \in likes[a] => b \in likes'[a] \/ Meeting(a, b)')
    BY <2>3
  <2>6. \A a, b \in Users : a # b =>
          (pc[w] \in MatchSteps /\ HeadIs(w, a, b) => Meeting(a, b)')
    BY <2>2 DEF Meeting, MatchSteps
  <2>7. \A a, b \in Users : a # b =>
          (b \in likes'[a] /\ a \in likes'[b] =>
             \/ b \in likes[a] /\ a \in likes[b]
             \/ pc'[w] = "check" /\ HeadIs(w, a, b)')
    BY <2>3
  <2>8. \A a, b \in Users : a # b =>
          (pc[w] = "check" /\ HeadIs(w, a, b)
             /\ b \in likes'[a] /\ a \in likes'[b] => Meeting(a, b)')
    BY <2>1
  <2> QED
    BY <1>0, <2>2, <2>3, <2>4, <2>5, <2>6, <2>7, <2>8, CoupleStep
<1>12. CASE ListTo(w, r)
  <2>1. /\ Head(todo[w]) = r /\ todo[w] # <<>> /\ r.action = "like"
        /\ r.from \in Users /\ r.to \in Users
        /\ r = Like(r.from, r.to)
        /\ pc[w] = "list_to"
    BY <1>12, Current DEF ListTo, At, LikeSteps, MatchSteps
  <2>2. /\ \A v \in Workers \ {w} : pc'[v] = pc[v] /\ todo'[v] = todo[v]
        /\ pc'[w] = "tell_from"
        /\ \A a, b \in Users : HeadIs(w, a, b)' <=> HeadIs(w, a, b)
        /\ \A a, b \in Users : Waiting(w, a, b) => Waiting(w, a, b)'
    <3>1. Goto(w, "tell_from") /\ "tell_from" \in Steps
      BY <1>12 DEF ListTo, Steps
    <3> QED
      BY <2>1, <3>1, GotoWaiting
  <2>3. chats \subseteq chats' /\ likes' = likes
    BY <1>0, <1>12 DEF ListTo, Redis, redis
  <2>4. \A a, b \in Users : Waiting(w, a, b) =>
          Waiting(w, a, b)' \/ b \in likes'[a]
    BY <2>2
  <2>5. \A a, b \in Users : a # b =>
          (b \in likes[a] => b \in likes'[a] \/ Meeting(a, b)')
    BY <2>3
  <2>6. \A a, b \in Users : a # b =>
          (pc[w] \in MatchSteps /\ HeadIs(w, a, b) => Meeting(a, b)')
    BY <2>2 DEF Meeting, MatchSteps
  <2>7. \A a, b \in Users : a # b =>
          (b \in likes'[a] /\ a \in likes'[b] =>
             \/ b \in likes[a] /\ a \in likes[b]
             \/ pc'[w] = "check" /\ HeadIs(w, a, b)')
    BY <2>3
  <2>8. \A a, b \in Users : a # b =>
          (pc[w] = "check" /\ HeadIs(w, a, b)
             /\ b \in likes'[a] /\ a \in likes'[b] => Meeting(a, b)')
    BY <2>1
  <2> QED
    BY <1>0, <2>2, <2>3, <2>4, <2>5, <2>6, <2>7, <2>8, CoupleStep
<1>13. CASE TellMatch(w, r, "tell_from", r.from, "tell_to")
  <2>1. /\ Head(todo[w]) = r /\ todo[w] # <<>> /\ r.action = "like"
        /\ r.from \in Users /\ r.to \in Users
        /\ r = Like(r.from, r.to)
        /\ pc[w] = "tell_from"
    BY <1>13, Current DEF TellMatch, At, LikeSteps, MatchSteps
  <2>2. /\ \A v \in Workers \ {w} : pc'[v] = pc[v] /\ todo'[v] = todo[v]
        /\ pc'[w] = "tell_to"
        /\ \A a, b \in Users : HeadIs(w, a, b)' <=> HeadIs(w, a, b)
        /\ \A a, b \in Users : Waiting(w, a, b) => Waiting(w, a, b)'
    <3>1. Goto(w, "tell_to") /\ "tell_to" \in Steps
      BY <1>13 DEF TellMatch, Steps
    <3> QED
      BY <2>1, <3>1, GotoWaiting
  <2>3. chats \subseteq chats' /\ likes' = likes
    BY <1>0, <1>13 DEF TellMatch, Redis, redis
  <2>4. \A a, b \in Users : Waiting(w, a, b) =>
          Waiting(w, a, b)' \/ b \in likes'[a]
    BY <2>2
  <2>5. \A a, b \in Users : a # b =>
          (b \in likes[a] => b \in likes'[a] \/ Meeting(a, b)')
    BY <2>3
  <2>6. \A a, b \in Users : a # b =>
          (pc[w] \in MatchSteps /\ HeadIs(w, a, b) => Meeting(a, b)')
    BY <2>2 DEF Meeting, MatchSteps
  <2>7. \A a, b \in Users : a # b =>
          (b \in likes'[a] /\ a \in likes'[b] =>
             \/ b \in likes[a] /\ a \in likes[b]
             \/ pc'[w] = "check" /\ HeadIs(w, a, b)')
    BY <2>3
  <2>8. \A a, b \in Users : a # b =>
          (pc[w] = "check" /\ HeadIs(w, a, b)
             /\ b \in likes'[a] /\ a \in likes'[b] => Meeting(a, b)')
    BY <2>1
  <2> QED
    BY <1>0, <2>2, <2>3, <2>4, <2>5, <2>6, <2>7, <2>8, CoupleStep
<1>14. CASE TellMatch(w, r, "tell_to", r.to, "commit")
  <2>1. /\ Head(todo[w]) = r /\ todo[w] # <<>> /\ r.action = "like"
        /\ r.from \in Users /\ r.to \in Users
        /\ r = Like(r.from, r.to)
        /\ pc[w] = "tell_to"
    BY <1>14, Current DEF TellMatch, At, LikeSteps, MatchSteps
  <2>2. /\ \A v \in Workers \ {w} : pc'[v] = pc[v] /\ todo'[v] = todo[v]
        /\ pc'[w] = "commit"
        /\ \A a, b \in Users : HeadIs(w, a, b)' <=> HeadIs(w, a, b)
        /\ \A a, b \in Users : Waiting(w, a, b) => Waiting(w, a, b)'
    <3>1. Goto(w, "commit") /\ "commit" \in Steps
      BY <1>14 DEF TellMatch, Steps
    <3> QED
      BY <2>1, <3>1, GotoWaiting
  <2>3. chats \subseteq chats' /\ likes' = likes
    BY <1>0, <1>14 DEF TellMatch, Redis, redis
  <2>4. \A a, b \in Users : Waiting(w, a, b) =>
          Waiting(w, a, b)' \/ b \in likes'[a]
    BY <2>2
  <2>5. \A a, b \in Users : a # b =>
          (b \in likes[a] => b \in likes'[a] \/ Meeting(a, b)')
    BY <2>3
  <2>6. \A a, b \in Users : a # b =>
          (pc[w] \in MatchSteps /\ HeadIs(w, a, b) => Meeting(a, b)')
    BY <2>2 DEF Meeting, MatchSteps
  <2>7. \A a, b \in Users : a # b =>
          (b \in likes'[a] /\ a \in likes'[b] =>
             \/ b \in likes[a] /\ a \in likes[b]
             \/ pc'[w] = "check" /\ HeadIs(w, a, b)')
    BY <2>3
  <2>8. \A a, b \in Users : a # b =>
          (pc[w] = "check" /\ HeadIs(w, a, b)
             /\ b \in likes'[a] /\ a \in likes'[b] => Meeting(a, b)')
    BY <2>1
  <2> QED
    BY <1>0, <2>2, <2>3, <2>4, <2>5, <2>6, <2>7, <2>8, CoupleStep
<1>15. CASE Commit(w, r)
  <2>1. /\ Head(todo[w]) = r /\ todo[w] # <<>> /\ r.action = "like"
        /\ r.from \in Users /\ r.to \in Users
        /\ r = Like(r.from, r.to)
        /\ pc[w] = "commit"
    BY <1>15, Current DEF Commit, At, LikeSteps, MatchSteps
  <2>2. /\ \A v \in Workers \ {w} : pc'[v] = pc[v] /\ todo'[v] = todo[v]
        /\ pc'[w] = "next"
        /\ \A a, b \in Users : Waiting(w, a, b) => Waiting(w, a, b)'
    BY <1>15, <2>1, FinishWaiting DEF Commit
  <2>3. /\ chats \subseteq chats' /\ likes' = likes
        /\ <<r.from, r.to>> \in chats'
    BY <1>0, <1>15 DEF Commit, redis
  <2>4. \A a, b \in Users : Waiting(w, a, b) =>
          Waiting(w, a, b)' \/ b \in likes'[a]
    BY <2>2
  <2>5. \A a, b \in Users : a # b =>
          (b \in likes[a] => b \in likes'[a] \/ Meeting(a, b)')
    BY <2>3
  <2>6. \A a, b \in Users : a # b =>
          (pc[w] \in MatchSteps /\ HeadIs(w, a, b) => Meeting(a, b)')
    <3>1. SUFFICES ASSUME NEW a \in Users, NEW b \in Users, a # b,
                          HeadIs(w, a, b)
                   PROVE  Meeting(a, b)'
      OBVIOUS
    <3>2. {a, b} = {<<r.from, r.to>>[1], <<r.from, r.to>>[2]}
      BY <2>1, <3>1, HeadPair
    <3> QED
      BY <2>3, <3>1, <3>2 DEF Meeting, Shared
  <2>7. \A a, b \in Users : a # b =>
          (b \in likes'[a] /\ a \in likes'[b] =>
             \/ b \in likes[a] /\ a \in likes[b]
             \/ pc'[w] = "check" /\ HeadIs(w, a, b)')
    BY <2>3
  <2>8. \A a, b \in Users : a # b =>
          (pc[w] = "check" /\ HeadIs(w, a, b)
             /\ b \in likes'[a] /\ a \in likes'[b] => Meeting(a, b)')
    BY <2>1
  <2> QED
    BY <1>0, <2>2, <2>3, <2>4, <2>5, <2>6, <2>7, <2>8, CoupleStep
<1> QED
  BY <1>1, <1>2, <1>3, <1>4, <1>5, <1>6, <1>7, <1>8, <1>9, <1>10, <1>11, <1>12, <1>13, <1>14, <1>15 DEF CheckMatch

(* A step counts at most one fault.                                        *)
LEMMA CalmStep == [Next]_vars => UNCHANGED faults \/ Fault
<1>1. ASSUME NEW w, NEW r, CheckMatch(w, r)
      PROVE  UNCHANGED faults \/ Fault
  <2>1. CASE AddFan(w, r) \/ AddLike(w, r) \/ Check(w, r) \/ TellLike(w, r)
    BY <2>1 DEF AddFan, AddLike, Check, TellLike, Redis
  <2>2. CASE RemFan(w, r) \/ RemFanBack(w, r) \/ RemLike(w, r)
               \/ RemLikeBack(w, r)
    BY <2>2 DEF RemFan, RemFanBack, RemLike, RemLikeBack, Redis
  <2>3. CASE Find(w, r) \/ CreateChat(w, r) \/ ListFrom(w, r) \/ ListTo(w, r)
               \/ Commit(w, r)
    BY <2>3 DEF Find, CreateChat, ListFrom, ListTo, Commit, Redis
  <2>4. CASE TellMatch(w, r, "tell_from", r.from, "tell_to")
               \/ TellMatch(w, r, "tell_to", r.to, "commit")
    BY <2>4 DEF TellMatch
  <2> QED
    BY <1>1, <2>1, <2>2, <2>3, <2>4 DEF CheckMatch
<1>2. ASSUME NEW w, Begin(w) \/ Dislike(w) \/ OtherAction(w) \/ ProcessEnd(w)
      PROVE  UNCHANGED faults \/ Fault
  BY <1>2 DEF Begin, Dislike, OtherAction, ProcessEnd, Redis
<1>3. ASSUME NEW w, NEW r, Take(w, r) \/ Process(w) \/ Panic(w)
      PROVE  UNCHANGED faults \/ Fault
  BY <1>3 DEF Take, Process, Panic
<1>4. ASSUME NEW u, Evict(u)
      PROVE  UNCHANGED faults \/ Fault
  BY <1>4 DEF Evict
<1>5. CASE Crash
  BY <1>5 DEF Crash
<1>6. CASE UNCHANGED vars
  BY <1>6 DEF vars
<1>7. ASSUME NEW u, ApiStep(u)
      PROVE  UNCHANGED faults \/ Fault
  BY <1>7, ApiFrame
<1> QED
  BY <1>1, <1>2, <1>3, <1>4, <1>5, <1>6, <1>7 DEF Next, WorkerStep, FirstCommand

LEMMA NoneMissedInductive ==
  TypeOK /\ Justified /\ NoneMissed /\ [Next]_vars => NoneMissed'
<1> SUFFICES ASSUME TypeOK, Justified, NoneMissed, [Next]_vars,
                    faults' = 0, HasRdb
             PROVE  \A a, b \in Users : a # b => (Kept(a, b) /\ Noticed(a, b))'
  BY DEF NoneMissed
<1>0. faults = 0 /\ ~Fault
  <2>1. ~Fault
    BY DEF TypeOK, Fault
  <2> QED
    BY <2>1, CalmStep
<1>1. \A a, b \in Users : a # b => Kept(a, b) /\ Noticed(a, b)
  BY <1>0 DEF NoneMissed
<1>2. ASSUME NEW w \in Workers, NEW r \in Requests, CheckMatch(w, r)
      PROVE  \A a, b \in Users : a # b => (Kept(a, b) /\ Noticed(a, b))'
  BY <1>0, <1>1, <1>2, CheckMatchCouples
<1>3. ASSUME UNCHANGED <<reactions, likes, chats, todo, pc>>
      PROVE  \A a, b \in Users : a # b => (Kept(a, b) /\ Noticed(a, b))'
  BY <1>1, <1>3 DEF Kept, Noticed, Liked, Meeting, Shared, Waiting, HeadIs
<1>4. ASSUME NEW w \in Workers, NEW r \in Requests, Take(w, r)
      PROVE  \A a, b \in Users : a # b => (Kept(a, b) /\ Noticed(a, b))'
  BY <1>3, <1>4 DEF Take, redis
<1>5. CASE UNCHANGED vars
  BY <1>3, <1>5 DEF vars, redis, local
<1>6. ASSUME NEW w \in Workers, Process(w)
      PROVE  \A a, b \in Users : a # b => (Kept(a, b) /\ Noticed(a, b))'
  <2> SUFFICES ASSUME NEW a \in Users, NEW b \in Users, a # b
               PROVE  (Kept(a, b) /\ Noticed(a, b))'
    OBVIOUS
  <2>1. /\ reactions' = reactions \cup Range(batch[w])
        /\ UNCHANGED <<likes, chats>>
        /\ \A v \in Workers \ {w} : pc'[v] = pc[v] /\ todo'[v] = todo[v]
        /\ todo'[w] = batch[w] /\ pc'[w] = "next"
        /\ pc[w] = "idle" /\ todo[w] = <<>>
    BY <1>6 DEF Process, TypeOK, redis, Justified, TodoStored
  <2>2. Meeting(a, b) => Meeting(a, b)'
    BY <2>1 DEF Meeting, MatchSteps, HeadIs, Shared
  <2>3. ASSUME Liked(a, b)', ~Liked(a, b)
        PROVE  Waiting(w, a, b)'
    <3>1. PICK i \in DOMAIN batch[w] : batch[w][i] = Like(a, b)
      BY <2>1, <2>3 DEF Liked, Range
    <3> QED
      BY <2>1, <3>1 DEF Waiting
  <2>4. ASSUME NEW v \in Workers, Waiting(v, a, b)
        PROVE  Waiting(v, a, b)'
    <3>1. v # w
      BY <2>1, <2>4 DEF Waiting
    <3> QED
      BY <2>1, <2>4, <3>1 DEF Waiting
  <2>5. Kept(a, b)'
    BY <1>1, <2>1, <2>2, <2>3, <2>4 DEF Kept
  <2>6. ASSUME NEW v \in Workers, pc[v] = "check", HeadIs(v, a, b)
        PROVE  pc'[v] = "check" /\ HeadIs(v, a, b)'
    BY <2>1, <2>6 DEF HeadIs
  <2>7. Noticed(a, b)'
    BY <1>1, <2>1, <2>2, <2>6 DEF Noticed
  <2> QED
    BY <2>5, <2>7
<1>7. ASSUME NEW w \in Workers, pc[w] = "next",
             UNCHANGED <<reactions, likes, chats>>,
             \A v \in Workers \ {w} : pc'[v] = pc[v] /\ todo'[v] = todo[v],
             \A a, b \in Users : Waiting(w, a, b) => Waiting(w, a, b)'
      PROVE  \A a, b \in Users : a # b => (Kept(a, b) /\ Noticed(a, b))'
  <2>1. chats \subseteq chats'
    BY <1>7
  <2>2. pc[w] \notin MatchSteps /\ pc[w] # "check"
    BY <1>7 DEF MatchSteps
  <2> QED
    BY <1>1, <1>7, <2>1, <2>2, CoupleStep
<1>8. ASSUME NEW w \in Workers, ProcessEnd(w) \/ Begin(w)
      PROVE  \A a, b \in Users : a # b => (Kept(a, b) /\ Noticed(a, b))'
  <2>1. /\ pc[w] = "next" /\ UNCHANGED <<reactions, likes, chats>>
        /\ \/ Goto(w, "idle") /\ todo[w] = <<>>
           \/ Goto(w, "add_fan")
    BY <1>8 DEF ProcessEnd, Begin, redis
  <2>2. /\ \A v \in Workers \ {w} : pc'[v] = pc[v] /\ todo'[v] = todo[v]
        /\ \A a, b \in Users : Waiting(w, a, b) => Waiting(w, a, b)'
    BY <2>1, GotoWaiting DEF Steps
  <2> QED
    BY <1>7, <2>1, <2>2
<1>9. ASSUME NEW w \in Workers, Dislike(w) \/ OtherAction(w)
      PROVE  \A a, b \in Users : a # b => (Kept(a, b) /\ Noticed(a, b))'
  <2>1. /\ pc[w] = "next" /\ UNCHANGED <<reactions, likes, chats>>
        /\ todo[w] # <<>> /\ Finish(w) /\ Head(todo[w]).action # "like"
    BY <1>9 DEF Dislike, OtherAction, Redis, redis
  <2>2. /\ \A v \in Workers \ {w} : pc'[v] = pc[v] /\ todo'[v] = todo[v]
        /\ \A a, b \in Users : Waiting(w, a, b) => Waiting(w, a, b)'
    BY <2>1, FinishWaiting
  <2> QED
    BY <1>7, <2>1, <2>2
<1>10. HasRdb /\ ~Crash /\ \A u \in Users : ~Evict(u)
  BY <1>0 DEF Crash, Evict
<1>11. ASSUME NEW u \in Users, ApiStep(u)
       PROVE  \A a, b \in Users : a # b => (Kept(a, b) /\ Noticed(a, b))'
  BY <1>3, <1>11, ApiFrame
<1> QED
  BY <1>2, <1>4, <1>5, <1>6, <1>8, <1>9, <1>10, <1>11 DEF Next, WorkerStep, FirstCommand

LEMMA NoneMissedAlways == Spec => []NoneMissed
<1>1. Init => NoneMissed
  BY DEF Init, NoneMissed, Kept, Noticed, Liked
<1> QED
  BY <1>1, NoneMissedInductive, TypeCorrect, JustifiedAlways, PTL DEF Spec

(* Two likes of each other are never both overlooked: once both checks are *)
(* over, and no command failed, the couple has a chat.                     *)
THEOREM CoupleMatchedAlways == Spec => []CoupleMatched
<1>1. ASSUME TypeOK, Justified, NoneMissed
      PROVE  CoupleMatched
  <2> SUFFICES ASSUME faults = 0, HasRdb, NEW a \in Users, NEW b \in Users,
                      a # b, Liked(a, b), Liked(b, a), ~InCheck(a, b)
               PROVE  Shared(a, b)
    BY DEF CoupleMatched
  <2>1. Kept(a, b) /\ Kept(b, a) /\ Noticed(a, b)
    BY <1>1 DEF NoneMissed
  <2>2. ASSUME NEW w \in Workers
        PROVE  ~Waiting(w, a, b) /\ ~Waiting(w, b, a) /\ ~HeadIs(w, a, b)
    <3>1. ~Checking(w, a, b) /\ ~Checking(w, b, a)
      BY DEF InCheck
    <3>2. ~Waiting(w, a, b) /\ ~Waiting(w, b, a)
      BY <3>1 DEF Checking, Waiting, Like
    <3>3. ~HeadIs(w, a, b)
      <4>1. SUFFICES ASSUME HeadIs(w, a, b)
                     PROVE  FALSE
        OBVIOUS
      <4>2. /\ 1 \in DOMAIN todo[w] /\ todo[w][1] = Head(todo[w])
        BY <1>1, <4>1 DEF HeadIs, TypeOK
      <4> QED
        BY <3>1, <4>1, <4>2 DEF HeadIs, Checking, Like
    <3> QED
      BY <3>2, <3>3
  <2>3. Meeting(a, b) => Shared(a, b)
    BY <2>2 DEF Meeting
  <2>4. Meeting(b, a) => Shared(a, b)
    BY <2>2 DEF Meeting, HeadIs, Shared
  <2>5. (b \in likes[a] \/ Shared(a, b)) /\ (a \in likes[b] \/ Shared(a, b))
    BY <2>1, <2>2, <2>3, <2>4 DEF Kept
  <2> QED
    BY <2>1, <2>2, <2>3, <2>5 DEF Noticed
<1> QED
  BY <1>1, TypeCorrect, JustifiedAlways, NoneMissedAlways, PTL

=============================================================================
