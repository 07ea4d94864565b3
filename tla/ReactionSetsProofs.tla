------------------------- MODULE ReactionSetsProofs -------------------------
(* More proofs about ReactionMatch: what the likes and fans in Redis, the  *)
(* lists of dialogs and the notifications hold once the checks are over.   *)
EXTENDS ReactionMatchProofs

-----------------------------------------------------------------------------
(* A handler without a client does not get into checkMatch.                *)
Untouched ==
  /\ NothingChecked
  /\ ~HasRdb => \A w \in Workers : pc[w] \in {"idle", "next"}

LEMMA UntouchedInductive ==
  TypeOK /\ Untouched /\ [Next]_vars => Untouched'
<1> SUFFICES ASSUME TypeOK, Untouched, [Next]_vars, ~HasRdb
             PROVE  Untouched'
  BY DEF Untouched, NothingChecked
<1>1. /\ chats = {} /\ news = {}
      /\ \A u \in Users : fans[u] = {} /\ likes[u] = {} /\ listed[u] = {}
      /\ \A w \in Workers : pc[w] \in {"idle", "next"}
  BY DEF Untouched, NothingChecked
<1>2. ASSUME NEW w \in Workers, NEW r \in Requests, CheckMatch(w, r)
      PROVE  FALSE
  BY <1>1, <1>2 DEF CheckMatch, AddFan, AddLike, Check, TellLike, RemFan,
                    RemFanBack, RemLike, RemLikeBack, Find, CreateChat,
                    ListFrom, ListTo, TellMatch, Commit, At
<1>3. ASSUME NEW w \in Workers, OtherAction(w) \/ ProcessEnd(w) \/ Process(w)
      PROVE  Untouched'
  <2>1. /\ UNCHANGED <<fans, likes, listed, chats, news>>
        /\ \E p \in {"idle", "next"} : pc' = [pc EXCEPT ![w] = p]
    BY <1>3 DEF OtherAction, ProcessEnd, Process, Goto, Finish, redis
  <2> QED
    BY <1>1, <2>1 DEF Untouched, NothingChecked, TypeOK
<1>4. ASSUME NEW w \in Workers, NEW r \in Requests, Take(w, r)
      PROVE  Untouched'
  BY <1>1, <1>4 DEF Take, Untouched, NothingChecked, redis
<1>5. ASSUME Restarted, UNCHANGED <<redis, chats, news>>
      PROVE  Untouched'
  BY <1>1, <1>5 DEF Restarted, Untouched, NothingChecked, redis
<1>6. ASSUME NEW u \in Users, Evict(u)
      PROVE  Untouched'
  <2>1. UNCHANGED <<chats, news, pc>>
    BY <1>6 DEF Evict, local
  <2>2. /\ fans' = fans \/ fans' = [fans EXCEPT ![u] = {}]
        /\ likes' = likes \/ likes' = [likes EXCEPT ![u] = {}]
        /\ listed' = listed \/ listed' = [listed EXCEPT ![u] = {}]
    BY <1>6 DEF Evict, NoFansKey
  <2>a. /\ fans \in [Users -> SUBSET Users] /\ likes \in [Users -> SUBSET Users]
        /\ listed \in [Users -> SUBSET ChatId]
    BY DEF TypeOK
  <2>3. \A v \in Users : fans'[v] = {} /\ likes'[v] = {} /\ listed'[v] = {}
    BY <1>1, <2>2, <2>a
  <2> QED
    BY <1>1, <2>1, <2>3 DEF Untouched, NothingChecked
<1>7. CASE UNCHANGED vars
  BY <1>1, <1>7 DEF vars, redis, local, Untouched, NothingChecked
<1>9. ASSUME NEW u \in Users, ApiStep(u)
      PROVE  Untouched'
  <2>1. UNCHANGED <<likes, chats, news, pc>>
    BY <1>9, ApiFrame
  <2>2. \A v \in Users : fans'[v] = {} /\ listed'[v] = {}
    <3>1. /\ fans' = fans \/ fans' = [fans EXCEPT ![u] = {}]
          /\ listed' = listed \/ listed' = [listed EXCEPT ![u] = {}]
      BY <1>9 DEF ApiStep, AskFans, FillFans, ExpireFans, StopAsking,
                  ElapseFans, ElapseList, NoFansKey, redis
    <3>2. /\ fans \in [Users -> SUBSET Users]
          /\ listed \in [Users -> SUBSET ChatId]
      BY DEF TypeOK
    <3> QED
      BY <1>1, <3>1, <3>2
  <2> QED
    BY <1>1, <2>1, <2>2 DEF Untouched, NothingChecked
<1> QED
  BY <1>2, <1>3, <1>4, <1>5, <1>6, <1>7, <1>9
     DEF Next, WorkerStep, FirstCommand, Panic, Crash

LEMMA UntouchedAlways == Spec => []Untouched
<1>1. Init => Untouched
  BY DEF Init, Untouched, NothingChecked
<1> QED
  BY <1>1, UntouchedInductive, TypeCorrect, PTL DEF Spec

(* The handler as NewReactionHandler builds it checks nothing, however     *)
(* often it is restarted: its first command ends the process.              *)
THEOREM NothingCheckedAlways == Spec => []NothingChecked
<1>1. Untouched => NothingChecked
  BY DEF Untouched
<1> QED
  BY <1>1, UntouchedAlways, PTL

-----------------------------------------------------------------------------
(* MatchAnnounced, made inductive: a transaction that is past a command    *)
(* has had its effect, and one whose dialog is known outside goes on.      *)
Pair(w) == <<Head(todo[w]).from, Head(todo[w]).to>>
OpenSteps == {"list_to", "tell_from", "tell_to", "commit"}
OpensAt(w, c) == pc[w] \in OpenSteps /\ todo[w] # <<>> /\ c = Pair(w)

Telling(w) ==
  /\ pc[w] \in {"tell_to", "commit"} =>
       <<Pair(w)[1], "match", Pair(w)>> \in news
  /\ pc[w] = "commit" => <<Pair(w)[2], "match", Pair(w)>> \in news

Announced(c) == \A u \in {c[1], c[2]} : <<u, "match", c>> \in news
Public(c) == \E u \in Users : <<u, "match", c>> \in news \/ c \in listed[u]

Announcing ==
  faults = 0 =>
    /\ \A c \in chats : Announced(c)
    /\ \A w \in Workers : todo[w] # <<>> => Telling(w)
    /\ \A c \in ChatId : Public(c) => c \in chats \/ Opening(c)

\* The other workers are where they were.
Alone(w) == \A v \in Workers \ {w} : pc'[v] = pc[v] /\ todo'[v] = todo[v]

LEMMA OpeningAt == \A c : Opening(c) <=> \E w \in Workers : OpensAt(w, c)
  BY DEF Opening, OpensAt, OpenSteps, Pair

LEMMA GotoAlone ==
  ASSUME TypeOK, NEW w \in Workers, NEW p, Goto(w, p)
  PROVE  Alone(w) /\ pc'[w] = p /\ todo'[w] = todo[w] /\ Pair(w)' = Pair(w)
  BY DEF TypeOK, Goto, Alone, Pair

LEMMA FinishAlone ==
  ASSUME TypeOK, NEW w \in Workers, Finish(w)
  PROVE  Alone(w) /\ pc'[w] = "next" /\ todo'[w] = Tail(todo[w])
  BY DEF TypeOK, Finish, Alone

(* What a step of worker w has to keep.                                    *)
LEMMA AnnounceStep ==
  ASSUME Announcing, faults = 0, NEW w \in Workers, Alone(w),
         news \subseteq news', chats \subseteq chats',
         \A c \in chats' : c \in chats \/ (pc[w] = "commit" /\ OpensAt(w, c)),
         todo'[w] # <<>> => Telling(w)',
         \A c \in ChatId : Public(c)' => Public(c) \/ OpensAt(w, c)',
         \A c \in ChatId : OpensAt(w, c) => OpensAt(w, c)' \/ c \in chats'
  PROVE  Announcing'
<1>1. ASSUME NEW c \in chats'
      PROVE  Announced(c)'
  <2>1. CASE c \in chats
    BY <2>1 DEF Announcing, Announced
  <2>2. CASE pc[w] = "commit" /\ OpensAt(w, c)
    <3>1. Telling(w) /\ c = Pair(w)
      BY <2>2 DEF Announcing, OpensAt
    <3> QED
      BY <2>2, <3>1 DEF Telling, Announced
  <2> QED
    BY <2>1, <2>2
<1>2. ASSUME NEW v \in Workers, v # w, todo'[v] # <<>>
      PROVE  Telling(v)'
  <2>1. pc'[v] = pc[v] /\ todo'[v] = todo[v] /\ Pair(v)' = Pair(v)
    BY <1>2 DEF Alone, Pair
  <2>2. Telling(v)
    BY <1>2, <2>1 DEF Announcing
  <2> QED
    BY <2>1, <2>2 DEF Telling
<1>3. ASSUME NEW c \in ChatId, Public(c)', c \notin chats'
      PROVE  Opening(c)'
  <2>1. SUFFICES \E v \in Workers : OpensAt(v, c)'
    BY DEF Opening, OpensAt, OpenSteps, Pair
  <2>2. CASE OpensAt(w, c)'
    BY <2>2
  <2>3. CASE Public(c)
    <3>1. PICK v \in Workers : OpensAt(v, c)
      BY <1>3, <2>3, OpeningAt DEF Announcing
    <3>2. CASE v = w
      BY <1>3, <3>1, <3>2
    <3>3. CASE v # w
      BY <3>1, <3>3 DEF OpensAt, Alone, Pair
    <3> QED
      BY <3>2, <3>3
  <2> QED
    BY <1>3, <2>2, <2>3
<1> QED
  BY <1>1, <1>2, <1>3 DEF Announcing

(* A step that tells nobody, outside the transaction.                      *)
LEMMA SilentStep ==
  ASSUME TypeOK, Announcing, faults = 0, NEW w \in Workers, Alone(w),
         UNCHANGED <<chats, listed, news>>,
         pc[w] \notin OpenSteps, pc'[w] \notin OpenSteps
  PROVE  Announcing'
<1>1. Telling(w)'
  BY DEF Telling, OpenSteps
<1>2. \A c \in ChatId : Public(c)' => Public(c)
  BY DEF Public
<1>3. \A c \in ChatId : ~OpensAt(w, c)
  BY DEF OpensAt
<1> QED
  BY <1>1, <1>2, <1>3, AnnounceStep

LEMMA CheckMatchAnnouncing ==
  ASSUME TypeOK, Announcing, faults = 0, ~Fault,
         NEW w \in Workers, NEW r \in Requests, CheckMatch(w, r)
  PROVE  Announcing'
<1> USE DEF OpenSteps
<1>t. r.from \in Users /\ r.to \in Users /\ <<r.from, r.to>> \in ChatId
  BY RequestType
<1>1. ASSUME NEW p, At(w, p, r)
      PROVE  todo[w] # <<>> /\ pc[w] = p /\ Pair(w) = <<r.from, r.to>>
             /\ Telling(w)
  BY <1>1 DEF At, Pair, Announcing
<1>2. CASE AddFan(w, r) \/ AddLike(w, r) \/ Check(w, r) \/ RemFan(w, r)
           \/ RemFanBack(w, r) \/ RemLike(w, r) \/ RemLikeBack(w, r)
           \/ Find(w, r) \/ CreateChat(w, r)
  <2>1. UNCHANGED <<listed, chats, news>>
    BY <1>2 DEF AddFan, AddLike, Check, RemFan, RemFanBack, RemLike,
                RemLikeBack, Find, CreateChat, Redis, redis
  <2>2. \/ \E p \in {"add_like", "check", "rem_fan", "tell_like",
                     "rem_fan_back", "rem_like", "rem_like_back", "find",
                     "create", "list_from"} : Goto(w, p)
        \/ Finish(w)
    BY <1>2 DEF AddFan, AddLike, Check, RemFan, RemFanBack, RemLike,
                RemLikeBack, Find, CreateChat
  <2>3. Alone(w) /\ pc'[w] \notin OpenSteps
    BY <2>2, GotoAlone, FinishAlone
  <2>4. pc[w] \notin OpenSteps
    BY <1>2 DEF AddFan, AddLike, Check, RemFan, RemFanBack, RemLike,
                RemLikeBack, Find, CreateChat, At
  <2> QED
    BY <2>1, <2>3, <2>4, SilentStep
<1>3. CASE TellLike(w, r)
  <2>1. /\ pc[w] = "tell_like" /\ Finish(w) /\ UNCHANGED <<listed, chats>>
        /\ \/ news' = news
           \/ news' = news \cup {<<r.to, "new_like", <<r.from, r.to>>>>}
    BY <1>3 DEF TellLike, At, redis
  <2>2. Alone(w) /\ pc'[w] = "next"
    BY <2>1, FinishAlone
  <2>3. \A c \in ChatId : Public(c)' => Public(c)
    BY <2>1 DEF Public
  <2>4. Telling(w)'
    BY <2>2 DEF Telling
  <2>5. \A c : ~OpensAt(w, c)
    BY <2>1 DEF OpensAt
  <2> QED
    BY <2>1, <2>2, <2>3, <2>4, <2>5, AnnounceStep
<1>4. CASE Commit(w, r)
  <2>1. /\ At(w, "commit", r) /\ Finish(w) /\ UNCHANGED <<listed, news>>
        /\ chats' = chats \cup {<<r.from, r.to>>}
    BY <1>4 DEF Commit, redis
  <2>2. Alone(w) /\ pc'[w] = "next"
    BY <2>1, FinishAlone
  <2>3. todo[w] # <<>> /\ pc[w] = "commit" /\ Pair(w) = <<r.from, r.to>>
    BY <1>1, <2>1
  <2>4. \A c \in chats' : c \in chats \/ (pc[w] = "commit" /\ OpensAt(w, c))
    BY <2>1, <2>3 DEF OpensAt
  <2>5. \A c \in ChatId : OpensAt(w, c) => c \in chats'
    BY <2>1, <2>3 DEF OpensAt
  <2>6. Telling(w)'
    BY <2>2 DEF Telling
  <2>7. \A c \in ChatId : Public(c)' => Public(c)
    BY <2>1 DEF Public
  <2> QED
    BY <2>1, <2>2, <2>4, <2>5, <2>6, <2>7, AnnounceStep
<1>5. ASSUME NEW p, At(w, p, r), p \in OpenSteps \cup {"list_from"},
             NEW next \in OpenSteps, Goto(w, next),
             chats' = chats, news \subseteq news', Telling(w)',
             \A c \in ChatId : Public(c)' => Public(c) \/ c = <<r.from, r.to>>,
             p # "commit"
      PROVE  Announcing'
  <2>1. /\ Alone(w) /\ pc'[w] = next /\ todo'[w] = todo[w]
        /\ Pair(w)' = Pair(w)
    BY <1>5, GotoAlone
  <2>2. todo[w] # <<>> /\ pc[w] = p /\ Pair(w) = <<r.from, r.to>>
    BY <1>1, <1>5
  <2>3. OpensAt(w, <<r.from, r.to>>)'
    BY <1>5, <2>1, <2>2 DEF OpensAt
  <2>4. \A c \in ChatId : OpensAt(w, c) => OpensAt(w, c)'
    BY <2>2, <2>3 DEF OpensAt
  <2>5. \A c \in ChatId : Public(c)' => Public(c) \/ OpensAt(w, c)'
    BY <1>5, <2>3
  <2> QED
    BY <1>5, <2>1, <2>2, <2>4, <2>5, AnnounceStep
<1>6. CASE ListFrom(w, r)
  <2>1. /\ At(w, "list_from", r) /\ Goto(w, "list_to")
        /\ UNCHANGED <<chats, news>>
        /\ listed' = Plus(listed, r.from, <<r.from, r.to>>)
    BY <1>6 DEF ListFrom, Redis
  <2>2. Telling(w)'
    BY <2>1, GotoAlone DEF Telling
  <2>3. \A u \in Users : listed'[u] \subseteq listed[u] \cup {<<r.from, r.to>>}
    BY <2>1 DEF Plus, TypeOK
  <2>4. \A c \in ChatId : Public(c)' => Public(c) \/ c = <<r.from, r.to>>
    BY <2>1, <2>3 DEF Public
  <2> QED
    BY <1>5, <2>1, <2>2, <2>4
<1>7. CASE ListTo(w, r)
  <2>1. /\ At(w, "list_to", r) /\ Goto(w, "tell_from")
        /\ UNCHANGED <<chats, news>>
        /\ listed' = Plus(listed, r.to, <<r.from, r.to>>)
    BY <1>7 DEF ListTo, Redis
  <2>2. Telling(w)'
    BY <2>1, GotoAlone DEF Telling
  <2>3. \A u \in Users : listed'[u] \subseteq listed[u] \cup {<<r.from, r.to>>}
    BY <2>1 DEF Plus, TypeOK
  <2>4. \A c \in ChatId : Public(c)' => Public(c) \/ c = <<r.from, r.to>>
    BY <2>1, <2>3 DEF Public
  <2> QED
    BY <1>5, <2>1, <2>2, <2>4
<1>8. ASSUME NEW u \in Users,
             news' = news \cup {<<u, "match", <<r.from, r.to>>>>},
             UNCHANGED listed
      PROVE  \A c \in ChatId : Public(c)' => Public(c) \/ c = <<r.from, r.to>>
  BY <1>8 DEF Public
<1>9. CASE TellMatch(w, r, "tell_from", r.from, "tell_to")
  <2>1. /\ At(w, "tell_from", r) /\ Goto(w, "tell_to")
        /\ UNCHANGED <<chats, listed>>
        /\ news' = news \cup {<<r.from, "match", <<r.from, r.to>>>>}
    BY <1>9 DEF TellMatch, redis
  <2>2. pc'[w] = "tell_to" /\ Pair(w)' = <<r.from, r.to>>
    BY <1>1, <2>1, GotoAlone
  <2>3. Telling(w)'
    BY <2>1, <2>2 DEF Telling
  <2>4. \A c \in ChatId : Public(c)' => Public(c) \/ c = <<r.from, r.to>>
    BY <1>t, <1>8, <2>1
  <2>5. news \subseteq news' /\ chats' = chats
    BY <2>1
  <2> QED
    BY <1>5, <2>1, <2>3, <2>4, <2>5
<1>10. CASE TellMatch(w, r, "tell_to", r.to, "commit")
  <2>1. /\ At(w, "tell_to", r) /\ Goto(w, "commit")
        /\ UNCHANGED <<chats, listed>>
        /\ news' = news \cup {<<r.to, "match", <<r.from, r.to>>>>}
    BY <1>10 DEF TellMatch, redis
  <2>2. pc'[w] = "commit" /\ Pair(w)' = <<r.from, r.to>>
    BY <1>1, <2>1, GotoAlone
  <2>3. <<r.from, "match", <<r.from, r.to>>>> \in news
    BY <1>1, <2>1 DEF Telling
  <2>4. Telling(w)'
    BY <2>1, <2>2, <2>3 DEF Telling
  <2>5. \A c \in ChatId : Public(c)' => Public(c) \/ c = <<r.from, r.to>>
    BY <1>t, <1>8, <2>1
  <2>6. news \subseteq news' /\ chats' = chats
    BY <2>1
  <2> QED
    BY <1>5, <2>1, <2>4, <2>5, <2>6
<1> QED
  BY <1>2, <1>3, <1>4, <1>6, <1>7, <1>9, <1>10 DEF CheckMatch

LEMMA AnnouncingInductive ==
  TypeOK /\ Untouched /\ Announcing /\ [Next]_vars => Announcing'
<1> SUFFICES ASSUME TypeOK, Untouched, Announcing, [Next]_vars, faults' = 0
             PROVE  Announcing'
  BY DEF Announcing
<1>0. faults = 0 /\ ~Fault
  <2>1. ~Fault
    BY DEF TypeOK, Fault
  <2> QED
    BY <2>1, CalmStep
<1>1. ASSUME NEW w \in Workers, NEW r \in Requests, CheckMatch(w, r)
      PROVE  Announcing'
  BY <1>0, <1>1, CheckMatchAnnouncing
<1>2. ASSUME NEW w \in Workers, Alone(w), UNCHANGED <<chats, listed, news>>,
             pc[w] \in {"idle", "next"}, pc'[w] \in {"idle", "next", "add_fan"}
      PROVE  Announcing'
  BY <1>0, <1>2, SilentStep DEF OpenSteps
<1>3. ASSUME UNCHANGED <<chats, news, todo, pc>>,
             \A u \in Users : listed'[u] \subseteq listed[u]
      PROVE  Announcing'
  <2>1. \A c \in ChatId : Public(c)' => Public(c)
    BY <1>3 DEF Public
  <2>2. \A c : Opening(c)' <=> Opening(c)
    BY <1>3 DEF Opening
  <2> QED
    BY <1>0, <1>3, <2>1, <2>2 DEF Announcing, Announced, Telling, Pair
<1>4. ASSUME NEW w \in Workers, Process(w)
      PROVE  Announcing'
  <2>1. Alone(w) /\ UNCHANGED <<chats, listed, news>> /\ pc'[w] = "next"
        /\ pc[w] = "idle"
    BY <1>4 DEF Process, Alone, TypeOK, redis
  <2> QED
    BY <1>2, <2>1
<1>5. ASSUME NEW w \in Workers, ProcessEnd(w) \/ Begin(w)
      PROVE  Announcing'
  <2>1. /\ UNCHANGED <<chats, listed, news>> /\ pc[w] = "next"
        /\ Goto(w, "idle") \/ Goto(w, "add_fan")
    BY <1>5 DEF ProcessEnd, Begin, redis
  <2> QED
    BY <1>2, <2>1, GotoAlone
<1>6. ASSUME NEW w \in Workers, Dislike(w) \/ OtherAction(w)
      PROVE  Announcing'
  <2>1. UNCHANGED <<chats, listed, news>> /\ Finish(w) /\ pc[w] = "next"
    BY <1>6 DEF Dislike, OtherAction, Redis, redis
  <2> QED
    BY <1>2, <2>1, FinishAlone
<1>7. ASSUME NEW w \in Workers, NEW r \in Requests, Take(w, r)
      PROVE  Announcing'
  BY <1>3, <1>7 DEF Take, redis
<1>8. CASE UNCHANGED vars
  BY <1>3, <1>8 DEF vars, redis, local
<1>9. ASSUME NEW w \in Workers, ~HasRdb, Panic(w)
      PROVE  Announcing'
  <2>1. /\ chats' = {} /\ news' = {} /\ \A u \in Users : listed'[u] = {}
        /\ todo' = [v \in Workers |-> <<>>]
    BY <1>9 DEF Panic, Restarted, redis, Untouched, NothingChecked
  <2>2. \A c : ~Public(c)'
    BY <2>1 DEF Public
  <2> QED
    BY <2>1, <2>2 DEF Announcing
<1>10. ~Crash /\ (\A u \in Users : ~Evict(u))
  BY <1>0 DEF Crash, Evict
<1>11. ASSUME NEW u \in Users, ApiStep(u)
       PROVE  Announcing'
  <2>1. listed' = listed \/ listed' = [listed EXCEPT ![u] = {}]
    BY <1>11 DEF ApiStep, AskFans, FillFans, ExpireFans, StopAsking,
                 ElapseFans, ElapseList, redis
  <2>2. \A v \in Users : listed'[v] \subseteq listed[v]
    BY <2>1 DEF TypeOK
  <2> QED
    BY <1>3, <1>11, <2>2, ApiFrame
<1> QED
  BY <1>1, <1>4, <1>5, <1>6, <1>7, <1>8, <1>9, <1>10, <1>11
  DEF Next, WorkerStep, FirstCommand

LEMMA AnnouncingAlways == Spec => []Announcing
<1>1. Init => Announcing
  BY DEF Init, Announcing, Public
<1> QED
  BY <1>1, AnnouncingInductive, TypeCorrect, UntouchedAlways, PTL DEF Spec

(* While no command fails, both members of a dialog have been told of it,  *)
(* and nobody is told of a dialog, or finds it in the list of chats, that  *)
(* is not committed in the end: between the first command that shows it    *)
(* and the commit nothing ends the transaction, whatever else runs.        *)
THEOREM MatchAnnouncedAlways == Spec => []MatchAnnounced
<1>1. Announcing => MatchAnnounced
  BY DEF Announcing, Announced, Public, MatchAnnounced
<1> QED
  BY <1>1, AnnouncingAlways, PTL

-----------------------------------------------------------------------------
(* LikeRemembered, made inductive.  Worker w has the like of a to b still  *)
(* before it, or is at one of the steps P with it.                         *)
Pending(w, a, b, P) ==
  \E i \in DOMAIN todo[w] :
    todo[w][i] = Like(a, b) /\ (i > 1 \/ pc[w] \in P)

ToAddFan == {"next", "add_fan"}
ToAddLike == {"next", "add_fan", "add_like"}
ToTell == {"next", "add_fan", "add_like", "check", "tell_like"}

(* A pair of users has one reaction, which is what the table demands.      *)
OneReaction == \A r, s \in reactions : SamePair(r, s) => r = s

(* What the check of an unanswered like has to leave behind is there, or   *)
(* the check is before that command.                                       *)
Unanswered(a, b) == a # b /\ Liked(a, b) /\ ~Rated(b, a)
Fan(a, b) == a \in fans[b] \/ b \in Askers
Told(a, b) == <<b, "new_like", <<a, b>>>> \in news

Remembered(a, b) ==
  /\ Fan(a, b) \/ \E w \in Workers : Pending(w, a, b, ToAddFan)
  /\ b \in likes[a] \/ \E w \in Workers : Pending(w, a, b, ToAddLike)
  /\ Told(a, b) \/ \E w \in Workers : Pending(w, a, b, ToTell)

Remembering ==
  faults = 0 /\ HasRdb =>
    \A a, b \in Users : Unanswered(a, b) => Remembered(a, b)

(* Who does not call GetLikingProfiles has no sorted set and no time to    *)
(* live.                                                                   *)
Unasked ==
  \A u \in Users \ Askers :
    sorted[u] = {} /\ u \notin expiring /\ asking[u] = "idle"

LEMMA UnaskedApi ==
  ASSUME TypeOK, Unasked, NEW u \in Users, ApiStep(u)
  PROVE  /\ Unasked'
         /\ \A v \in Users \ Askers : fans'[v] = fans[v]
<1>1. asking \in [Users -> {"idle", "add", "expire"}]
      /\ sorted \in [Users -> SUBSET Users]
      /\ fans \in [Users -> SUBSET Users]
  BY DEF TypeOK
<1>2. u \in Askers
      \/ ElapseList(u)
  BY <1>1 DEF Unasked, ApiStep, AskFans, FillFans, ExpireFans, StopAsking,
              ElapseFans, Advance
<1>3. CASE ElapseList(u)
  BY <1>3 DEF ElapseList, Unasked, pages
<1>4. CASE u \in Askers
  <2>1. /\ \A v \in Users \ {u} : /\ asking'[v] = asking[v]
                                 /\ sorted'[v] = sorted[v]
                                 /\ fans'[v] = fans[v]
        /\ expiring' \subseteq expiring \cup {u}
    BY <1>1 DEF ApiStep, AskFans, FillFans, ExpireFans, StopAsking, ElapseFans,
                ElapseList, NoFansKey, Advance, redis, pages
  <2> QED
    BY <1>4, <2>1 DEF Unasked
<1> QED
  BY <1>2, <1>3, <1>4

LEMMA UnaskedInductive == TypeOK /\ Unasked /\ [Next]_vars => Unasked'
<1> SUFFICES ASSUME TypeOK, Unasked, [Next]_vars
             PROVE  Unasked'
  OBVIOUS
<1>1. ASSUME UNCHANGED <<sorted, pages>>, expiring' \subseteq expiring
      PROVE  Unasked'
  BY <1>1 DEF Unasked, pages
<1>2. ASSUME NEW f, NEW l, NEW s, Redis(f, l, s)
      PROVE  UNCHANGED sorted /\ expiring' \subseteq expiring
  BY <1>2 DEF Redis, redis
<1>3. ASSUME NEW w \in Workers, NEW r \in Requests, CheckMatch(w, r)
      PROVE  Unasked'
  <2>1. CASE AddFan(w, r) \/ AddLike(w, r) \/ RemFan(w, r) \/ RemFanBack(w, r)
             \/ RemLike(w, r) \/ RemLikeBack(w, r) \/ ListFrom(w, r)
             \/ ListTo(w, r)
    <3>1. UNCHANGED pages /\ \E f, l, s : Redis(f, l, s)
      BY <2>1 DEF AddFan, AddLike, RemFan, RemFanBack, RemLike, RemLikeBack,
                  ListFrom, ListTo
    <3> QED
      BY <1>1, <1>2, <3>1
  <2>2. CASE Check(w, r) \/ TellLike(w, r) \/ Find(w, r) \/ CreateChat(w, r)
             \/ TellMatch(w, r, "tell_from", r.from, "tell_to")
             \/ TellMatch(w, r, "tell_to", r.to, "commit") \/ Commit(w, r)
    <3>1. UNCHANGED <<pages, redis>>
      BY <2>2 DEF Check, TellLike, Find, CreateChat, TellMatch, Commit
    <3> QED
      BY <1>1, <3>1 DEF redis
  <2> QED
    BY <1>3, <2>1, <2>2 DEF CheckMatch
<1>4. ASSUME NEW w \in Workers, Dislike(w)
      PROVE  Unasked'
  BY <1>1, <1>2, <1>4 DEF Dislike
<1>5. ASSUME NEW w \in Workers, NEW r \in Requests,
             \/ Begin(w) \/ OtherAction(w) \/ ProcessEnd(w)
             \/ Take(w, r) \/ Process(w) \/ Panic(w) \/ Crash
      PROVE  Unasked'
  <2>1. UNCHANGED <<pages, redis>>
    BY <1>5 DEF Begin, OtherAction, ProcessEnd, Take, Process, Panic, Crash
  <2> QED
    BY <1>1, <2>1 DEF redis
<1>6. ASSUME NEW w \in Workers,
             \/ Begin(w) \/ OtherAction(w) \/ ProcessEnd(w)
             \/ Process(w) \/ Panic(w)
      PROVE  Unasked'
  <2>1. UNCHANGED <<pages, redis>>
    BY <1>6 DEF Begin, OtherAction, ProcessEnd, Process, Panic
  <2> QED
    BY <1>1, <2>1 DEF redis
<1>7. ASSUME NEW u \in Users, Evict(u)
      PROVE  Unasked'
  <2>1. /\ UNCHANGED asking
        /\ sorted' = sorted \/ sorted' = [sorted EXCEPT ![u] = {}]
        /\ expiring' \subseteq expiring
    BY <1>7 DEF Evict, NoFansKey, pages
  <2>2. sorted \in [Users -> SUBSET Users]
    BY DEF TypeOK
  <2> QED
    BY <2>1, <2>2 DEF Unasked
<1>8. CASE Crash \/ UNCHANGED vars
  <2>1. UNCHANGED <<pages, redis>>
    BY <1>8 DEF Crash, vars
  <2> QED
    BY <1>1, <2>1 DEF redis
<1> QED
  BY <1>3, <1>4, <1>5, <1>6, <1>7, <1>8, UnaskedApi DEF Next, WorkerStep, FirstCommand

LEMMA UnaskedAlways == Spec => []Unasked
<1>1. Init => Unasked
  BY DEF Init, Unasked
<1> QED
  BY <1>1, UnaskedInductive, TypeCorrect, PTL DEF Spec

LEMMA OneReactionInductive == OneReaction /\ [Next]_vars => OneReaction'
<1> SUFFICES ASSUME OneReaction, [Next]_vars
             PROVE  OneReaction'
  OBVIOUS
<1>1. ASSUME UNCHANGED reactions
      PROVE  OneReaction'
  BY <1>1 DEF OneReaction
<1>2. ASSUME NEW w \in Workers, Process(w)
      PROVE  OneReaction'
  <2>1. /\ reactions' = reactions \cup Range(batch[w])
        /\ Insertable(batch[w])
    BY <1>2 DEF Process
  <2>2. \A r \in Range(batch[w]) :
          \E i \in DOMAIN batch[w] : r = batch[w][i]
    BY DEF Range
  <2>3. ASSUME NEW r \in reactions', NEW s \in reactions', SamePair(r, s)
        PROVE  r = s
    <3>1. SamePair(s, r)
      BY <2>3 DEF SamePair
    <3>2. CASE r \in reactions /\ s \in reactions
      BY <2>3, <3>2 DEF OneReaction
    <3>3. CASE r \in Range(batch[w]) /\ s \in reactions
      BY <2>1, <2>2, <2>3, <3>3 DEF Insertable
    <3>4. CASE r \in reactions /\ s \in Range(batch[w])
      BY <2>1, <2>2, <3>1, <3>4 DEF Insertable
    <3>5. CASE r \in Range(batch[w]) /\ s \in Range(batch[w])
      BY <2>1, <2>2, <2>3, <3>5 DEF Insertable
    <3> QED
      BY <2>1, <2>3, <3>2, <3>3, <3>4, <3>5
  <2> QED
    BY <2>3 DEF OneReaction
<1>3. ASSUME NEW w \in Workers, NEW r \in Requests, CheckMatch(w, r)
      PROVE  UNCHANGED reactions
  BY <1>3 DEF CheckMatch, AddFan, AddLike, Check, TellLike, RemFan,
              RemFanBack, RemLike, RemLikeBack, Find, CreateChat, ListFrom,
              ListTo, TellMatch, Commit
<1>4. ASSUME NEW w \in Workers, NEW r \in Requests,
             Begin(w) \/ Dislike(w) \/ OtherAction(w) \/ ProcessEnd(w)
               \/ Take(w, r) \/ Panic(w)
      PROVE  UNCHANGED reactions
  BY <1>4 DEF Begin, Dislike, OtherAction, ProcessEnd, Take, Panic
<1>5. ASSUME NEW w \in Workers, \/ Begin(w) \/ Dislike(w) \/ OtherAction(w)
                                \/ ProcessEnd(w) \/ Panic(w)
      PROVE  UNCHANGED reactions
  BY <1>5 DEF Begin, Dislike, OtherAction, ProcessEnd, Panic
<1>6. ASSUME NEW u \in Users, Evict(u)
      PROVE  UNCHANGED reactions
  BY <1>6 DEF Evict
<1>7. CASE Crash
  BY <1>1, <1>7 DEF Crash
<1>8. CASE UNCHANGED vars
  BY <1>1, <1>8 DEF vars
<1>9. ASSUME NEW u \in Users, ApiStep(u)
      PROVE  UNCHANGED reactions
  BY <1>9, ApiFrame
<1> QED
  BY <1>1, <1>2, <1>3, <1>4, <1>5, <1>6, <1>7, <1>8, <1>9 DEF Next, WorkerStep, FirstCommand

LEMMA OneReactionAlways == Spec => []OneReaction
<1>1. Init => OneReaction
  BY DEF Init, OneReaction
<1> QED
  BY <1>1, OneReactionInductive, PTL DEF Spec

(* What is pending at a worker stays so unless it leaves P with it.        *)
LEMMA GotoPending ==
  ASSUME TypeOK, NEW w \in Workers, NEW p, Goto(w, p), NEW a, NEW b, NEW P,
         pc[w] \in P /\ todo[w] # <<>> /\ Head(todo[w]) = Like(a, b)
           => p \in P,
         Pending(w, a, b, P)
  PROVE  Pending(w, a, b, P)'
<1>1. pc'[w] = p /\ todo'[w] = todo[w] /\ todo[w] \in Seq(Requests)
  BY DEF TypeOK, Goto
<1>2. PICK i \in DOMAIN todo[w] :
        todo[w][i] = Like(a, b) /\ (i > 1 \/ pc[w] \in P)
  BY DEF Pending
<1>3. i > 1 \/ p \in P
  <2>1. i = 1 => Head(todo[w]) = Like(a, b) /\ todo[w] # <<>>
    BY <1>1, <1>2
  <2>2. i > 1 \/ i = 1
    BY <1>1, <1>2
  <2> QED
    BY <1>2, <2>1, <2>2
<1> QED
  BY <1>1, <1>2, <1>3 DEF Pending

LEMMA FinishPending ==
  ASSUME TypeOK, NEW w \in Workers, Finish(w), todo[w] # <<>>,
         NEW a, NEW b, NEW P, "next" \in P,
         pc[w] \in P => Head(todo[w]) # Like(a, b),
         Pending(w, a, b, P)
  PROVE  Pending(w, a, b, P)'
<1>1. todo'[w] = Tail(todo[w]) /\ pc'[w] = "next" /\ todo[w] \in Seq(Requests)
  BY DEF TypeOK, Finish
<1>2. PICK i \in DOMAIN todo[w] :
        todo[w][i] = Like(a, b) /\ (i > 1 \/ pc[w] \in P)
  BY DEF Pending
<1>3. i > 1
  <2>1. i = 1 => Head(todo[w]) = Like(a, b)
    BY <1>1, <1>2
  <2>2. i > 1 \/ i = 1
    BY <1>1, <1>2
  <2> QED
    BY <1>2, <2>1, <2>2
<1>4. i - 1 \in DOMAIN todo'[w] /\ todo'[w][i - 1] = Like(a, b)
  BY <1>1, <1>2, <1>3, SMTT(30)
<1> QED
  BY <1>1, <1>4 DEF Pending

(* What a step of worker w has to keep of the like of a to b.              *)
Keeping(w, a, b) ==
  /\ Fan(a, b) => Fan(a, b)'
  /\ b \in likes[a] => b \in likes'[a]
  /\ Told(a, b) => Told(a, b)'
  /\ Pending(w, a, b, ToAddFan) =>
       Pending(w, a, b, ToAddFan)' \/ Fan(a, b)'
  /\ Pending(w, a, b, ToAddLike) =>
       Pending(w, a, b, ToAddLike)' \/ b \in likes'[a]
  /\ Pending(w, a, b, ToTell) => Pending(w, a, b, ToTell)' \/ Told(a, b)'

LEMMA RememberStep ==
  ASSUME NEW w \in Workers, Alone(w), NEW a, NEW b, Remembered(a, b),
         Keeping(w, a, b)
  PROVE  Remembered(a, b)'
<1>1. ASSUME NEW v \in Workers, v # w, NEW P, Pending(v, a, b, P)
      PROVE  Pending(v, a, b, P)'
  BY <1>1 DEF Alone, Pending
<1>2. (Fan(a, b) \/ \E v \in Workers : Pending(v, a, b, ToAddFan))'
  <2>1. CASE Fan(a, b)
    BY <2>1 DEF Keeping
  <2>2. ASSUME NEW v \in Workers, Pending(v, a, b, ToAddFan)
        PROVE  (\/ Fan(a, b)
                \/ \E u \in Workers : Pending(u, a, b, ToAddFan))'
    <3>1. CASE v = w
      BY <2>2, <3>1 DEF Keeping
    <3>2. CASE v # w
      <4>1. Pending(v, a, b, ToAddFan)'
        BY <1>1, <2>2, <3>2
      <4> QED
        BY <4>1
    <3> QED
      BY <3>1, <3>2
  <2> QED
    BY <2>1, <2>2 DEF Remembered
<1>3. (b \in likes[a] \/ \E v \in Workers : Pending(v, a, b, ToAddLike))'
  <2>1. CASE b \in likes[a]
    BY <2>1 DEF Keeping
  <2>2. ASSUME NEW v \in Workers, Pending(v, a, b, ToAddLike)
        PROVE  (\/ b \in likes[a]
                \/ \E u \in Workers : Pending(u, a, b, ToAddLike))'
    <3>1. CASE v = w
      BY <2>2, <3>1 DEF Keeping
    <3>2. CASE v # w
      <4>1. Pending(v, a, b, ToAddLike)'
        BY <1>1, <2>2, <3>2
      <4> QED
        BY <4>1
    <3> QED
      BY <3>1, <3>2
  <2> QED
    BY <2>1, <2>2 DEF Remembered
<1>4. (Told(a, b) \/ \E v \in Workers : Pending(v, a, b, ToTell))'
  <2>1. CASE Told(a, b)
    BY <2>1 DEF Keeping
  <2>2. ASSUME NEW v \in Workers, Pending(v, a, b, ToTell)
        PROVE  (Told(a, b) \/ \E u \in Workers : Pending(u, a, b, ToTell))'
    <3>1. CASE v = w
      BY <2>2, <3>1 DEF Keeping
    <3>2. CASE v # w
      <4>1. Pending(v, a, b, ToTell)'
        BY <1>1, <2>2, <3>2
      <4> QED
        BY <4>1
    <3> QED
      BY <3>1, <3>2
  <2> QED
    BY <2>1, <2>2 DEF Remembered
<1> QED
  BY <1>2, <1>3, <1>4 DEF Remembered

(* Each command of checkMatch keeps what is needed of an unanswered like:  *)
(* those of a match are not reached with it.                               *)
LEMMA CheckMatchKeeping ==
  ASSUME TypeOK, Justified, Unasked, ~Fault,
         NEW w \in Workers, NEW r \in Requests, CheckMatch(w, r),
         NEW a \in Users, NEW b \in Users, Unanswered(a, b)
  PROVE  Alone(w) /\ Keeping(w, a, b)
<1>t. r.from \in Users /\ r.to \in Users
  BY RequestType
<1>n. /\ ~Liked(b, a) /\ ~(a \in likes[b])
  BY DEF Unanswered, Liked, Rated, Like, Justified, LikesStored
<1>p. ASSUME NEW p \in LikeSteps, At(w, p, r)
      PROVE  /\ todo[w] # <<>> /\ Head(todo[w]) = r /\ pc[w] = p
             /\ r = Like(a, b) <=> r.from = a /\ r.to = b
             /\ p \in MatchSteps => ~(r.from = a /\ r.to = b)
             /\ p \in MatchSteps => ~(r.from = b /\ r.to = a)
  BY <1>n, <1>p, Current DEF At, Like
<1>s. /\ Told(a, b) => Told(a, b)'
      /\ Unanswered(a, b)
  BY DEF Told, CheckMatch, AddFan, AddLike, Check, TellLike, RemFan,
         RemFanBack, RemLike, RemLikeBack, Find, CreateChat, ListFrom,
         ListTo, TellMatch, Commit
<1>1. CASE AddFan(w, r)
  <2>1. At(w, "add_fan", r) /\ Goto(w, "add_like") /\ likes' = likes
        /\ fans' = FanAdded(r.to, r.from)
    BY <1>1 DEF AddFan, Redis
  <2>a. fans \in [Users -> SUBSET Users]
    BY DEF TypeOK
  <2>2. Fan(a, b) => Fan(a, b)'
    BY <2>1, <2>a DEF Fan, FanAdded, Plus
  <2>3. r.from = a /\ r.to = b => Fan(a, b)'
    BY <2>1, <2>a, <1>t DEF Fan, FanAdded, Plus, Unasked
  <2>4. /\ todo[w] # <<>> /\ Head(todo[w]) = r /\ pc[w] = "add_fan"
        /\ r = Like(a, b) <=> r.from = a /\ r.to = b
    BY <1>p, <2>1 DEF LikeSteps
  <2>5. Pending(w, a, b, ToAddFan) =>
          Pending(w, a, b, ToAddFan)' \/ Fan(a, b)'
    BY <2>1, <2>3, <2>4, GotoPending
  <2>6. Pending(w, a, b, ToAddLike) => Pending(w, a, b, ToAddLike)'
    BY <2>1, GotoPending DEF ToAddLike
  <2>7. Pending(w, a, b, ToTell) => Pending(w, a, b, ToTell)'
    BY <2>1, GotoPending DEF ToTell
  <2> QED
    BY <1>s, <2>1, <2>2, <2>5, <2>6, <2>7, GotoAlone DEF Keeping, Fan
<1>2. CASE AddLike(w, r)
  <2>1. At(w, "add_like", r) /\ Goto(w, "check") /\ fans' = fans
        /\ likes' = Plus(likes, r.from, r.to)
    BY <1>2 DEF AddLike, Redis
  <2>2. b \in likes[a] => b \in likes'[a]
    BY <2>1 DEF Plus, TypeOK
  <2>3. r.from = a /\ r.to = b => b \in likes'[a]
    BY <2>1, <1>t DEF Plus, TypeOK
  <2>4. /\ todo[w] # <<>> /\ Head(todo[w]) = r /\ pc[w] = "add_like"
        /\ r = Like(a, b) <=> r.from = a /\ r.to = b
    BY <1>p, <2>1 DEF LikeSteps
  <2>5. Pending(w, a, b, ToAddFan) => Pending(w, a, b, ToAddFan)'
    <3>1. pc[w] \notin ToAddFan
      BY <2>4 DEF ToAddFan
    <3> QED
      BY <2>1, <3>1, GotoPending
  <2>6. Pending(w, a, b, ToAddLike) =>
          Pending(w, a, b, ToAddLike)' \/ b \in likes'[a]
    BY <2>1, <2>3, <2>4, GotoPending
  <2>7. Pending(w, a, b, ToTell) => Pending(w, a, b, ToTell)'
    BY <2>1, GotoPending DEF ToTell
  <2> QED
    BY <1>s, <2>1, <2>2, <2>5, <2>6, <2>7, GotoAlone DEF Keeping, Fan
<1>3. CASE Check(w, r)
  <2>1. At(w, "check", r) /\ fans' = fans /\ likes' = likes
    BY <1>3 DEF Check, redis
  <2>2. /\ todo[w] # <<>> /\ Head(todo[w]) = r /\ pc[w] = "check"
        /\ r = Like(a, b) <=> r.from = a /\ r.to = b
    BY <1>p, <2>1 DEF LikeSteps
  <2>3. PICK p \in {"rem_fan", "tell_like"} :
          Goto(w, p) /\ (p = "rem_fan" => r.from \in likes[r.to])
    BY <1>3 DEF Check
  <2>4. Head(todo[w]) = Like(a, b) => p \in ToTell
    BY <1>n, <2>2, <2>3 DEF ToTell
  <2>5. Pending(w, a, b, ToAddFan) => Pending(w, a, b, ToAddFan)'
    <3>1. pc[w] \notin ToAddFan
      BY <2>2 DEF ToAddFan
    <3> QED
      BY <2>3, <3>1, GotoPending
  <2>6. Pending(w, a, b, ToAddLike) => Pending(w, a, b, ToAddLike)'
    <3>1. pc[w] \notin ToAddLike
      BY <2>2 DEF ToAddLike
    <3> QED
      BY <2>3, <3>1, GotoPending
  <2>7. Pending(w, a, b, ToTell) => Pending(w, a, b, ToTell)'
    BY <2>3, <2>4, GotoPending
  <2> QED
    BY <1>s, <2>1, <2>3, <2>5, <2>6, <2>7, GotoAlone DEF Keeping, Fan
<1>4. ASSUME NEW p \in LikeSteps, At(w, p, r), Finish(w),
             p \in MatchSteps \/ (p = "tell_like"
                 /\ (r.from = a /\ r.to = b => Told(a, b)')),
             fans' = fans, likes' = likes
      PROVE  Alone(w) /\ Keeping(w, a, b)
  <2>1. /\ todo[w] # <<>> /\ Head(todo[w]) = r /\ pc[w] = p
        /\ r = Like(a, b) <=> r.from = a /\ r.to = b
    BY <1>p, <1>4
  <2>2. /\ pc[w] \notin ToAddFan /\ pc[w] \notin ToAddLike
        /\ pc[w] \in ToTell /\ Head(todo[w]) = Like(a, b) => Told(a, b)'
    BY <1>4, <2>1 DEF MatchSteps, ToAddFan, ToAddLike, ToTell
  <2>3. Pending(w, a, b, ToAddFan) => Pending(w, a, b, ToAddFan)'
    <3>1. "next" \in ToAddFan
      BY DEF ToAddFan
    <3> QED
      BY <1>4, <2>1, <2>2, <3>1, FinishPending
  <2>4. Pending(w, a, b, ToAddLike) => Pending(w, a, b, ToAddLike)'
    <3>1. "next" \in ToAddLike
      BY DEF ToAddLike
    <3> QED
      BY <1>4, <2>1, <2>2, <3>1, FinishPending
  <2>5. Pending(w, a, b, ToTell) => Pending(w, a, b, ToTell)' \/ Told(a, b)'
    <3>1. "next" \in ToTell
      BY DEF ToTell
    <3> QED
      BY <1>4, <2>1, <2>2, <3>1, FinishPending
  <2> QED
    BY <1>s, <1>4, <2>3, <2>4, <2>5, FinishAlone DEF Keeping, Fan
<1>5. CASE TellLike(w, r)
  <2>1. At(w, "tell_like", r) /\ Finish(w) /\ fans' = fans /\ likes' = likes
        /\ news' = news \cup {<<r.to, "new_like", <<r.from, r.to>>>>}
    BY <1>5 DEF TellLike, redis
  <2>2. r.from = a /\ r.to = b => Told(a, b)'
    BY <2>1 DEF Told
  <2>3. "tell_like" \in LikeSteps
    BY DEF LikeSteps
  <2> QED
    BY <1>4, <2>1, <2>2, <2>3
<1>6. ASSUME NEW p \in MatchSteps, NEW q, At(w, p, r), Goto(w, q),
             Fan(a, b) => Fan(a, b)',
             b \in likes[a] => b \in likes'[a]
      PROVE  Alone(w) /\ Keeping(w, a, b)
  <2>1. pc[w] \notin ToAddFan /\ pc[w] \notin ToAddLike /\ pc[w] \notin ToTell
    BY <1>6 DEF At, MatchSteps, ToAddFan, ToAddLike, ToTell
  <2>2. /\ Pending(w, a, b, ToAddFan) => Pending(w, a, b, ToAddFan)'
        /\ Pending(w, a, b, ToAddLike) => Pending(w, a, b, ToAddLike)'
        /\ Pending(w, a, b, ToTell) => Pending(w, a, b, ToTell)'
    BY <1>6, <2>1, GotoPending
  <2> QED
    BY <1>s, <1>6, <2>2, GotoAlone DEF Keeping, Fan
<1>7. ASSUME NEW p \in MatchSteps, At(w, p, r)
      PROVE  /\ ~(r.from = a /\ r.to = b)
             /\ ~(r.from = b /\ r.to = a)
  BY <1>7, <1>p DEF LikeSteps
<1>8. CASE RemFan(w, r) \/ RemFanBack(w, r) \/ RemLike(w, r)
             \/ RemLikeBack(w, r)
  <2>1. PICK p \in {"rem_fan", "rem_fan_back", "rem_like", "rem_like_back"},
             q \in Steps : At(w, p, r) /\ Goto(w, q)
    BY <1>8 DEF RemFan, RemFanBack, RemLike, RemLikeBack, Steps
  <2>2. p \in MatchSteps
    BY DEF MatchSteps
  <2>3. /\ ~(r.from = a /\ r.to = b)
        /\ ~(r.from = b /\ r.to = a)
    BY <1>7, <2>1, <2>2
  <2>4. \/ fans' = Minus(fans, r.to, r.from) /\ likes' = likes
        \/ fans' = Minus(fans, r.from, r.to) /\ likes' = likes
        \/ fans' = fans /\ likes' = Minus(likes, r.from, r.to)
        \/ fans' = fans /\ likes' = Minus(likes, r.to, r.from)
    BY <1>8 DEF RemFan, RemFanBack, RemLike, RemLikeBack, Redis
  <2>a. fans \in [Users -> SUBSET Users] /\ likes \in [Users -> SUBSET Users]
    BY DEF TypeOK
  <2>b. a \in fans[b] => a \in fans'[b]
    BY <1>t, <2>3, <2>4, <2>a DEF Minus
  <2>c. b \in likes[a] => b \in likes'[a]
    BY <1>t, <2>3, <2>4, <2>a DEF Minus
  <2>5. /\ Fan(a, b) => Fan(a, b)'
        /\ b \in likes[a] => b \in likes'[a]
    BY <2>b, <2>c DEF Fan
  <2> QED
    BY <1>6, <2>1, <2>2, <2>5
<1>9. CASE ListFrom(w, r) \/ ListTo(w, r)
             \/ TellMatch(w, r, "tell_from", r.from, "tell_to")
             \/ TellMatch(w, r, "tell_to", r.to, "commit")
  <2>1. PICK p \in {"list_from", "list_to", "tell_from", "tell_to"},
             q \in Steps : At(w, p, r) /\ Goto(w, q)
    BY <1>9 DEF ListFrom, ListTo, TellMatch, Steps
  <2>2. p \in MatchSteps
    BY DEF MatchSteps
  <2>3. fans' = fans /\ likes' = likes
    BY <1>9 DEF ListFrom, ListTo, TellMatch, Redis, redis
  <2> QED
    BY <1>6, <2>1, <2>2, <2>3 DEF Fan
<1>10. CASE Find(w, r) \/ CreateChat(w, r) \/ Commit(w, r)
  <2>1. PICK p \in {"find", "create", "commit"} : At(w, p, r)
    BY <1>10 DEF Find, CreateChat, Commit
  <2>2. p \in MatchSteps /\ p \in LikeSteps
    BY DEF MatchSteps, LikeSteps
  <2>3. fans' = fans /\ likes' = likes
    BY <1>10 DEF Find, CreateChat, Commit, redis
  <2>4. Finish(w) \/ \E q \in Steps : Goto(w, q)
    BY <1>10 DEF Find, CreateChat, Commit, Steps
  <2> QED
    BY <1>4, <1>6, <2>1, <2>2, <2>3, <2>4 DEF Fan
<1> QED
  BY <1>1, <1>2, <1>3, <1>5, <1>8, <1>9, <1>10 DEF CheckMatch

LEMMA RememberingInductive ==
  TypeOK /\ Justified /\ OneReaction /\ Unasked /\ Remembering /\ [Next]_vars
    => Remembering'
<1> SUFFICES ASSUME TypeOK, Justified, OneReaction, Unasked, Remembering,
                    [Next]_vars, faults' = 0, HasRdb,
                    NEW a \in Users, NEW b \in Users, Unanswered(a, b)'
             PROVE  Remembered(a, b)'
  BY DEF Remembering
<1>0. faults = 0 /\ ~Fault
  <2>1. ~Fault
    BY DEF TypeOK, Fault
  <2> QED
    BY <2>1, CalmStep
<1>1. ASSUME Unanswered(a, b)
      PROVE  Remembered(a, b)
  BY <1>0, <1>1 DEF Remembering
<1>2. ASSUME UNCHANGED reactions
      PROVE  Unanswered(a, b)
  BY <1>2 DEF Unanswered, Liked, Rated
<1>3. ASSUME NEW w \in Workers, NEW r \in Requests, CheckMatch(w, r)
      PROVE  Remembered(a, b)'
  <2>1. UNCHANGED reactions
    BY <1>3 DEF CheckMatch, AddFan, AddLike, Check, TellLike, RemFan,
                RemFanBack, RemLike, RemLikeBack, Find, CreateChat, ListFrom,
                ListTo, TellMatch, Commit
  <2>2. Alone(w) /\ Keeping(w, a, b)
    BY <1>0, <1>2, <1>3, <2>1, CheckMatchKeeping
  <2> QED
    BY <1>1, <1>2, <2>1, <2>2, RememberStep
<1>4. ASSUME NEW w \in Workers, Begin(w) \/ ProcessEnd(w)
      PROVE  Remembered(a, b)'
  <2>1. PICK p \in {"add_fan", "idle"} :
          Goto(w, p) /\ (p = "add_fan" \/ todo[w] = <<>>)
    BY <1>4 DEF Begin, ProcessEnd
  <2>2. UNCHANGED <<reactions, fans, likes, news>>
    BY <1>4 DEF Begin, ProcessEnd, redis
  <2>3. /\ Pending(w, a, b, ToAddFan) => Pending(w, a, b, ToAddFan)'
        /\ Pending(w, a, b, ToAddLike) => Pending(w, a, b, ToAddLike)'
        /\ Pending(w, a, b, ToTell) => Pending(w, a, b, ToTell)'
    <3>1. todo[w] = <<>> \/ (p \in ToAddFan /\ p \in ToAddLike /\ p \in ToTell)
      BY <2>1 DEF ToAddFan, ToAddLike, ToTell
    <3> QED
      BY <2>1, <3>1, GotoPending
  <2>4. Keeping(w, a, b)
    BY <2>2, <2>3 DEF Keeping, Told, Fan
  <2> QED
    BY <1>1, <1>2, <2>1, <2>2, <2>4, GotoAlone, RememberStep
<1>5. ASSUME NEW w \in Workers, Dislike(w) \/ OtherAction(w)
      PROVE  Remembered(a, b)'
  <2>1. /\ UNCHANGED <<reactions, likes, news>> /\ Finish(w)
        /\ todo[w] # <<>> /\ Head(todo[w]).action # "like"
        /\ \/ fans' = fans
           \/ fans' = Minus(fans, Head(todo[w]).to, Head(todo[w]).from)
    BY <1>5 DEF Dislike, OtherAction, Redis, redis
  <2>2. Unanswered(a, b) /\ Liked(a, b)
    BY <1>2, <2>1 DEF Unanswered
  <2>3. Head(todo[w]) # Like(a, b)
    BY <2>1 DEF Like
  <2>4. /\ Pending(w, a, b, ToAddFan) => Pending(w, a, b, ToAddFan)'
        /\ Pending(w, a, b, ToAddLike) => Pending(w, a, b, ToAddLike)'
        /\ Pending(w, a, b, ToTell) => Pending(w, a, b, ToTell)'
    <3>1. "next" \in ToAddFan /\ "next" \in ToAddLike /\ "next" \in ToTell
      BY DEF ToAddFan, ToAddLike, ToTell
    <3> QED
      BY <2>1, <2>3, <3>1, FinishPending
  <2>5. ~(Head(todo[w]).from = a /\ Head(todo[w]).to = b)
    <3>1. Head(todo[w]) \in reactions
      BY <2>1 DEF Justified, TodoStored, TypeOK
    <3>2. Like(a, b) \in reactions /\ Like(a, b).from = a /\ Like(a, b).to = b
      BY <2>2 DEF Liked, Like
    <3> QED
      BY <2>3, <3>1, <3>2 DEF OneReaction, SamePair
  <2>6. Fan(a, b) => Fan(a, b)'
    <3>1. Head(todo[w]) \in Requests
      BY <2>1 DEF TypeOK
    <3>2. Head(todo[w]).to \in Users
      BY <3>1, RequestType
    <3> QED
      BY <2>1, <2>5, <3>2 DEF Fan, Minus, TypeOK
  <2>7. Keeping(w, a, b)
    BY <2>1, <2>4, <2>6 DEF Keeping, Told
  <2> QED
    BY <1>1, <2>1, <2>2, <2>7, FinishAlone, RememberStep
<1>6. ASSUME NEW w \in Workers, Process(w)
      PROVE  Remembered(a, b)'
  <2>1. /\ reactions' = reactions \cup Range(batch[w])
        /\ UNCHANGED <<fans, likes, news>>
        /\ Alone(w)
        /\ todo'[w] = batch[w] /\ pc'[w] = "next"
        /\ todo[w] = <<>>
    BY <1>6 DEF Process, TypeOK, redis, Justified, TodoStored, Alone
  <2>2. CASE Liked(a, b)
    <3>1. Unanswered(a, b)
      BY <2>1, <2>2 DEF Unanswered, Rated
    <3>2. Keeping(w, a, b)
      BY <2>1 DEF Keeping, Told, Pending, Fan
    <3> QED
      BY <1>1, <2>1, <3>1, <3>2, RememberStep
  <2>3. CASE ~Liked(a, b)
    <3>1. PICK i \in DOMAIN batch[w] : batch[w][i] = Like(a, b)
      BY <2>1, <2>3 DEF Unanswered, Liked, Range
    <3>2. /\ Pending(w, a, b, ToAddFan)'
          /\ Pending(w, a, b, ToAddLike)'
          /\ Pending(w, a, b, ToTell)'
      BY <2>1, <3>1 DEF Pending, ToAddFan, ToAddLike, ToTell
    <3> QED
      BY <3>2 DEF Remembered
  <2> QED
    BY <2>2, <2>3
<1>7. ASSUME UNCHANGED <<reactions, likes, news, todo, pc>>,
             Fan(a, b) => Fan(a, b)'
      PROVE  Remembered(a, b)'
  BY <1>1, <1>2, <1>7 DEF Remembered, Told, Pending
<1>8. ASSUME NEW w \in Workers, NEW r \in Requests, Take(w, r)
      PROVE  Remembered(a, b)'
  BY <1>7, <1>8 DEF Take, redis, Fan
<1>9. CASE UNCHANGED vars
  BY <1>7, <1>9 DEF vars, redis, local, Fan
<1>10. HasRdb /\ ~Crash /\ \A u \in Users : ~Evict(u)
  BY <1>0 DEF Crash, Evict
<1>11. ASSUME NEW u \in Users, ApiStep(u)
       PROVE  Remembered(a, b)'
  <2>1. UNCHANGED <<reactions, likes, news, todo, pc>>
    BY <1>11, ApiFrame
  <2>2. Fan(a, b) => Fan(a, b)'
    BY <1>11, UnaskedApi DEF Fan
  <2> QED
    BY <1>7, <2>1, <2>2
<1> QED
  BY <1>3, <1>4, <1>5, <1>6, <1>8, <1>9, <1>10, <1>11 DEF Next, WorkerStep, FirstCommand

LEMMA RememberingAlways == Spec => []Remembering
<1>1. Init => Remembering
  BY DEF Init, Remembering, Unanswered, Liked
<1> QED
  BY <1>1, RememberingInductive, TypeCorrect, JustifiedAlways,
     OneReactionAlways, UnaskedAlways, PTL DEF Spec

(* A like without an answer is in the set of its sender and its receiver   *)
(* has been told of it once its check is over: no check of another couple  *)
(* removes it, and a dislike of the same pair cannot have been stored.  It *)
(* is in the receiver's set too if the receiver does not ask for fans.     *)
THEOREM LikeRememberedAlways == Spec => []LikeRemembered
<1>1. ASSUME TypeOK, Remembering
      PROVE  LikeRemembered
  <2> SUFFICES ASSUME faults = 0, HasRdb, NEW a \in Users, NEW b \in Users,
                      Unanswered(a, b), ~InCheck(a, b)
               PROVE  /\ b \in likes[a]
                      /\ <<b, "new_like", <<a, b>>>> \in news
                      /\ b \notin Askers => a \in fans[b]
    BY DEF LikeRemembered, Unanswered
  <2>1. ASSUME NEW w \in Workers, NEW P
        PROVE  ~Pending(w, a, b, P)
    <3>1. ~Checking(w, a, b)
      BY DEF InCheck
    <3> QED
      BY <3>1 DEF Checking, Pending, Like
  <2>2. Remembered(a, b)
    BY <1>1 DEF Remembering
  <2> QED
    BY <2>1, <2>2 DEF Remembered, Told, Fan
<1> QED
  BY <1>1, TypeCorrect, RememberingAlways, PTL

-----------------------------------------------------------------------------
(* CoupleCleared, made inductive.  Each reaction is checked once.          *)
OneCheck ==
  \A w, v \in Workers : \A i \in DOMAIN todo[w], j \in DOMAIN todo[v] :
    todo[w][i] = todo[v][j] => w = v /\ i = j

NoWaiting(a, b) ==
  \A w \in Workers : ~Waiting(w, a, b) /\ ~Waiting(w, b, a)

Clear(a, b) ==
  /\ a \notin fans[b] /\ b \notin fans[a]
  /\ b \notin likes[a] /\ a \notin likes[b]

Done(a, b) == Liked(a, b) /\ Liked(b, a) /\ Clear(a, b) /\ NoWaiting(a, b)

InMatch(w, a, b) == pc[w] \in MatchSteps /\ HeadIs(w, a, b)
Matching(a, b) == \E w \in Workers : InMatch(w, a, b)
AtCheck(w, a, b) == pc[w] = "check" /\ HeadIs(w, a, b)

(* A like in the set of its sender is not added again; a match begins when *)
(* neither like will be, and removes one entry after the other.            *)
AddedOnce ==
  \A a, b \in Users : b \in likes[a] => \A w \in Workers : ~Waiting(w, a, b)

Removing(w, c) ==
  pc[w] \in MatchSteps =>
    /\ NoWaiting(c[1], c[2])
    /\ pc[w] # "rem_fan" => c[1] \notin fans[c[2]]
    /\ pc[w] \notin {"rem_fan", "rem_fan_back"} => c[2] \notin fans[c[1]]
    /\ pc[w] \notin {"rem_fan", "rem_fan_back", "rem_like"} =>
         c[2] \notin likes[c[1]]
    /\ pc[w] \notin {"rem_fan", "rem_fan_back", "rem_like", "rem_like_back"}
         => c[1] \notin likes[c[2]]

(* Where a stored like stands: to be added, in the set of its sender, part *)
(* of a match that runs, or cleared by one.                                *)
Stands(a, b) ==
  Liked(a, b) => \/ \E w \in Workers : Waiting(w, a, b)
                 \/ b \in likes[a]
                 \/ Matching(a, b)
                 \/ Done(a, b)
Seen(a, b) ==
  b \in likes[a] /\ a \in likes[b] =>
    Matching(a, b) \/ \E w \in Workers : AtCheck(w, a, b)

Clearing ==
  faults = 0 /\ HasRdb =>
    /\ AddedOnce
    /\ \A w \in Workers : todo[w] # <<>> => Removing(w, Pair(w))
    /\ \A a, b \in Users : a # b => Stands(a, b) /\ Seen(a, b)

(* What a step of worker w does for a and b.                               *)
Serving(w, a, b) ==
  /\ \A v \in Workers : Waiting(v, a, b)' => Waiting(v, a, b)
  /\ Waiting(w, a, b) => Waiting(w, a, b)' \/ b \in likes'[a]
  /\ a \in fans'[b] => a \in fans[b] \/ Waiting(w, a, b)
  /\ b \in likes'[a] /\ b \notin likes[a] =>
       /\ Waiting(w, a, b) /\ AtCheck(w, a, b)'
       /\ \A v \in Workers : ~Waiting(v, a, b)'
  /\ b \in likes[a] /\ b \notin likes'[a] => InMatch(w, a, b)'
  /\ InMatch(w, a, b) =>
       InMatch(w, a, b)' \/ pc[w] \in {"find", "create", "commit"}
  /\ AtCheck(w, a, b) /\ b \in likes[a] /\ a \in likes[b] =>
       InMatch(w, a, b)'

LEMMA OneCheckInductive ==
  TypeOK /\ Justified /\ OneCheck /\ [Next]_vars => OneCheck'
<1> SUFFICES ASSUME TypeOK, Justified, OneCheck, [Next]_vars
             PROVE  OneCheck'
  OBVIOUS
<1>1. ASSUME UNCHANGED todo
      PROVE  OneCheck'
  BY <1>1 DEF OneCheck
<1>2. ASSUME NEW w \in Workers, todo[w] # <<>>, Finish(w)
      PROVE  OneCheck'
  <2>1. Alone(w) /\ todo'[w] = Tail(todo[w]) /\ todo[w] \in Seq(Requests)
    BY <1>2, FinishAlone DEF TypeOK
  <2>2. \A i \in DOMAIN todo'[w] :
          i + 1 \in DOMAIN todo[w] /\ todo'[w][i] = todo[w][i + 1] /\ i \in Nat
    BY <1>2, <2>1
  <2>3. ASSUME NEW u \in Workers, NEW v \in Workers,
               NEW i \in DOMAIN todo'[u], NEW j \in DOMAIN todo'[v],
               todo'[u][i] = todo'[v][j]
        PROVE  u = v /\ i = j
    <3>1. CASE u # w /\ v # w
      BY <2>1, <2>3, <3>1 DEF Alone, OneCheck
    <3>2. CASE u = w /\ v # w
      <4>1. todo'[v] = todo[v]
        BY <2>1, <3>2 DEF Alone
      <4>2. i + 1 \in DOMAIN todo[w] /\ todo[w][i + 1] = todo[v][j]
        BY <2>2, <2>3, <3>2, <4>1
      <4> QED
        BY <2>3, <3>2, <4>1, <4>2 DEF OneCheck
    <3>3. CASE u # w /\ v = w
      <4>1. todo'[u] = todo[u]
        BY <2>1, <3>3 DEF Alone
      <4>2. j + 1 \in DOMAIN todo[w] /\ todo[u][i] = todo[w][j + 1]
        BY <2>2, <2>3, <3>3, <4>1
      <4> QED
        BY <2>3, <3>3, <4>1, <4>2 DEF OneCheck
    <3>4. CASE u = w /\ v = w
      <4>1. i + 1 = j + 1
        BY <2>2, <2>3, <3>4 DEF OneCheck
      <4> QED
        BY <2>2, <3>4, <4>1
    <3> QED
      BY <3>1, <3>2, <3>3, <3>4
  <2> QED
    BY <2>3 DEF OneCheck
<1>3. ASSUME NEW w \in Workers, Process(w)
      PROVE  OneCheck'
  <2>1. /\ Alone(w) /\ todo'[w] = batch[w] /\ Insertable(batch[w])
    BY <1>3 DEF Process, TypeOK, Alone
  <2>2. \A v \in Workers : \A j \in DOMAIN todo[v] : todo[v][j] \in reactions
    BY DEF Justified, TodoStored
  <2>3. ASSUME NEW u \in Workers, NEW v \in Workers,
               NEW i \in DOMAIN todo'[u], NEW j \in DOMAIN todo'[v],
               todo'[u][i] = todo'[v][j]
        PROVE  u = v /\ i = j
    <3>1. CASE u # w /\ v # w
      BY <2>1, <2>3, <3>1 DEF Alone, OneCheck
    <3>2. CASE u = w /\ v # w
      BY <2>1, <2>2, <2>3, <3>2 DEF Alone, Insertable, SamePair
    <3>3. CASE u # w /\ v = w
      BY <2>1, <2>2, <2>3, <3>3 DEF Alone, Insertable, SamePair
    <3>4. CASE u = w /\ v = w
      BY <2>1, <2>3, <3>4 DEF Insertable, SamePair
    <3> QED
      BY <3>1, <3>2, <3>3, <3>4
  <2> QED
    BY <2>3 DEF OneCheck
<1>4. ASSUME Restarted
      PROVE  OneCheck'
  BY <1>4 DEF Restarted, OneCheck
<1>5. ASSUME NEW w \in Workers, NEW r \in Requests, CheckMatch(w, r)
      PROVE  OneCheck'
  <2>1. todo[w] # <<>> /\ (Finish(w) \/ UNCHANGED todo)
    BY <1>5 DEF CheckMatch, AddFan, AddLike, Check, TellLike, RemFan,
                RemFanBack, RemLike, RemLikeBack, Find, CreateChat, ListFrom,
                ListTo, TellMatch, Commit, Goto, At
  <2> QED
    BY <1>1, <1>2, <2>1
<1>6. ASSUME NEW w \in Workers, Begin(w) \/ ProcessEnd(w)
      PROVE  OneCheck'
  BY <1>1, <1>6 DEF Begin, ProcessEnd, Goto
<1>7. ASSUME NEW w \in Workers, Dislike(w) \/ OtherAction(w)
      PROVE  OneCheck'
  BY <1>2, <1>7 DEF Dislike, OtherAction
<1>8. ASSUME NEW w \in Workers, NEW r \in Requests, Take(w, r)
      PROVE  OneCheck'
  BY <1>1, <1>8 DEF Take
<1>9. ASSUME NEW w \in Workers, Panic(w)
      PROVE  OneCheck'
  BY <1>4, <1>9 DEF Panic
<1>10. CASE Crash
  BY <1>4, <1>10 DEF Crash
<1>11. ASSUME NEW u \in Users, Evict(u)
       PROVE  OneCheck'
  BY <1>1, <1>11 DEF Evict, local
<1>12. CASE UNCHANGED vars
  BY <1>1, <1>12 DEF vars, local
<1>13. ASSUME NEW u \in Users, ApiStep(u)
       PROVE  OneCheck'
  BY <1>1, <1>13, ApiFrame
<1> QED
  BY <1>3, <1>5, <1>6, <1>7, <1>8, <1>9, <1>10, <1>11, <1>12, <1>13
     DEF Next, WorkerStep, FirstCommand

LEMMA OneCheckAlways == Spec => []OneCheck
<1>1. Init => OneCheck
  BY DEF Init, OneCheck
<1> QED
  BY <1>1, OneCheckInductive, TypeCorrect, JustifiedAlways, PTL DEF Spec

(* No step but Process makes a like wait.                                  *)
LEMMA GotoNoWaiting ==
  ASSUME TypeOK, NEW w \in Workers, NEW p, Goto(w, p), NEW a, NEW b,
         p \in {"next", "add_fan", "add_like"} =>
           pc[w] \in {"next", "add_fan", "add_like"}
  PROVE  \A v \in Workers : Waiting(v, a, b)' => Waiting(v, a, b)
<1>1. Alone(w) /\ pc'[w] = p /\ todo'[w] = todo[w]
  BY GotoAlone
<1> QED
  BY <1>1 DEF Waiting, Alone

LEMMA FinishNoWaiting ==
  ASSUME TypeOK, NEW w \in Workers, Finish(w), todo[w] # <<>>, NEW a, NEW b
  PROVE  \A v \in Workers : Waiting(v, a, b)' => Waiting(v, a, b)
<1>1. Alone(w) /\ todo'[w] = Tail(todo[w]) /\ todo[w] \in Seq(Requests)
  BY FinishAlone DEF TypeOK
<1>2. \A i \in DOMAIN todo'[w] :
        i + 1 \in DOMAIN todo[w] /\ todo'[w][i] = todo[w][i + 1] /\ i + 1 > 1
  BY <1>1
<1>3. Waiting(w, a, b)' => Waiting(w, a, b)
  BY <1>2 DEF Waiting
<1> QED
  BY <1>1, <1>3 DEF Waiting, Alone

LEMMA WaitingPending ==
  ASSUME NEW w, NEW a, NEW b
  PROVE  /\ Waiting(w, a, b) <=> Pending(w, a, b, ToAddLike)
         /\ Waiting(w, a, b)' <=> Pending(w, a, b, ToAddLike)'
  BY DEF Waiting, Pending, ToAddLike

(* A step from early to early, or from late to late, between two commands. *)
LEMMA GotoServing ==
  ASSUME TypeOK, NEW w \in Workers, NEW p, Goto(w, p),
         NEW a \in Users, NEW b \in Users,
         p \in ToAddLike <=> pc[w] \in ToAddLike
  PROVE  /\ \A v \in Workers : Waiting(v, a, b)' => Waiting(v, a, b)
         /\ Waiting(w, a, b) => Waiting(w, a, b)'
         /\ HeadIs(w, a, b)' <=> HeadIs(w, a, b)
         /\ pc'[w] = p /\ Alone(w)
<1>1. Alone(w) /\ pc'[w] = p /\ todo'[w] = todo[w]
  BY GotoAlone
<1> QED
  BY <1>1, GotoNoWaiting, GotoPending, WaitingPending DEF HeadIs, ToAddLike

LEMMA CheckMatchServing ==
  ASSUME TypeOK, Justified, OneCheck, ~Fault,
         NEW w \in Workers, NEW r \in Requests, CheckMatch(w, r),
         NEW a \in Users, NEW b \in Users
  PROVE  Alone(w) /\ Serving(w, a, b)
<1>t. r.from \in Users /\ r.to \in Users
  BY RequestType
<1>s. /\ fans \in [Users -> SUBSET Users]
      /\ likes \in [Users -> SUBSET Users]
  BY DEF TypeOK
<1>p. ASSUME NEW p \in LikeSteps, At(w, p, r)
      PROVE  /\ todo[w] # <<>> /\ Head(todo[w]) = r /\ pc[w] = p
             /\ r = Like(r.from, r.to)
             /\ r = Like(a, b) <=> r.from = a /\ r.to = b
             /\ HeadIs(w, a, b) <=> \/ a = r.from /\ b = r.to
                                    \/ a = r.to /\ b = r.from
  <2>1. /\ todo[w] # <<>> /\ Head(todo[w]) = r /\ pc[w] = p
        /\ r = Like(r.from, r.to)
    BY <1>p, Current DEF At
  <2>2. r = Like(a, b) <=> r.from = a /\ r.to = b
    BY <2>1 DEF Like
  <2> QED
    BY <2>1, <2>2, HeadPair
<1>h. ASSUME NEW p \in LikeSteps, At(w, p, r), r.from = a, r.to = b
      PROVE  1 \in DOMAIN todo[w] /\ todo[w][1] = Like(a, b)
  BY <1>h, <1>p DEF TypeOK
<1>1. CASE AddFan(w, r)
  <2>1. At(w, "add_fan", r) /\ Goto(w, "add_like") /\ likes' = likes
        /\ fans' = FanAdded(r.to, r.from) /\ "add_fan" \in LikeSteps
    BY <1>1 DEF AddFan, Redis, LikeSteps
  <2>2. pc[w] = "add_fan"
    BY <2>1 DEF At
  <2>3. a \in fans'[b] => a \in fans[b] \/ (r.from = a /\ r.to = b)
    BY <2>1, <1>t, <1>s DEF FanAdded, Plus
  <2>4. r.from = a /\ r.to = b => Waiting(w, a, b)
    BY <1>h, <2>1, <2>2 DEF Waiting
  <2>5. ~InMatch(w, a, b) /\ ~AtCheck(w, a, b)
    BY <2>2 DEF InMatch, AtCheck, MatchSteps
  <2> QED
    BY <2>1, <2>2, <2>3, <2>4, <2>5, GotoServing DEF Serving, ToAddLike
<1>2. CASE AddLike(w, r)
  <2>1. At(w, "add_like", r) /\ Goto(w, "check") /\ fans' = fans
        /\ likes' = Plus(likes, r.from, r.to) /\ "add_like" \in LikeSteps
    BY <1>2 DEF AddLike, Redis, LikeSteps
  <2>2. /\ todo[w] # <<>> /\ Head(todo[w]) = r /\ pc[w] = "add_like"
        /\ r = Like(a, b) <=> r.from = a /\ r.to = b
        /\ HeadIs(w, a, b) <=> \/ a = r.from /\ b = r.to
                               \/ a = r.to /\ b = r.from
    BY <1>p, <2>1
  <2>3. /\ b \in likes'[a] /\ b \notin likes[a] => r.from = a /\ r.to = b
        /\ r.from = a /\ r.to = b => b \in likes'[a]
        /\ b \in likes[a] => b \in likes'[a]
    BY <2>1, <1>t, <1>s DEF Plus
  <2>4. /\ Alone(w) /\ pc'[w] = "check" /\ todo'[w] = todo[w]
        /\ HeadIs(w, a, b)' <=> HeadIs(w, a, b)
    BY <2>1, GotoAlone DEF HeadIs
  <2>5. \A v \in Workers : Waiting(v, a, b)' => Waiting(v, a, b)
    BY <2>1, GotoNoWaiting
  <2>6. Waiting(w, a, b) => Waiting(w, a, b)' \/ b \in likes'[a]
    <3>1. CASE r.from = a /\ r.to = b
      BY <2>3, <3>1
    <3>2. CASE ~(r.from = a /\ r.to = b)
      <4>1. Head(todo[w]) # Like(a, b)
        BY <2>2, <3>2
      <4> QED
        BY <2>1, <4>1, GotoPending, WaitingPending
    <3> QED
      BY <3>1, <3>2
  <2>7. ASSUME r.from = a, r.to = b
        PROVE  /\ Waiting(w, a, b) /\ AtCheck(w, a, b)'
               /\ \A v \in Workers : ~Waiting(v, a, b)'
    <3>1. 1 \in DOMAIN todo[w] /\ todo[w][1] = Like(a, b)
      BY <1>h, <2>1, <2>7
    <3>2. Waiting(w, a, b)
      BY <2>2, <3>1 DEF Waiting
    <3>3. AtCheck(w, a, b)'
      BY <2>2, <2>4, <2>7 DEF AtCheck
    <3>4. ASSUME NEW v \in Workers, Waiting(v, a, b)'
          PROVE  FALSE
      <4>1. todo'[v] = todo[v]
        BY <2>4 DEF Alone
      <4>2. PICK i \in DOMAIN todo[v] :
              /\ todo[v][i] = Like(a, b)
              /\ i > 1 \/ pc'[v] \in {"next", "add_fan", "add_like"}
        BY <3>4, <4>1 DEF Waiting
      <4>3. v = w /\ i = 1
        BY <3>1, <4>2 DEF OneCheck
      <4> QED
        BY <2>4, <4>2, <4>3
    <3> QED
      BY <3>2, <3>3, <3>4
  <2>8. ~InMatch(w, a, b) /\ ~AtCheck(w, a, b)
    BY <2>2 DEF InMatch, AtCheck, MatchSteps
  <2>9. a \in fans'[b] => a \in fans[b]
    BY <2>1
  <2> QED
    BY <2>3, <2>4, <2>5, <2>6, <2>7, <2>8, <2>9 DEF Serving
<1>3. CASE Check(w, r)
  <2>1. At(w, "check", r) /\ fans' = fans /\ likes' = likes
        /\ "check" \in LikeSteps
    BY <1>3 DEF Check, redis, LikeSteps
  <2>2. /\ pc[w] = "check"
        /\ HeadIs(w, a, b) <=> \/ a = r.from /\ b = r.to
                               \/ a = r.to /\ b = r.from
    BY <1>p, <2>1
  <2>3. PICK p \in {"rem_fan", "tell_like"} :
          Goto(w, p) /\ (p = "tell_like" => r.from \notin likes[r.to])
    BY <1>3 DEF Check
  <2>4. /\ \A v \in Workers : Waiting(v, a, b)' => Waiting(v, a, b)
        /\ Waiting(w, a, b) => Waiting(w, a, b)'
        /\ HeadIs(w, a, b)' <=> HeadIs(w, a, b)
        /\ pc'[w] = p /\ Alone(w)
    BY <2>2, <2>3, GotoServing DEF ToAddLike
  <2>5. AtCheck(w, a, b) /\ b \in likes[a] /\ a \in likes[b]
          => InMatch(w, a, b)'
    BY <2>2, <2>3, <2>4 DEF AtCheck, InMatch, MatchSteps
  <2>6. ~InMatch(w, a, b)
    BY <2>2 DEF InMatch, MatchSteps
  <2> QED
    BY <2>1, <2>4, <2>5, <2>6 DEF Serving
<1>4. ASSUME NEW p \in {"tell_like", "find", "create", "commit"},
             At(w, p, r), Finish(w), fans' = fans, likes' = likes
      PROVE  Alone(w) /\ Serving(w, a, b)
  <2>1. pc[w] = p /\ todo[w] # <<>>
    BY <1>4 DEF At
  <2>2. \A v \in Workers : Waiting(v, a, b)' => Waiting(v, a, b)
    BY <1>4, <2>1, FinishNoWaiting
  <2>3. Waiting(w, a, b) => Waiting(w, a, b)'
    <3>1. pc[w] \notin ToAddLike /\ "next" \in ToAddLike
      BY <2>1 DEF ToAddLike
    <3> QED
      BY <1>4, <2>1, <3>1, FinishPending, WaitingPending
  <2>4. /\ InMatch(w, a, b) => pc[w] \in {"find", "create", "commit"}
        /\ ~AtCheck(w, a, b)
    BY <2>1 DEF InMatch, AtCheck, MatchSteps
  <2> QED
    BY <1>4, <2>2, <2>3, <2>4, FinishAlone DEF Serving
<1>5. CASE TellLike(w, r)
  <2>1. At(w, "tell_like", r) /\ Finish(w) /\ fans' = fans /\ likes' = likes
    BY <1>5 DEF TellLike, redis
  <2> QED
    BY <1>4, <2>1
<1>6. ASSUME NEW p \in MatchSteps, NEW q \in MatchSteps, At(w, p, r),
             Goto(w, q), a \in fans'[b] => a \in fans[b],
             b \in likes'[a] => b \in likes[a],
             b \in likes[a] /\ b \notin likes'[a] => HeadIs(w, a, b)
      PROVE  Alone(w) /\ Serving(w, a, b)
  <2>1. pc[w] = p
    BY <1>6 DEF At
  <2>2. /\ pc[w] \notin ToAddLike /\ q \notin ToAddLike
        /\ ~AtCheck(w, a, b)
    BY <1>6, <2>1 DEF MatchSteps, ToAddLike, AtCheck
  <2>3. /\ \A v \in Workers : Waiting(v, a, b)' => Waiting(v, a, b)
        /\ Waiting(w, a, b) => Waiting(w, a, b)'
        /\ HeadIs(w, a, b)' <=> HeadIs(w, a, b)
        /\ pc'[w] = q /\ Alone(w)
    BY <1>6, <2>2, GotoServing
  <2> QED
    BY <1>6, <2>1, <2>2, <2>3 DEF Serving, InMatch
<1>7. CASE RemFan(w, r) \/ RemFanBack(w, r) \/ RemLike(w, r)
             \/ RemLikeBack(w, r)
  <2>1. PICK p \in {"rem_fan", "rem_fan_back", "rem_like", "rem_like_back"},
             q \in {"rem_fan_back", "rem_like", "rem_like_back", "find"} :
             At(w, p, r) /\ Goto(w, q)
    BY <1>7 DEF RemFan, RemFanBack, RemLike, RemLikeBack
  <2>2. p \in MatchSteps /\ q \in MatchSteps /\ p \in LikeSteps
    BY DEF MatchSteps, LikeSteps
  <2>3. \/ fans' = Minus(fans, r.to, r.from) /\ likes' = likes
        \/ fans' = Minus(fans, r.from, r.to) /\ likes' = likes
        \/ fans' = fans /\ likes' = Minus(likes, r.from, r.to)
        \/ fans' = fans /\ likes' = Minus(likes, r.to, r.from)
    BY <1>7 DEF RemFan, RemFanBack, RemLike, RemLikeBack, Redis
  <2>4. /\ a \in fans'[b] => a \in fans[b]
        /\ b \in likes'[a] => b \in likes[a]
    BY <1>t, <1>s, <2>3 DEF Minus
  <2>5. b \in likes[a] /\ b \notin likes'[a] =>
          \/ a = r.from /\ b = r.to
          \/ a = r.to /\ b = r.from
    BY <1>t, <1>s, <2>3 DEF Minus
  <2>6. b \in likes[a] /\ b \notin likes'[a] => HeadIs(w, a, b)
    BY <1>p, <2>1, <2>2, <2>5
  <2> QED
    BY <1>6, <2>1, <2>2, <2>4, <2>6
<1>8. CASE ListFrom(w, r) \/ ListTo(w, r)
             \/ TellMatch(w, r, "tell_from", r.from, "tell_to")
             \/ TellMatch(w, r, "tell_to", r.to, "commit")
  <2>1. PICK p \in {"list_from", "list_to", "tell_from", "tell_to"},
             q \in {"list_to", "tell_from", "tell_to", "commit"} :
             At(w, p, r) /\ Goto(w, q)
    BY <1>8 DEF ListFrom, ListTo, TellMatch
  <2>2. p \in MatchSteps /\ q \in MatchSteps
    BY DEF MatchSteps
  <2>3. fans' = fans /\ likes' = likes
    BY <1>8 DEF ListFrom, ListTo, TellMatch, Redis, redis
  <2> QED
    BY <1>6, <2>1, <2>2, <2>3
<1>9. CASE Find(w, r) \/ CreateChat(w, r) \/ Commit(w, r)
  <2>1. PICK p \in {"find", "create", "commit"} : At(w, p, r)
    BY <1>9 DEF Find, CreateChat, Commit
  <2>2. p \in MatchSteps
    BY DEF MatchSteps
  <2>3. fans' = fans /\ likes' = likes
    BY <1>9 DEF Find, CreateChat, Commit, redis
  <2>4. Finish(w) \/ \E q \in {"create", "list_from"} : Goto(w, q)
    BY <1>9 DEF Find, CreateChat, Commit
  <2>5. "create" \in MatchSteps /\ "list_from" \in MatchSteps
    BY DEF MatchSteps
  <2> QED
    BY <1>4, <1>6, <2>1, <2>2, <2>3, <2>4, <2>5
<1> QED
  BY <1>1, <1>2, <1>3, <1>5, <1>7, <1>8, <1>9 DEF CheckMatch

(* The commands of a match remove the entries of the couple in turn.       *)
LEMMA CheckMatchRemoving ==
  ASSUME TypeOK, Justified, OneCheck, AddedOnce, ~Fault,
         NEW w \in Workers, NEW r \in Requests, CheckMatch(w, r),
         Removing(w, Pair(w))
  PROVE  todo'[w] # <<>> => Removing(w, Pair(w))'
<1>t. r.from \in Users /\ r.to \in Users
  BY RequestType
<1>1. ASSUME pc'[w] \notin MatchSteps
      PROVE  Removing(w, Pair(w))'
  BY <1>1 DEF Removing
<1>2. CASE AddFan(w, r) \/ AddLike(w, r) \/ TellLike(w, r)
  <2>1. Finish(w) \/ Goto(w, "add_like") \/ Goto(w, "check")
    BY <1>2 DEF AddFan, AddLike, TellLike
  <2>2. pc'[w] \in {"next", "add_like", "check"}
    BY <2>1, FinishAlone, GotoAlone
  <2> QED
    BY <1>1, <2>2 DEF MatchSteps
<1>3. CASE Check(w, r)
  <2>1. PICK p \in {"rem_fan", "tell_like"} :
          Goto(w, p) /\ (p = "rem_fan" => r.from \in likes[r.to])
    BY <1>3 DEF Check
  <2>2. /\ todo[w] # <<>> /\ Head(todo[w]) = r /\ pc[w] = "check"
        /\ r = Like(r.from, r.to)
    BY <1>3, Current DEF Check, At, LikeSteps
  <2>3. pc'[w] = p /\ Pair(w)' = <<r.from, r.to>>
    BY <2>1, <2>2, GotoAlone DEF Pair
  <2>4. CASE p = "tell_like"
    BY <1>1, <2>3, <2>4 DEF MatchSteps
  <2>5. CASE p = "rem_fan"
    <3>1. \A v \in Workers : ~Waiting(v, r.to, r.from)
      BY <1>t, <2>1, <2>5 DEF AddedOnce
    <3>2. ASSUME NEW v \in Workers, Waiting(v, r.from, r.to)
          PROVE  FALSE
      <4>1. PICK i \in DOMAIN todo[v] :
              /\ todo[v][i] = Like(r.from, r.to)
              /\ i > 1 \/ pc[v] \in {"next", "add_fan", "add_like"}
        BY <3>2 DEF Waiting
      <4>2. 1 \in DOMAIN todo[w] /\ todo[w][1] = r
        BY <2>2 DEF TypeOK
      <4>3. v = w /\ i = 1
        BY <2>2, <4>1, <4>2 DEF OneCheck
      <4> QED
        BY <2>2, <4>1, <4>3
    <3>3. ASSUME NEW v \in Workers
          PROVE  ~Waiting(v, r.from, r.to)' /\ ~Waiting(v, r.to, r.from)'
      BY <2>1, <2>2, <2>5, <3>1, <3>2, GotoNoWaiting
    <3>4. NoWaiting(r.from, r.to)'
      BY <3>3 DEF NoWaiting
    <3> QED
      BY <2>3, <2>5, <3>4 DEF Removing
  <2> QED
    BY <2>4, <2>5
<1>4. ASSUME NEW p \in MatchSteps, NEW q, At(w, p, r), Goto(w, q)
      PROVE  /\ pc[w] = p /\ Pair(w) = <<r.from, r.to>>
             /\ pc'[w] = q /\ Pair(w)' = <<r.from, r.to>>
             /\ NoWaiting(r.from, r.to)'
  <2>1. pc[w] = p /\ Pair(w) = <<r.from, r.to>>
    BY <1>4 DEF At, Pair
  <2>2. NoWaiting(r.from, r.to)
    BY <2>1 DEF Removing
  <2>3. ASSUME NEW v \in Workers
        PROVE  ~Waiting(v, r.from, r.to)' /\ ~Waiting(v, r.to, r.from)'
    <3>1. /\ Waiting(v, r.from, r.to)' => Waiting(v, r.from, r.to)
          /\ Waiting(v, r.to, r.from)' => Waiting(v, r.to, r.from)
      BY <1>t, CheckMatchServing DEF Serving
    <3> QED
      BY <2>2, <3>1 DEF NoWaiting
  <2>4. NoWaiting(r.from, r.to)'
    BY <2>3 DEF NoWaiting
  <2> QED
    BY <1>4, <2>1, <2>4, GotoAlone
<1>5. CASE RemFan(w, r)
  <2>1. /\ At(w, "rem_fan", r) /\ Goto(w, "rem_fan_back")
        /\ fans' = Minus(fans, r.to, r.from) /\ "rem_fan" \in MatchSteps
    BY <1>5 DEF RemFan, Redis, MatchSteps
  <2>2. r.from \notin fans'[r.to]
    BY <1>t, <2>1 DEF Minus, TypeOK
  <2> QED
    BY <1>4, <2>1, <2>2 DEF Removing
<1>6. CASE RemFanBack(w, r)
  <2>1. /\ At(w, "rem_fan_back", r) /\ Goto(w, "rem_like")
        /\ fans' = Minus(fans, r.from, r.to) /\ "rem_fan_back" \in MatchSteps
    BY <1>6 DEF RemFanBack, Redis, MatchSteps
  <2>2. r.from \notin fans[r.to]
    BY <1>4, <2>1 DEF Removing
  <2>3. r.from \notin fans'[r.to] /\ r.to \notin fans'[r.from]
    BY <1>t, <2>1, <2>2 DEF Minus, TypeOK
  <2> QED
    BY <1>4, <2>1, <2>3 DEF Removing
<1>7. CASE RemLike(w, r)
  <2>1. /\ At(w, "rem_like", r) /\ Goto(w, "rem_like_back")
        /\ fans' = fans /\ likes' = Minus(likes, r.from, r.to)
        /\ "rem_like" \in MatchSteps
    BY <1>7 DEF RemLike, Redis, MatchSteps
  <2>2. r.from \notin fans[r.to] /\ r.to \notin fans[r.from]
    BY <1>4, <2>1 DEF Removing
  <2>3. r.to \notin likes'[r.from]
    BY <1>t, <2>1 DEF Minus, TypeOK
  <2> QED
    BY <1>4, <2>1, <2>2, <2>3 DEF Removing
<1>8. CASE RemLikeBack(w, r)
  <2>1. /\ At(w, "rem_like_back", r) /\ Goto(w, "find")
        /\ fans' = fans /\ likes' = Minus(likes, r.to, r.from)
        /\ "rem_like_back" \in MatchSteps
    BY <1>8 DEF RemLikeBack, Redis, MatchSteps
  <2>2. /\ r.from \notin fans[r.to] /\ r.to \notin fans[r.from]
        /\ r.to \notin likes[r.from]
    BY <1>4, <2>1 DEF Removing
  <2>3. r.to \notin likes'[r.from] /\ r.from \notin likes'[r.to]
    BY <1>t, <2>1, <2>2 DEF Minus, TypeOK
  <2> QED
    BY <1>4, <2>1, <2>2, <2>3 DEF Removing
<1>9. ASSUME NEW p \in MatchSteps, NEW q, At(w, p, r), Goto(w, q),
             p \notin {"rem_fan", "rem_fan_back", "rem_like", "rem_like_back"},
             fans' = fans, likes' = likes
      PROVE  Removing(w, Pair(w))'
  <2>1. /\ r.from \notin fans[r.to] /\ r.to \notin fans[r.from]
        /\ r.to \notin likes[r.from] /\ r.from \notin likes[r.to]
    BY <1>4, <1>9 DEF Removing
  <2> QED
    BY <1>4, <1>9, <2>1 DEF Removing
<1>10. CASE ListFrom(w, r) \/ ListTo(w, r)
             \/ TellMatch(w, r, "tell_from", r.from, "tell_to")
             \/ TellMatch(w, r, "tell_to", r.to, "commit")
             \/ Find(w, r) \/ CreateChat(w, r) \/ Commit(w, r)
  <2>1. fans' = fans /\ likes' = likes
    BY <1>10 DEF ListFrom, ListTo, TellMatch, Find, CreateChat, Commit,
                 Redis, redis
  <2>2. PICK p \in {"find", "create", "list_from", "list_to", "tell_from",
                    "tell_to", "commit"} : At(w, p, r)
    BY <1>10 DEF ListFrom, ListTo, TellMatch, Find, CreateChat, Commit
  <2>3. Finish(w) \/ \E q \in Steps : Goto(w, q)
    BY <1>10 DEF ListFrom, ListTo, TellMatch, Find, CreateChat, Commit, Steps
  <2>4. p \in MatchSteps
    BY DEF MatchSteps
  <2>5. CASE Finish(w)
    BY <1>1, <2>5, FinishAlone DEF MatchSteps
  <2>6. CASE \E q \in Steps : Goto(w, q)
    BY <1>9, <2>1, <2>2, <2>4, <2>6
  <2> QED
    BY <2>3, <2>5, <2>6
<1> QED
  BY <1>2, <1>3, <1>5, <1>6, <1>7, <1>8, <1>10 DEF CheckMatch

(* What is done between two users nobody adds to any more.                 *)
LEMMA ClearStays ==
  ASSUME NEW w \in Workers, NEW a \in Users, NEW b \in Users,
         Serving(w, a, b), Serving(w, b, a), NoWaiting(a, b)
  PROVE  /\ NoWaiting(a, b)'
         /\ a \notin fans[b] => a \notin fans'[b]
         /\ b \notin fans[a] => b \notin fans'[a]
         /\ b \notin likes[a] => b \notin likes'[a]
         /\ a \notin likes[b] => a \notin likes'[b]
<1>1. ASSUME NEW v \in Workers
      PROVE  ~Waiting(v, a, b)' /\ ~Waiting(v, b, a)'
  BY DEF Serving, NoWaiting
<1>2. NoWaiting(a, b)'
  BY <1>1 DEF NoWaiting
<1> QED
  BY <1>2 DEF Serving, NoWaiting

LEMMA Others ==
  ASSUME NEW w \in Workers, Alone(w), NEW v \in Workers, v # w
  PROVE  /\ pc'[v] = pc[v] /\ todo'[v] = todo[v] /\ Pair(v)' = Pair(v)
         /\ \A a, b \in Users : /\ InMatch(v, a, b)' <=> InMatch(v, a, b)
                                /\ AtCheck(v, a, b)' <=> AtCheck(v, a, b)
                                /\ Waiting(v, a, b) => Waiting(v, a, b)'
<1>1. pc'[v] = pc[v] /\ todo'[v] = todo[v]
  BY DEF Alone
<1> QED
  BY <1>1 DEF Pair, InMatch, AtCheck, Waiting, HeadIs

LEMMA ClearingStep ==
  ASSUME TypeOK, Justified, AddedOnce, UNCHANGED reactions,
         \A v \in Workers : todo[v] # <<>> => Removing(v, Pair(v)),
         \A a, b \in Users : a # b => Stands(a, b) /\ Seen(a, b),
         NEW w \in Workers, Alone(w),
         \A a, b \in Users : Serving(w, a, b),
         todo'[w] # <<>> => Removing(w, Pair(w))'
  PROVE  Clearing'
<1>1. AddedOnce'
  <2> SUFFICES ASSUME NEW a \in Users, NEW b \in Users, b \in likes'[a],
                      NEW v \in Workers
               PROVE  ~Waiting(v, a, b)'
    BY DEF AddedOnce
  <2> QED
    BY DEF AddedOnce, Serving
<1>2. ASSUME NEW v \in Workers, todo'[v] # <<>>
      PROVE  Removing(v, Pair(v))'
  <2>1. CASE v = w
    BY <1>2, <2>1
  <2>2. CASE v # w
    <3>1. pc'[v] = pc[v] /\ todo'[v] = todo[v] /\ Pair(v)' = Pair(v)
      BY <2>2, Others
    <3>2. Pair(v)[1] \in Users /\ Pair(v)[2] \in Users /\ Removing(v, Pair(v))
      <4>1. Head(todo[v]) \in Requests
        BY <1>2, <3>1 DEF TypeOK
      <4> QED
        BY <1>2, <3>1, <4>1, RequestType DEF Pair
    <3>3. PICK a \in Users, b \in Users : a = Pair(v)[1] /\ b = Pair(v)[2]
      BY <3>2
    <3>4. NoWaiting(a, b) =>
            /\ NoWaiting(a, b)'
            /\ a \notin fans[b] => a \notin fans'[b]
            /\ b \notin fans[a] => b \notin fans'[a]
            /\ b \notin likes[a] => b \notin likes'[a]
            /\ a \notin likes[b] => a \notin likes'[b]
      BY ClearStays
    <3>5. a = Pair(v)[1]' /\ b = Pair(v)[2]'
      BY <3>1, <3>3
    <3> QED
      BY <3>1, <3>2, <3>3, <3>4, <3>5 DEF Removing
  <2> QED
    BY <2>1, <2>2
<1>3. ASSUME NEW a \in Users, NEW b \in Users
      PROVE  Done(a, b) => Done(a, b)'
  BY ClearStays DEF Done, Clear, Liked
(* A match that is over leaves its couple cleared. *)
<1>4. ASSUME NEW a \in Users, NEW b \in Users, Matching(a, b)
      PROVE  Matching(a, b)' \/ Done(a, b)'
  <2>1. PICK v \in Workers : InMatch(v, a, b)
    BY <1>4 DEF Matching
  <2>2. CASE v # w
    BY <2>1, <2>2, Others DEF Matching
  <2>3. CASE v = w /\ InMatch(w, a, b)'
    BY <2>3 DEF Matching
  <2>4. CASE v = w /\ ~InMatch(w, a, b)'
    <3>1. pc[w] \in {"find", "create", "commit"}
      BY <2>1, <2>4 DEF Serving
    <3>2. /\ todo[w] # <<>> /\ Removing(w, Pair(w)) /\ TodoStored(w)
          /\ Head(todo[w]) \in {Like(a, b), Like(b, a)}
      BY <2>1, <2>4 DEF InMatch, HeadIs, Justified
    <3>3. Pair(w) = <<a, b>> \/ Pair(w) = <<b, a>>
      BY <3>2 DEF Pair, Like
    <3>4. Clear(a, b) /\ NoWaiting(a, b)
      BY <3>1, <3>2, <3>3 DEF Removing, Clear, NoWaiting, MatchSteps
    <3>5. Liked(a, b) /\ Liked(b, a)
      <4>1. Head(todo[w]) = todo[w][1] /\ 1 \in DOMAIN todo[w]
        BY <3>2 DEF TypeOK
      <4>2. Head(todo[w]) \in reactions
        BY <3>2, <4>1 DEF TodoStored
      <4>3. Liked(Head(todo[w]).to, Head(todo[w]).from)
        BY <2>1, <2>4, <3>2 DEF TodoStored, InMatch
      <4> QED
        BY <3>2, <4>2, <4>3 DEF Liked, Like
    <3> QED
      BY <1>3, <3>4, <3>5 DEF Done
  <2> QED
    BY <2>2, <2>3, <2>4
<1>5. ASSUME NEW a \in Users, NEW b \in Users, a # b
      PROVE  (Stands(a, b) /\ Seen(a, b))'
  <2>1. Stands(a, b) /\ Seen(a, b)
    BY <1>5
  <2>2. Stands(a, b)'
    <3> SUFFICES ASSUME Liked(a, b)
                 PROVE  (\/ \E v \in Workers : Waiting(v, a, b)
                         \/ b \in likes[a]
                         \/ Matching(a, b)
                         \/ Done(a, b))'
      BY DEF Stands, Liked
    <3>1. ASSUME NEW v \in Workers, Waiting(v, a, b)
          PROVE  (\E u \in Workers : Waiting(u, a, b))' \/ b \in likes'[a]
      <4>1. CASE v = w
        BY <3>1, <4>1 DEF Serving
      <4>2. CASE v # w
        BY <3>1, <4>2, Others
      <4> QED
        BY <4>1, <4>2
    <3>2. b \in likes[a] => b \in likes'[a] \/ Matching(a, b)'
      BY DEF Serving, Matching
    <3> QED
      BY <1>3, <1>4, <2>1, <3>1, <3>2 DEF Stands
  <2>3. Seen(a, b)'
    <3> SUFFICES ASSUME b \in likes'[a], a \in likes'[b]
                 PROVE  (\/ Matching(a, b)
                         \/ \E v \in Workers : AtCheck(v, a, b))'
      BY DEF Seen
    <3>1. CASE b \notin likes[a]
      BY <3>1 DEF Serving
    <3>2. CASE a \notin likes[b]
      BY <3>2 DEF Serving, AtCheck, HeadIs
    <3>3. ASSUME b \in likes[a], a \in likes[b]
          PROVE  (Matching(a, b) \/ \E v \in Workers : AtCheck(v, a, b))'
      <4>1. ~Done(a, b)'
        BY DEF Done, Clear
      <4>2. ASSUME NEW v \in Workers, AtCheck(v, a, b)
            PROVE  (Matching(a, b) \/ \E u \in Workers : AtCheck(u, a, b))'
        <5>1. CASE v = w
          BY <3>3, <4>2, <5>1 DEF Serving, Matching
        <5>2. CASE v # w
          BY <4>2, <5>2, Others
        <5> QED
          BY <5>1, <5>2
      <4> QED
        BY <1>4, <2>1, <3>3, <4>1, <4>2 DEF Seen
    <3> QED
      BY <3>1, <3>2, <3>3
  <2> QED
    BY <2>2, <2>3
<1> QED
  BY <1>1, <1>2, <1>5 DEF Clearing

LEMMA ClearingInductive ==
  TypeOK /\ Justified /\ OneCheck /\ Clearing /\ [Next]_vars => Clearing'
<1> SUFFICES ASSUME TypeOK, Justified, OneCheck, Clearing, [Next]_vars,
                    faults' = 0, HasRdb'
             PROVE  Clearing'
  BY DEF Clearing
<1>0. faults = 0 /\ HasRdb /\ ~Fault
  <2>1. ~Fault
    BY DEF TypeOK, Fault
  <2> QED
    BY <2>1, CalmStep
<1>1. /\ AddedOnce
      /\ \A w \in Workers : todo[w] # <<>> => Removing(w, Pair(w))
      /\ \A a, b \in Users : a # b => Stands(a, b) /\ Seen(a, b)
  BY <1>0 DEF Clearing
<1>2. ASSUME NEW w \in Workers, NEW r \in Requests, CheckMatch(w, r)
      PROVE  Clearing'
  <2>1. UNCHANGED reactions
    BY <1>2 DEF CheckMatch, AddFan, AddLike, Check, TellLike, RemFan,
                RemFanBack, RemLike, RemLikeBack, Find, CreateChat, ListFrom,
                ListTo, TellMatch, Commit
  <2>2. \A a, b \in Users : Alone(w) /\ Serving(w, a, b)
    BY <1>0, <1>2, CheckMatchServing
  <2>3. todo[w] # <<>>
    BY <1>2 DEF CheckMatch, AddFan, AddLike, Check, TellLike, RemFan,
                RemFanBack, RemLike, RemLikeBack, Find, CreateChat, ListFrom,
                ListTo, TellMatch, Commit, At
  <2>4. todo'[w] # <<>> => Removing(w, Pair(w))'
    BY <1>0, <1>1, <1>2, <2>3, CheckMatchRemoving
  <2>5. r.from \in Users
    BY RequestType
  <2>6. Alone(w)
    BY <2>2, <2>5
  <2> QED
    BY <1>1, <2>1, <2>2, <2>4, <2>6, ClearingStep
(* A step of the loop around checkMatch that adds nothing to the sets. *)
<1>3. ASSUME NEW w \in Workers, pc[w] = "next", Alone(w), UNCHANGED reactions,
             likes' = likes, \A u \in Users : fans'[u] \subseteq fans[u],
             pc'[w] \in {"idle", "next", "add_fan"},
             \A a, b \in Users :
               /\ \A v \in Workers : Waiting(v, a, b)' => Waiting(v, a, b)
               /\ Waiting(w, a, b) => Waiting(w, a, b)'
      PROVE  Clearing'
  <2>1. Removing(w, Pair(w))'
    BY <1>3 DEF Removing, MatchSteps
  <2>2. ASSUME NEW a \in Users, NEW b \in Users
        PROVE  Serving(w, a, b)
    <3>1. ~InMatch(w, a, b) /\ ~AtCheck(w, a, b)
      BY <1>3 DEF InMatch, AtCheck, MatchSteps
    <3> QED
      BY <1>3, <3>1 DEF Serving
  <2> QED
    BY <1>1, <1>3, <2>1, <2>2, ClearingStep
<1>4. ASSUME NEW w \in Workers, Begin(w) \/ ProcessEnd(w)
      PROVE  Clearing'
  <2>1. PICK p \in {"add_fan", "idle"} :
          Goto(w, p) /\ (p = "add_fan" \/ todo[w] = <<>>)
    BY <1>4 DEF Begin, ProcessEnd
  <2>2. pc[w] = "next" /\ UNCHANGED <<reactions, likes, fans>>
    BY <1>4 DEF Begin, ProcessEnd, redis
  <2>3. Alone(w) /\ pc'[w] = p
    BY <2>1, GotoAlone
  <2>4. ASSUME NEW a \in Users, NEW b \in Users
        PROVE  /\ \A v \in Workers : Waiting(v, a, b)' => Waiting(v, a, b)
               /\ Waiting(w, a, b) => Waiting(w, a, b)'
    <3>1. \A v \in Workers : Waiting(v, a, b)' => Waiting(v, a, b)
      BY <2>1, <2>2, GotoNoWaiting
    <3>2. Waiting(w, a, b) => Waiting(w, a, b)'
      BY <2>1, GotoPending, WaitingPending DEF ToAddLike
    <3> QED
      BY <3>1, <3>2
  <2> QED
    BY <1>3, <2>2, <2>3, <2>4
<1>5. ASSUME NEW w \in Workers, Dislike(w) \/ OtherAction(w)
      PROVE  Clearing'
  <2>1. /\ UNCHANGED <<reactions, likes>> /\ Finish(w) /\ pc[w] = "next"
        /\ todo[w] # <<>> /\ Head(todo[w]).action # "like"
        /\ \/ fans' = fans
           \/ fans' = Minus(fans, Head(todo[w]).to, Head(todo[w]).from)
    BY <1>5 DEF Dislike, OtherAction, Redis, redis
  <2>2. \A u \in Users : fans'[u] \subseteq fans[u]
    <3>1. fans \in [Users -> SUBSET Users]
      BY DEF TypeOK
    <3> QED
      BY <2>1, <3>1 DEF Minus
  <2>3. Alone(w) /\ pc'[w] = "next"
    BY <2>1, FinishAlone
  <2>4. ASSUME NEW a \in Users, NEW b \in Users
        PROVE  /\ \A v \in Workers : Waiting(v, a, b)' => Waiting(v, a, b)
               /\ Waiting(w, a, b) => Waiting(w, a, b)'
    <3>1. \A v \in Workers : Waiting(v, a, b)' => Waiting(v, a, b)
      BY <2>1, FinishNoWaiting
    <3>2. Head(todo[w]) # Like(a, b) /\ "next" \in ToAddLike
      BY <2>1 DEF Like, ToAddLike
    <3>3. Waiting(w, a, b) => Waiting(w, a, b)'
      BY <2>1, <3>2, FinishPending, WaitingPending
    <3> QED
      BY <3>1, <3>3
  <2> QED
    BY <1>3, <2>1, <2>2, <2>3, <2>4
<1>6. ASSUME UNCHANGED <<reactions, fans, likes, todo, pc>>
      PROVE  Clearing'
  <2>1. AddedOnce'
    BY <1>1, <1>6 DEF AddedOnce, Waiting
  <2>2. \A w \in Workers : todo'[w] # <<>> => Removing(w, Pair(w))'
    BY <1>1, <1>6 DEF Removing, NoWaiting, Waiting, Pair
  <2>3. \A a, b \in Users : a # b => (Stands(a, b) /\ Seen(a, b))'
    BY <1>1, <1>6 DEF Stands, Seen, Liked, Waiting, Matching, InMatch,
                      AtCheck, HeadIs, Done, Clear, NoWaiting
  <2> QED
    BY <2>1, <2>2, <2>3 DEF Clearing
<1>7. ASSUME NEW w \in Workers, NEW r \in Requests, Take(w, r)
      PROVE  Clearing'
  BY <1>6, <1>7 DEF Take, redis
<1>8. CASE UNCHANGED vars
  BY <1>6, <1>8 DEF vars, redis, local
<1>9. ASSUME NEW w \in Workers, Process(w)
      PROVE  Clearing'
  <2>1. /\ reactions' = reactions \cup Range(batch[w])
        /\ Insertable(batch[w])
        /\ fans' = fans /\ likes' = likes /\ Alone(w)
        /\ todo'[w] = batch[w] /\ pc'[w] = "next"
        /\ pc[w] = "idle" /\ todo[w] = <<>>
    BY <1>9 DEF Process, TypeOK, redis, Justified, TodoStored, Alone
(* Only a like that was not stored before begins to wait. *)
  <2>2. ASSUME NEW a, NEW b, NEW v \in Workers, Waiting(v, a, b)',
               ~Waiting(v, a, b)
        PROVE  ~Liked(a, b)
    <3>1. v = w
      BY <2>1, <2>2 DEF Alone, Waiting
    <3>2. PICK i \in DOMAIN batch[w] : batch[w][i] = Like(a, b)
      BY <2>1, <2>2, <3>1 DEF Waiting
    <3> QED
      BY <2>1, <3>2 DEF Insertable, SamePair, Liked
  <2>3. ASSUME NEW a, NEW b, NEW v \in Workers, Waiting(v, a, b)
        PROVE  Waiting(v, a, b)'
    <3>1. v # w
      BY <2>1, <2>3 DEF Waiting
    <3> QED
      BY <2>1, <2>3, <3>1 DEF Waiting, Alone
  <2>4. ASSUME NEW a, NEW b, Liked(a, b), Liked(b, a), NoWaiting(a, b)
        PROVE  NoWaiting(a, b)'
    <3>1. ASSUME NEW v \in Workers
          PROVE  ~Waiting(v, a, b)' /\ ~Waiting(v, b, a)'
      BY <2>2, <2>4 DEF NoWaiting
    <3> QED
      BY <3>1 DEF NoWaiting
  <2>5. AddedOnce'
    <3> SUFFICES ASSUME NEW a \in Users, NEW b \in Users, b \in likes'[a],
                        NEW v \in Workers, Waiting(v, a, b)'
                 PROVE  FALSE
      BY DEF AddedOnce
    <3>1. b \in likes[a] /\ Liked(a, b)
      BY <2>1 DEF Justified, LikesStored
    <3> QED
      BY <1>1, <2>2, <3>1 DEF AddedOnce
  <2>6. ASSUME NEW v \in Workers, todo'[v] # <<>>
        PROVE  Removing(v, Pair(v))'
    <3>1. CASE v = w
      BY <2>1, <3>1 DEF Removing, MatchSteps
    <3>2. ASSUME v # w, pc[v] \in MatchSteps
          PROVE  Removing(v, Pair(v))'
      <4>1. pc'[v] = pc[v] /\ todo'[v] = todo[v] /\ Pair(v)' = Pair(v)
        BY <2>1, <3>2 DEF Alone, Pair
      <4>2. Removing(v, Pair(v)) /\ TodoStored(v) /\ todo[v] # <<>>
        BY <1>1, <2>6, <4>1 DEF Justified
      <4>3. /\ Head(todo[v]) = todo[v][1] /\ 1 \in DOMAIN todo[v]
            /\ Head(todo[v]) \in Requests
        BY <4>2 DEF TypeOK
      <4>4. /\ Head(todo[v]) \in reactions /\ Head(todo[v]).action = "like"
            /\ Liked(Head(todo[v]).to, Head(todo[v]).from)
        BY <3>2, <4>2, <4>3 DEF TodoStored, LikeSteps
      <4>5. Head(todo[v]) = Like(Head(todo[v]).from, Head(todo[v]).to)
        BY <4>3, <4>4, ReactionMatchAssumption DEF Like, Reaction
      <4>6. Liked(Pair(v)[1], Pair(v)[2]) /\ Liked(Pair(v)[2], Pair(v)[1])
        <5>1. Liked(Head(todo[v]).from, Head(todo[v]).to)
          BY <4>4, <4>5 DEF Liked
        <5>2. /\ Pair(v)[1] = Head(todo[v]).from
              /\ Pair(v)[2] = Head(todo[v]).to
          BY DEF Pair
        <5> QED
          BY <4>4, <5>1, <5>2
      <4>7. NoWaiting(Pair(v)[1], Pair(v)[2])
        BY <3>2, <4>2 DEF Removing
      <4>8. PICK a, b : a = Pair(v)[1] /\ b = Pair(v)[2]
        OBVIOUS
      <4>9. NoWaiting(a, b)'
        BY <2>4, <4>6, <4>7, <4>8
      <4>10. a = Pair(v)[1]' /\ b = Pair(v)[2]'
        BY <4>1, <4>8
      <4> QED
        BY <2>1, <3>2, <4>1, <4>2, <4>8, <4>9, <4>10 DEF Removing
    <3>3. ASSUME v # w, pc[v] \notin MatchSteps
          PROVE  Removing(v, Pair(v))'
      BY <2>1, <3>3 DEF Removing, Alone
    <3> QED
      BY <3>1, <3>2, <3>3
  <2>7. ASSUME NEW a \in Users, NEW b \in Users, a # b
        PROVE  (Stands(a, b) /\ Seen(a, b))'
    <3>1. Stands(a, b) /\ Seen(a, b)
      BY <1>1, <2>7
    <3>2. ASSUME NEW v \in Workers
          PROVE  /\ InMatch(v, a, b) => InMatch(v, a, b)'
                 /\ AtCheck(v, a, b) => AtCheck(v, a, b)'
      <4>1. v = w => ~InMatch(v, a, b) /\ ~AtCheck(v, a, b)
        BY <2>1 DEF InMatch, AtCheck, HeadIs
      <4> QED
        BY <2>1, <4>1, Others
    <3>3. Matching(a, b) => Matching(a, b)'
      BY <3>2 DEF Matching
    <3>4. Seen(a, b)'
      BY <2>1, <3>1, <3>2, <3>3 DEF Seen
    <3>5. Done(a, b) => Done(a, b)'
      <4>1. Done(a, b) => NoWaiting(a, b)'
        BY <2>4 DEF Done
      <4> QED
        BY <2>1, <4>1 DEF Done, Clear, Liked
    <3>6. Liked(a, b) => Stands(a, b)'
      BY <2>1, <2>3, <3>1, <3>3, <3>5 DEF Stands
    <3>7. ASSUME Liked(a, b)', ~Liked(a, b)
          PROVE  Waiting(w, a, b)'
      <4>1. PICK i \in DOMAIN batch[w] : batch[w][i] = Like(a, b)
        BY <2>1, <3>7 DEF Liked, Range
      <4> QED
        BY <2>1, <4>1 DEF Waiting
    <3>8. Stands(a, b)'
      BY <3>6, <3>7 DEF Stands
    <3> QED
      BY <3>4, <3>8
  <2> QED
    BY <2>5, <2>6, <2>7 DEF Clearing
<1>10. HasRdb /\ ~Crash /\ \A u \in Users : ~Evict(u)
  BY <1>0 DEF Crash, Evict
(* The API takes fans away and leaves the rest alone. *)
<1>11. ASSUME NEW u \in Users, ApiStep(u)
       PROVE  Clearing'
  <2>1. UNCHANGED <<reactions, likes, todo, pc>>
    BY <1>11, ApiFrame
  <2>2. AddedOnce'
    BY <1>1, <2>1 DEF AddedOnce, Waiting
  <2>3. \A v \in Users : fans'[v] \subseteq fans[v]
    <3>1. fans' = fans \/ fans' = [fans EXCEPT ![u] = {}]
      BY <1>11 DEF ApiStep, AskFans, FillFans, ExpireFans, StopAsking,
                   ElapseFans, ElapseList, NoFansKey, redis
    <3>2. fans \in [Users -> SUBSET Users]
      BY DEF TypeOK
    <3> QED
      BY <3>1, <3>2
  <2>4. \A w \in Workers : todo'[w] # <<>> => Removing(w, Pair(w))'
    <3> SUFFICES ASSUME NEW w \in Workers, todo'[w] # <<>>
                 PROVE  Removing(w, Pair(w))'
      OBVIOUS
    <3>1. Removing(w, Pair(w)) /\ Pair(w)' = Pair(w)
      BY <1>1, <2>1 DEF Pair
    <3>2. pc[w] \in MatchSteps => Pair(w)[1] \in Users /\ Pair(w)[2] \in Users
      <4>1. todo[w] # <<>> /\ Head(todo[w]) \in Requests
        BY <2>1 DEF TypeOK
      <4> QED
        BY <4>1, RequestType DEF Pair
    <3> QED
      BY <2>1, <2>3, <3>1, <3>2 DEF Removing, NoWaiting, Waiting
  <2>5. ASSUME NEW a \in Users, NEW b \in Users, a # b
        PROVE  (Stands(a, b) /\ Seen(a, b))'
    <3>1. Stands(a, b) /\ Seen(a, b)
      BY <1>1, <2>5
    <3>2. Clear(a, b) => Clear(a, b)'
      BY <2>1, <2>3 DEF Clear
    <3>3. Done(a, b) => Done(a, b)'
      BY <2>1, <3>2 DEF Done, NoWaiting, Waiting, Liked
    <3> QED
      BY <2>1, <3>1, <3>3 DEF Stands, Seen, Liked, Waiting, Matching, InMatch,
                              AtCheck, HeadIs
  <2> QED
    BY <2>2, <2>4, <2>5 DEF Clearing
<1> QED
  BY <1>2, <1>4, <1>5, <1>7, <1>8, <1>9, <1>10, <1>11 DEF Next, WorkerStep, FirstCommand

LEMMA ClearingAlways == Spec => []Clearing
<1>1. ASSUME Init
      PROVE  Clearing
  <2>1. AddedOnce /\ \A a, b \in Users : Stands(a, b) /\ Seen(a, b)
    BY <1>1 DEF Init, AddedOnce, Stands, Seen, Liked
  <2>2. \A w \in Workers : todo[w] = <<>>
    BY <1>1 DEF Init
  <2> QED
    BY <2>1, <2>2 DEF Clearing
<1> QED
  BY <1>1, ClearingInductive, TypeCorrect, JustifiedAlways, OneCheckAlways,
     PTL DEF Spec

(* A sorted set that GetLikingProfiles made will go by itself.             *)
Timed ==
  faults = 0 =>
    \A u \in Users : sorted[u] # {} => u \in expiring \/ asking[u] = "expire"

LEMMA TimedInductive == TypeOK /\ Timed /\ [Next]_vars => Timed'
<1> SUFFICES ASSUME TypeOK, Timed, [Next]_vars, faults' = 0
             PROVE  Timed'
  BY DEF Timed
<1>0. faults = 0 /\ ~Fault
  <2>1. ~Fault
    BY DEF TypeOK, Fault
  <2> QED
    BY <2>1, CalmStep
<1>1. \A u \in Users : sorted[u] # {} => u \in expiring \/ asking[u] = "expire"
  BY <1>0 DEF Timed
<1>s. /\ sorted \in [Users -> SUBSET Users]
      /\ asking \in [Users -> {"idle", "add", "expire"}]
  BY DEF TypeOK
<1>2. ASSUME UNCHANGED <<sorted, asking>>,
             \A u \in expiring : sorted[u] # {} => u \in expiring'
      PROVE  Timed'
  BY <1>1, <1>2 DEF Timed
<1>3. ASSUME NEW f, NEW l, NEW s, Redis(f, l, s), UNCHANGED pages
      PROVE  Timed'
  BY <1>0, <1>2, <1>3 DEF Redis, pages
<1>4. ASSUME UNCHANGED <<redis, pages>>
      PROVE  Timed'
  BY <1>2, <1>4 DEF redis, pages
<1>5. ASSUME NEW w \in Workers, NEW r \in Requests, CheckMatch(w, r)
      PROVE  Timed'
  BY <1>3, <1>4, <1>5
     DEF CheckMatch, AddFan, AddLike, Check, TellLike, RemFan, RemFanBack,
         RemLike, RemLikeBack, Find, CreateChat, ListFrom, ListTo, TellMatch,
         Commit
<1>6. ASSUME NEW w \in Workers,
             \/ Begin(w) \/ Dislike(w) \/ OtherAction(w) \/ ProcessEnd(w)
             \/ Process(w) \/ Panic(w) \/ \E r \in Requests : Take(w, r)
      PROVE  Timed'
  BY <1>3, <1>4, <1>6 DEF Begin, Dislike, OtherAction, ProcessEnd, Process,
                          Panic, Take
<1>7. ASSUME NEW u \in Users, ApiStep(u)
      PROVE  Timed'
  <2>1. CASE AskFans(u)
    BY <1>1, <1>s, <2>1 DEF AskFans, Advance, redis, Timed
  <2>2. CASE FillFans(u)
    <3>1. asking' = [asking EXCEPT ![u] = "expire"] /\ expiring' = expiring
      BY <2>2 DEF FillFans, Advance
    <3>2. sorted' = sorted \/ \E s : sorted' = [sorted EXCEPT ![u] = s]
      BY <2>2 DEF FillFans
    <3> QED
      BY <1>1, <1>s, <3>1, <3>2 DEF Timed
  <2>3. CASE ExpireFans(u)
    <3>1. /\ asking' = [asking EXCEPT ![u] = "idle"] /\ sorted' = sorted
          /\ expiring' = expiring \cup
                           IF fans[u] # {} \/ sorted[u] # {} THEN {u} ELSE {}
      BY <1>0, <2>3 DEF ExpireFans, Advance
    <3> QED
      BY <1>1, <1>s, <3>1 DEF Timed
  <2>4. CASE ElapseFans(u)
    <3>1. /\ sorted' = [sorted EXCEPT ![u] = {}] /\ expiring' = expiring \ {u}
          /\ asking' = asking
      BY <2>4 DEF ElapseFans, NoFansKey, pages
    <3> QED
      BY <1>1, <1>s, <3>1 DEF Timed
  <2>5. CASE ElapseList(u)
    BY <1>2, <2>5 DEF ElapseList, pages
  <2> QED
    BY <1>0, <1>7, <2>1, <2>2, <2>3, <2>4, <2>5 DEF ApiStep, StopAsking
<1>8. CASE UNCHANGED vars
  BY <1>4, <1>8 DEF vars
<1>9. ~Crash /\ \A u \in Users : ~Evict(u)
  BY <1>0 DEF Crash, Evict
<1> QED
  BY <1>5, <1>6, <1>7, <1>8, <1>9 DEF Next, WorkerStep, FirstCommand

LEMMA TimedAlways == Spec => []Timed
<1>1. Init => Timed
  BY DEF Init, Timed
<1> QED
  BY <1>1, TimedInductive, TypeCorrect, PTL DEF Spec

(* A matched couple leaves nothing in the sets for good: when the check of *)
(* one removes the entries of both, no check of the other will add one     *)
(* again, whatever the interleaving of the two; and what a worker could    *)
(* not remove, because GetLikingProfiles had made a sorted set of the key, *)
(* has a time to live or is about to be given one.                         *)
THEOREM CoupleClearedAlways == Spec => []CoupleCleared
<1>1. ASSUME TypeOK, Clearing, Untouched, Timed
      PROVE  CoupleCleared
  <2> SUFFICES ASSUME faults = 0, NEW a \in Users, NEW b \in Users, a # b,
                      Liked(a, b), Liked(b, a), ~InCheck(a, b)
               PROVE  a \notin fans[b] /\ b \notin likes[a]
    <3>1. faults = 0 => \A c, d \in Users :
            c \in sorted[d] => d \in expiring \/ asking[d] = "expire"
      BY <1>1 DEF Timed
    <3> QED
      BY <3>1 DEF CoupleCleared
  <2>1. CASE ~HasRdb
    BY <1>1, <2>1 DEF Untouched, NothingChecked
  <2>2. CASE HasRdb
    <3>1. /\ Stands(a, b) /\ Seen(a, b) /\ Stands(b, a)
      BY <1>1, <2>2 DEF Clearing
    <3>2. ASSUME NEW w \in Workers
          PROVE  /\ ~Waiting(w, a, b) /\ ~Waiting(w, b, a)
                 /\ ~HeadIs(w, a, b) /\ ~HeadIs(w, b, a)
      <4>1. ~Checking(w, a, b) /\ ~Checking(w, b, a)
        BY DEF InCheck
      <4>2. ~Waiting(w, a, b) /\ ~Waiting(w, b, a)
        BY <4>1 DEF Checking, Waiting, Like
      <4>3. SUFFICES ASSUME HeadIs(w, a, b) \/ HeadIs(w, b, a)
                     PROVE  FALSE
        BY <4>2
      <4>4. 1 \in DOMAIN todo[w] /\ todo[w][1] = Head(todo[w])
        BY <1>1, <4>3 DEF HeadIs, TypeOK
      <4> QED
        BY <4>1, <4>3, <4>4 DEF HeadIs, Checking, Like
    <3>3. ~Matching(a, b) /\ ~Matching(b, a)
      BY <3>2 DEF Matching, InMatch
    <3>4. ~(b \in likes[a] /\ a \in likes[b])
      BY <3>1, <3>2, <3>3 DEF Seen, AtCheck
    <3>5. Done(a, b) \/ Done(b, a)
      BY <3>1, <3>2, <3>3, <3>4 DEF Stands
    <3> QED
      BY <3>5 DEF Done, Clear
  <2> QED
    BY <2>1, <2>2
<1> QED
  BY <1>1, TypeCorrect, ClearingAlways, UntouchedAlways, TimedAlways, PTL

=============================================================================
