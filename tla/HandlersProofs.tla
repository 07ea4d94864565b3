--------------------------- MODULE HandlersProofs ---------------------------
(***************************************************************************)
(* Proofs about the handlers that serve the data of one user: the avatar   *)
(* (module Avatars), the list of chats (ChatLists), the fans (Fans) and    *)
(* the queue of discovery (Discovery), in the composition MCHandlers.      *)
(*                                                                         *)
(* Each of the four has an inductive invariant of its own.  A step of one  *)
(* leaves the variables of the others alone, so the conjunction of the     *)
(* four is inductive for the composition.                                  *)
(***************************************************************************)
EXTENDS MCHandlers, SequenceTheorems, TLAPS

-----------------------------------------------------------------------------
(* The avatar.                                                             *)

(* A row is committed when its request is answered, a clearing finds rows  *)
(* that are there, and who holds the row of the profile found one.         *)
RowsKnown ==
  \A r \in Uploads :
    /\ row[r] # "none" => uploading[r] = "answered"
    /\ found[r] \subseteq A!Rows
    /\ wrote[r] => profile

(* The photo of the profile is that of a current row which no transaction  *)
(* that is to leave the profile alone has cleared.                         *)
Safe(w) ==
  \A r \in Uploads : uploading[r] = "updated" /\ ~wrote[r] => w \notin found[r]
PhotoShown ==
  photo # NoPhoto =>
    profile /\ \E w \in Uploads : A!Current(w) /\ key[w] = photo /\ Safe(w)

Overlapped ==
  \A r, q \in Uploads :
    A!Current(r) /\ A!Current(q) /\ r # q => r \notin found[q]

AvatarInv == A!TypeOK /\ RowsKnown /\ PhotoShown /\ Overlapped

LEMMA AvatarInit == ASSUME A!Init PROVE AvatarInv
<1>1. A!TypeOK
  <2>1. second \in Nat /\ migrated \in BOOLEAN /\ profile \in BOOLEAN
    BY DEF A!Init
  <2>2. photo \in Nat \cup {NoPhoto} /\ key \in [Uploads -> Nat \cup {NoPhoto}]
    BY DEF A!Init
  <2>3. uploading \in [Uploads -> A!Stages]
    BY DEF A!Init, A!Stages
  <2>4. found \in [Uploads -> SUBSET Uploads]
    BY DEF A!Init
  <2>5. wrote \in [Uploads -> BOOLEAN]
    BY DEF A!Init
  <2>6. row \in [Uploads -> {"none", "old", "current"}]
    BY DEF A!Init
  <2>7. \A r \in Uploads : wrote[r] => uploading[r] = "updated"
    BY DEF A!Init
  <2> QED
    BY <2>1, <2>2, <2>3, <2>4, <2>5, <2>6, <2>7 DEF A!TypeOK
<1>2. RowsKnown
  BY DEF A!Init, RowsKnown, A!Rows
<1>3. PhotoShown
  BY DEF A!Init, PhotoShown
<1>4. Overlapped
  BY DEF A!Init, Overlapped, A!Current
<1> QED
  BY <1>1, <1>2, <1>3, <1>4 DEF AvatarInv

LEMMA AvatarStutter ==
  ASSUME AvatarInv, UNCHANGED avatar
  PROVE  AvatarInv'
BY DEF avatar, AvatarInv, A!TypeOK, RowsKnown, A!Rows, PhotoShown, Safe,
  A!Current, Overlapped

LEMMA AvatarStep ==
  ASSUME AvatarInv, A!Next
  PROVE  AvatarInv'
<1> USE DEF AvatarInv
<1>1. CASE A!Second
  <2>1. A!TypeOK'
    BY <1>1 DEF A!Second, A!TypeOK
  <2>2. UNCHANGED <<migrated, profile, photo, key, uploading, found, wrote, row>>
    BY <1>1 DEF A!Second
  <2> QED
    BY <2>1, <2>2 DEF RowsKnown, A!Rows, PhotoShown, Safe, A!Current, Overlapped
<1>2. CASE A!ChangeProfile
  <2>1. A!TypeOK'
    BY <1>2 DEF A!ChangeProfile, A!TypeOK
  <2>2. profile' /\ UNCHANGED <<photo, key, uploading, found, wrote, row>>
    BY <1>2 DEF A!ChangeProfile
  <2> QED
    BY <2>1, <2>2 DEF RowsKnown, A!Rows, PhotoShown, Safe, A!Current, Overlapped
<1>3. ASSUME NEW r \in Uploads, A!GetUploadURL(r) PROVE AvatarInv'
  <2> USE <1>3 DEF A!GetUploadURL, A!Advance
  <2>1. A!TypeOK'
    BY DEF A!TypeOK, A!Stages
  <2>2. RowsKnown'
    BY DEF RowsKnown, A!Rows, A!TypeOK
  <2>3. PhotoShown'
    BY DEF PhotoShown, Safe, A!Current, RowsKnown, A!TypeOK
  <2>4. Overlapped'
    BY DEF Overlapped, A!Current
  <2> QED
    BY <2>1, <2>2, <2>3, <2>4
<1>4. ASSUME NEW r \in Uploads, A!Begin(r) PROVE AvatarInv'
  <2> USE <1>4 DEF A!Begin, A!Advance
  <2>1. A!TypeOK'
    BY DEF A!TypeOK, A!Stages, A!Rows
  <2>2. RowsKnown'
    BY DEF RowsKnown, A!Rows, A!TypeOK
  <2>3. PhotoShown'
    BY DEF PhotoShown, Safe, A!Current, A!TypeOK
  <2>4. Overlapped'
    BY DEF Overlapped, A!Current, RowsKnown, A!Rows, A!TypeOK
  <2> QED
    BY <2>1, <2>2, <2>3, <2>4
<1>5. ASSUME NEW r \in Uploads, A!Clear(r) PROVE AvatarInv'
  <2> USE <1>5 DEF A!Clear, A!Advance
  <2>1. A!TypeOK'
    BY DEF A!TypeOK, A!Stages
  <2>2. RowsKnown'
    BY DEF RowsKnown, A!Rows, A!TypeOK
  <2>3. PhotoShown'
    BY DEF PhotoShown, Safe, A!Current, A!TypeOK
  <2>4. Overlapped'
    BY DEF Overlapped, A!Current
  <2> QED
    BY <2>1, <2>2, <2>3, <2>4
<1>6. ASSUME NEW r \in Uploads, A!Insert(r) PROVE AvatarInv'
  <2> USE <1>6 DEF A!Insert, A!Advance
  <2>1. A!TypeOK'
    BY DEF A!TypeOK, A!Stages
  <2>2. RowsKnown'
    BY DEF RowsKnown, A!Rows, A!TypeOK
  <2>3. PhotoShown'
    BY DEF PhotoShown, Safe, A!Current, A!TypeOK
  <2>4. Overlapped'
    BY DEF Overlapped, A!Current
  <2> QED
    BY <2>1, <2>2, <2>3, <2>4
<1>7. ASSUME NEW r \in Uploads, A!UpdateProfile(r) PROVE AvatarInv'
  <2> USE <1>7 DEF A!UpdateProfile, A!Advance
  <2>1. A!TypeOK'
    BY DEF A!TypeOK, A!Stages
  <2>2. RowsKnown'
    BY DEF RowsKnown, A!Rows, A!TypeOK
  <2>3. PhotoShown'
    BY DEF PhotoShown, Safe, A!Current, A!TypeOK
  <2>4. Overlapped'
    BY DEF Overlapped, A!Current
  <2> QED
    BY <2>1, <2>2, <2>3, <2>4
<1>8. ASSUME NEW r \in Uploads, A!Commit(r) PROVE AvatarInv'
  <2> USE <1>8 DEF A!Commit, A!Advance
  <2>1. A!TypeOK'
    BY DEF A!TypeOK, A!Stages, A!Marked
  <2>2. /\ \A q \in Uploads : row'[q] = A!Marked(r)[q]
        /\ row[r] = "none" /\ r \in A!Rows' /\ A!Rows \subseteq A!Rows'
    BY DEF A!Marked, A!Rows, RowsKnown, A!TypeOK
  <2>3. RowsKnown'
    <3> SUFFICES ASSUME NEW q \in Uploads
                 PROVE  (/\ row[q] # "none" => uploading[q] = "answered"
                         /\ found[q] \subseteq A!Rows
                         /\ wrote[q] => profile)'
      BY DEF RowsKnown
    <3>1. (row[q] # "none" => uploading[q] = "answered")'
      BY <2>2 DEF A!Marked, A!Rows, RowsKnown, A!TypeOK
    <3>2. (found[q] \subseteq A!Rows)'
      BY <2>2 DEF RowsKnown
    <3>3. (wrote[q] => profile)'
      BY DEF RowsKnown, A!TypeOK
    <3> QED
      BY <3>1, <3>2, <3>3
  <2>4. PhotoShown'
    <3>1. r \notin found[r] /\ \A q \in Uploads : r \notin found[q]
      BY <2>2 DEF RowsKnown, A!Rows
    <3>2. CASE wrote[r]
      <4>1. photo' = key'[r] /\ profile' /\ A!Current(r)' /\ Safe(r)'
        BY <2>2, <3>1, <3>2 DEF RowsKnown, A!Current, A!Marked, Safe
      <4> QED
        BY <4>1 DEF PhotoShown
    <3>3. CASE ~wrote[r]
      <4> SUFFICES ASSUME photo # NoPhoto
                   PROVE  (profile /\ \E w \in Uploads :
                             A!Current(w) /\ key[w] = photo /\ Safe(w))'
        BY <3>3 DEF PhotoShown
      <4>1. PICK w \in Uploads : A!Current(w) /\ key[w] = photo /\ Safe(w)
        BY DEF PhotoShown
      <4>2. w # r /\ w \notin found[r]
        BY <2>2, <3>3, <4>1 DEF A!Current, Safe
      <4>3. A!Current(w)'
        BY <2>2, <4>1, <4>2 DEF A!Current, A!Marked
      <4>4. Safe(w)'
        BY <4>1 DEF Safe, A!TypeOK
      <4> QED
        BY <3>3, <4>1, <4>3, <4>4 DEF PhotoShown
    <3> QED
      BY <3>2, <3>3
  <2>5. Overlapped'
    <3> SUFFICES ASSUME NEW p \in Uploads, NEW q \in Uploads, p # q,
                        A!Current(p)', A!Current(q)'
                 PROVE  p \notin found'[q]
      BY DEF Overlapped
    <3>1. CASE p = r
      BY <2>2, <3>1 DEF RowsKnown, A!Rows
    <3>2. CASE p # r
      <4>1. A!Current(p) /\ p \notin found[r]
        BY <2>2, <3>2 DEF A!Current, A!Marked
      <4>2. q = r \/ A!Current(q)
        BY <2>2 DEF A!Current, A!Marked
      <4> QED
        BY <4>1, <4>2 DEF Overlapped
    <3> QED
      BY <3>1, <3>2
  <2> QED
    BY <2>1, <2>3, <2>4, <2>5
<1>9. ASSUME NEW r \in Uploads, A!Rollback(r) PROVE AvatarInv'
  <2> USE <1>9 DEF A!Rollback
  <2>1. A!TypeOK'
    BY DEF A!TypeOK, A!Stages
  <2>2. RowsKnown'
    BY DEF RowsKnown, A!Rows, A!TypeOK
  <2>3. PhotoShown'
    BY DEF PhotoShown, Safe, A!Current, A!TypeOK
  <2>4. Overlapped'
    BY DEF Overlapped, A!Current
  <2> QED
    BY <2>1, <2>2, <2>3, <2>4
<1> QED
  BY <1>1, <1>2, <1>3, <1>4, <1>5, <1>6, <1>7, <1>8, <1>9
  DEF A!Next, A!ConfirmUpload

LEMMA AvatarsAgreeNow == ASSUME AvatarInv PROVE A!AvatarsAgree
BY DEF AvatarInv, PhotoShown, Overlapped, A!AvatarsAgree

-----------------------------------------------------------------------------
(* The list of chats.                                                      *)

ChatsInv == C!TypeOK /\ \A r \in Requests : plucked[r] \subseteq member

LEMMA ExistsIfAny == C!Exists <=> (list # {} \/ raw # {})
<1>1. CASE list = {} /\ raw = {}
  BY <1>1 DEF C!Exists, C!Entries
<1>2. ASSUME NEW c \in list PROVE C!Exists
  <2>1. <<"text", c>> \in C!Entries
    BY <1>2 DEF C!Entries
  <2> QED
    BY <2>1 DEF C!Exists
<1>3. ASSUME NEW c \in raw PROVE C!Exists
  <2>1. <<"bytes", c>> \in C!Entries
    BY <1>3 DEF C!Entries
  <2> QED
    BY <2>1 DEF C!Exists
<1> QED
  BY <1>1, <1>2, <1>3

LEMMA ExistsIfAnyNext == C!Exists' <=> (list' # {} \/ raw' # {})
<1>1. CASE list' = {} /\ raw' = {}
  BY <1>1 DEF C!Exists, C!Entries
<1>2. ASSUME NEW c \in list' PROVE C!Exists'
  <2>1. <<"text", c>> \in C!Entries'
    BY <1>2 DEF C!Entries
  <2> QED
    BY <2>1 DEF C!Exists
<1>3. ASSUME NEW c \in raw' PROVE C!Exists'
  <2>1. <<"bytes", c>> \in C!Entries'
    BY <1>3 DEF C!Entries
  <2> QED
    BY <2>1 DEF C!Exists
<1> QED
  BY <1>1, <1>2, <1>3

LEMMA ChatFault ==
  ASSUME ChatsInv, C!Fault \/ UNCHANGED chatFaults
  PROVE  chatFaults' \in 0..MaxFaults
BY HandlersAssumption DEF ChatsInv, C!TypeOK, C!Fault

LEMMA ChatsInit == ASSUME C!Init PROVE ChatsInv
<1>1. ~C!Exists
  BY ExistsIfAny DEF C!Init
<1>2. chatFaults \in 0..MaxFaults
  BY HandlersAssumption DEF C!Init
<1>3. getting \in [Requests -> C!Stages]
  BY DEF C!Init, C!Stages
<1>4. plucked \in [Requests -> SUBSET Chats]
  BY DEF C!Init
<1>5. \A r \in Requests : plucked[r] \subseteq member
  BY DEF C!Init
<1>6. /\ member = {} /\ open = {} /\ list = {} /\ raw = {} /\ listed = {}
      /\ chatsTtl = FALSE
  BY DEF C!Init
<1> QED
  BY <1>1, <1>2, <1>3, <1>4, <1>5, <1>6 DEF ChatsInv, C!TypeOK

LEMMA ChatsStutter ==
  ASSUME ChatsInv, UNCHANGED chats
  PROVE  ChatsInv'
BY DEF chats, ChatsInv, C!TypeOK, C!Exists, C!Entries

LEMMA ChatsStep ==
  ASSUME ChatsInv, C!Next
  PROVE  ChatsInv'
<1> USE ExistsIfAny, ExistsIfAnyNext DEF ChatsInv, C!TypeOK
<1>1. ASSUME NEW c \in Chats, C!JoinChat(c) PROVE ChatsInv'
  BY <1>1 DEF C!JoinChat
<1>2. ASSUME NEW c \in Chats, C!Match(c) PROVE ChatsInv'
  <2>1. chatFaults' \in 0..MaxFaults
    BY <1>2, ChatFault DEF C!Match
  <2> QED
    BY <1>2, <2>1 DEF C!Match
<1>3. ASSUME NEW c \in Chats, C!CommitMatch(c) PROVE ChatsInv'
  <2>1. chatFaults' \in 0..MaxFaults
    BY <1>3, ChatFault DEF C!CommitMatch
  <2> QED
    BY <1>3, <2>1 DEF C!CommitMatch
<1>4. CASE C!Elapse
  BY <1>4 DEF C!Elapse
<1>5. ASSUME NEW r \in Requests, NEW first \in BOOLEAN, C!Read(r, first)
      PROVE  ChatsInv'
  <2>1. chatFaults' \in 0..MaxFaults
    BY <1>5, ChatFault DEF C!Read
  <2>2. getting' \in [Requests -> C!Stages]
    BY <1>5 DEF C!Read, C!Advance, C!Stages
  <2>3. listed' \subseteq member
    BY <1>5 DEF C!Read, C!Found
  <2> QED
    BY <1>5, <2>1, <2>2, <2>3 DEF C!Read
<1>6. ASSUME NEW r \in Requests, C!Pluck(r) PROVE ChatsInv'
  BY <1>6 DEF C!Pluck, C!Advance, C!Stages
<1>7. ASSUME NEW r \in Requests, C!Add(r) PROVE ChatsInv'
  <2>1. chatFaults' \in 0..MaxFaults
    BY <1>7, ChatFault DEF C!Add
  <2>2. getting' \in [Requests -> C!Stages]
    BY <1>7 DEF C!Add, C!Advance, C!Stages
  <2>3. list' \subseteq Chats /\ list \subseteq list'
    BY <1>7 DEF C!Add
  <2> QED
    BY <1>7, <2>1, <2>2, <2>3 DEF C!Add
<1>8. ASSUME NEW r \in Requests, C!Expire(r) PROVE ChatsInv'
  <2>1. chatFaults' \in 0..MaxFaults
    BY <1>8, ChatFault DEF C!Expire
  <2>2. getting' \in [Requests -> C!Stages]
    BY <1>8 DEF C!Expire, C!Advance, C!Stages
  <2>3. chatsTtl' \in BOOLEAN /\ (chatsTtl' => C!Exists)
    <3>1. CASE chatsTtl' = C!Exists
      BY ONLY <3>1 DEF C!Exists
    <3>2. CASE UNCHANGED chatsTtl
      BY <3>2
    <3> QED
      BY ONLY <1>8, <3>1, <3>2 DEF C!Expire
  <2> QED
    BY <1>8, <2>1, <2>2, <2>3 DEF C!Expire
<1>9. ASSUME NEW r \in Requests, C!Answer(r) PROVE ChatsInv'
  BY <1>9 DEF C!Answer, C!Advance, C!Stages
<1>10. ASSUME NEW r \in Requests, C!Die(r) PROVE ChatsInv'
  <2>1. chatFaults' \in 0..MaxFaults
    BY <1>10, ChatFault DEF C!Die
  <2> QED
    BY <1>10, <2>1 DEF C!Die, C!Stages
<1> QED
  BY <1>1, <1>2, <1>3, <1>4, <1>5, <1>6, <1>7, <1>8, <1>9, <1>10
  DEF C!Next, C!GetChats

-----------------------------------------------------------------------------
(* The fans.                                                               *)

LEMMA FanFault ==
  ASSUME F!TypeOK, F!Fault \/ UNCHANGED fanFaults
  PROVE  fanFaults' \in 0..MaxFaults
BY HandlersAssumption DEF F!TypeOK, F!Fault

(* What the key of the fans is: how its kind, contents and expiry agree.   *)
KeyOK ==
  /\ kind \in {"none", "set", "zset"}
  /\ kind = "none" <=> cached = {}
  /\ fansTtl \in BOOLEAN
  /\ fansTtl => cached # {}

LEMMA BecomesKey ==
  ASSUME KeyOK, NEW k \in {"none", "set", "zset"}, NEW c,
         k = "none" => c = {}, F!Becomes(k, c)
  PROVE  KeyOK' /\ cached' = c
BY DEF KeyOK, F!Becomes

LEMMA CommandKey ==
  ASSUME KeyOK, NEW k \in {"set", "zset"}, NEW c, F!Command(k, c)
  PROVE  KeyOK' /\ (cached' = c \/ cached' = cached)
BY BecomesKey DEF F!Command, KeyOK

LEMMA LatestOfThem ==
  ASSUME NEW S, NEW n
  PROVE  F!Latest(S, n) \subseteq S
BY DEF F!Latest

LEMMA FansInit == ASSUME F!Init PROVE F!TypeOK
<1>1. fanFaults \in 0..MaxFaults
  BY HandlersAssumption DEF F!Init
<1>2. liking \in [FanRequests -> F!Stages]
  BY DEF F!Init, F!Stages
<1>3. read \in [FanRequests -> SUBSET F!ToSet(likes)]
  BY DEF F!Init
<1>4. likes \in Seq(Users)
  BY DEF F!Init
<1>5. /\ rated = {} /\ told = {} /\ cached = {} /\ seen = {}
      /\ kind = "none" /\ fansTtl = FALSE
  BY DEF F!Init
<1> QED
  BY <1>1, <1>2, <1>3, <1>4, <1>5 DEF F!TypeOK

LEMMA FansStutter ==
  ASSUME F!TypeOK, UNCHANGED fans
  PROVE  F!TypeOK'
BY DEF fans, F!TypeOK

LEMMA FansStep ==
  ASSUME F!TypeOK, F!Next
  PROVE  F!TypeOK'
<1>0. KeyOK
  BY DEF KeyOK, F!TypeOK
<1>1. ASSUME NEW v \in Users, F!Store(v) PROVE F!TypeOK'
  <2>1. likes' \in Seq(Users) /\ F!ToSet(likes) \subseteq F!ToSet(likes')
    BY <1>1 DEF F!Store, F!TypeOK, F!ToSet
  <2>2. UNCHANGED <<rated, told, kind, cached, fansTtl, liking, read, seen,
                    fanFaults>>
    BY <1>1 DEF F!Store
  <2>3. told' \subseteq F!ToSet(likes)' /\ cached' \subseteq F!ToSet(likes)'
        /\ seen' \subseteq F!ToSet(likes)'
    BY <2>1, <2>2 DEF F!TypeOK
  <2>4. read' \in [FanRequests -> SUBSET F!ToSet(likes)']
    BY <2>1, <2>2 DEF F!TypeOK
  <2> QED
    BY <2>1, <2>2, <2>3, <2>4 DEF F!TypeOK
<1>2. ASSUME NEW v \in Users, F!AddFan(v) PROVE F!TypeOK'
  <2>1. fanFaults' \in 0..MaxFaults
    BY <1>2, FanFault DEF F!AddFan
  <2>2. KeyOK' /\ (cached' = cached \cup {v} \/ cached' = cached)
    BY <1>0, <1>2, CommandKey DEF F!AddFan, KeyOK
  <2> QED
    BY <1>2, <2>1, <2>2 DEF F!AddFan, KeyOK, F!TypeOK
<1>3. ASSUME NEW v \in Users, F!Rate(v) PROVE F!TypeOK'
  BY <1>3 DEF F!Rate, F!TypeOK
<1>4. ASSUME NEW v \in Users, F!RemoveFan(v) PROVE F!TypeOK'
  <2>1. KeyOK' /\ (cached' = cached \ {v} \/ cached' = cached)
    BY <1>0, <1>4, CommandKey DEF F!RemoveFan
  <2> QED
    BY <1>4, <2>1 DEF F!RemoveFan, KeyOK, F!TypeOK
<1>5. CASE F!Elapse
  <2>1. KeyOK' /\ cached' = {}
    BY <1>0, <1>5, BecomesKey DEF F!Elapse
  <2> QED
    BY <1>5, <2>1 DEF F!Elapse, KeyOK, F!TypeOK
<1>6. ASSUME NEW r \in FanRequests, NEW first \in BOOLEAN, F!Read(r, first)
      PROVE  F!TypeOK'
  <2>1. fanFaults' \in 0..MaxFaults
    BY <1>6, HandlersAssumption DEF F!Read, F!TypeOK
  <2>2. liking' \in [FanRequests -> F!Stages]
    BY <1>6 DEF F!Read, F!Advance, F!Stages, F!TypeOK
  <2>3. seen' \subseteq F!ToSet(likes)
    BY <1>6, LatestOfThem DEF F!Read, F!TypeOK
  <2> QED
    BY <1>6, <2>1, <2>2, <2>3 DEF F!Read, F!TypeOK
<1>7. ASSUME NEW r \in FanRequests, F!Query(r) PROVE F!TypeOK'
  <2>1. liking' \in [FanRequests -> F!Stages]
    BY <1>7 DEF F!Query, F!Advance, F!Stages, F!TypeOK
  <2>2. read' \in [FanRequests -> SUBSET F!ToSet(likes)]
    BY <1>7 DEF F!Query, F!Fans, F!TypeOK
  <2> QED
    BY <1>7, <2>1, <2>2 DEF F!Query, F!TypeOK
<1>8. ASSUME NEW r \in FanRequests, F!Add(r) PROVE F!TypeOK'
  <2>1. fanFaults' \in 0..MaxFaults
    BY <1>8, FanFault DEF F!Add
  <2>2. KeyOK' /\ (cached' = cached \cup read[r] \/ cached' = cached)
    BY <1>0, <1>8, CommandKey DEF F!Add, KeyOK
  <2>3. liking' \in [FanRequests -> F!Stages]
    BY <1>8 DEF F!Add, F!Advance, F!Stages, F!TypeOK
  <2> QED
    BY <1>8, <2>1, <2>2, <2>3 DEF F!Add, KeyOK, F!TypeOK
<1>9. ASSUME NEW r \in FanRequests, F!Expire(r) PROVE F!TypeOK'
  <2>1. fanFaults' \in 0..MaxFaults
    BY <1>9, FanFault DEF F!Expire
  <2>2. liking' \in [FanRequests -> F!Stages]
    BY <1>9 DEF F!Expire, F!Advance, F!Stages, F!TypeOK
  <2>3. fansTtl' \in BOOLEAN /\ (fansTtl' => cached # {})
    <3>1. CASE fansTtl' = (kind # "none")
      <4>1. fansTtl' \in BOOLEAN /\ (fansTtl' => kind # "none")
        BY ONLY <3>1
      <4> QED
        BY <1>0, <4>1 DEF KeyOK
    <3>2. CASE UNCHANGED fansTtl
      BY <1>0, <3>2 DEF KeyOK
    <3> QED
      BY <1>9, <3>1, <3>2 DEF F!Expire
  <2> QED
    BY <1>9, <2>1, <2>2, <2>3 DEF F!Expire, F!TypeOK
<1>10. ASSUME NEW r \in FanRequests, F!Answer(r) PROVE F!TypeOK'
  <2>1. seen' \subseteq F!ToSet(likes)
    BY <1>10, LatestOfThem DEF F!Answer, F!Page, F!TypeOK
  <2> QED
    BY <1>10, <2>1 DEF F!Answer, F!Advance, F!Stages, F!TypeOK
<1>11. ASSUME NEW r \in FanRequests, F!Die(r) PROVE F!TypeOK'
  <2>1. fanFaults' \in 0..MaxFaults
    BY <1>11, FanFault DEF F!Die
  <2> QED
    BY <1>11, <2>1 DEF F!Die, F!Stages, F!TypeOK
<1> QED
  BY <1>1, <1>2, <1>3, <1>4, <1>5, <1>6, <1>7, <1>8, <1>9, <1>10, <1>11
  DEF F!Next, F!GetLikingProfiles

-----------------------------------------------------------------------------
(* The queue of discovery.                                                 *)

PushedOnce ==
  \A r \in Requests : discovering[r] = "push" => D!IsInjective(ids[r])

(* While orderly, one request at most is on its way, the queue holds what  *)
(* no answer had, and a request that is to trim has the head in hand.      *)
OneAtATime ==
  \A r, q \in Requests :
    discovering[r] # "idle" /\ discovering[q] # "idle" => r = q
QueueUnseen == D!ToSet(queue) = unseen /\ D!IsInjective(queue)
IsHead(s) == Len(s) <= Len(queue) /\ s = SubSeq(queue, 1, Len(s))
HeadsInHand ==
  \A r \in Requests : discovering[r] = "trim" => IsHead(ids[r])

DiscoveryInv ==
  /\ D!TypeOK
  /\ PushedOnce
  /\ orderly => OneAtATime /\ QueueUnseen /\ HeadsInHand

(* What LRANGE returns, and what LTRIM leaves, of a list.                  *)
LEMMA HeadOfQueue ==
  ASSUME NEW s \in Seq(Candidates), NEW n \in Nat
  PROVE  /\ D!First(n, s) \in Seq(Candidates)
         /\ Len(D!First(n, s)) <= Len(s)
         /\ D!First(n, s) = SubSeq(s, 1, Len(D!First(n, s)))
         /\ n # 0 /\ s # <<>> => D!First(n, s) # <<>>
<1> DEFINE k == D!Least(n, Len(s))
<1>1. k \in 0..Len(s) /\ (n # 0 /\ Len(s) # 0 => k # 0)
  BY LenProperties DEF D!Least
<1>2. /\ SubSeq(s, 1, k) \in Seq(Candidates)
      /\ Len(SubSeq(s, 1, k)) = k
  BY <1>1
<1> HIDE DEF k
<1>3. D!First(n, s) = SubSeq(s, 1, k)
  BY DEF D!First, k
<1>4. n # 0 /\ s # <<>> => k # 0
  BY <1>1
<1> QED
  BY <1>1, <1>2, <1>3, <1>4

LEMMA RestOfQueue ==
  ASSUME NEW s \in Seq(Candidates), NEW n \in Nat
  PROVE  SubSeq(s, n + 1, Len(s)) \in Seq(Candidates)
OBVIOUS

LEMMA RestOfOnce ==
  ASSUME NEW s \in Seq(Candidates), D!IsInjective(s),
         NEW n \in 0..Len(s)
  PROVE  LET rest == SubSeq(s, n + 1, Len(s))
         IN  /\ D!IsInjective(rest)
             /\ D!ToSet(rest) = D!ToSet(s) \ D!ToSet(SubSeq(s, 1, n))
<1> DEFINE rest == SubSeq(s, n + 1, Len(s))
           head == SubSeq(s, 1, n)
<1>1. /\ DOMAIN rest = 1..(Len(s) - n)
      /\ \A i \in 1..(Len(s) - n) : rest[i] = s[n + i]
  OBVIOUS
<1>2. DOMAIN head = 1..n /\ \A i \in 1..n : head[i] = s[i]
  OBVIOUS
<1>3. DOMAIN s = 1..Len(s)
  OBVIOUS
<1>4. \A i, j \in 1..Len(s) : s[i] = s[j] => i = j
  BY <1>3 DEF D!IsInjective
<1> HIDE DEF rest, head
<1>5. D!IsInjective(rest)
  <2> SUFFICES ASSUME NEW i \in 1..(Len(s) - n), NEW j \in 1..(Len(s) - n),
                      rest[i] = rest[j]
               PROVE  i = j
    BY <1>1 DEF D!IsInjective
  <2>1. n + i \in 1..Len(s) /\ n + j \in 1..Len(s) /\ s[n + i] = s[n + j]
    BY <1>1
  <2> QED
    BY <1>4, <2>1
<1>6. ASSUME NEW c PROVE c \in D!ToSet(rest)
                         <=> c \in D!ToSet(s) \ D!ToSet(head)
  <2>1. c \in D!ToSet(rest) <=> \E i \in 1..(Len(s) - n) : c = s[n + i]
    BY <1>1 DEF D!ToSet
  <2>2. c \in D!ToSet(head) <=> \E i \in 1..n : c = s[i]
    BY <1>2 DEF D!ToSet
  <2>3. c \in D!ToSet(s) <=> \E i \in 1..Len(s) : c = s[i]
    BY <1>3 DEF D!ToSet
  <2>4. ASSUME NEW i \in 1..(Len(s) - n), c = s[n + i]
        PROVE  n + i \in 1..Len(s) /\ \A j \in 1..n : c # s[j]
    BY <1>4, <2>4
  <2>5. ASSUME NEW i \in 1..Len(s), c = s[i], \A j \in 1..n : c # s[j]
        PROVE  \E j \in 1..(Len(s) - n) : c = s[n + j]
    <3>1. i - n \in 1..(Len(s) - n) /\ n + (i - n) = i
      BY <2>5
    <3> QED
      BY <2>5, <3>1
  <2> QED
    BY <2>1, <2>2, <2>3, <2>4, <2>5
<1> QED
  BY <1>5, <1>6 DEF rest, head

LEMMA ListsAreLists ==
  ASSUME NEW s \in D!Lists
  PROVE  s \in Seq(Candidates) /\ D!IsInjective(s)
<1>1. PICK n \in 0..FillSize : s \in [1..n -> Candidates]
  BY DEF D!Lists
<1>2. n \in Nat
  BY HandlersAssumption
<1> QED
  BY <1>1, <1>2 DEF D!Lists

LEMMA QueueFault ==
  ASSUME D!TypeOK, D!Fault \/ UNCHANGED queueFaults
  PROVE  queueFaults' \in 0..MaxFaults
BY HandlersAssumption DEF D!TypeOK, D!Fault

LEMMA DiscoveryInit == ASSUME D!Init PROVE DiscoveryInv
<1>1. D!TypeOK
  <2>1. queueFaults \in 0..MaxFaults
    BY HandlersAssumption DEF D!Init
  <2>2. discovering \in [Requests -> D!Stages]
    BY DEF D!Init, D!Stages
  <2>3. ids \in [Requests -> Seq(Candidates)]
    BY DEF D!Init
  <2>4. \A r \in Requests :
          discovering[r] \in {"push", "trim"} <=> ids[r] # <<>>
    BY DEF D!Init
  <2>5. stored \subseteq Candidates /\ queue \in Seq(Candidates)
        /\ unseen = {} /\ orderly = TRUE
    BY DEF D!Init
  <2> QED
    BY <2>1, <2>2, <2>3, <2>4, <2>5 DEF D!TypeOK
<1>2. PushedOnce
  BY DEF D!Init, PushedOnce
<1>3. OneAtATime /\ HeadsInHand
  BY DEF D!Init, OneAtATime, HeadsInHand
<1>4. QueueUnseen
  BY DEF D!Init, QueueUnseen, D!ToSet, D!IsInjective
<1> QED
  BY <1>1, <1>2, <1>3, <1>4 DEF DiscoveryInv

LEMMA DiscoveryStutter ==
  ASSUME DiscoveryInv, UNCHANGED discovery
  PROVE  DiscoveryInv'
BY DEF discovery, DiscoveryInv, D!TypeOK, PushedOnce, OneAtATime,
  QueueUnseen, HeadsInHand, IsHead

LEMMA ReadKeeps ==
  ASSUME DiscoveryInv, NEW r \in Requests, NEW limit \in Limits,
         D!Read(r, limit)
  PROVE  DiscoveryInv'
<1> DEFINE head == D!First(limit + 1, queue)
<1>0. queue \in Seq(Candidates) /\ discovering[r] = "idle" /\ ids[r] = <<>>
  BY DEF D!Read, D!Advance, DiscoveryInv, D!TypeOK
<1>1. /\ head \in Seq(Candidates)
      /\ IsHead(head)
      /\ UNCHANGED <<stored, queue, unseen>>
  <2>1. limit + 1 \in Nat
    BY HandlersAssumption
  <2> QED
    BY <1>0, <2>1, HeadOfQueue DEF D!Read, IsHead
<1>2. orderly' = (orderly /\ D!Alone(r) /\ queueFaults' = queueFaults)
  BY DEF D!Read
<1>3. \/ /\ head # <<>> /\ UNCHANGED queueFaults
         /\ D!Advance(r, "idle", "trim")
         /\ ids' = [ids EXCEPT ![r] = head]
      \/ /\ D!Advance(r, "idle", "empty")
         /\ queueFaults' \in {queueFaults, queueFaults + 1}
         /\ queueFaults' = queueFaults + 1 => queueFaults < MaxFaults
         /\ UNCHANGED ids
  BY DEF D!Read, DiscoveryInv, D!TypeOK
<1> HIDE DEF head
<1>4. D!TypeOK'
  <2>1. queueFaults' \in 0..MaxFaults
    BY <1>3, HandlersAssumption DEF DiscoveryInv, D!TypeOK
  <2>2. discovering' \in [Requests -> D!Stages]
    BY <1>3 DEF D!Advance, D!Stages, DiscoveryInv, D!TypeOK
  <2>3. ids' \in [Requests -> Seq(Candidates)]
    BY <1>1, <1>3 DEF DiscoveryInv, D!TypeOK
  <2>4. \A q \in Requests :
          discovering'[q] \in {"push", "trim"} <=> ids'[q] # <<>>
    BY <1>0, <1>3 DEF D!Advance, DiscoveryInv, D!TypeOK
  <2>5. orderly' \in BOOLEAN
    BY ONLY <1>2
  <2> QED
    BY <1>1, <2>1, <2>2, <2>3, <2>4, <2>5 DEF DiscoveryInv, D!TypeOK
<1>5. PushedOnce'
  BY <1>0, <1>3 DEF D!Advance, DiscoveryInv, D!TypeOK, PushedOnce
<1>6. ASSUME orderly' PROVE (OneAtATime /\ QueueUnseen /\ HeadsInHand)'
  <2>1. orderly /\ D!Alone(r)
    BY <1>2, <1>6
  <2>2. \A q \in Requests : q # r => discovering'[q] = "idle"
    BY <1>3, <2>1 DEF D!Advance, D!Alone, DiscoveryInv, D!TypeOK
  <2>3. OneAtATime'
    BY <2>2 DEF OneAtATime
  <2>4. QueueUnseen'
    BY <1>1, <2>1 DEF DiscoveryInv, QueueUnseen
  <2>5. discovering'[r] = "trim" => IsHead(ids[r])'
    BY <1>1, <1>3 DEF D!Advance, DiscoveryInv, D!TypeOK, IsHead
  <2>6. HeadsInHand'
    BY <2>2, <2>5 DEF HeadsInHand
  <2> QED
    BY <2>3, <2>4, <2>6
<1> QED
  BY <1>4, <1>5, <1>6 DEF DiscoveryInv

LEMMA QueryKeeps ==
  ASSUME DiscoveryInv, NEW r \in Requests, D!Query(r)
  PROVE  DiscoveryInv'
<1>1. PICK s \in D!Lists :
        /\ ids' = [ids EXCEPT ![r] = s]
        /\ D!Advance(r, "empty", IF s = <<>> THEN "idle" ELSE "push")
  BY DEF D!Query
<1>2. UNCHANGED <<stored, queue, unseen, orderly, queueFaults>>
  BY DEF D!Query
<1>3. s \in Seq(Candidates) /\ D!IsInjective(s)
  BY ListsAreLists
<1>4. /\ discovering[r] = "empty"
      /\ discovering'[r] = IF s = <<>> THEN "idle" ELSE "push"
      /\ ids'[r] = s
      /\ \A q \in Requests \ {r} :
           discovering'[q] = discovering[q] /\ ids'[q] = ids[q]
  BY <1>1 DEF D!Advance, DiscoveryInv, D!TypeOK
<1>5. D!TypeOK'
  <2>1. discovering' \in [Requests -> D!Stages]
    BY <1>1 DEF D!Advance, D!Stages, DiscoveryInv, D!TypeOK
  <2>2. ids' \in [Requests -> Seq(Candidates)]
    BY <1>1, <1>3 DEF DiscoveryInv, D!TypeOK
  <2>3. \A q \in Requests :
          discovering'[q] \in {"push", "trim"} <=> ids'[q] # <<>>
    BY <1>4 DEF DiscoveryInv, D!TypeOK
  <2> QED
    BY <1>2, <2>1, <2>2, <2>3 DEF DiscoveryInv, D!TypeOK
<1>6. PushedOnce'
  BY <1>3, <1>4 DEF DiscoveryInv, PushedOnce
<1>7. ASSUME orderly' PROVE (OneAtATime /\ QueueUnseen /\ HeadsInHand)'
  BY <1>2, <1>4, <1>7
  DEF DiscoveryInv, OneAtATime, QueueUnseen, HeadsInHand, IsHead
<1> QED
  BY <1>5, <1>6, <1>7 DEF DiscoveryInv

LEMMA PushKeeps ==
  ASSUME DiscoveryInv, NEW r \in Requests, D!Push(r)
  PROVE  DiscoveryInv'
<1> DEFINE head == D!First(DiscoveryPage, ids[r])
<1>0. /\ discovering[r] = "push" /\ ids[r] \in Seq(Candidates)
      /\ ids[r] # <<>> /\ D!IsInjective(ids[r])
  BY DEF D!Push, D!Advance, DiscoveryInv, D!TypeOK, PushedOnce
<1>1. /\ head \in Seq(Candidates) /\ head # <<>> /\ Len(head) <= Len(ids[r])
      /\ head = SubSeq(ids[r], 1, Len(head))
  BY <1>0, HeadOfQueue, HandlersAssumption
<1>2. ids' = [ids EXCEPT ![r] = head] /\ UNCHANGED stored
  BY DEF D!Push, DiscoveryInv, D!TypeOK
<1>3. discovering' = [discovering EXCEPT ![r] = "trim"]
  BY DEF D!Push, D!Advance
<1>4. \/ /\ queue' = queue \o ids[r]
         /\ unseen' = D!ToSet(ids[r])
         /\ orderly' = (queue = <<>> /\ D!Alone(r))
         /\ UNCHANGED queueFaults
      \/ D!Fault /\ orderly' = FALSE /\ UNCHANGED <<queue, unseen>>
  BY DEF D!Push
<1> HIDE DEF head
<1>5. D!TypeOK'
  <2>1. queueFaults' \in 0..MaxFaults
    BY <1>4, QueueFault DEF DiscoveryInv
  <2>2. discovering' \in [Requests -> D!Stages]
    BY <1>3 DEF D!Stages, DiscoveryInv, D!TypeOK
  <2>3. ids' \in [Requests -> Seq(Candidates)]
    BY <1>1, <1>2 DEF DiscoveryInv, D!TypeOK
  <2>4. \A q \in Requests :
          discovering'[q] \in {"push", "trim"} <=> ids'[q] # <<>>
    BY <1>1, <1>2, <1>3 DEF DiscoveryInv, D!TypeOK
  <2>5. orderly' \in BOOLEAN
    BY ONLY <1>4
  <2>6. queue' \in Seq(Candidates)
    <3>1. queue \in Seq(Candidates)
      BY DEF DiscoveryInv, D!TypeOK
    <3>2. queue \o ids[r] \in Seq(Candidates)
      BY <1>0, <3>1, ConcatProperties
    <3> QED
      BY <1>4, <3>1, <3>2
  <2>7. unseen' \subseteq Candidates
    BY <1>0, <1>4 DEF DiscoveryInv, D!TypeOK, D!ToSet
  <2> QED
    BY <1>2, <2>1, <2>2, <2>3, <2>4, <2>5, <2>6, <2>7
    DEF DiscoveryInv, D!TypeOK
<1>6. PushedOnce'
  BY <1>2, <1>3 DEF DiscoveryInv, D!TypeOK, PushedOnce
<1>7. ASSUME orderly' PROVE (OneAtATime /\ QueueUnseen /\ HeadsInHand)'
  <2>1. queue = <<>> /\ D!Alone(r) /\ queue' = queue \o ids[r]
        /\ unseen' = D!ToSet(ids[r])
    BY <1>4, <1>7
  <2>2. queue' = ids[r]
    BY <1>0, <2>1
  <2>3. \A q \in Requests : q # r => discovering'[q] = "idle"
    BY <1>3, <2>1 DEF D!Alone, DiscoveryInv, D!TypeOK
  <2>4. ids'[r] = head
    BY <1>2 DEF DiscoveryInv, D!TypeOK
  <2>5. IsHead(ids[r])'
    BY <1>1, <2>2, <2>4 DEF IsHead
  <2> QED
    BY <1>0, <2>1, <2>2, <2>3, <2>5 DEF OneAtATime, QueueUnseen, HeadsInHand
<1> QED
  BY <1>5, <1>6, <1>7 DEF DiscoveryInv

(* What a request leaves behind that is done or dead.                      *)
LEMMA Idle ==
  ASSUME DiscoveryInv, NEW r \in Requests,
         discovering' = [discovering EXCEPT ![r] = "idle"],
         ids' = [ids EXCEPT ![r] = <<>>]
  PROVE  /\ discovering' \in [Requests -> D!Stages]
         /\ ids' \in [Requests -> Seq(Candidates)]
         /\ \A q \in Requests :
              discovering'[q] \in {"push", "trim"} <=> ids'[q] # <<>>
         /\ PushedOnce'
<1>1. discovering' \in [Requests -> D!Stages]
  BY DEF D!Stages, DiscoveryInv, D!TypeOK
<1>2. ids' \in [Requests -> Seq(Candidates)]
  BY DEF DiscoveryInv, D!TypeOK
<1>3. \A q \in Requests :
        discovering'[q] \in {"push", "trim"} <=> ids'[q] # <<>>
  BY DEF DiscoveryInv, D!TypeOK
<1>4. PushedOnce'
  BY DEF DiscoveryInv, D!TypeOK, PushedOnce
<1> QED
  BY <1>1, <1>2, <1>3, <1>4

LEMMA TrimKeeps ==
  ASSUME DiscoveryInv, NEW r \in Requests, D!Trim(r) \/ D!TrimUnread(r)
  PROVE  DiscoveryInv'
<1>0. /\ discovering[r] = "trim" /\ ids[r] \in Seq(Candidates)
      /\ queue \in Seq(Candidates) /\ Len(ids[r]) \in Nat
  BY DEF D!Trim, D!TrimUnread, D!Advance, DiscoveryInv, D!TypeOK
<1>1. /\ discovering' = [discovering EXCEPT ![r] = "idle"]
      /\ ids' = [ids EXCEPT ![r] = <<>>]
      /\ UNCHANGED stored
  BY DEF D!Trim, D!TrimUnread, D!Advance
<1>2. \/ /\ queue' = D!Trimmed(r)
         /\ unseen' = unseen \ D!ToSet(ids[r])
         /\ UNCHANGED <<orderly, queueFaults>>
      \/ /\ D!Fault /\ orderly' = FALSE
         /\ queue' \in {queue, D!Trimmed(r)}
         /\ unseen' \in {unseen, unseen \ D!ToSet(ids[r])}
  BY DEF D!Trim, D!TrimUnread, D!Redis
<1>3. D!Trimmed(r) \in Seq(Candidates)
  BY <1>0, RestOfQueue DEF D!Trimmed
<1>4. D!TypeOK'
  <2>1. queueFaults' \in 0..MaxFaults
    BY <1>2, QueueFault DEF DiscoveryInv
  <2>2. queue' \in Seq(Candidates) /\ unseen' \subseteq Candidates
    BY <1>0, <1>2, <1>3 DEF DiscoveryInv, D!TypeOK
  <2>3. orderly' \in BOOLEAN
    BY <1>2 DEF DiscoveryInv, D!TypeOK
  <2> QED
    BY <1>1, <2>1, <2>2, <2>3, Idle DEF DiscoveryInv, D!TypeOK
<1>5. ASSUME orderly' PROVE (OneAtATime /\ QueueUnseen /\ HeadsInHand)'
  <2>1. /\ orderly /\ queue' = D!Trimmed(r)
        /\ unseen' = unseen \ D!ToSet(ids[r])
    BY <1>2, <1>5
  <2>2. \A q \in Requests : discovering'[q] = "idle"
    BY <1>0, <1>1, <2>1 DEF DiscoveryInv, D!TypeOK, OneAtATime
  <2>3. /\ Len(ids[r]) \in 0..Len(queue)
        /\ ids[r] = SubSeq(queue, 1, Len(ids[r]))
    BY <1>0, <2>1 DEF DiscoveryInv, HeadsInHand, IsHead
  <2>4. D!ToSet(queue) = unseen /\ D!IsInjective(queue)
    BY <2>1 DEF DiscoveryInv, QueueUnseen
  <2>5. /\ D!IsInjective(D!Trimmed(r))
        /\ D!ToSet(D!Trimmed(r)) = D!ToSet(queue) \ D!ToSet(ids[r])
    BY <1>0, <2>3, <2>4, RestOfOnce DEF D!Trimmed
  <2>6. QueueUnseen'
    BY <2>1, <2>4, <2>5 DEF QueueUnseen
  <2> QED
    BY <2>2, <2>6 DEF OneAtATime, HeadsInHand
<1> QED
  BY <1>1, <1>4, <1>5, Idle DEF DiscoveryInv

LEMMA DieKeeps ==
  ASSUME DiscoveryInv, NEW r \in Requests, D!Die(r)
  PROVE  DiscoveryInv'
<1>1. queueFaults' \in 0..MaxFaults
  BY QueueFault DEF DiscoveryInv, D!Die
<1> QED
  BY <1>1, Idle DEF D!Die, DiscoveryInv, D!TypeOK

LEMMA DiscoveryStep ==
  ASSUME DiscoveryInv, D!Next
  PROVE  DiscoveryInv'
<1>1. CASE D!Expired
  <2>1. queueFaults' \in 0..MaxFaults
    BY <1>1, QueueFault DEF DiscoveryInv, D!Expired
  <2>2. <<>> \in Seq(Candidates)
    OBVIOUS
  <2> QED
    BY <1>1, <2>1, <2>2 DEF D!Expired, DiscoveryInv, D!TypeOK, PushedOnce
<1>2. ASSUME NEW c \in Candidates, D!Store(c) PROVE DiscoveryInv'
  BY <1>2 DEF D!Store, DiscoveryInv, D!TypeOK, PushedOnce, OneAtATime,
    QueueUnseen, HeadsInHand, IsHead
<1> QED
  BY <1>1, <1>2, ReadKeeps, QueryKeeps, PushKeeps, TrimKeeps, DieKeeps
  DEF D!Next, D!GetDiscovery

LEMMA NothingDroppedNow == ASSUME DiscoveryInv PROVE D!NothingDropped
BY DEF DiscoveryInv, QueueUnseen, D!NothingDropped

-----------------------------------------------------------------------------
(* The four together.                                                      *)

HandlersInv == AvatarInv /\ ChatsInv /\ F!TypeOK /\ DiscoveryInv

LEMMA HandlersInit == Init => HandlersInv
BY AvatarInit, ChatsInit, FansInit, DiscoveryInit DEF Init, HandlersInv

LEMMA HandlersStep == (HandlersInv /\ [Next]_vars) => HandlersInv'
<1> SUFFICES ASSUME HandlersInv, [Next]_vars
             PROVE  HandlersInv'
  OBVIOUS
<1> USE DEF HandlersInv
<1>1. CASE Avatar(A!Next)
  BY <1>1, AvatarStep, ChatsStutter, FansStutter, DiscoveryStutter DEF Avatar
<1>2. CASE Chatlist(C!Next)
  BY <1>2, AvatarStutter, ChatsStep, FansStutter, DiscoveryStutter
  DEF Chatlist
<1>3. CASE Fanlist(F!Next)
  BY <1>3, AvatarStutter, ChatsStutter, FansStep, DiscoveryStutter
  DEF Fanlist
<1>4. CASE Queue(D!Next)
  BY <1>4, AvatarStutter, ChatsStutter, FansStutter, DiscoveryStep DEF Queue
<1>5. CASE UNCHANGED vars
  BY <1>5, AvatarStutter, ChatsStutter, FansStutter, DiscoveryStutter
  DEF vars
<1> QED
  BY <1>1, <1>2, <1>3, <1>4, <1>5 DEF Next

LEMMA HandlersInvAlways == FairSpec => []HandlersInv
BY HandlersInit, HandlersStep, PTL DEF FairSpec

(* The variables of the four keep their types; locks on the profile are    *)
(* held by open transactions only, a key of Redis exists if and only if it *)
(* holds something, and a request that is to trim the queue has something  *)
(* in hand (profile_photo_handler.go, chat_handler.go and                  *)
(* reaction_handler.go of internal/transport/rest).                        *)
THEOREM HandlersTypeCorrect == FairSpec => []TypeOK
<1>1. HandlersInv => TypeOK
  BY DEF HandlersInv, AvatarInv, ChatsInv, DiscoveryInv, TypeOK
<1> QED
  BY <1>1, HandlersInvAlways, PTL

(* The photo of the profile is always that of a row marked as the current  *)
(* one, and two rows are marked only if their transactions overlapped,     *)
(* neither having seen the row of the other (ConfirmUpload,                *)
(* profile_photo_handler.go lines 114-131).                                *)
THEOREM AvatarsAgreeAlways == FairSpec => []AvatarsAgree
<1>1. HandlersInv => AvatarsAgree
  BY AvatarsAgreeNow DEF HandlersInv, AvatarsAgree
<1> QED
  BY <1>1, HandlersInvAlways, PTL

(* While requests of a user do not overlap and no command fails, the queue *)
(* holds exactly the profiles of its filling that no answer had, each      *)
(* once, whatever the limits of the requests and the size of the page      *)
(* (GetDiscovery, reaction_handler.go lines 32-57).                        *)
THEOREM NothingDroppedAlways == FairSpec => []NothingDropped
<1>1. HandlersInv => NothingDropped
  BY NothingDroppedNow DEF HandlersInv, NothingDropped
<1> QED
  BY <1>1, HandlersInvAlways, PTL
=============================================================================
