----------------------------- MODULE MCHandlers -----------------------------
(* An instance of the handlers that serve the data of one user.  The       *)
(* avatar, the list of chats, the fans and the queue of discovery share no *)
(* row and no key that one of them changes and another reads, so each      *)
(* behaviour is of one of them, and the others stand still.                *)
EXTENDS Naturals, Sequences

CONSTANTS
  Requests, Uploads, FanRequests, Users, Candidates, Chats, NoPhoto,
  MaxSecond, Limits, DiscoveryPage, FillSize, PageSize, MaxFaults

(* The limits of a request, of the query of the candidates and of the page *)
(* it fills (reaction_handler.go lines 27-30, 40 and 49).                  *)
ASSUME HandlersAssumption ==
  /\ Limits \subseteq Nat
  /\ DiscoveryPage \in Nat \ {0}
  /\ FillSize \in Nat
  /\ MaxFaults \in Nat

VARIABLES
  handler,
  second, migrated, profile, photo, key, uploading, found, wrote, row,
  member, open, list, raw, chatsTtl, getting, plucked, listed, chatFaults,
  likes, rated, told, kind, cached, fansTtl, liking, read, seen, fanFaults,
  stored, queue, discovering, ids, unseen, orderly, queueFaults

avatar ==
  <<second, migrated, profile, photo, key, uploading, found, wrote, row>>
chats ==
  <<member, open, list, raw, chatsTtl, getting, plucked, listed, chatFaults>>
fans ==
  <<likes, rated, told, kind, cached, fansTtl, liking, read, seen, fanFaults>>
discovery ==
  <<stored, queue, discovering, ids, unseen, orderly, queueFaults>>
vars == <<handler, avatar, chats, fans, discovery>>

A == INSTANCE Avatars WITH Requests <- Uploads,
       stage <- uploading, seen <- found
C == INSTANCE ChatLists WITH ttl <- chatsTtl, stage <- getting,
       ids <- plucked, shown <- listed, faults <- chatFaults
F == INSTANCE Fans WITH Requests <- FanRequests, ttl <- fansTtl,
       stage <- liking, ids <- read, shown <- seen, faults <- fanFaults
D == INSTANCE Discovery WITH PageSize <- DiscoveryPage,
       stage <- discovering, faults <- queueFaults

Init ==
  /\ handler \in {"avatar", "chats", "fans", "discovery"}
  /\ A!Init
  /\ C!Init
  /\ F!Init
  /\ D!Init
  /\ handler # "avatar" => migrated
  /\ handler # "discovery" => stored = {}

Avatar(act) ==
  handler = "avatar" /\ act /\ UNCHANGED <<handler, chats, fans, discovery>>
Chatlist(act) ==
  handler = "chats" /\ act /\ UNCHANGED <<handler, avatar, fans, discovery>>
Fanlist(act) ==
  handler = "fans" /\ act /\ UNCHANGED <<handler, avatar, chats, discovery>>
Queue(act) ==
  handler = "discovery" /\ act
    /\ UNCHANGED <<handler, avatar, chats, fans>>

Next ==
  \/ Avatar(A!Next)
  \/ Chatlist(C!Next)
  \/ Fanlist(F!Next)
  \/ Queue(D!Next)

Fairness ==
  /\ WF_vars(Chatlist(C!Elapse))
  /\ WF_vars(Fanlist(F!Elapse))
  /\ \A r \in Requests :
       /\ WF_vars(Chatlist(C!GetChats(r)))
       /\ WF_vars(Chatlist(C!Read(r, TRUE)))
  /\ \A r \in FanRequests :
       /\ WF_vars(Fanlist(F!GetLikingProfiles(r)))
       /\ WF_vars(Fanlist(F!Read(r, TRUE)))

FairSpec == Init /\ [][Next]_vars /\ Fairness

TypeOK == A!TypeOK /\ C!TypeOK /\ F!TypeOK /\ D!TypeOK
AvatarsAgree == A!AvatarsAgree
EventuallyListed == handler = "chats" => C!EventuallyListed
EventuallySeen == handler = "fans" => F!EventuallySeen
NothingDropped == D!NothingDropped
=============================================================================
