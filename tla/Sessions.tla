------------------------------ MODULE Sessions ------------------------------
(***************************************************************************)
(* Accounts and their sessions: RegisterUser, Refresh, Logout and          *)
(* createSession of internal/transport/rest/register_user_handler.go and   *)
(* session_handler.go.                                                     *)
(*                                                                         *)
(* A session is a row of Postgres under its refresh token.  A handler runs *)
(* its statements one by one, outside any transaction, next to other       *)
(* handlers with the same token, and answers at the end; what the client   *)
(* knows is what an answer told it.  Refresh and Logout are behind the     *)
(* check of the access token.  LoginUser has no action: it calls           *)
(* c.Validate, and as no validator is registered it refuses every request. *)
(***************************************************************************)
EXTENDS Naturals, Sequences, FiniteSets

CONSTANTS
  Users,        \* emails that may be registered
  Handlers,     \* the requests that can be served at a time
  MaxSessions,  \* bound: sessions ever created
  MaxFaults     \* bound: failed statements, lost answers, dead pods

ASSUME SessionsAssumption ==
  /\ Users # {}
  /\ IsFiniteSet(Handlers)
  /\ MaxSessions \in Nat
  /\ MaxFaults \in Nat

Token == 1..MaxSessions

VARIABLES
  users,     \* the table users
  issued,    \* every session ever created, its token is its index
  sessions,  \* tokens of the rows in the table sessions
  expired,   \* tokens past their expires_at
  closed,    \* tokens of the session_terminated events sent
  known,     \* known[u]: refresh tokens the client of u was told
  access,    \* access[u]: that client has an access token that is valid
  pc,        \* pc[h]: the next statement of the handler
  who,       \* who[h]: the user the request is from
  token,     \* token[h]: the refresh token it works on
  faults     \* faults so far

client == <<known, access>>
local == <<pc, who, token>>
vars == <<users, issued, sessions, expired, closed, client, local, faults>>

\* origin is the token a session replaced, 0 for a first one.
Session == [user : Users, origin : Token \cup {0}]

Steps == {"idle", "session", "publish", "select", "purge", "delete", "create",
          "answer", "logout", "announce"}

Fault == faults < MaxFaults /\ faults' = faults + 1

SomeUser == CHOOSE u \in Users : TRUE

Goto(h, p) == pc' = [pc EXCEPT ![h] = p] /\ UNCHANGED <<who, token>>

\* The handler returns, its variables are gone.
Return(h) ==
  /\ pc' = [pc EXCEPT ![h] = "idle"]
  /\ who' = [who EXCEPT ![h] = SomeUser]
  /\ token' = [token EXCEPT ![h] = 0]

Start(h, p, u, t) ==
  /\ pc[h] = "idle"
  /\ pc' = [pc EXCEPT ![h] = p]
  /\ who' = [who EXCEPT ![h] = u]
  /\ token' = [token EXCEPT ![h] = t]

-----------------------------------------------------------------------------
(* createSession, and the answer with its two tokens.                      *)

(* Mutant: the row is stored under the token before.                       *)
createUnderOld(h, u, origin, after) ==
  /\ Len(issued) < MaxSessions
  /\ issued' = Append(issued, [user |-> u, origin |-> origin])
  /\ sessions' = sessions \cup {Len(issued)}
  /\ pc' = [pc EXCEPT ![h] = after]
  /\ token' = [token EXCEPT ![h] = Len(issued) + 1]
  /\ UNCHANGED <<who, faults>>

createSession(h, u, origin, after) ==
  \/ /\ Len(issued) < MaxSessions
     /\ issued' = Append(issued, [user |-> u, origin |-> origin])
     /\ sessions' = sessions \cup {Len(issued) + 1}
     /\ pc' = [pc EXCEPT ![h] = after]
     /\ token' = [token EXCEPT ![h] = Len(issued) + 1]
     /\ UNCHANGED <<who, faults>>
  \/ Fault /\ Return(h) /\ UNCHANGED <<issued, sessions>>

\* An error before the answer, or the loss of it, keeps the tokens from
\* the client.
Answer(h) ==
  \/ /\ known' = [known EXCEPT ![who[h]] = @ \cup {token[h]}]
     /\ access' = [access EXCEPT ![who[h]] = TRUE]
     /\ UNCHANGED faults
  \/ Fault /\ UNCHANGED client

-----------------------------------------------------------------------------
(* RegisterUser.  The email is unique: a second request for it changes     *)
(* nothing.                                                                *)

Register(h, u) ==
  /\ u \notin users
  /\ users' = users \cup {u}
  /\ Start(h, "session", u, 0)
  /\ UNCHANGED <<issued, sessions, expired, closed, client, faults>>

RegisterSession(h) ==
  /\ pc[h] = "session"
  /\ createSession(h, who[h], 0, "publish")
  /\ UNCHANGED <<users, expired, closed, client>>

(* An error of Kafka is answered without the tokens.                       *)
RegisterPublish(h) ==
  /\ pc[h] = "publish"
  /\ Answer(h)
  /\ Return(h)
  /\ UNCHANGED <<users, issued, sessions, expired, closed>>

-----------------------------------------------------------------------------
(* Refresh.                                                                *)

Refresh(h, u, t) ==
  /\ access[u]
  /\ t \in known[u]
  /\ Start(h, "select", u, t)
  /\ UNCHANGED <<users, issued, sessions, expired, closed, client, faults>>

(* Mutants: the old row is not deleted; the expiry is compared the wrong   *)
(* way round.                                                              *)
SelectToCreate(h) ==
  /\ pc[h] = "select"
  /\ Goto(h, IF token[h] \in sessions \ expired THEN "create" ELSE "purge")
  /\ UNCHANGED <<users, issued, sessions, expired, closed, client, faults>>

SelectExpired(h) ==
  /\ pc[h] = "select"
  /\ Goto(h, IF token[h] \in sessions \cap expired THEN "delete" ELSE "purge")
  /\ UNCHANGED <<users, issued, sessions, expired, closed, client, faults>>

(* No row and an error of Postgres are the same to the code: it deletes    *)
(* the session.                                                            *)
Select(h) ==
  /\ pc[h] = "select"
  /\ \/ /\ token[h] \in sessions \ expired
        /\ Goto(h, "delete")
        /\ UNCHANGED faults
     \/ /\ Goto(h, "purge")
        /\ \/ token[h] \notin sessions \ expired /\ UNCHANGED faults
           \/ Fault
  /\ UNCHANGED <<users, issued, sessions, expired, closed, client>>

Purge(h) ==
  /\ pc[h] = "purge"
  /\ \/ sessions' = sessions \ {token[h]} /\ UNCHANGED faults
     \/ Fault /\ UNCHANGED sessions
  /\ Return(h)
  /\ UNCHANGED <<users, issued, expired, closed, client>>

(* The error of the deletion is dropped.                                   *)
Delete(h) ==
  /\ pc[h] = "delete"
  /\ \/ sessions' = sessions \ {token[h]} /\ UNCHANGED faults
     \/ Fault /\ UNCHANGED sessions
  /\ Goto(h, "create")
  /\ UNCHANGED <<users, issued, expired, closed, client>>

Create(h) ==
  /\ pc[h] = "create"
  /\ createSession(h, issued[token[h]].user, token[h], "answer")
  /\ UNCHANGED <<users, expired, closed, client>>

(* Mutant: the answer repeats the token of the request.                    *)
AnswerOld(h) ==
  /\ pc[h] = "answer"
  /\ known' = [known EXCEPT ![who[h]] = @ \cup {issued[token[h]].origin}]
  /\ access' = [access EXCEPT ![who[h]] = TRUE]
  /\ Return(h)
  /\ UNCHANGED <<users, issued, sessions, expired, closed, faults>>

RefreshAnswer(h) ==
  /\ pc[h] = "answer"
  /\ Answer(h)
  /\ Return(h)
  /\ UNCHANGED <<users, issued, sessions, expired, closed>>

-----------------------------------------------------------------------------
(* Logout.                                                                 *)

Logout(h, u, t) ==
  /\ access[u]
  /\ t \in known[u]
  /\ Start(h, "logout", u, t)
  /\ UNCHANGED <<users, issued, sessions, expired, closed, client, faults>>

(* Mutant: the error of the deletion is dropped, as in Refresh.            *)
LogoutRegardless(h) ==
  /\ pc[h] = "logout"
  /\ \/ sessions' = sessions \ {token[h]} /\ UNCHANGED faults
     \/ Fault /\ UNCHANGED sessions
  /\ Goto(h, "announce")
  /\ UNCHANGED <<users, issued, expired, closed, client>>

LogoutDelete(h) ==
  /\ pc[h] = "logout"
  /\ \/ /\ sessions' = sessions \ {token[h]}
        /\ Goto(h, "announce")
        /\ UNCHANGED faults
     \/ Fault /\ Return(h) /\ UNCHANGED sessions
  /\ UNCHANGED <<users, issued, expired, closed, client>>

Announce(h) ==
  /\ pc[h] = "announce"
  /\ \/ closed' = closed \cup {token[h]} /\ UNCHANGED faults
     \/ Fault /\ UNCHANGED closed
  /\ Return(h)
  /\ UNCHANGED <<users, issued, sessions, expired, client>>

-----------------------------------------------------------------------------
(* Time, and the pod that serves a request.                                *)

\* The expiry of a session that is no row any more is seen by nobody.
Expire(t) ==
  /\ t \in sessions \ expired
  /\ expired' = expired \cup {t}
  /\ UNCHANGED <<users, issued, sessions, closed, client, local, faults>>

AccessExpire(u) ==
  /\ access[u]
  /\ access' = [access EXCEPT ![u] = FALSE]
  /\ UNCHANGED <<users, issued, sessions, expired, closed, known, local,
                 faults>>

Crash(h) ==
  /\ pc[h] # "idle"
  /\ Fault
  /\ Return(h)
  /\ UNCHANGED <<users, issued, sessions, expired, closed, client>>

Init ==
  /\ users = {}
  /\ issued = <<>>
  /\ sessions = {}
  /\ expired = {}
  /\ closed = {}
  /\ known = [u \in Users |-> {}]
  /\ access = [u \in Users |-> FALSE]
  /\ pc = [h \in Handlers |-> "idle"]
  /\ who = [h \in Handlers |-> SomeUser]
  /\ token = [h \in Handlers |-> 0]
  /\ faults = 0

HandlerStep(h) ==
  \/ RegisterSession(h) \/ RegisterPublish(h)
  \/ Select(h) \/ Purge(h) \/ Delete(h) \/ Create(h) \/ RefreshAnswer(h)
  \/ LogoutDelete(h) \/ Announce(h)

Next ==
  \/ \E h \in Handlers :
       \/ \E u \in Users : Register(h, u)
       \/ \E u \in Users, t \in Token : Refresh(h, u, t) \/ Logout(h, u, t)
       \/ HandlerStep(h)
       \/ Crash(h)
  \/ \E t \in Token : Expire(t)
  \/ \E u \in Users : AccessExpire(u)

Spec == Init /\ [][Next]_vars

-----------------------------------------------------------------------------
(* Properties.                                                             *)

TypeOK ==
  /\ users \subseteq Users
  /\ issued \in Seq(Session) /\ Len(issued) <= MaxSessions
  /\ sessions \subseteq DOMAIN issued
  /\ expired \subseteq DOMAIN issued
  /\ closed \subseteq DOMAIN issued
  /\ known \in [Users -> SUBSET DOMAIN issued]
  /\ access \in [Users -> BOOLEAN]
  /\ pc \in [Handlers -> Steps]
  /\ who \in [Handlers -> Users]
  /\ token \in [Handlers -> DOMAIN issued \cup {0}]
  /\ faults \in 0..MaxFaults

At(p, t) == \E h \in Handlers : pc[h] = p /\ token[h] = t

Successors(t) == {s \in DOMAIN issued : issued[s].origin = t}

(* A session that was announced as terminated is no row of the table, not  *)
(* even after failed statements and dead pods.                             *)
ClosedGone == closed \cap sessions = {}

(* Refresh rotates, whatever requests race: a session that has been        *)
(* replaced is still valid only where a statement failed, and one failure  *)
(* leaves one such session, however often it is refreshed afterwards       *)
(* (session_handler.go line 65, whose error is dropped).                   *)
Rotated == Cardinality({t \in sessions : Successors(t) # {}}) <= faults

(* Two requests with one refresh token may both get a new session, but no  *)
(* token has more successors than requests were served at once.            *)
FewSuccessors ==
  faults = 0 =>
    \A t \in DOMAIN issued : Cardinality(Successors(t)) <= Cardinality(Handlers)

\* Sessions that are gone with nothing in their place, though they had not
\* expired and no Logout was announced or is about to be.
Lost ==
  {t \in DOMAIN issued \ (sessions \cup expired \cup closed) :
     Successors(t) = {} /\ ~At("create", t) /\ ~At("announce", t)}

\* Accounts that never had a session, and for which none is being made.
Stranded ==
  {u \in users : /\ \A h \in Handlers : ~(pc[h] = "session" /\ who[h] = u)
                 /\ \A t \in DOMAIN issued : issued[t].user # u}

(* An account loses its way in by a failure only, and by one failure no    *)
(* more than one: a query that failed and is taken for a missing session,  *)
(* a session deleted and not replaced, a user stored without a session     *)
(* (session_handler.go lines 58-66, register_user_handler.go lines 47-60). *)
(* Races of requests lose nobody's.                                        *)
ChainKept == Cardinality(Lost) + Cardinality(Stranded) <= faults

\* Sessions nobody can use: their client was not told and will not be.
Orphans ==
  {t \in DOMAIN issued :
     t \notin known[issued[t].user] /\ ~At("publish", t) /\ ~At("answer", t)}

(* A session is kept from its client by a failed event, a lost answer or a *)
(* dead pod only, and each of them costs one (register_user_handler.go     *)
(* line 65, session_handler.go line 73): no race of requests leaves a      *)
(* session behind that no client can use or end.                           *)
NoOrphan == Cardinality(Orphans) <= faults

-----------------------------------------------------------------------------
(* Inductive invariants of the proofs.                                     *)

\* A handler past its first statement works on a session that was created.
Busy ==
  \A h \in Handlers :
    pc[h] \notin {"idle", "session"} => token[h] \in DOMAIN issued

\* What Logout has deleted is gone before it is announced.
Gone ==
  /\ ClosedGone
  /\ \A h \in Handlers : pc[h] = "announce" => token[h] \notin sessions

\* A token is replaced after its row is gone.
Replaced ==
  faults = 0 =>
    /\ \A s \in DOMAIN issued :
         issued[s].origin \in (DOMAIN issued \cup {0}) \ sessions
    /\ \A h \in Handlers : pc[h] = "create" => token[h] \notin sessions

\* FewSuccessors, made inductive: who is about to make one counts already.
Rotating(t) ==
  {h \in Handlers : pc[h] \in {"delete", "create"} /\ token[h] = t}

Room ==
  faults = 0 =>
    \A t \in DOMAIN issued :
      Cardinality(Successors(t)) + Cardinality(Rotating(t))
        <= Cardinality(Handlers)

\* A session replaces an earlier one, or none.
Earlier == \A s \in DOMAIN issued : issued[s].origin \in 0..(s - 1)

\* Rotated, made inductive: who is about to replace a session counts too.
Doubled == {t \in sessions : Successors(t) # {} \/ At("create", t)}
DoubledFew == Cardinality(Doubled) <= faults

\* ChainKept, made inductive: what is about to be deleted counts too.
Doomed ==
  Lost \cup {t \in sessions \ (expired \cup closed) :
               Successors(t) = {} /\ At("purge", t)}
DoomedFew ==
  IsFiniteSet(Stranded) /\ Cardinality(Doomed) + Cardinality(Stranded) <= faults

\* A client knows tokens of its own sessions, and a handler works on a
\* session of the user it will answer.
Addressed ==
  /\ \A u \in Users : \A t \in known[u] : issued[t].user = u
  /\ \A h \in Handlers :
       pc[h] \notin {"idle", "session"} => issued[token[h]].user = who[h]

=============================================================================
