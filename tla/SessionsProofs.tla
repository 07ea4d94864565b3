--------------------------- MODULE SessionsProofs ---------------------------
(* What holds of Sessions for every set of users and of handlers and every *)
(* number of sessions and of faults.                                       *)
EXTENDS Sessions, FiniteSetTheorems, TLAPS

LEMMA SomeUserIn == SomeUser \in Users
  BY SessionsAssumption DEF SomeUser

(* What one more session does to the sequence of all of them.              *)
LEMMA OneMore ==
  ASSUME TypeOK, NEW u \in Users, NEW o \in Token \cup {0},
         Len(issued) < MaxSessions,
         issued' = Append(issued, [user |-> u, origin |-> o])
  PROVE  /\ issued' \in Seq(Session)
         /\ Len(issued') = Len(issued) + 1
         /\ Len(issued') <= MaxSessions
         /\ DOMAIN issued' = DOMAIN issued \cup {Len(issued) + 1}
         /\ Len(issued) + 1 \notin DOMAIN issued
         /\ \A t \in DOMAIN issued : issued'[t] = issued[t]
         /\ issued'[Len(issued) + 1] = [user |-> u, origin |-> o]
<1>1. [user |-> u, origin |-> o] \in Session
  BY DEF Session
<1>2. issued \in Seq(Session)
  BY DEF TypeOK
<1>3. Len(issued) \in Nat /\ MaxSessions \in Nat
  BY <1>2, SessionsAssumption
<1>. QED
  BY <1>1, <1>2, <1>3

(* A token that was issued is one of Token, its row has a user and an      *)
(* origin.                                                                 *)
LEMMA Issued ==
  ASSUME TypeOK, NEW t \in DOMAIN issued
  PROVE  /\ t \in Token
         /\ issued[t].user \in Users
         /\ issued[t].origin \in Token \cup {0}
<1>1. issued \in Seq(Session) /\ Len(issued) <= MaxSessions
  BY DEF TypeOK
<1>2. DOMAIN issued = 1..Len(issued) /\ Len(issued) \in Nat
  BY <1>1
<1>3. issued[t] \in Session
  BY <1>1
<1>. QED
  BY <1>1, <1>2, <1>3, SessionsAssumption DEF Token, Session

-----------------------------------------------------------------------------
(* Types.                                                                  *)

LEMMA CreateTyped ==
  ASSUME TypeOK, Busy, NEW h \in Handlers, NEW u \in Users,
         NEW o \in Token \cup {0}, NEW p \in Steps,
         createSession(h, u, o, p),
         UNCHANGED <<users, expired, closed, client>>
  PROVE  TypeOK' /\ Busy'
<1>1. CASE UNCHANGED <<issued, sessions>> /\ Fault /\ Return(h)
  <2>1. faults' \in 0..MaxFaults
    BY <1>1, SessionsAssumption DEF Fault, TypeOK
  <2>. QED
    BY <1>1, <2>1, SomeUserIn DEF TypeOK, Busy, Return, client, Steps
<1>2. CASE /\ Len(issued) < MaxSessions
           /\ issued' = Append(issued, [user |-> u, origin |-> o])
           /\ sessions' = sessions \cup {Len(issued) + 1}
           /\ pc' = [pc EXCEPT ![h] = p]
           /\ token' = [token EXCEPT ![h] = Len(issued) + 1]
           /\ UNCHANGED <<who, faults>>
  <2>1. /\ issued' \in Seq(Session)
        /\ Len(issued') <= MaxSessions
        /\ DOMAIN issued' = DOMAIN issued \cup {Len(issued) + 1}
    BY <1>2, OneMore
  <2>2. TypeOK'
    BY <1>2, <2>1 DEF TypeOK, client
  <2>3. Busy'
    BY <1>2, <2>1 DEF TypeOK, Busy
  <2>. QED
    BY <2>2, <2>3
<1>. QED
  BY <1>1, <1>2 DEF createSession

LEMMA TypeStep ==
  ASSUME TypeOK, Busy, [Next]_vars
  PROVE  TypeOK' /\ Busy'
<1>. USE DEF client, local
<1>1. Fault => faults' \in 0..MaxFaults
  BY SessionsAssumption DEF Fault, TypeOK
<1>2. ASSUME NEW h \in Handlers, NEW u \in Users, Register(h, u)
      PROVE  TypeOK' /\ Busy'
  <2>1. TypeOK'
    BY <1>2 DEF Register, Start, TypeOK, Steps
  <2>2. Busy'
    BY <1>2 DEF Register, Start, TypeOK, Busy
  <2>. QED
    BY <2>1, <2>2
<1>3. ASSUME NEW h \in Handlers, NEW u \in Users, NEW t \in Token,
             Refresh(h, u, t) \/ Logout(h, u, t)
      PROVE  TypeOK' /\ Busy'
  <2>1. PICK p \in {"select", "logout"} : Start(h, p, u, t)
    BY <1>3 DEF Refresh, Logout
  <2>2. /\ t \in known[u]
        /\ UNCHANGED <<users, issued, sessions, expired, closed, client, faults>>
    BY <1>3 DEF Refresh, Logout
  <2>3. t \in DOMAIN issued
    BY <2>2 DEF TypeOK
  <2>4. /\ pc' \in [Handlers -> Steps]
        /\ who' \in [Handlers -> Users]
        /\ token' \in [Handlers -> DOMAIN issued \cup {0}]
    BY <2>1, <2>3 DEF Start, TypeOK, Steps
  <2>5. TypeOK'
    BY <2>2, <2>4 DEF TypeOK
  <2>6. Busy'
    BY <2>1, <2>2, <2>3 DEF Start, TypeOK, Busy
  <2>. QED
    BY <2>5, <2>6
<1>4. ASSUME NEW h \in Handlers, RegisterSession(h)
      PROVE  TypeOK' /\ Busy'
  <2>1. who[h] \in Users /\ "publish" \in Steps
    BY DEF TypeOK, Steps
  <2>. QED
    BY <1>4, <2>1, CreateTyped DEF RegisterSession
<1>5. ASSUME NEW h \in Handlers, Create(h)
      PROVE  TypeOK' /\ Busy'
  <2>1. token[h] \in DOMAIN issued
    BY <1>5 DEF Create, Busy
  <2>2. issued[token[h]].user \in Users /\ token[h] \in Token
    BY <2>1, Issued
  <2>3. "answer" \in Steps
    BY DEF Steps
  <2>4. PICK u \in Users, o \in Token \cup {0} :
          u = issued[token[h]].user /\ o = token[h]
    BY <2>2
  <2>5. createSession(h, u, o, "answer")
    BY <1>5, <2>4 DEF Create
  <2>6. UNCHANGED <<users, expired, closed, client>>
    BY <1>5 DEF Create
  <2>. QED
    BY <2>3, <2>5, <2>6, CreateTyped
<1>6. ASSUME NEW h \in Handlers, RegisterPublish(h) \/ RefreshAnswer(h)
      PROVE  TypeOK' /\ Busy'
  <2>1. token[h] \in DOMAIN issued
    BY <1>6 DEF RegisterPublish, RefreshAnswer, Busy
  <2>2. /\ Answer(h)
        /\ Return(h)
        /\ UNCHANGED <<users, issued, sessions, expired, closed>>
    BY <1>6 DEF RegisterPublish, RefreshAnswer
  <2>3. faults' \in 0..MaxFaults
    BY <1>1, <2>2 DEF Answer, TypeOK
  <2>4. /\ known' \in [Users -> SUBSET DOMAIN issued]
        /\ access' \in [Users -> BOOLEAN]
    <3>1. who[h] \in Users
      BY DEF TypeOK
    <3>2. CASE UNCHANGED client
      BY <3>2 DEF TypeOK
    <3>3. CASE /\ known' = [known EXCEPT ![who[h]] = @ \cup {token[h]}]
               /\ access' = [access EXCEPT ![who[h]] = TRUE]
      BY <2>1, <3>1, <3>3 DEF TypeOK
    <3>. QED
      BY <2>2, <3>2, <3>3 DEF Answer
  <2>5. TypeOK'
    BY <2>2, <2>3, <2>4, SomeUserIn DEF Return, TypeOK, Steps
  <2>6. Busy'
    BY <2>2 DEF Return, TypeOK, Busy
  <2>. QED
    BY <2>5, <2>6
<1>7. ASSUME NEW h \in Handlers, Select(h) \/ Delete(h)
      PROVE  TypeOK' /\ Busy'
  <2>1. TypeOK'
    BY <1>1, <1>7 DEF Select, Delete, Goto, TypeOK, Steps
  <2>2. Busy'
    BY <1>7 DEF Select, Delete, Goto, TypeOK, Busy
  <2>. QED
    BY <2>1, <2>2
<1>8. ASSUME NEW h \in Handlers, Purge(h) \/ Crash(h)
      PROVE  TypeOK' /\ Busy'
  <2>1. TypeOK'
    BY <1>1, <1>8, SomeUserIn DEF Purge, Crash, Return, TypeOK, Steps
  <2>2. Busy'
    BY <1>8 DEF Purge, Crash, Return, TypeOK, Busy
  <2>. QED
    BY <2>1, <2>2
<1>9. ASSUME NEW h \in Handlers, LogoutDelete(h)
      PROVE  TypeOK' /\ Busy'
  <2>1. TypeOK'
    BY <1>1, <1>9, SomeUserIn DEF LogoutDelete, Goto, Return, TypeOK, Steps
  <2>2. Busy'
    BY <1>9 DEF LogoutDelete, Goto, Return, TypeOK, Busy
  <2>. QED
    BY <2>1, <2>2
<1>10. ASSUME NEW h \in Handlers, Announce(h)
       PROVE  TypeOK' /\ Busy'
  <2>1. token[h] \in DOMAIN issued
    BY <1>10 DEF Announce, Busy
  <2>2. TypeOK'
    BY <1>1, <1>10, <2>1, SomeUserIn DEF Announce, Return, TypeOK, Steps
  <2>3. Busy'
    BY <1>10 DEF Announce, Return, TypeOK, Busy
  <2>. QED
    BY <2>2, <2>3
<1>11. ASSUME NEW t \in Token, Expire(t) PROVE TypeOK' /\ Busy'
  BY <1>11 DEF Expire, TypeOK, Busy
<1>12. ASSUME NEW u \in Users, AccessExpire(u) PROVE TypeOK' /\ Busy'
  BY <1>12 DEF AccessExpire, TypeOK, Busy
<1>13. CASE UNCHANGED vars
  BY <1>13 DEF vars, TypeOK, Busy
<1>. QED
  BY <1>2, <1>3, <1>4, <1>5, <1>6, <1>7, <1>8, <1>9, <1>10, <1>11, <1>12,
     <1>13 DEF Next, HandlerStep

LEMMA InitTyped == Init => TypeOK /\ Busy
<1>. SUFFICES ASSUME Init PROVE TypeOK /\ Busy
  OBVIOUS
<1>1. issued \in Seq(Session) /\ Len(issued) = 0 /\ DOMAIN issued = {}
  BY DEF Init
<1>. QED
  BY <1>1, SomeUserIn, SessionsAssumption DEF Init, TypeOK, Busy, Steps

LEMMA Typed == Spec => [](TypeOK /\ Busy)
<1>1. (TypeOK /\ Busy) /\ [Next]_vars => (TypeOK /\ Busy)'
  BY TypeStep
<1>. QED
  BY InitTyped, <1>1, PTL DEF Spec

(* Every variable has the type its comment gives it, in every state.       *)
THEOREM TypeCorrect == Spec => []TypeOK
  BY Typed, PTL

-----------------------------------------------------------------------------
(* What a step of a handler does to the rows and to who works on which:    *)
(* rows appear only under a token that is new.                             *)

LEMMA Created ==
  ASSUME TypeOK, Busy, NEW h \in Handlers, NEW u \in Users,
         NEW o \in Token \cup {0}, NEW p \in Steps, createSession(h, u, o, p)
  PROVE  \/ /\ issued' = issued /\ sessions' = sessions
            /\ faults' = faults + 1
            /\ Return(h)
         \/ /\ sessions' = sessions \cup {Len(issued) + 1}
            /\ DOMAIN issued' = DOMAIN issued \cup {Len(issued) + 1}
            /\ Len(issued) + 1 \notin DOMAIN issued
            /\ \A t \in DOMAIN issued : issued'[t] = issued[t]
            /\ issued'[Len(issued) + 1] = [user |-> u, origin |-> o]
            /\ pc' = [pc EXCEPT ![h] = p]
            /\ token' = [token EXCEPT ![h] = Len(issued) + 1]
            /\ UNCHANGED <<who, faults>>
  BY OneMore DEF createSession, Fault

LEMMA GoneStep ==
  ASSUME TypeOK, Busy, Gone, [Next]_vars
  PROVE  Gone'
<1>. USE DEF Gone, ClosedGone
<1>1. ASSUME NEW h \in Handlers, NEW u \in Users, NEW o \in Token \cup {0},
             NEW p \in Steps, p # "announce", createSession(h, u, o, p),
             closed' = closed
      PROVE  Gone'
  <2>1. CASE sessions' = sessions /\ Return(h)
    BY <1>1, <2>1 DEF Return, TypeOK
  <2>2. CASE /\ sessions' = sessions \cup {Len(issued) + 1}
             /\ Len(issued) + 1 \notin DOMAIN issued
             /\ pc' = [pc EXCEPT ![h] = p]
             /\ token' = [token EXCEPT ![h] = Len(issued) + 1]
    BY <1>1, <2>2 DEF TypeOK, Busy
  <2>3. createSession(h, u, o, p)
    BY <1>1
  <2>. QED
    BY <2>1, <2>2, <2>3, Created
<1>2. ASSUME NEW h \in Handlers, RegisterSession(h) PROVE Gone'
  BY <1>1, <1>2 DEF RegisterSession, TypeOK, Steps
<1>3. ASSUME NEW h \in Handlers, Create(h) PROVE Gone'
  <2>1. token[h] \in DOMAIN issued
    BY <1>3 DEF Create, Busy
  <2>2. PICK u \in Users, o \in Token \cup {0} :
          u = issued[token[h]].user /\ o = token[h]
    BY <2>1, Issued
  <2>3. createSession(h, u, o, "answer") /\ closed' = closed
    BY <1>3, <2>2 DEF Create
  <2>. QED
    BY <1>1, <2>3 DEF Steps
<1>4. ASSUME NEW h \in Handlers, NEW u \in Users,
             \/ Register(h, u)
             \/ \E t \in Token : Refresh(h, u, t) \/ Logout(h, u, t)
      PROVE  Gone'
  BY <1>4 DEF Register, Refresh, Logout, Start, TypeOK
<1>5. ASSUME NEW h \in Handlers,
             RegisterPublish(h) \/ RefreshAnswer(h) \/ Crash(h)
      PROVE  Gone'
  BY <1>5 DEF RegisterPublish, RefreshAnswer, Crash, Return, TypeOK
<1>6. ASSUME NEW h \in Handlers, Select(h) \/ Delete(h) \/ Purge(h)
      PROVE  Gone'
  BY <1>6 DEF Select, Delete, Purge, Goto, Return, TypeOK
<1>7. ASSUME NEW h \in Handlers, LogoutDelete(h) \/ Announce(h) PROVE Gone'
  BY <1>7 DEF LogoutDelete, Announce, Goto, Return, TypeOK
<1>8. ASSUME NEW t \in Token, Expire(t) PROVE Gone'
  BY <1>8 DEF Expire, local
<1>9. ASSUME NEW u \in Users, AccessExpire(u) PROVE Gone'
  BY <1>9 DEF AccessExpire, local
<1>10. CASE UNCHANGED vars
  BY <1>10 DEF vars, local
<1>. QED
  BY <1>2, <1>3, <1>4, <1>5, <1>6, <1>7, <1>8, <1>9, <1>10
     DEF Next, HandlerStep

(* A terminated session is no row of the table, whatever statement failed  *)
(* and whatever requests raced.                                            *)
THEOREM ClosedGoneAlways == Spec => []ClosedGone
<1>1. Init => Gone
  BY DEF Init, Gone, ClosedGone
<1>2. TypeOK /\ Busy /\ Gone /\ [Next]_vars => Gone'
  BY GoneStep
<1>3. Gone => ClosedGone
  BY DEF Gone
<1>. QED
  BY <1>1, <1>2, <1>3, Typed, PTL DEF Spec

-----------------------------------------------------------------------------
(* What holds as long as no statement failed.                              *)

LEMMA NoFaultBefore ==
  ASSUME TypeOK, Fault PROVE faults' # 0
  BY DEF TypeOK, Fault

(* The session that Create adds, and the one that RegisterSession does.    *)
LEMMA CreateAdds ==
  ASSUME TypeOK, Busy, NEW h \in Handlers, Create(h), faults' # faults + 1
  PROVE  /\ token[h] \in DOMAIN issued /\ pc[h] = "create"
         /\ sessions' = sessions \cup {Len(issued) + 1}
         /\ DOMAIN issued' = DOMAIN issued \cup {Len(issued) + 1}
         /\ Len(issued) + 1 \notin DOMAIN issued
         /\ \A t \in DOMAIN issued : issued'[t] = issued[t]
         /\ issued'[Len(issued) + 1].user = issued[token[h]].user
         /\ issued'[Len(issued) + 1].origin = token[h]
         /\ pc' = [pc EXCEPT ![h] = "answer"]
         /\ token' = [token EXCEPT ![h] = Len(issued) + 1]
         /\ UNCHANGED <<users, expired, closed, known, access, who, faults>>
<1>1. token[h] \in DOMAIN issued /\ pc[h] = "create"
  BY DEF Create, Busy
<1>2. PICK u \in Users, o \in Token \cup {0} :
        u = issued[token[h]].user /\ o = token[h]
  BY <1>1, Issued
<1>3. createSession(h, u, o, "answer")
  BY <1>2 DEF Create
<1>4. "answer" \in Steps
  BY DEF Steps
<1>6. UNCHANGED <<users, expired, closed, known, access>>
  BY DEF Create, client
<1>7. /\ sessions' = sessions \cup {Len(issued) + 1}
      /\ DOMAIN issued' = DOMAIN issued \cup {Len(issued) + 1}
      /\ Len(issued) + 1 \notin DOMAIN issued
      /\ \A t \in DOMAIN issued : issued'[t] = issued[t]
      /\ issued'[Len(issued) + 1] = [user |-> u, origin |-> o]
      /\ pc' = [pc EXCEPT ![h] = "answer"]
      /\ token' = [token EXCEPT ![h] = Len(issued) + 1]
      /\ UNCHANGED <<who, faults>>
  BY <1>3, <1>4, Created
<1>. QED
  BY <1>1, <1>2, <1>6, <1>7

LEMMA RegisterAdds ==
  ASSUME TypeOK, Busy, NEW h \in Handlers, RegisterSession(h), faults' # faults + 1
  PROVE  /\ pc[h] = "session"
         /\ sessions' = sessions \cup {Len(issued) + 1}
         /\ DOMAIN issued' = DOMAIN issued \cup {Len(issued) + 1}
         /\ Len(issued) + 1 \notin DOMAIN issued
         /\ \A t \in DOMAIN issued : issued'[t] = issued[t]
         /\ issued'[Len(issued) + 1].user = who[h]
         /\ issued'[Len(issued) + 1].origin = 0
         /\ pc' = [pc EXCEPT ![h] = "publish"]
         /\ token' = [token EXCEPT ![h] = Len(issued) + 1]
         /\ UNCHANGED <<users, expired, closed, known, access, who, faults>>
<1>1. pc[h] = "session"
  BY DEF RegisterSession
<1>2. PICK u \in Users : u = who[h]
  BY DEF TypeOK
<1>3. createSession(h, u, 0, "publish")
  BY <1>2 DEF RegisterSession
<1>4. "publish" \in Steps
  BY DEF Steps
<1>6. UNCHANGED <<users, expired, closed, known, access>>
  BY DEF RegisterSession, client
<1>7. /\ sessions' = sessions \cup {Len(issued) + 1}
      /\ DOMAIN issued' = DOMAIN issued \cup {Len(issued) + 1}
      /\ Len(issued) + 1 \notin DOMAIN issued
      /\ \A t \in DOMAIN issued : issued'[t] = issued[t]
      /\ issued'[Len(issued) + 1] = [user |-> u, origin |-> 0]
      /\ pc' = [pc EXCEPT ![h] = "publish"]
      /\ token' = [token EXCEPT ![h] = Len(issued) + 1]
      /\ UNCHANGED <<who, faults>>
  BY <1>3, <1>4, Created
<1>. QED
  BY <1>1, <1>2, <1>6, <1>7

(* The two ways a session is added, as far as rows and tokens go.          *)
LEMMA Adds ==
  ASSUME TypeOK, Busy, NEW h \in Handlers,
         RegisterSession(h) \/ Create(h), faults' # faults + 1
  PROVE  /\ sessions' = sessions \cup {Len(issued) + 1}
         /\ DOMAIN issued' = DOMAIN issued \cup {Len(issued) + 1}
         /\ Len(issued) + 1 \notin DOMAIN issued
         /\ \A t \in DOMAIN issued : issued'[t] = issued[t]
         /\ pc[h] \in {"session", "create"}
         /\ pc'[h] \in {"publish", "answer"}
         /\ pc[h] = "session" => issued'[Len(issued) + 1].user = who[h]
         /\ pc[h] = "create" => issued'[Len(issued) + 1].origin = token[h]
         /\ \A g \in Handlers :
              g # h => pc'[g] = pc[g] /\ token'[g] = token[g]
         /\ UNCHANGED <<users, expired, closed, who, faults>>
<1>1. CASE RegisterSession(h)
  BY <1>1, RegisterAdds DEF TypeOK
<1>2. CASE Create(h)
  BY <1>2, CreateAdds DEF TypeOK
<1>. QED
  BY <1>1, <1>2

LEMMA ReplacedStep ==
  ASSUME TypeOK, Busy, Replaced, [Next]_vars
  PROVE  Replaced'
<1>. SUFFICES ASSUME faults' = 0
              PROVE  /\ \A s \in DOMAIN issued' :
                          issued'[s].origin \in
                            (DOMAIN issued' \cup {0}) \ sessions'
                     /\ \A h \in Handlers :
                          pc'[h] = "create" => token'[h] \notin sessions'
  BY DEF Replaced
<1>. faults' # faults + 1
  BY DEF TypeOK
<1>. DEFINE Goal == /\ \A s \in DOMAIN issued' :
                         issued'[s].origin \in
                           (DOMAIN issued' \cup {0}) \ sessions'
                    /\ \A h \in Handlers :
                         pc'[h] = "create" => token'[h] \notin sessions'
<1>1. DOMAIN issued = 1..Len(issued) /\ Len(issued) \in Nat
  BY DEF TypeOK
<1>2. Len(issued) + 1 # 0 /\ 0 \notin DOMAIN issued
  BY <1>1
<1>3. ASSUME NEW h \in Handlers, Create(h) PROVE Goal
  <2>1. faults = 0
    BY <1>3, CreateAdds
  <2>2. token[h] \notin sessions
    BY <1>3, <2>1, CreateAdds DEF Replaced
  <2>3. ASSUME NEW s \in DOMAIN issued'
        PROVE  issued'[s].origin \in (DOMAIN issued' \cup {0}) \ sessions'
    <3>1. CASE s \in DOMAIN issued
      BY <1>2, <1>3, <2>1, <3>1, CreateAdds DEF Replaced
    <3>2. CASE s = Len(issued) + 1
      BY <1>2, <1>3, <2>2, <3>2, CreateAdds
    <3>. QED
      BY <1>3, <2>3, <3>1, <3>2, CreateAdds
  <2>4. ASSUME NEW g \in Handlers, pc'[g] = "create"
        PROVE  token'[g] \notin sessions'
    <3>1. g # h /\ pc[g] = "create" /\ token'[g] = token[g]
      BY <1>3, <2>4, CreateAdds DEF TypeOK
    <3>2. token[g] \in DOMAIN issued /\ token[g] \notin sessions
      BY <2>1, <3>1 DEF Busy, Replaced
    <3>. QED
      BY <1>3, <3>1, <3>2, CreateAdds
  <2>. QED
    BY <2>3, <2>4
<1>4. ASSUME NEW h \in Handlers, RegisterSession(h) PROVE Goal
  <2>1. faults = 0
    BY <1>4, RegisterAdds
  <2>2. 0 \notin sessions
    BY <1>2 DEF TypeOK
  <2>3. ASSUME NEW s \in DOMAIN issued'
        PROVE  issued'[s].origin \in (DOMAIN issued' \cup {0}) \ sessions'
    <3>1. CASE s \in DOMAIN issued
      BY <1>2, <1>4, <2>1, <3>1, RegisterAdds DEF Replaced
    <3>2. CASE s = Len(issued) + 1
      BY <1>2, <1>4, <2>2, <3>2, RegisterAdds
    <3>. QED
      BY <1>4, <2>3, <3>1, <3>2, RegisterAdds
  <2>4. ASSUME NEW g \in Handlers, pc'[g] = "create"
        PROVE  token'[g] \notin sessions'
    <3>1. g # h /\ pc[g] = "create" /\ token'[g] = token[g]
      BY <1>4, <2>4, RegisterAdds DEF TypeOK
    <3>2. token[g] \in DOMAIN issued /\ token[g] \notin sessions
      BY <2>1, <3>1 DEF Busy, Replaced
    <3>. QED
      BY <1>4, <3>1, <3>2, RegisterAdds
  <2>. QED
    BY <2>3, <2>4
<1>5. ASSUME issued' = issued, sessions' \subseteq sessions, faults = 0,
             \A h \in Handlers :
               pc'[h] = "create" =>
                 \/ pc[h] = "create" /\ token'[h] = token[h]
                 \/ token'[h] \notin sessions'
      PROVE  Goal
  BY <1>5 DEF Replaced
<1>6. Fault => FALSE
  BY NoFaultBefore
<1>. HIDE DEF Goal
<1>7. ASSUME NEW h \in Handlers, NEW u \in Users,
             \/ Register(h, u)
             \/ \E t \in Token : Refresh(h, u, t) \/ Logout(h, u, t)
      PROVE  Goal
  BY <1>5, <1>7 DEF Register, Refresh, Logout, Start, TypeOK
<1>8. ASSUME NEW h \in Handlers, RegisterPublish(h) \/ RefreshAnswer(h)
      PROVE  Goal
  BY <1>5, <1>6, <1>8 DEF RegisterPublish, RefreshAnswer, Answer, Return, TypeOK
<1>9. ASSUME NEW h \in Handlers, Select(h) \/ Delete(h) \/ Purge(h)
      PROVE  Goal
  BY <1>5, <1>6, <1>9 DEF Select, Delete, Purge, Goto, Return, TypeOK
<1>10. ASSUME NEW h \in Handlers, LogoutDelete(h) \/ Announce(h) PROVE Goal
  BY <1>5, <1>6, <1>10 DEF LogoutDelete, Announce, Goto, Return, TypeOK
<1>11. ASSUME NEW h \in Handlers, Crash(h) PROVE Goal
  BY <1>6, <1>11 DEF Crash
<1>12. ASSUME NEW t \in Token, Expire(t) PROVE Goal
  BY <1>5, <1>12 DEF Expire, local
<1>13. ASSUME NEW u \in Users, AccessExpire(u) PROVE Goal
  BY <1>5, <1>13 DEF AccessExpire, local
<1>14. ASSUME UNCHANGED vars PROVE Goal
  BY <1>5, <1>14 DEF vars, local
<1>. QED
  <2>1. Goal
    BY <1>3, <1>4, <1>7, <1>8, <1>9, <1>10, <1>11, <1>12, <1>13, <1>14
       DEF Next, HandlerStep
  <2>. QED
    BY <2>1 DEF Goal

-----------------------------------------------------------------------------
(* The number of successors.                                               *)

LEMMA Finite ==
  ASSUME TypeOK, NEW t
  PROVE  /\ IsFiniteSet(Handlers) /\ Cardinality(Handlers) \in Nat
         /\ IsFiniteSet(Successors(t)) /\ Cardinality(Successors(t)) \in Nat
         /\ IsFiniteSet(Rotating(t)) /\ Cardinality(Rotating(t)) \in Nat
<1>1. IsFiniteSet(Handlers)
  BY SessionsAssumption
<1>2. DOMAIN issued = 1..Len(issued) /\ Len(issued) \in Int
  BY DEF TypeOK
<1>3. IsFiniteSet(DOMAIN issued)
  BY <1>2, FS_Interval
<1>4. Successors(t) \in SUBSET DOMAIN issued
  BY DEF Successors
<1>5. Rotating(t) \in SUBSET Handlers
  BY DEF Rotating
<1>6. IsFiniteSet(Successors(t)) /\ IsFiniteSet(Rotating(t))
  BY <1>1, <1>3, <1>4, <1>5, FS_Subset
<1>. QED
  BY <1>1, <1>6, FS_CardinalityType

LEMMA RoomStep ==
  ASSUME TypeOK, TypeOK', Busy, Replaced, Room, [Next]_vars
  PROVE  Room'
<1>. SUFFICES ASSUME faults' = 0, NEW t \in DOMAIN issued'
              PROVE  (Cardinality(Successors(t)) + Cardinality(Rotating(t))
                        <= Cardinality(Handlers))'
  BY DEF Room
<1>. faults' # faults + 1
  BY DEF TypeOK
<1>. DEFINE Goal == (Cardinality(Successors(t)) + Cardinality(Rotating(t))
                       <= Cardinality(Handlers))'
<1>1. Fault => FALSE
  BY NoFaultBefore
<1>2. ASSUME Successors(t)' = {} PROVE Goal
  <2>1. Rotating(t)' \in SUBSET Handlers
    BY DEF Rotating
  <2>2. /\ Cardinality(Rotating(t)') <= Cardinality(Handlers)
        /\ Cardinality(Rotating(t)') \in Nat /\ Cardinality(Handlers) \in Nat
    BY <2>1, Finite, FS_Subset, FS_CardinalityType
  <2>3. Cardinality(Successors(t)') = 0
    BY <1>2, FS_EmptySet
  <2>. QED
    BY <2>2, <2>3
<1>3. ASSUME faults = 0, t \in DOMAIN issued,
             Successors(t)' = Successors(t), Rotating(t)' \subseteq Rotating(t)
      PROVE  Goal
  <2>1. Cardinality(Rotating(t)') <= Cardinality(Rotating(t))
    BY <1>3, Finite, FS_Subset
  <2>2. Cardinality(Rotating(t)') \in Nat
    BY <1>3, Finite, FS_Subset, FS_CardinalityType
  <2>3. Cardinality(Successors(t)) + Cardinality(Rotating(t))
          <= Cardinality(Handlers)
    BY <1>3 DEF Room
  <2>. QED
    BY <1>3, <2>1, <2>2, <2>3, Finite
<1>4. ASSUME NEW h \in Handlers, RegisterSession(h) \/ Create(h),
             t = Len(issued) + 1
      PROVE  Goal
  <2>1. faults = 0 /\ t # 0 /\ t \notin DOMAIN issued
    BY <1>4, Adds DEF TypeOK
  <2>2. \A s \in DOMAIN issued : issued'[s].origin \in DOMAIN issued \cup {0}
    BY <1>4, <2>1, Adds DEF Replaced
  <2>3. issued'[Len(issued) + 1].origin \in DOMAIN issued \cup {0}
    BY <1>4, RegisterAdds, CreateAdds
  <2>4. DOMAIN issued' = DOMAIN issued \cup {Len(issued) + 1}
    BY <1>4, Adds
  <2>5. Successors(t)' = {}
    BY <2>1, <2>2, <2>3, <2>4 DEF Successors
  <2>. QED
    BY <1>2, <2>5
<1>5. ASSUME NEW h \in Handlers, RegisterSession(h), t \in DOMAIN issued
      PROVE  Goal
  <2>1. t # 0
    BY <1>5 DEF TypeOK
  <2>2. Successors(t)' = Successors(t)
    BY <1>5, <2>1, RegisterAdds DEF Successors
  <2>3. Rotating(t)' \subseteq Rotating(t)
    BY <1>5, RegisterAdds DEF Rotating, TypeOK
  <2>. QED
    BY <1>3, <1>5, <2>2, <2>3, RegisterAdds
<1>6. ASSUME NEW h \in Handlers, Create(h), t \in DOMAIN issued PROVE Goal
  <2>1. CASE token[h] # t
    <3>1. Successors(t)' = Successors(t)
      BY <1>6, <2>1, CreateAdds DEF Successors
    <3>2. Rotating(t)' \subseteq Rotating(t)
      BY <1>6, CreateAdds DEF Rotating, TypeOK
    <3>. QED
      BY <1>3, <1>6, <3>1, <3>2, CreateAdds
  <2>2. CASE token[h] = t
    <3>1. Successors(t)' = Successors(t) \cup {Len(issued) + 1}
      BY <1>6, <2>2, CreateAdds DEF Successors
    <3>2. Len(issued) + 1 \notin Successors(t)
      BY <1>6, CreateAdds DEF Successors
    <3>3. h \in Rotating(t)
      BY <1>6, <2>2, CreateAdds DEF Rotating
    <3>4. Rotating(t)' = Rotating(t) \ {h}
      BY <1>6, CreateAdds DEF Rotating, TypeOK
    <3>5. Cardinality(Successors(t)') = Cardinality(Successors(t)) + 1
      BY <3>1, <3>2, Finite, FS_AddElement
    <3>6. Cardinality(Rotating(t)') = Cardinality(Rotating(t)) - 1
      BY <3>3, <3>4, Finite, FS_RemoveElement
    <3>7. Cardinality(Successors(t)) + Cardinality(Rotating(t))
            <= Cardinality(Handlers)
      BY <1>6, CreateAdds DEF Room
    <3>. QED
      BY <3>5, <3>6, <3>7, Finite
  <2>. QED
    BY <2>1, <2>2
<1>7. ASSUME issued' = issued, faults = 0,
             \A g \in Handlers :
               pc'[g] \in {"delete", "create"} =>
                 /\ pc[g] \in {"delete", "create"} \/ token[g] \in sessions
                 /\ token'[g] = token[g]
      PROVE  Goal
  <2>1. Successors(t)' = Successors(t)
    BY <1>7 DEF Successors
  <2>2. CASE t \in sessions
    BY <1>2, <1>7, <2>1, <2>2 DEF Replaced, Successors
  <2>3. CASE t \notin sessions
    <3>1. Rotating(t)' \subseteq Rotating(t)
      BY <1>7, <2>3 DEF Rotating
    <3>. QED
      BY <1>3, <1>7, <2>1, <3>1
  <2>. QED
    BY <2>2, <2>3
<1>. HIDE DEF Goal
<1>8. ASSUME NEW h \in Handlers, RegisterSession(h) \/ Create(h) PROVE Goal
  <2>1. t \in DOMAIN issued \/ t = Len(issued) + 1
    BY <1>8, Adds
  <2>. QED
    BY <1>4, <1>5, <1>6, <1>8, <2>1
<1>9. ASSUME NEW h \in Handlers, NEW u \in Users,
             \/ Register(h, u)
             \/ \E s \in Token : Refresh(h, u, s) \/ Logout(h, u, s)
      PROVE  Goal
  BY <1>7, <1>9 DEF Register, Refresh, Logout, Start, TypeOK
<1>10. ASSUME NEW h \in Handlers, RegisterPublish(h) \/ RefreshAnswer(h)
       PROVE  Goal
  BY <1>1, <1>7, <1>10 DEF RegisterPublish, RefreshAnswer, Answer, Return, TypeOK
<1>11. ASSUME NEW h \in Handlers,
              Select(h) \/ Delete(h) \/ Purge(h) \/ LogoutDelete(h)
                \/ Announce(h)
       PROVE  Goal
  BY <1>1, <1>7, <1>11 DEF Select, Delete, Purge, LogoutDelete, Announce,
                           Goto, Return, TypeOK
<1>12. ASSUME NEW h \in Handlers, Crash(h) PROVE Goal
  BY <1>1, <1>12 DEF Crash
<1>13. ASSUME NEW s \in Token, Expire(s) PROVE Goal
  BY <1>7, <1>13 DEF Expire, local
<1>14. ASSUME NEW u \in Users, AccessExpire(u) PROVE Goal
  BY <1>7, <1>14 DEF AccessExpire, local
<1>15. ASSUME UNCHANGED vars PROVE Goal
  BY <1>7, <1>15 DEF vars, local
<1>. QED
  <2>1. Goal
    BY <1>8, <1>9, <1>10, <1>11, <1>12, <1>13, <1>14, <1>15
       DEF Next, HandlerStep
  <2>. QED
    BY <2>1 DEF Goal

(* While nothing fails, a token has at most as many successors as requests *)
(* can be served at a time.                                                *)
THEOREM FewSuccessorsAlways == Spec => []FewSuccessors
<1>1. Init => Replaced /\ Room
  BY DEF Init, Replaced, Room
<1>2. TypeOK /\ TypeOK' /\ Busy /\ Replaced /\ Room /\ [Next]_vars
        => Replaced' /\ Room'
  BY ReplacedStep, RoomStep
<1>3. TypeOK /\ Room => FewSuccessors
  BY Finite DEF Room, FewSuccessors
<1>. QED
  BY <1>1, <1>2, <1>3, Typed, PTL DEF Spec

-----------------------------------------------------------------------------
(* The answers.                                                            *)

LEMMA AddressedStep ==
  ASSUME TypeOK, Busy, Addressed, [Next]_vars
  PROVE  Addressed'
<1>1. ASSUME issued' = issued,
             \A u \in Users : known'[u] \subseteq known[u],
             \A h \in Handlers :
               pc'[h] \notin {"idle", "session"} =>
                 \/ /\ pc[h] \notin {"idle", "session"}
                    /\ token'[h] = token[h] /\ who'[h] = who[h]
                 \/ /\ who'[h] \in Users
                    /\ token'[h] \in known[who'[h]]
      PROVE  Addressed'
  BY <1>1 DEF Addressed
<1>2. ASSUME NEW h \in Handlers, NEW u \in Users,
             \/ Register(h, u)
             \/ \E t \in Token : Refresh(h, u, t) \/ Logout(h, u, t)
      PROVE  Addressed'
  BY <1>1, <1>2 DEF Register, Refresh, Logout, Start, TypeOK, client
<1>3. ASSUME NEW h \in Handlers, NEW u \in Users, NEW o \in Token \cup {0},
             NEW p \in Steps, createSession(h, u, o, p), known' = known,
             u = who[h]
      PROVE  Addressed'
  <2>1. CASE issued' = issued /\ Return(h)
    BY <1>1, <1>3, <2>1 DEF Return, TypeOK
  <2>2. CASE /\ \A t \in DOMAIN issued : issued'[t] = issued[t]
             /\ issued'[Len(issued) + 1] = [user |-> u, origin |-> o]
             /\ pc' = [pc EXCEPT ![h] = p]
             /\ token' = [token EXCEPT ![h] = Len(issued) + 1]
             /\ UNCHANGED <<who, faults>>
    <3>1. ASSUME NEW v \in Users, NEW t \in known'[v]
          PROVE  issued'[t].user = v
      <4>1. t \in DOMAIN issued /\ t \in known[v]
        BY <1>3, <3>1 DEF TypeOK
      <4>. QED
        BY <2>2, <4>1 DEF Addressed
    <3>2. ASSUME NEW g \in Handlers, pc'[g] \notin {"idle", "session"}
          PROVE  issued'[token'[g]].user = who'[g]
      <4>1. CASE g = h
        BY <1>3, <2>2, <4>1 DEF TypeOK
      <4>2. CASE g # h
        <5>1. /\ pc[g] \notin {"idle", "session"}
              /\ token'[g] = token[g] /\ who'[g] = who[g]
          BY <2>2, <3>2, <4>2 DEF TypeOK
        <5>2. token[g] \in DOMAIN issued /\ issued[token[g]].user = who[g]
          BY <5>1 DEF Busy, Addressed
        <5>. QED
          BY <2>2, <5>1, <5>2
      <4>. QED
        BY <4>1, <4>2
    <3>. QED
      BY <3>1, <3>2 DEF Addressed
  <2>3. createSession(h, u, o, p)
    BY <1>3
  <2>. QED
    BY <2>1, <2>2, <2>3, Created
<1>4. ASSUME NEW h \in Handlers, RegisterSession(h) PROVE Addressed'
  <2>1. PICK u \in Users : u = who[h]
    BY DEF TypeOK
  <2>2. createSession(h, u, 0, "publish") /\ known' = known
    BY <1>4, <2>1 DEF RegisterSession, client
  <2>. QED
    BY <1>3, <2>1, <2>2 DEF Steps
<1>5. ASSUME NEW h \in Handlers, Create(h) PROVE Addressed'
  <2>1. token[h] \in DOMAIN issued /\ issued[token[h]].user = who[h]
    BY <1>5 DEF Create, Busy, Addressed
  <2>2. PICK u \in Users, o \in Token \cup {0} :
          u = issued[token[h]].user /\ o = token[h]
    BY <2>1, Issued
  <2>3. createSession(h, u, o, "answer") /\ known' = known
    BY <1>5, <2>2 DEF Create, client
  <2>. QED
    BY <1>3, <2>1, <2>2, <2>3 DEF Steps
<1>6. ASSUME NEW h \in Handlers, RegisterPublish(h) \/ RefreshAnswer(h)
      PROVE  Addressed'
  <2>1. /\ issued[token[h]].user = who[h]
        /\ Answer(h) /\ Return(h) /\ issued' = issued
    BY <1>6 DEF RegisterPublish, RefreshAnswer, Addressed
  <2>2. \A u \in Users : \A t \in known'[u] : issued'[t].user = u
    BY <2>1 DEF Answer, Addressed, TypeOK, client
  <2>3. \A g \in Handlers :
          pc'[g] \notin {"idle", "session"} => issued'[token'[g]].user = who'[g]
    BY <2>1 DEF Return, Addressed, TypeOK
  <2>. QED
    BY <2>2, <2>3 DEF Addressed
<1>7. ASSUME NEW h \in Handlers,
             Select(h) \/ Delete(h) \/ Purge(h) \/ LogoutDelete(h)
               \/ Announce(h) \/ Crash(h)
      PROVE  Addressed'
  BY <1>1, <1>7 DEF Select, Delete, Purge, LogoutDelete, Announce, Crash,
                    Goto, Return, TypeOK, client
<1>8. ASSUME NEW t \in Token, Expire(t) PROVE Addressed'
  BY <1>1, <1>8 DEF Expire, local, client
<1>9. ASSUME NEW u \in Users, AccessExpire(u) PROVE Addressed'
  BY <1>1, <1>9 DEF AccessExpire, local
<1>10. ASSUME UNCHANGED vars PROVE Addressed'
  BY <1>1, <1>10 DEF vars, local, client
<1>. QED
  BY <1>2, <1>4, <1>5, <1>6, <1>7, <1>8, <1>9, <1>10 DEF Next, HandlerStep

-----------------------------------------------------------------------------
(* What each failure costs.  A set grows by one element in a step that     *)
(* fails, and in no other.                                                 *)

Charged(X, Y) ==
  \/ X = {} /\ Y = {} /\ faults' \in {faults, faults + 1}
  \/ \E x : X = {x} /\ Y = {} /\ faults' = faults + 1
  \/ \E y : X = {} /\ Y = {y} /\ faults' = faults + 1

LEMMA FewMore ==
  ASSUME TypeOK, NEW A, NEW B, NEW C, NEW D, NEW X, NEW Y,
         IsFiniteSet(A), IsFiniteSet(B), Charged(X, Y),
         Cardinality(A) + Cardinality(B) <= faults,
         C \subseteq A \cup X, D \subseteq B \cup Y
  PROVE  /\ IsFiniteSet(C) /\ IsFiniteSet(D)
         /\ Cardinality(C) + Cardinality(D) <= faults'
<1>1. faults \in Nat
  BY SessionsAssumption DEF TypeOK
<1>2. Cardinality(A) \in Nat /\ Cardinality(B) \in Nat
  BY FS_CardinalityType
<1>3. ASSUME NEW S, NEW T, IsFiniteSet(S), T \subseteq S
      PROVE  /\ IsFiniteSet(T) /\ Cardinality(T) \in Nat
             /\ Cardinality(T) <= Cardinality(S)
  BY <1>3, FS_Subset, FS_CardinalityType
<1>4. ASSUME NEW S, NEW x, IsFiniteSet(S)
      PROVE  /\ IsFiniteSet(S \cup {x}) /\ Cardinality(S \cup {x}) \in Nat
             /\ Cardinality(S \cup {x}) <= Cardinality(S) + 1
  <2>1. /\ IsFiniteSet(S \cup {x})
        /\ Cardinality(S \cup {x})
             = IF x \in S THEN Cardinality(S) ELSE Cardinality(S) + 1
    BY <1>4, FS_AddElement
  <2>2. Cardinality(S) \in Nat /\ Cardinality(S \cup {x}) \in Nat
    BY <1>4, <2>1, FS_CardinalityType
  <2>. QED
    BY <2>1, <2>2
<1>5. CASE X = {} /\ Y = {} /\ faults' \in {faults, faults + 1}
  <2>1. C \subseteq A /\ D \subseteq B
    BY <1>5
  <2>2. /\ IsFiniteSet(C) /\ Cardinality(C) \in Nat
        /\ Cardinality(C) <= Cardinality(A)
        /\ IsFiniteSet(D) /\ Cardinality(D) \in Nat
        /\ Cardinality(D) <= Cardinality(B)
    BY <1>3, <2>1
  <2>. QED
    BY <1>1, <1>2, <1>5, <2>2
<1>6. ASSUME NEW x, X = {x}, Y = {}, faults' = faults + 1
      PROVE  /\ IsFiniteSet(C) /\ IsFiniteSet(D)
             /\ Cardinality(C) + Cardinality(D) <= faults'
  <2>1. C \subseteq A \cup {x} /\ D \subseteq B
    BY <1>6
  <2>2. /\ IsFiniteSet(A \cup {x}) /\ Cardinality(A \cup {x}) \in Nat
        /\ Cardinality(A \cup {x}) <= Cardinality(A) + 1
    BY <1>4
  <2>3. /\ IsFiniteSet(C) /\ Cardinality(C) \in Nat
        /\ Cardinality(C) <= Cardinality(A \cup {x})
    BY <1>3, <2>1, <2>2
  <2>4. /\ IsFiniteSet(D) /\ Cardinality(D) \in Nat
        /\ Cardinality(D) <= Cardinality(B)
    BY <1>3, <2>1
  <2>. QED
    BY <1>1, <1>2, <1>6, <2>2, <2>3, <2>4
<1>7. ASSUME NEW y, X = {}, Y = {y}, faults' = faults + 1
      PROVE  /\ IsFiniteSet(C) /\ IsFiniteSet(D)
             /\ Cardinality(C) + Cardinality(D) <= faults'
  <2>1. C \subseteq A /\ D \subseteq B \cup {y}
    BY <1>7
  <2>2. /\ IsFiniteSet(B \cup {y}) /\ Cardinality(B \cup {y}) \in Nat
        /\ Cardinality(B \cup {y}) <= Cardinality(B) + 1
    BY <1>4
  <2>3. /\ IsFiniteSet(D) /\ Cardinality(D) \in Nat
        /\ Cardinality(D) <= Cardinality(B \cup {y})
    BY <1>3, <2>1, <2>2
  <2>4. /\ IsFiniteSet(C) /\ Cardinality(C) \in Nat
        /\ Cardinality(C) <= Cardinality(A)
    BY <1>3, <2>1
  <2>. QED
    BY <1>1, <1>2, <1>7, <2>2, <2>3, <2>4
<1>. QED
  BY <1>5, <1>6, <1>7 DEF Charged

(* The same of one set.                                                    *)
LEMMA OneFewMore ==
  ASSUME TypeOK, NEW A, NEW C, NEW X, IsFiniteSet(A), Charged(X, {}),
         Cardinality(A) <= faults, C \subseteq A \cup X
  PROVE  Cardinality(C) <= faults'
<1>1. faults \in Nat /\ Cardinality(A) \in Nat
  BY SessionsAssumption, FS_CardinalityType DEF TypeOK
<1>2. IsFiniteSet({}) /\ Cardinality({}) = 0
  BY FS_EmptySet
<1>3. Cardinality(A) + Cardinality({}) <= faults
  BY <1>1, <1>2
<1>4. IsFiniteSet(C) /\ Cardinality(C) + Cardinality({}) <= faults'
  BY <1>2, <1>3, FewMore
<1>. QED
  BY <1>2, <1>4, FS_CardinalityType

LEMMA Uncharged ==
  ASSUME faults' = faults \/ faults' = faults + 1 PROVE Charged({}, {})
  BY DEF Charged

LEMMA OneCharged ==
  ASSUME faults' = faults + 1, NEW x
  PROVE  Charged({x}, {}) /\ Charged({}, {x})
  BY DEF Charged

LEMMA FiniteTokens ==
  ASSUME TypeOK
  PROVE  /\ sessions \subseteq DOMAIN issued
         /\ \A S : S \subseteq DOMAIN issued => IsFiniteSet(S)
<1>1. issued \in Seq(Session) /\ sessions \subseteq DOMAIN issued
  BY DEF TypeOK
<1>2. DOMAIN issued = 1..Len(issued) /\ Len(issued) \in Int
  BY <1>1
<1>3. IsFiniteSet(DOMAIN issued)
  BY <1>2, FS_Interval
<1>. QED
  BY <1>1, <1>3, FS_Subset

(* A createSession that fails.                                             *)
LEMMA Failed ==
  ASSUME TypeOK, Busy, NEW h \in Handlers, RegisterSession(h) \/ Create(h),
         faults' = faults + 1
  PROVE  /\ issued' = issued /\ sessions' = sessions /\ Return(h)
         /\ pc[h] \in {"session", "create"}
         /\ pc[h] = "session" => RegisterSession(h)
         /\ UNCHANGED <<users, expired, closed, known, access>>
<1>1. faults + 1 # faults
  BY SessionsAssumption DEF TypeOK
<1>2. CASE RegisterSession(h)
  <2>1. PICK u \in Users : u = who[h]
    BY DEF TypeOK
  <2>2. createSession(h, u, 0, "publish") /\ pc[h] = "session"
    BY <1>2, <2>1 DEF RegisterSession
  <2>. QED
    BY <1>1, <1>2, <2>2, Created DEF RegisterSession, client, Steps
<1>3. CASE Create(h)
  <2>1. token[h] \in DOMAIN issued /\ pc[h] = "create"
    BY <1>3 DEF Create, Busy
  <2>2. PICK u \in Users, o \in Token \cup {0} :
          u = issued[token[h]].user /\ o = token[h]
    BY <2>1, Issued
  <2>3. createSession(h, u, o, "answer")
    BY <1>3, <2>2 DEF Create
  <2>. QED
    BY <1>1, <1>3, <2>1, <2>3, Created DEF Create, client, Steps
<1>. QED
  BY <1>2, <1>3

LEMMA MadeOrFailed ==
  ASSUME TypeOK, Busy, NEW h \in Handlers, RegisterSession(h) \/ Create(h)
  PROVE  faults' = faults + 1 \/ (faults' # faults + 1 /\ faults' = faults)
  BY Adds

-----------------------------------------------------------------------------
(* Sessions next to their successors.                                      *)

LEMMA EarlierStep ==
  ASSUME TypeOK, Busy, Earlier, [Next]_vars PROVE Earlier'
<1>1. DOMAIN issued = 1..Len(issued) /\ Len(issued) \in Nat
  BY DEF TypeOK
<1>2. ASSUME NEW h \in Handlers, RegisterSession(h) \/ Create(h)
      PROVE  Earlier'
  <2>1. CASE faults' = faults + 1
    BY <1>2, <2>1, Failed DEF Earlier
  <2>2. CASE faults' # faults + 1
    <3>1. token[h] \in DOMAIN issued \/ pc[h] = "session"
      BY <1>2 DEF RegisterSession, Create, Busy
    <3>2. issued'[Len(issued) + 1].origin \in 0..Len(issued)
      BY <1>1, <1>2, <2>2, CreateAdds, RegisterAdds
    <3>3. /\ DOMAIN issued' = DOMAIN issued \cup {Len(issued) + 1}
          /\ \A t \in DOMAIN issued : issued'[t] = issued[t]
      BY <1>2, <2>2, Adds
    <3>. QED
      BY <1>1, <3>2, <3>3 DEF Earlier
  <2>. QED
    BY <2>1, <2>2
<1>3. ASSUME NEW h \in Handlers, NEW u \in Users,
             \/ Register(h, u)
             \/ \E t \in Token : Refresh(h, u, t) \/ Logout(h, u, t)
      PROVE  Earlier'
  BY <1>3 DEF Register, Refresh, Logout, Earlier
<1>4. ASSUME NEW h \in Handlers,
             RegisterPublish(h) \/ RefreshAnswer(h) \/ Crash(h) \/ Select(h)
               \/ Delete(h) \/ Purge(h) \/ LogoutDelete(h) \/ Announce(h)
      PROVE  Earlier'
  BY <1>4 DEF RegisterPublish, RefreshAnswer, Crash, Select, Delete, Purge,
              LogoutDelete, Announce, Earlier
<1>5. ASSUME NEW t \in Token, Expire(t) PROVE Earlier'
  BY <1>5 DEF Expire, Earlier
<1>6. ASSUME NEW u \in Users, AccessExpire(u) PROVE Earlier'
  BY <1>6 DEF AccessExpire, Earlier
<1>7. CASE UNCHANGED vars
  BY <1>7 DEF vars, Earlier
<1>. QED
  BY <1>2, <1>3, <1>4, <1>5, <1>6, <1>7 DEF Next, HandlerStep

\* A new session replaces what existed before it.
LEMMA NewHasNoSuccessor ==
  ASSUME TypeOK, Busy, Earlier, Earlier', NEW h \in Handlers,
         RegisterSession(h) \/ Create(h), faults' # faults + 1,
         NEW t, t = Len(issued) + 1
  PROVE  Successors(t)' = {}
<1>1. DOMAIN issued = 1..Len(issued) /\ Len(issued) \in Nat
  BY DEF TypeOK
<1>2. DOMAIN issued' = DOMAIN issued \cup {t}
  BY Adds
<1>3. \A s \in DOMAIN issued' : s \in Nat /\ s <= t
  BY <1>1, <1>2
<1>4. t \in Nat
  BY <1>1
<1>. QED
  BY <1>3, <1>4 DEF Earlier, Successors

LEMMA DoubledStep ==
  ASSUME TypeOK, Busy, Earlier, Earlier', DoubledFew, [Next]_vars
  PROVE  DoubledFew'
<1>. DEFINE Goal == Cardinality(Doubled') <= faults'
<1>1. IsFiniteSet(Doubled)
  BY FiniteTokens DEF Doubled
<1>2. ASSUME NEW X, Charged(X, {}), Doubled' \subseteq Doubled \cup X
      PROVE  Goal
  BY <1>1, <1>2, OneFewMore DEF DoubledFew
<1>3. ASSUME faults' = faults \/ faults' = faults + 1,
             issued' = issued, sessions' \subseteq sessions,
             \A g \in Handlers :
               pc'[g] = "create" =>
                 \/ pc[g] = "create" /\ token'[g] = token[g]
                 \/ token'[g] \notin sessions'
      PROVE  Goal
  <2>1. Doubled' \subseteq Doubled \cup {}
    BY <1>3 DEF Doubled, Successors, At
  <2>2. Charged({}, {})
    BY <1>3, Uncharged
  <2>. QED
    BY <1>2, <2>1, <2>2
<1>4. ASSUME NEW h \in Handlers, RegisterSession(h) \/ Create(h),
             faults' # faults + 1
      PROVE  Goal
  <2>1. ASSUME NEW t \in Doubled' PROVE t \in Doubled
    <3>1. t # Len(issued) + 1
      <4>1. \A g \in Handlers : pc'[g] = "create" =>
              token'[g] \in DOMAIN issued
        BY <1>4, Adds DEF Busy
      <4>2. Len(issued) + 1 \notin DOMAIN issued
        BY <1>4, Adds
      <4>3. ASSUME t = Len(issued) + 1 PROVE FALSE
        <5>1. Successors(t)' = {}
          BY <1>4, <4>3, NewHasNoSuccessor
        <5>2. ~At("create", t)'
          BY <4>1, <4>2, <4>3 DEF At
        <5>. QED
          BY <2>1, <5>1, <5>2 DEF Doubled
      <4>. QED
        BY <4>3
    <3>2. t \in sessions
      BY <1>4, <2>1, <3>1, Adds DEF Doubled
    <3>3. CASE At("create", t)'
      <4>1. PICK g \in Handlers : pc'[g] = "create" /\ token'[g] = t
        BY <3>3 DEF At
      <4>2. g # h
        BY <1>4, <4>1, Adds
      <4>3. pc[g] = "create" /\ token[g] = t
        BY <1>4, <4>1, <4>2, Adds
      <4>. QED
        BY <3>2, <4>3 DEF At, Doubled
    <3>4. ASSUME NEW s \in DOMAIN issued', issued'[s].origin = t
          PROVE  t \in Doubled
      <4>1. CASE s \in DOMAIN issued
        BY <1>4, <3>2, <3>4, <4>1, Adds DEF Doubled, Successors
      <4>2. CASE s = Len(issued) + 1
        <5>1. CASE Create(h)
          BY <1>4, <3>2, <3>4, <4>2, <5>1, CreateAdds DEF Doubled, At
        <5>2. CASE RegisterSession(h)
          <6>1. t = 0
            BY <1>4, <3>4, <4>2, <5>2, RegisterAdds
          <6>. QED
            BY <3>2, <6>1 DEF TypeOK
        <5>. QED
          BY <1>4, <5>1, <5>2
      <4>. QED
        BY <1>4, <3>4, <4>1, <4>2, Adds
    <3>. QED
      BY <2>1, <3>3, <3>4 DEF Doubled, Successors
  <2>2. faults' = faults
    BY <1>4, Adds
  <2>. QED
    BY <1>2, <2>1, <2>2, Uncharged
<1>5. ASSUME NEW h \in Handlers, Delete(h) PROVE Goal
  <2>1. \A g \in Handlers : g # h => pc'[g] = pc[g] /\ token'[g] = token[g]
    BY <1>5 DEF Delete, Goto, TypeOK
  <2>2. /\ pc' = [pc EXCEPT ![h] = "create"] /\ token' = token
        /\ issued' = issued
    BY <1>5 DEF Delete, Goto
  <2>3. CASE sessions' = sessions \ {token[h]} /\ UNCHANGED faults
    BY <1>3, <2>1, <2>2, <2>3
  <2>4. CASE Fault /\ UNCHANGED sessions
    <3>1. Doubled' \subseteq Doubled \cup {token[h]}
      BY <2>1, <2>2, <2>4 DEF Doubled, Successors, At
    <3>. QED
      BY <1>2, <2>4, <3>1, OneCharged DEF Fault
  <2>. QED
    BY <1>5, <2>3, <2>4 DEF Delete
<1>. HIDE DEF Goal
<1>6. ASSUME NEW h \in Handlers, RegisterSession(h) \/ Create(h),
             faults' = faults + 1
      PROVE  Goal
  BY <1>3, <1>6, Failed DEF Return, TypeOK
<1>7. ASSUME NEW h \in Handlers, NEW u \in Users,
             \/ Register(h, u)
             \/ \E t \in Token : Refresh(h, u, t) \/ Logout(h, u, t)
      PROVE  Goal
  BY <1>3, <1>7 DEF Register, Refresh, Logout, Start, TypeOK
<1>8. ASSUME NEW h \in Handlers,
             RegisterPublish(h) \/ RefreshAnswer(h) \/ Crash(h)
      PROVE  Goal
  BY <1>3, <1>8 DEF RegisterPublish, RefreshAnswer, Answer, Crash, Fault,
                    Return, TypeOK
<1>9. ASSUME NEW h \in Handlers,
             Select(h) \/ Purge(h) \/ LogoutDelete(h) \/ Announce(h)
      PROVE  Goal
  BY <1>3, <1>9 DEF Select, Purge, LogoutDelete, Announce, Fault, Goto, Return,
                    TypeOK
<1>10. ASSUME NEW t \in Token, Expire(t) PROVE Goal
  BY <1>3, <1>10 DEF Expire, local
<1>11. ASSUME NEW u \in Users, AccessExpire(u) PROVE Goal
  BY <1>3, <1>11 DEF AccessExpire, local
<1>12. ASSUME UNCHANGED vars PROVE Goal
  BY <1>3, <1>12 DEF vars, local
<1>. QED
  <2>1. Goal
    BY <1>4, <1>5, <1>6, <1>7, <1>8, <1>9, <1>10, <1>11, <1>12
       DEF Next, HandlerStep
  <2>. QED
    BY <2>1 DEF Goal, DoubledFew

(* There are never more sessions still valid next to their successors than *)
(* statements that failed, whatever requests race.                         *)
THEOREM RotatedAlways == Spec => []Rotated
<1>1. Init => Earlier /\ DoubledFew
  <2>. SUFFICES ASSUME Init PROVE Earlier /\ DoubledFew
    OBVIOUS
  <2>1. Doubled = {} /\ Earlier /\ faults = 0
    BY DEF Init, Doubled, Earlier
  <2>. QED
    BY <2>1, FS_EmptySet DEF DoubledFew
<1>2. TypeOK /\ Busy /\ Earlier /\ DoubledFew /\ [Next]_vars
        => Earlier' /\ DoubledFew'
  BY EarlierStep, DoubledStep
<1>3. TypeOK /\ DoubledFew => Rotated
  <2>. SUFFICES ASSUME TypeOK, DoubledFew PROVE Rotated
    OBVIOUS
  <2>. DEFINE R == {t \in sessions : Successors(t) # {}}
  <2>1. R \subseteq Doubled /\ IsFiniteSet(Doubled) /\ faults \in Nat
    BY FiniteTokens, SessionsAssumption DEF Doubled, TypeOK
  <2>2. /\ Cardinality(R) <= Cardinality(Doubled) /\ Cardinality(R) \in Nat
        /\ Cardinality(Doubled) \in Nat
    BY <2>1, FS_Subset, FS_CardinalityType
  <2>. QED
    BY <2>1, <2>2 DEF DoubledFew, Rotated
<1>. QED
  BY <1>1, <1>2, <1>3, Typed, PTL DEF Spec

-----------------------------------------------------------------------------
(* Accounts without a way in.                                              *)

\* What a step without a new session may do to the sessions that are lost.
LEMMA DoomedKept ==
  ASSUME TypeOK, NEW X, issued' = issued,
         sessions' \subseteq sessions, expired \subseteq expired',
         closed \subseteq closed',
         \A g \in Handlers :
           pc'[g] = "purge" =>
             \/ pc[g] = "purge" /\ token'[g] = token[g]
             \/ token'[g] \notin sessions' \ expired'
             \/ token'[g] \in X,
         \A g \in Handlers :
           pc[g] \in {"create", "announce"} =>
             \/ pc'[g] = pc[g] /\ token'[g] = token[g]
             \/ token[g] \in closed' \cup X,
         \A t \in sessions \ sessions' :
           At("create", t)' \/ At("announce", t)' \/ At("purge", t)
  PROVE  Doomed' \subseteq Doomed \cup X
<1>. SUFFICES ASSUME NEW t \in Doomed', t \notin X PROVE t \in Doomed
  OBVIOUS
<1>1. Successors(t)' = Successors(t) /\ t \in DOMAIN issued
  BY DEF Doomed, Lost, Successors, TypeOK
<1>2. t \notin expired /\ t \notin closed /\ Successors(t) = {}
  BY <1>1 DEF Doomed, Lost
<1>3. CASE t \in Lost'
  <2>1. /\ t \notin sessions' /\ t \notin closed'
        /\ ~At("create", t)' /\ ~At("announce", t)'
    BY <1>3 DEF Lost
  <2>2. ~At("create", t) /\ ~At("announce", t)
    BY <2>1 DEF At
  <2>3. CASE t \in sessions
    BY <1>1, <1>2, <2>1, <2>3 DEF Doomed
  <2>4. CASE t \notin sessions
    BY <1>1, <1>2, <2>2, <2>4 DEF Doomed, Lost
  <2>. QED
    BY <2>3, <2>4
<1>4. CASE t \in sessions' /\ t \notin expired' /\ At("purge", t)'
  <2>1. PICK g \in Handlers : pc'[g] = "purge" /\ token'[g] = t
    BY <1>4 DEF At
  <2>2. pc[g] = "purge" /\ token[g] = t
    BY <1>4, <2>1
  <2>. QED
    BY <1>2, <1>4, <2>2 DEF Doomed, At
<1>. QED
  BY <1>3, <1>4 DEF Doomed

LEMMA StrandedKept ==
  ASSUME TypeOK, NEW Y, issued' = issued,
         \A u \in users' \ users :
           \E g \in Handlers : pc'[g] = "session" /\ who'[g] = u,
         \A g \in Handlers :
           pc[g] = "session" =>
             \/ pc'[g] = "session" /\ who'[g] = who[g]
             \/ who[g] \in Y
  PROVE  Stranded' \subseteq Stranded \cup Y
  BY DEF Stranded

\* A session is added: it is the successor of the one it replaces, or the
\* first of its user.
LEMMA DoomedByNew ==
  ASSUME TypeOK, Busy, Earlier, Earlier', NEW h \in Handlers,
         RegisterSession(h) \/ Create(h), faults' # faults + 1
  PROVE  Doomed' \subseteq Doomed /\ Stranded' \subseteq Stranded
<1>. DEFINE n == Len(issued) + 1
<1>1. /\ sessions' = sessions \cup {n} /\ n \notin DOMAIN issued
      /\ DOMAIN issued' = DOMAIN issued \cup {n}
      /\ \A s \in DOMAIN issued : issued'[s] = issued[s]
      /\ \A g \in Handlers :
           g # h => pc'[g] = pc[g] /\ token'[g] = token[g]
      /\ pc'[h] \in {"publish", "answer"} /\ pc[h] \in {"session", "create"}
      /\ pc[h] = "create" => issued'[n].origin = token[h]
      /\ pc[h] = "session" => issued'[n].user = who[h]
      /\ UNCHANGED <<users, expired, closed, who>>
  BY Adds
<1>. HIDE DEF n
<1>2. ASSUME NEW t \in Doomed' PROVE t \in Doomed
  <2>1. t \in DOMAIN issued'
    BY <1>2, FiniteTokens, <1>1 DEF Doomed, Lost, TypeOK
  <2>2. t # n
    <3>1. ASSUME t = n PROVE FALSE
      <4>1. At("purge", t)'
        BY <1>1, <1>2, <3>1 DEF Doomed, Lost
      <4>2. PICK g \in Handlers : pc'[g] = "purge" /\ token'[g] = t
        BY <4>1 DEF At
      <4>3. pc[g] = "purge" /\ token[g] = n
        BY <1>1, <3>1, <4>2
      <4>. QED
        BY <1>1, <4>3 DEF Busy
    <3>. QED
      BY <3>1
  <2>3. t \in DOMAIN issued /\ (t \in sessions' <=> t \in sessions)
    BY <1>1, <2>1, <2>2
  <2>4. Successors(t) \subseteq Successors(t)'
    BY <1>1 DEF Successors
  <2>5. Successors(t) = {} /\ t \notin expired /\ t \notin closed
    BY <1>1, <1>2, <2>4 DEF Doomed, Lost
  <2>6. ~(pc[h] = "create" /\ token[h] = t)
    BY <1>1, <1>2 DEF Doomed, Lost, Successors
  <2>7. CASE t \in Lost'
    <3>1. /\ ~At("create", t)' /\ ~At("announce", t)' /\ t \notin sessions'
      BY <2>7 DEF Lost
    <3>2. ~At("create", t) /\ ~At("announce", t)
      BY <1>1, <2>6, <3>1 DEF At
    <3>. QED
      BY <2>3, <2>5, <3>1, <3>2 DEF Doomed, Lost
  <2>8. CASE t \in sessions' /\ At("purge", t)'
    <3>1. At("purge", t)
      BY <1>1, <2>8 DEF At
    <3>. QED
      BY <2>3, <2>5, <2>8, <3>1 DEF Doomed
  <2>. QED
    BY <1>2, <2>7, <2>8 DEF Doomed
<1>3. ASSUME NEW u \in Stranded' PROVE u \in Stranded
  <2>1. /\ u \in users
        /\ \A g \in Handlers : ~(pc'[g] = "session" /\ who[g] = u)
        /\ \A t \in DOMAIN issued' : issued'[t].user # u
    BY <1>1, <1>3 DEF Stranded
  <2>2. \A t \in DOMAIN issued : issued[t].user # u
    BY <1>1, <2>1
  <2>3. \A g \in Handlers : ~(pc[g] = "session" /\ who[g] = u)
    BY <1>1, <2>1
  <2>. QED
    BY <2>1, <2>2, <2>3 DEF Stranded
<1>. QED
  BY <1>2, <1>3

LEMMA DoomedStep ==
  ASSUME TypeOK, Busy, Earlier, Earlier', DoomedFew, [Next]_vars
  PROVE  DoomedFew'
<1>. DEFINE Goal == /\ IsFiniteSet(Stranded')
                    /\ Cardinality(Doomed') + Cardinality(Stranded') <= faults'
<1>1. IsFiniteSet(Doomed)
  BY FiniteTokens DEF Doomed, Lost
<1>2. ASSUME NEW X, NEW Y, Charged(X, Y),
             Doomed' \subseteq Doomed \cup X, Stranded' \subseteq Stranded \cup Y
      PROVE  Goal
  BY <1>1, <1>2, FewMore DEF DoomedFew
<1>. HIDE DEF Goal
<1>3. ASSUME NEW h \in Handlers, RegisterSession(h) \/ Create(h),
             faults' # faults + 1
      PROVE  Goal
  <2>1. Charged({}, {})
    BY <1>3, Adds, Uncharged
  <2>. QED
    BY <1>2, <1>3, <2>1, DoomedByNew
<1>4. ASSUME NEW X, NEW Y, Charged(X, Y), issued' = issued,
             sessions' \subseteq sessions, expired \subseteq expired',
             closed \subseteq closed',
             \A g \in Handlers :
               pc'[g] = "purge" =>
                 \/ pc[g] = "purge" /\ token'[g] = token[g]
                 \/ token'[g] \notin sessions' \ expired'
                 \/ token'[g] \in X,
             \A g \in Handlers :
               pc[g] \in {"create", "announce"} =>
                 \/ pc'[g] = pc[g] /\ token'[g] = token[g]
                 \/ token[g] \in closed' \cup X,
             \A t \in sessions \ sessions' :
               At("create", t)' \/ At("announce", t)' \/ At("purge", t),
             \A u \in users' \ users :
               \E g \in Handlers : pc'[g] = "session" /\ who'[g] = u,
             \A g \in Handlers :
               pc[g] = "session" =>
                 \/ pc'[g] = "session" /\ who'[g] = who[g]
             \/ who[g] \in Y
      PROVE  Goal
  <2>1. Doomed' \subseteq Doomed \cup X
    BY <1>4, DoomedKept
  <2>2. Stranded' \subseteq Stranded \cup Y
    BY <1>4, StrandedKept
  <2>. QED
    BY <1>2, <1>4, <2>1, <2>2
<1>5. ASSUME NEW h \in Handlers, Return(h), faults' = faults + 1,
             UNCHANGED <<users, issued, sessions, expired, closed>>
      PROVE  Goal
  <2>1. /\ pc'[h] = "idle"
        /\ \A g \in Handlers : g # h =>
             pc'[g] = pc[g] /\ token'[g] = token[g] /\ who'[g] = who[g]
    BY <1>5 DEF Return, TypeOK
  <2>2. CASE pc[h] = "session"
    BY <1>4, <1>5, <2>1, <2>2, OneCharged
  <2>3. CASE pc[h] # "session"
    BY <1>4, <1>5, <2>1, <2>3, OneCharged
  <2>. QED
    BY <2>2, <2>3
<1>6. ASSUME NEW h \in Handlers, RegisterSession(h) \/ Create(h),
             faults' = faults + 1
      PROVE  Goal
  BY <1>5, <1>6, Failed
<1>7. ASSUME NEW h \in Handlers, Crash(h) PROVE Goal
  BY <1>5, <1>7 DEF Crash, Fault
<1>8. ASSUME NEW h \in Handlers, NEW u \in Users,
             \/ Register(h, u)
             \/ \E s \in Token : Refresh(h, u, s) \/ Logout(h, u, s)
      PROVE  Goal
  <2>1. Charged({}, {})
    BY <1>8, Uncharged DEF Register, Refresh, Logout
  <2>. QED
    BY <1>4, <1>8, <2>1 DEF Register, Refresh, Logout, Start, TypeOK
<1>9. ASSUME NEW h \in Handlers, RegisterPublish(h) \/ RefreshAnswer(h)
      PROVE  Goal
  <2>1. Charged({}, {})
    BY <1>9, Uncharged DEF RegisterPublish, RefreshAnswer, Answer, Fault
  <2>. QED
    BY <1>4, <1>9, <2>1 DEF RegisterPublish, RefreshAnswer, Return, TypeOK
<1>10. ASSUME NEW h \in Handlers, Select(h) PROVE Goal
  <2>1. /\ pc[h] = "select" /\ pc'[h] \in {"delete", "purge"}
        /\ \A g \in Handlers : g # h => pc'[g] = pc[g]
        /\ UNCHANGED <<users, issued, sessions, expired, closed, who, token>>
    BY <1>10 DEF Select, Goto, TypeOK
  <2>2. CASE pc'[h] = "delete" \/ token[h] \notin sessions \ expired
    <3>1. Charged({}, {})
      BY <1>10, Uncharged DEF Select, Fault
    <3>. QED
      BY <1>4, <2>1, <2>2, <3>1
  <2>3. CASE pc'[h] = "purge" /\ token[h] \in sessions \ expired
    <3>1. faults' = faults + 1
      BY <1>10, <2>3 DEF Select, Goto, Fault, TypeOK
    <3>2. Charged({token[h]}, {})
      BY <3>1, OneCharged
    <3>. QED
      BY <1>4, <2>1, <3>2
  <2>. QED
    BY <2>1, <2>2, <2>3
<1>11. ASSUME NEW h \in Handlers, Purge(h) PROVE Goal
  <2>1. /\ pc[h] = "purge" /\ Return(h)
        /\ sessions' \in {sessions, sessions \ {token[h]}}
        /\ UNCHANGED <<users, issued, expired, closed>>
    BY <1>11 DEF Purge
  <2>2. Charged({}, {})
    BY <1>11, Uncharged DEF Purge, Fault
  <2>3. \A t \in sessions \ sessions' : At("purge", t)
    BY <2>1 DEF At
  <2>. QED
    BY <1>4, <2>1, <2>2, <2>3 DEF Return, TypeOK
<1>12. ASSUME NEW h \in Handlers, Delete(h) PROVE Goal
  <2>1. /\ pc[h] = "delete" /\ Goto(h, "create")
        /\ sessions' \in {sessions, sessions \ {token[h]}}
        /\ UNCHANGED <<users, issued, expired, closed>>
    BY <1>12 DEF Delete
  <2>2. Charged({}, {})
    BY <1>12, Uncharged DEF Delete, Fault
  <2>3. \A t \in sessions \ sessions' : At("create", t)'
    BY <2>1 DEF Goto, At, TypeOK
  <2>. QED
    BY <1>4, <2>1, <2>2, <2>3 DEF Goto, TypeOK
<1>13. ASSUME NEW h \in Handlers, LogoutDelete(h) PROVE Goal
  <2>1. CASE Fault /\ Return(h) /\ UNCHANGED sessions
    BY <1>5, <1>13, <2>1 DEF LogoutDelete, Fault
  <2>2. CASE /\ sessions' = sessions \ {token[h]} /\ Goto(h, "announce")
             /\ UNCHANGED faults
    <3>1. \A t \in sessions \ sessions' : At("announce", t)'
      BY <2>2 DEF Goto, At, TypeOK
    <3>2. /\ pc[h] = "logout" /\ UNCHANGED <<users, issued, expired, closed>>
          /\ Charged({}, {})
      BY <1>13, <2>2, Uncharged DEF LogoutDelete
    <3>. QED
      BY <1>4, <2>2, <3>1, <3>2 DEF Goto, TypeOK
  <2>. QED
    BY <1>13, <2>1, <2>2 DEF LogoutDelete
<1>14. ASSUME NEW h \in Handlers, Announce(h) PROVE Goal
  <2>1. CASE Fault /\ UNCHANGED closed
    BY <1>5, <1>14, <2>1 DEF Announce, Fault
  <2>2. CASE closed' = closed \cup {token[h]} /\ UNCHANGED faults
    BY <1>4, <1>14, <2>2, Uncharged DEF Announce, Return, TypeOK
  <2>. QED
    BY <1>14, <2>1, <2>2 DEF Announce
<1>15. ASSUME NEW s \in Token, Expire(s) PROVE Goal
  BY <1>4, <1>15, Uncharged DEF Expire, local
<1>16. ASSUME NEW u \in Users, AccessExpire(u) PROVE Goal
  BY <1>4, <1>16, Uncharged DEF AccessExpire, local
<1>17. ASSUME UNCHANGED vars PROVE Goal
  BY <1>4, <1>17, Uncharged DEF vars, local
<1>. QED
  <2>1. Goal
    BY <1>3, <1>6, <1>7, <1>8, <1>9, <1>10, <1>11, <1>12, <1>13, <1>14, <1>15,
       <1>16, <1>17, MadeOrFailed DEF Next, HandlerStep
  <2>. QED
    BY <2>1 DEF Goal, DoomedFew

(* Sessions that are gone with nothing in their place, and accounts that   *)
(* never had one, are never more than there were failures.                 *)
THEOREM ChainKeptAlways == Spec => []ChainKept
<1>1. Init => Earlier /\ DoomedFew
  <2>. SUFFICES ASSUME Init PROVE Earlier /\ DoomedFew
    OBVIOUS
  <2>1. Doomed = {} /\ Stranded = {} /\ Earlier /\ faults = 0
    BY DEF Init, Doomed, Lost, Stranded, Earlier
  <2>. QED
    BY <2>1, FS_EmptySet DEF DoomedFew
<1>2. TypeOK /\ Busy /\ Earlier /\ DoomedFew /\ [Next]_vars
        => Earlier' /\ DoomedFew'
  BY EarlierStep, DoomedStep
<1>3. TypeOK /\ DoomedFew => ChainKept
  <2>. SUFFICES ASSUME TypeOK, DoomedFew PROVE ChainKept
    OBVIOUS
  <2>1. Lost \subseteq Doomed /\ IsFiniteSet(Doomed) /\ faults \in Nat
    BY FiniteTokens, SessionsAssumption DEF Doomed, Lost, TypeOK
  <2>2. /\ Cardinality(Lost) <= Cardinality(Doomed) /\ Cardinality(Lost) \in Nat
        /\ Cardinality(Doomed) \in Nat
    BY <2>1, FS_Subset, FS_CardinalityType
  <2>3. Cardinality(Stranded) \in Nat
    BY FS_CardinalityType DEF DoomedFew
  <2>. QED
    BY <2>1, <2>2, <2>3 DEF DoomedFew, ChainKept
<1>. QED
  BY <1>1, <1>2, <1>3, Typed, PTL DEF Spec

-----------------------------------------------------------------------------
(* The sessions a client does not know of.                                 *)

\* What a step without a new session may do to who has been told.
LEMMA OrphansKept ==
  ASSUME TypeOK, Busy, Addressed, NEW X, issued' = issued,
         \A u \in Users : known[u] \subseteq known'[u],
         \A g \in Handlers :
           pc[g] \in {"publish", "answer"} =>
             \/ pc'[g] = pc[g] /\ token'[g] = token[g]
             \/ token[g] \in known'[who[g]]
             \/ token[g] \in X
  PROVE  Orphans' \subseteq Orphans \cup X
<1>. SUFFICES ASSUME NEW t \in Orphans', t \notin X PROVE t \in Orphans
  OBVIOUS
<1>1. t \in DOMAIN issued /\ t \notin known'[issued[t].user]
  BY DEF Orphans
<1>2. issued[t].user \in Users /\ t \notin known[issued[t].user]
  BY <1>1, Issued
<1>3. ASSUME NEW g \in Handlers, pc[g] \in {"publish", "answer"}, token[g] = t
      PROVE  FALSE
  <2>1. issued[t].user = who[g]
    BY <1>3 DEF Addressed
  <2>2. pc'[g] = pc[g] /\ token'[g] = token[g]
    BY <1>1, <1>3, <2>1
  <2>. QED
    BY <1>3, <2>2 DEF Orphans, At
<1>. QED
  BY <1>1, <1>2, <1>3 DEF Orphans, At

LEMMA OrphansStep ==
  ASSUME TypeOK, Busy, Addressed, NoOrphan, [Next]_vars
  PROVE  NoOrphan'
<1>. DEFINE Goal == Cardinality(Orphans') <= faults'
<1>1. IsFiniteSet(Orphans)
  BY FiniteTokens DEF Orphans
<1>2. ASSUME NEW X, Charged(X, {}), Orphans' \subseteq Orphans \cup X
      PROVE  Goal
  BY <1>1, <1>2, OneFewMore DEF NoOrphan
<1>. HIDE DEF Goal
<1>3. ASSUME NEW h \in Handlers, RegisterSession(h) \/ Create(h),
             faults' # faults + 1
      PROVE  Goal
  <2>. DEFINE n == Len(issued) + 1
  <2>1. /\ n \notin DOMAIN issued /\ DOMAIN issued' = DOMAIN issued \cup {n}
        /\ \A s \in DOMAIN issued : issued'[s] = issued[s]
        /\ \A g \in Handlers :
             g # h => pc'[g] = pc[g] /\ token'[g] = token[g]
        /\ pc'[h] \in {"publish", "answer"} /\ pc[h] \in {"session", "create"}
        /\ faults' = faults
    BY <1>3, Adds
  <2>2. known' = known /\ token'[h] = n
    BY <1>3, CreateAdds, RegisterAdds DEF TypeOK
  <2>. HIDE DEF n
  <2>3. ASSUME NEW t \in Orphans' PROVE t \in Orphans
    <3>1. t # n
      BY <2>1, <2>2, <2>3 DEF Orphans, At
    <3>2. t \in DOMAIN issued /\ t \notin known[issued[t].user]
      BY <2>1, <2>2, <2>3, <3>1 DEF Orphans
    <3>3. ~At("publish", t) /\ ~At("answer", t)
      BY <2>1, <2>3 DEF Orphans, At
    <3>. QED
      BY <3>2, <3>3 DEF Orphans
  <2>. QED
    BY <1>2, <2>1, <2>3, Uncharged
<1>4. ASSUME NEW X, Charged(X, {}), issued' = issued,
             \A u \in Users : known[u] \subseteq known'[u],
             \A g \in Handlers :
               pc[g] \in {"publish", "answer"} =>
                 \/ pc'[g] = pc[g] /\ token'[g] = token[g]
                 \/ token[g] \in known'[who[g]]
                 \/ token[g] \in X
      PROVE  Goal
  BY <1>2, <1>4, OrphansKept
<1>5. ASSUME NEW h \in Handlers, Return(h), faults' = faults + 1,
             issued' = issued, known' = known
      PROVE  Goal
  <2>1. \A g \in Handlers : g # h => pc'[g] = pc[g] /\ token'[g] = token[g]
    BY <1>5 DEF Return, TypeOK
  <2>. QED
    BY <1>4, <1>5, <2>1, OneCharged
<1>6. ASSUME NEW h \in Handlers, RegisterSession(h) \/ Create(h),
             faults' = faults + 1
      PROVE  Goal
  BY <1>5, <1>6, Failed
<1>7. ASSUME NEW h \in Handlers, Crash(h) PROVE Goal
  BY <1>5, <1>7 DEF Crash, Fault, client
<1>8. ASSUME NEW h \in Handlers, RegisterPublish(h) \/ RefreshAnswer(h)
      PROVE  Goal
  <2>1. Return(h) /\ issued' = issued /\ Answer(h) /\ who[h] \in Users
    BY <1>8 DEF RegisterPublish, RefreshAnswer, TypeOK
  <2>2. CASE Fault /\ UNCHANGED client
    BY <1>5, <2>1, <2>2 DEF Fault, client
  <2>3. CASE known' = [known EXCEPT ![who[h]] = @ \cup {token[h]}]
               /\ UNCHANGED faults
    <3>1. /\ \A u \in Users : known[u] \subseteq known'[u]
          /\ token[h] \in known'[who[h]]
      BY <2>1, <2>3 DEF TypeOK
    <3>2. \A g \in Handlers : g # h => pc'[g] = pc[g] /\ token'[g] = token[g]
      BY <2>1 DEF Return, TypeOK
    <3>. QED
      BY <1>4, <2>1, <2>3, <3>1, <3>2, Uncharged
  <2>. QED
    BY <2>1, <2>2, <2>3 DEF Answer
<1>9. ASSUME NEW h \in Handlers, NEW u \in Users,
             \/ Register(h, u)
             \/ \E s \in Token : Refresh(h, u, s) \/ Logout(h, u, s)
      PROVE  Goal
  BY <1>4, <1>9, Uncharged DEF Register, Refresh, Logout, Start, TypeOK, client
<1>10. ASSUME NEW h \in Handlers,
              Select(h) \/ Delete(h) \/ Purge(h) \/ LogoutDelete(h)
                \/ Announce(h)
       PROVE  Goal
  <2>1. Charged({}, {})
    BY <1>10, Uncharged DEF Select, Delete, Purge, LogoutDelete, Announce, Fault
  <2>. QED
    BY <1>4, <1>10, <2>1 DEF Select, Delete, Purge, LogoutDelete, Announce,
                             Goto, Return, TypeOK, client
<1>11. ASSUME NEW s \in Token, Expire(s) PROVE Goal
  BY <1>4, <1>11, Uncharged DEF Expire, local, client
<1>12. ASSUME NEW u \in Users, AccessExpire(u) PROVE Goal
  BY <1>4, <1>12, Uncharged DEF AccessExpire, local
<1>13. ASSUME UNCHANGED vars PROVE Goal
  BY <1>4, <1>13, Uncharged DEF vars, local, client
<1>. QED
  <2>1. Goal
    BY <1>3, <1>6, <1>7, <1>8, <1>9, <1>10, <1>11, <1>12, <1>13, MadeOrFailed
       DEF Next, HandlerStep
  <2>. QED
    BY <2>1 DEF Goal, NoOrphan

(* Sessions no client was told of are never more than there were failures. *)
THEOREM NoOrphanAlways == Spec => []NoOrphan
<1>1. Init => Addressed /\ NoOrphan
  <2>. SUFFICES ASSUME Init PROVE Addressed /\ NoOrphan
    OBVIOUS
  <2>1. Addressed /\ Orphans = {} /\ faults = 0
    BY DEF Init, Addressed, Orphans
  <2>. QED
    BY <2>1, FS_EmptySet DEF NoOrphan
<1>2. TypeOK /\ Busy /\ Addressed /\ NoOrphan /\ [Next]_vars
        => Addressed' /\ NoOrphan'
  BY AddressedStep, OrphansStep
<1>. QED
  BY <1>1, <1>2, Typed, PTL DEF Spec

=============================================================================
