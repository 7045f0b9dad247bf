------------------------- MODULE LoginSessionsProofs -------------------------
(***************************************************************************)
(* Theorems about LoginSessions for every finite set of event loops and of *)
(* session ids, any sets of browsers and users and any number of requests. *)
(***************************************************************************)
EXTENDS LoginSessions, TLAPS

(***************************************************************************)
(* Types                                                                   *)
(***************************************************************************)
LoginSteps  == {"query", "setUser", "setLoggedIn", "checkOnline", "markOnline"}
LogoutSteps == {"readUser", "clear", "destroy", "parse", "eraseOnline"}
ChatSteps   == {"checkLogin", "getUser", "serve"}

(* Where a handler is tells what the request asks, and where there is a    *)
(* user in it.                                                             *)
StepsOK ==
    \A l \in Loops :
        /\ pc[l] \in LoginSteps => req[l].op = "login"
        /\ pc[l] \in LogoutSteps => req[l].op = "logout"
        /\ pc[l] \in ChatSteps => req[l].op = "chat"
        /\ pc[l] # "idle" /\ req[l].op = "login" => req[l].user \in Users
        /\ pc[l] \in Acting => req[l].user \in Users

(* A request is added; at most the "quiet" of the others changes. *)
LEMMA ReceiveRequests ==
    ASSUME TypeOK, NEW l \in Loops, NEW c \in Clients, NEW op \in Ops,
           NEW u \in Users \cup {NoUser}, NEW ok \in BOOLEAN, Receive(l, c, op, u, ok)
    PROVE  /\ req' \in [Loops -> Request \cup {NoRequest}]
           /\ req'[l] # NoRequest
           /\ req'[l].client = c /\ req'[l].op = op /\ req'[l].user = u
           /\ req'[l].cookie = cookie[c] /\ req'[l].bodyOk = ok
           /\ req'[l].quiet <=> ~Busy(c, "login")
           /\ \A m \in Loops \ {l} :
                /\ req'[m] = NoRequest <=> req[m] = NoRequest
                /\ req[m] # NoRequest =>
                    /\ req'[m].client = req[m].client /\ req'[m].op = req[m].op
                    /\ req'[m].cookie = req[m].cookie /\ req'[m].user = req[m].user
                    /\ req'[m].bodyOk = req[m].bodyOk /\ req'[m].before = req[m].before
                    /\ req'[m].quiet <=> req[m].quiet /\ ~(op = "login" /\ req[m].client = c)
<1> DEFINE r == [client |-> c, op |-> op, cookie |-> cookie[c], user |-> u,
                 bodyOk |-> ok, before |-> FALSE, quiet |-> ~Busy(c, "login")]
           heard == [m \in Loops |->
                        IF op = "login" /\ pc[m] # "idle" /\ req[m].client = c
                        THEN [req[m] EXCEPT !.quiet = FALSE] ELSE req[m]]
<1>1. r \in Request
  BY DEF TypeOK, Request, Busy
<1>2. ASSUME NEW m \in Loops
      PROVE  /\ heard[m] \in Request \cup {NoRequest}
             /\ heard[m] = NoRequest <=> req[m] = NoRequest
             /\ req[m] # NoRequest =>
                    /\ heard[m].client = req[m].client /\ heard[m].op = req[m].op
                    /\ heard[m].cookie = req[m].cookie /\ heard[m].user = req[m].user
                    /\ heard[m].bodyOk = req[m].bodyOk /\ heard[m].before = req[m].before
                    /\ heard[m].quiet <=> req[m].quiet /\ ~(op = "login" /\ req[m].client = c)
  <2>1. CASE req[m] = NoRequest
    BY <2>1 DEF TypeOK
  <2>2. CASE req[m] # NoRequest
    <3>1. req[m] \in Request /\ pc[m] # "idle"
      BY <2>2 DEF TypeOK
    <3>2. CASE op = "login" /\ req[m].client = c
      BY <3>1, <3>2, NoRequestAssumption DEF Request
    <3>3. CASE ~(op = "login" /\ req[m].client = c)
      BY <3>1, <3>3, NoRequestAssumption
    <3> QED
      BY <3>2, <3>3
  <2> QED
    BY <2>1, <2>2
<1>3. req' = [heard EXCEPT ![l] = r]
  BY DEF Receive
<1> HIDE DEF heard
<1>4. heard \in [Loops -> Request \cup {NoRequest}]
  BY <1>2 DEF heard
<1>5. req'[l] = r /\ \A m \in Loops \ {l} : req'[m] = heard[m]
  BY <1>3, <1>4
<1>6. req' \in [Loops -> Request \cup {NoRequest}]
  BY <1>1, <1>3, <1>4
<1>7. /\ r.client = c /\ r.op = op /\ r.user = u /\ r.cookie = cookie[c] /\ r.bodyOk = ok
      /\ r.quiet <=> ~Busy(c, "login")
  OBVIOUS
<1>8. \A m \in Loops \ {l} :
        /\ req'[m] = NoRequest <=> req[m] = NoRequest
        /\ req[m] # NoRequest =>
            /\ req'[m].client = req[m].client /\ req'[m].op = req[m].op
            /\ req'[m].cookie = req[m].cookie /\ req'[m].user = req[m].user
            /\ req'[m].bodyOk = req[m].bodyOk /\ req'[m].before = req[m].before
            /\ req'[m].quiet <=> req[m].quiet /\ ~(op = "login" /\ req[m].client = c)
  BY <1>2, <1>5
<1>9. req'[l] # NoRequest
  BY <1>1, <1>5, NoRequestAssumption
<1> HIDE DEF r
<1> QED
  BY <1>5, <1>6, <1>7, <1>8, <1>9

(* "before" is what the login finds, no part of the request. *)
LEMMA SetUserRequests ==
    ASSUME TypeOK, NEW l \in Loops, SetUser(l)
    PROVE  /\ req' \in [Loops -> Request \cup {NoRequest}]
           /\ req'[l] # NoRequest
           /\ req'[l].client = req[l].client /\ req'[l].op = req[l].op
           /\ req'[l].user = req[l].user /\ req'[l].cookie = req[l].cookie
           /\ sess[l] \in loggedIn /\ userOf[sess[l]] = req[l].user => req'[l].before
           /\ \A m \in Loops \ {l} : req'[m] = req[m]
<1> DEFINE b == sess[l] \in loggedIn /\ userOf[sess[l]] = req[l].user
<1>1. b \in BOOLEAN /\ req' = [req EXCEPT ![l].before = b]
  BY DEF SetUser
<1> HIDE DEF b
<1>2. req[l] \in Request
  BY DEF SetUser, TypeOK
<1>3. [req[l] EXCEPT !.before = b] \in Request
  BY <1>1, <1>2 DEF Request
<1>4. req'[l] = [req[l] EXCEPT !.before = b] /\ \A m \in Loops \ {l} : req'[m] = req[m]
  BY <1>1 DEF TypeOK
<1>5. ASSUME sess[l] \in loggedIn, userOf[sess[l]] = req[l].user PROVE req'[l].before
  <2>1. req'[l] = [req[l] EXCEPT !.before = TRUE]
    BY <1>4, <1>5 DEF b
  <2> QED
    BY <1>2, <2>1 DEF Request
<1>6. /\ req'[l].client = req[l].client /\ req'[l].op = req[l].op
      /\ req'[l].user = req[l].user /\ req'[l].cookie = req[l].cookie
  BY <1>2, <1>4 DEF Request
<1>7. req' \in [Loops -> Request \cup {NoRequest}]
  BY <1>1, <1>3 DEF TypeOK
<1> QED
  BY <1>1, <1>3, <1>4, <1>5, <1>6, <1>7, NoRequestAssumption

(* Type correctness: each handler goes through its own steps, and at each  *)
(* step that uses a session or a user it has one.                          *)
THEOREM TypeCorrect == Spec => [](TypeOK /\ StepsOK)
<1>1. Init => TypeOK /\ StepsOK
  BY ConstantsAssumption DEF Init, TypeOK, StepsOK, LoginSteps, LogoutSteps, ChatSteps, Acting, PC
<1>2. TypeOK /\ StepsOK /\ [Next]_vars => TypeOK' /\ StepsOK'
  <2> SUFFICES ASSUME TypeOK, StepsOK, [Next]_vars PROVE TypeOK' /\ StepsOK'
    OBVIOUS
  <2> USE ConstantsAssumption, NoRequestAssumption
      DEF TypeOK, StepsOK, LoginSteps, LogoutSteps, ChatSteps, Acting, PC, Goto,
          sessionVars, history, loopVars
  <2>1. ASSUME NEW l \in Loops, NEW c \in Clients, NEW op \in Ops,
               NEW u \in Users \cup {NoUser}, NEW ok \in BOOLEAN, Receive(l, c, op, u, ok)
        PROVE  TypeOK' /\ StepsOK'
    <3>1. UNCHANGED <<stored, expired, userOf, loggedIn, issued, online, cookie, sess,
                      proved, logins, stranded>>
      BY <2>1 DEF Receive
    <3>2. pc' = [pc EXCEPT ![l] = IF op = "login" THEN "query" ELSE "load"] /\ pc[l] = "idle"
      BY <2>1 DEF Receive
    <3>3. requests' \in Nat /\ signedOut' \subseteq Clients /\ (op = "login" => u \in Users)
      BY <2>1 DEF Receive
    <3> HIDE DEF sessionVars, history, loopVars, Goto
    <3>4. TypeOK'
      BY <2>1, <3>1, <3>2, <3>3, ReceiveRequests
    <3>5. StepsOK'
      BY <2>1, <3>1, <3>2, <3>3, ReceiveRequests
    <3> QED
      BY <3>4, <3>5
  <2>2. ASSUME NEW l \in Loops, LoadSession(l) PROVE TypeOK' /\ StepsOK'
    BY <2>2 DEF LoadSession, Alive, Request
  <2>3. ASSUME NEW l \in Loops, SaveSession(l) PROVE TypeOK' /\ StepsOK'
    BY <2>3 DEF SaveSession, Request, Ops
  <2>4. ASSUME NEW l \in Loops, LoginAccepted(l) PROVE TypeOK' /\ StepsOK'
    BY <2>4 DEF LoginAccepted, Request
  <2>5. ASSUME NEW l \in Loops, SetUser(l) PROVE TypeOK' /\ StepsOK'
    <3>1. /\ pc[l] = "setUser" /\ pc' = [pc EXCEPT ![l] = "setLoggedIn"]
          /\ userOf' = [userOf EXCEPT ![sess[l]] = req[l].user]
          /\ stored' = stored \cup {sess[l]}
          /\ stranded' \subseteq Users
          /\ UNCHANGED <<expired, loggedIn, issued, online, cookie, sess, requests,
                         proved, signedOut, logins>>
      BY <2>5 DEF SetUser, Strand
    <3> QED
      BY <2>5, <3>1, SetUserRequests
  <2>6. ASSUME NEW l \in Loops, SetLoggedIn(l) PROVE TypeOK' /\ StepsOK'
    BY <2>6 DEF SetLoggedIn
  <2>7. ASSUME NEW l \in Loops, Answer(l), online' \subseteq Users,
               UNCHANGED <<sessionVars, requests, proved>>,
               signedOut' \subseteq Clients, logins' \in [Users -> Nat],
               stranded' \subseteq Users
        PROVE  TypeOK' /\ StepsOK'
    BY <2>7 DEF Answer, Request
  <2>8. ASSUME NEW l \in Loops, MarkOnline(l) \/ EraseOnline(l) \/ LogoutThrows(l)
        PROVE  TypeOK' /\ StepsOK'
    BY <2>7, <2>8 DEF MarkOnline, EraseOnline, LogoutThrows, Request
  <2>9. ASSUME NEW l \in Loops, ReadUser(l) \/ GetUser(l) PROVE TypeOK' /\ StepsOK'
    BY <2>9 DEF ReadUser, GetUser, Request
  <2>10. ASSUME NEW l \in Loops, ClearSession(l) \/ DestroySession(l)
         PROVE  TypeOK' /\ StepsOK'
    BY <2>10 DEF ClearSession, DestroySession, Strand
  <2>11. ASSUME NEW l \in Loops, CheckOnline(l) \/ ParseBody(l) \/ CheckLogin(l)
         PROVE  TypeOK' /\ StepsOK'
    BY <2>11 DEF CheckOnline, ParseBody, CheckLogin
  <2>12. ASSUME NEW l \in Loops,
                \/ LoginRejected(l) \/ RefuseLogin(l) \/ LogoutWithoutUser(l)
                \/ Unauthorized(l) \/ NoUserLeft(l) \/ Serve(l)
         PROVE  TypeOK' /\ StepsOK'
    BY <2>7, <2>12 DEF LoginRejected, RefuseLogin, LogoutWithoutUser, Unauthorized,
                       NoUserLeft, Serve
  <2>13. ASSUME NEW s \in SessionIds, Expire(s) PROVE TypeOK' /\ StepsOK'
    BY <2>13 DEF Expire, Alive
  <2>14. CASE UNCHANGED vars
    BY <2>14 DEF vars
  <2> QED
    BY <2>1, <2>2, <2>3, <2>4, <2>5, <2>6, <2>8, <2>9, <2>10, <2>11, <2>12, <2>13, <2>14
       DEF Next, Finished
<1> QED
  BY <1>1, <1>2, PTL DEF Spec

(***************************************************************************)
(* Who has a session                                                       *)
(***************************************************************************)
(* A browser has a session if it is its cookie, or that of a request of    *)
(* its, or one a handler is about to send it.                              *)
Holds(c, s) ==
    \/ cookie[c] = s
    \/ \E l \in Loops : pc[l] # "idle" /\ req[l].client = c /\ s \in {req[l].cookie, sess[l]}

OneOwner ==
    \A s \in SessionIds : \A c, d \in Clients : Holds(c, s) /\ Holds(d, s) => c = d

HeldIsIssued == \A s \in SessionIds, c \in Clients : Holds(c, s) => s \in issued

OwnerInv == OneOwner /\ HeldIsIssued

(* A session id that was issued stays issued. *)
LEMMA IssuedGrows == ASSUME TypeOK, [Next]_vars PROVE issued \subseteq issued'
<1>1. ASSUME NEW l \in Loops, NEW c \in Clients, NEW op \in Ops,
             NEW u \in Users \cup {NoUser}, NEW ok \in BOOLEAN, Receive(l, c, op, u, ok)
      PROVE  UNCHANGED issued
  BY <1>1 DEF Receive, sessionVars
<1>2. ASSUME NEW l \in Loops, LoadSession(l) PROVE issued \subseteq issued'
  BY <1>2 DEF LoadSession
<1>3. ASSUME NEW l \in Loops,
             \/ SaveSession(l) \/ LoginRejected(l) \/ LoginAccepted(l) \/ SetUser(l)
             \/ SetLoggedIn(l) \/ CheckOnline(l) \/ RefuseLogin(l) \/ MarkOnline(l)
             \/ LogoutWithoutUser(l) \/ ReadUser(l) \/ ClearSession(l) \/ DestroySession(l)
             \/ LogoutThrows(l) \/ ParseBody(l) \/ EraseOnline(l) \/ Unauthorized(l)
             \/ CheckLogin(l) \/ NoUserLeft(l) \/ GetUser(l) \/ Serve(l)
      PROVE  UNCHANGED issued
  BY <1>3 DEF sessionVars, SaveSession, LoginRejected, LoginAccepted, SetUser, SetLoggedIn,
              CheckOnline, RefuseLogin, MarkOnline, LogoutWithoutUser, ReadUser, ClearSession,
              DestroySession, LogoutThrows, ParseBody, EraseOnline, Unauthorized, CheckLogin,
              NoUserLeft, GetUser, Serve
<1>4. ASSUME NEW s \in SessionIds, Expire(s) PROVE UNCHANGED issued
  BY <1>4 DEF Expire
<1>5. CASE UNCHANGED vars
  BY <1>5 DEF vars, sessionVars
<1> QED
  BY <1>1, <1>2, <1>3, <1>4, <1>5 DEF Next, Finished

(* A browser gets a session only from LoadSession(), which draws a new id. *)
LEMMA NewHolders ==
    ASSUME TypeOK, StepsOK, [Next]_vars,
           NEW s \in SessionIds, NEW c \in Clients, Holds(c, s)'
    PROVE  \/ Holds(c, s)
           \/ s \notin issued /\ \E l \in Loops :
                /\ LoadSession(l)
                /\ c = req[l].client
                /\ s = sess'[l]
<1> USE ConstantsAssumption, NoRequestAssumption DEF Goto
<1>1. ASSUME UNCHANGED <<cookie, sess>>,
             \A m \in Loops : pc'[m] # "idle" => /\ pc[m] # "idle"
                                               /\ req'[m].client = req[m].client
                                               /\ req'[m].cookie = req[m].cookie
      PROVE  Holds(c, s)
  BY <1>1 DEF Holds
<1>2. ASSUME NEW l \in Loops, pc[l] # "idle", Answer(l) PROVE Holds(c, s)
  BY <1>2 DEF Answer, Holds, TypeOK, Request
<1>3. ASSUME NEW l \in Loops, NEW d \in Clients, NEW op \in Ops,
             NEW u \in Users \cup {NoUser}, NEW ok \in BOOLEAN, Receive(l, d, op, u, ok)
      PROVE  Holds(c, s)
  <2>1. UNCHANGED <<cookie, sess>> /\ pc' = [pc EXCEPT ![l] = IF op = "login" THEN "query" ELSE "load"]
    BY <1>3 DEF Receive
  <2>2. sess[l] = NoSession
    BY <1>3 DEF Receive, TypeOK
  <2> QED
    BY SMTT(30), <1>3, <2>1, <2>2, ReceiveRequests DEF Holds, TypeOK
<1>4. ASSUME NEW l \in Loops, LoadSession(l)
      PROVE  Holds(c, s) \/ (s \notin issued /\ c = req[l].client /\ s = sess'[l])
  <2>1. UNCHANGED <<cookie, req>> /\ pc[l] = "load" /\ pc' = [pc EXCEPT ![l] = "save"]
    BY <1>4 DEF LoadSession
  <2>2. PICK t \in IF Alive(req[l].cookie) THEN {req[l].cookie} ELSE SessionIds \ issued :
          sess' = [sess EXCEPT ![l] = t]
    BY <1>4 DEF LoadSession
  <2> QED
    BY <2>1, <2>2 DEF Holds, TypeOK
<1>5. ASSUME NEW l \in Loops, SetUser(l) PROVE Holds(c, s)
  <2>1. UNCHANGED <<cookie, sess>> /\ pc' = [pc EXCEPT ![l] = "setLoggedIn"] /\ pc[l] = "setUser"
    BY <1>5 DEF SetUser
  <2> QED
    BY <1>1, <1>5, <2>1, SetUserRequests DEF TypeOK
<1>6. ASSUME NEW l \in Loops, ReadUser(l) \/ GetUser(l) PROVE Holds(c, s)
  BY <1>1, <1>6 DEF ReadUser, GetUser, TypeOK, Request
<1>7. ASSUME NEW l \in Loops,
             \/ SaveSession(l) \/ LoginAccepted(l) \/ SetLoggedIn(l) \/ CheckOnline(l)
             \/ ClearSession(l) \/ DestroySession(l) \/ ParseBody(l) \/ CheckLogin(l)
      PROVE  Holds(c, s)
  BY <1>1, <1>7 DEF SaveSession, LoginAccepted, SetLoggedIn, CheckOnline, ClearSession,
                    DestroySession, ParseBody, CheckLogin, TypeOK
<1>8. ASSUME NEW l \in Loops,
             \/ LoginRejected(l) \/ RefuseLogin(l) \/ MarkOnline(l) \/ LogoutWithoutUser(l)
             \/ LogoutThrows(l) \/ EraseOnline(l) \/ Unauthorized(l) \/ NoUserLeft(l) \/ Serve(l)
      PROVE  Holds(c, s)
  BY <1>2, <1>8 DEF LoginRejected, RefuseLogin, MarkOnline, LogoutWithoutUser, LogoutThrows,
                    EraseOnline, Unauthorized, NoUserLeft, Serve
<1>9. ASSUME NEW t \in SessionIds, Expire(t) PROVE Holds(c, s)
  BY <1>1, <1>9 DEF Expire, loopVars
<1>10. CASE UNCHANGED vars
  BY <1>1, <1>10 DEF vars, loopVars
<1> QED
  BY <1>3, <1>4, <1>5, <1>6, <1>7, <1>8, <1>9, <1>10 DEF Next, Finished

(* A session that is somebody's never becomes somebody else's. *)
THEOREM SessionsHaveOneOwner == Spec => []OwnerInv
<1>1. Init => OwnerInv
  BY ConstantsAssumption DEF Init, OwnerInv, OneOwner, HeldIsIssued, Holds
<1>2. TypeOK /\ StepsOK /\ OwnerInv /\ [Next]_vars => OwnerInv'
  <2> SUFFICES ASSUME TypeOK, StepsOK, OwnerInv, [Next]_vars PROVE OwnerInv'
    OBVIOUS
  <2> USE DEF OwnerInv
  <2>1. HeldIsIssued'
    <3>1. issued \subseteq issued'
      BY IssuedGrows
    <3>2. ASSUME NEW l \in Loops, LoadSession(l) PROVE sess'[l] \in issued'
      BY <3>2 DEF LoadSession, TypeOK
    <3> QED
      BY <3>1, <3>2, NewHolders DEF HeldIsIssued
  <2>2. ASSUME NEW s \in SessionIds, NEW c \in Clients, NEW d \in Clients,
               Holds(c, s)', Holds(d, s)'
        PROVE  c = d
    <3>1. CASE s \in issued
      BY <2>2, <3>1, NewHolders DEF OneOwner
    <3>2. CASE s \notin issued
      <4>1. PICK l \in Loops : LoadSession(l) /\ c = req[l].client
        BY <2>2, <3>2, NewHolders DEF HeldIsIssued
      <4>2. PICK m \in Loops : LoadSession(m) /\ d = req[m].client
        BY <2>2, <3>2, NewHolders DEF HeldIsIssued
      <4>3. l = m
        BY <4>1, <4>2 DEF LoadSession, Goto, TypeOK
      <4> QED
        BY <4>1, <4>2, <4>3
    <3> QED
      BY <3>1, <3>2
  <2> QED
    BY <2>1, <2>2 DEF OneOwner
<1> QED
  BY <1>1, <1>2, TypeCorrect, PTL DEF Spec

UserIsProved ==
    \A s \in SessionIds : userOf[s] # NoUser =>
        /\ s \in issued
        /\ \A c \in Clients : Holds(c, s) => <<c, userOf[s]>> \in proved

LoginIsProved ==
    \A l \in Loops : pc[l] \notin {"idle", "query"} /\ req[l].op = "login" =>
        <<req[l].client, req[l].user>> \in proved

ProvedInv == UserIsProved /\ LoginIsProved /\ ActsForProvedUser

(* Who is in a session or logs in has given the password. *)
THEOREM PasswordsAreProved == Spec => []ProvedInv
<1>1. Init => ProvedInv
  BY DEF Init, ProvedInv, UserIsProved, LoginIsProved, ActsForProvedUser, Acting
<1>2. TypeOK /\ StepsOK /\ OwnerInv /\ ProvedInv /\ [Next]_vars => ProvedInv'
  <2> SUFFICES ASSUME TypeOK, StepsOK, OwnerInv, ProvedInv, [Next]_vars PROVE ProvedInv'
    OBVIOUS
  <2> USE ConstantsAssumption, NoRequestAssumption DEF ProvedInv, Goto
  <2>0. ASSUME proved \subseteq proved',
               \A s \in SessionIds : userOf'[s] \in {userOf[s], NoUser}
        PROVE  UserIsProved'
    <3> SUFFICES ASSUME NEW s \in SessionIds, userOf'[s] # NoUser
                 PROVE  s \in issued' /\ \A c \in Clients : Holds(c, s)' => <<c, userOf'[s]>> \in proved'
      BY DEF UserIsProved
    <3>1. userOf'[s] = userOf[s] /\ s \in issued
      BY <2>0 DEF UserIsProved
    <3> QED
      BY <2>0, <3>1, IssuedGrows, NewHolders DEF UserIsProved
  <2>1. ASSUME proved \subseteq proved',
               \A m \in Loops : pc'[m] # "idle" =>
                    /\ pc[m] # "idle"
                    /\ req'[m].client = req[m].client /\ req'[m].op = req[m].op
                    /\ req'[m].user = req[m].user
                    /\ pc'[m] \in Acting => pc[m] \in Acting
                    /\ pc[m] = "query" => pc'[m] = "query"
        PROVE  LoginIsProved' /\ ActsForProvedUser'
    BY <2>1 DEF LoginIsProved, ActsForProvedUser, Acting
  <2>2. ASSUME NEW l \in Loops, pc[l] # "idle", Answer(l), UNCHANGED <<userOf, proved>>
        PROVE  ProvedInv'
    BY <2>0, <2>1, <2>2 DEF Answer, TypeOK
  <2>3. ASSUME NEW l \in Loops, NEW c \in Clients, NEW op \in Ops,
               NEW u \in Users \cup {NoUser}, NEW ok \in BOOLEAN, Receive(l, c, op, u, ok)
        PROVE  ProvedInv'
    <3>1. UNCHANGED <<userOf, proved>> /\ pc' = [pc EXCEPT ![l] = IF op = "login" THEN "query" ELSE "load"]
      BY <2>3 DEF Receive, sessionVars
    <3>2. LoginIsProved'
      <4> SUFFICES ASSUME NEW m \in Loops, pc'[m] \notin {"idle", "query"}, req'[m].op = "login"
                   PROVE  <<req'[m].client, req'[m].user>> \in proved'
        BY DEF LoginIsProved
      <4>1. m # l
        BY <2>3, <3>1, ReceiveRequests DEF TypeOK
      <4>2. pc'[m] = pc[m] /\ req[m] # NoRequest
        BY <3>1, <4>1 DEF TypeOK
      <4> QED
        BY <2>3, <3>1, <4>1, <4>2, ReceiveRequests DEF LoginIsProved
    <3>3. ActsForProvedUser'
      <4> SUFFICES ASSUME NEW m \in Loops, pc'[m] \in Acting
                   PROVE  <<req'[m].client, req'[m].user>> \in proved'
        BY DEF ActsForProvedUser
      <4>1. m # l /\ pc'[m] = pc[m] /\ req[m] # NoRequest
        BY <3>1 DEF TypeOK, Acting
      <4> QED
        BY <2>3, <3>1, <4>1, ReceiveRequests DEF ActsForProvedUser
    <3> QED
      BY <2>0, <3>1, <3>2, <3>3
  <2>4. ASSUME NEW l \in Loops,
               \/ LoadSession(l) \/ SaveSession(l) \/ SetLoggedIn(l) \/ CheckOnline(l)
               \/ ClearSession(l) \/ DestroySession(l) \/ ParseBody(l) \/ CheckLogin(l)
        PROVE  ProvedInv'
    <3>1. /\ UNCHANGED <<proved, req>>
          /\ pc[l] \notin {"idle", "query"}
          /\ \E w \in PC : pc' = [pc EXCEPT ![l] = w] /\ (w \in Acting => pc[l] \in Acting)
      BY <2>4 DEF LoadSession, SaveSession, SetLoggedIn, CheckOnline, ClearSession, DestroySession,
                  ParseBody, CheckLogin, history, Acting, PC, TypeOK, Request, Ops
    <3>2. \A s \in SessionIds : userOf'[s] \in {userOf[s], NoUser}
      BY <2>4 DEF LoadSession, SaveSession, SetLoggedIn, CheckOnline, ClearSession, DestroySession,
                  ParseBody, CheckLogin, sessionVars, TypeOK
    <3> QED
      BY <2>0, <2>1, <3>1, <3>2 DEF TypeOK
  <2>5. ASSUME NEW l \in Loops, LoginAccepted(l) PROVE ProvedInv'
    <3>1. /\ UNCHANGED <<userOf, req>>
          /\ pc[l] = "query" /\ pc' = [pc EXCEPT ![l] = "load"]
          /\ proved' = proved \cup {<<req[l].client, req[l].user>>}
      BY <2>5 DEF LoginAccepted, sessionVars
    <3> QED
      BY <2>0, <3>1 DEF LoginIsProved, ActsForProvedUser, Acting, TypeOK
  <2>6. ASSUME NEW l \in Loops, SetUser(l) PROVE ProvedInv'
    <3>1. /\ UNCHANGED <<proved, sess, cookie, issued>>
          /\ pc[l] = "setUser" /\ pc' = [pc EXCEPT ![l] = "setLoggedIn"]
          /\ userOf' = [userOf EXCEPT ![sess[l]] = req[l].user]
      BY <2>6 DEF SetUser
    <3>2. req[l].op = "login" /\ sess[l] \in issued /\ req[l].client \in Clients
      BY <3>1 DEF StepsOK, LoginSteps, TypeOK, Request
    <3>3. Holds(req[l].client, sess[l]) /\ <<req[l].client, req[l].user>> \in proved
      BY <3>1, <3>2 DEF Holds, LoginIsProved
    <3>4. ASSUME NEW s \in SessionIds, NEW c \in Clients, Holds(c, s)' PROVE Holds(c, s)
      <4>1. ~\E m \in Loops : LoadSession(m)
        BY <3>1 DEF LoadSession, TypeOK
      <4> QED
        BY <3>4, <4>1, NewHolders
    <3>5. UserIsProved'
      BY <3>1, <3>2, <3>3, <3>4 DEF UserIsProved, OwnerInv, OneOwner, TypeOK
    <3> QED
      BY <2>1, <2>6, <3>1, <3>5, SetUserRequests DEF TypeOK, Acting
  <2>7. ASSUME NEW l \in Loops, ReadUser(l) \/ GetUser(l) PROVE ProvedInv'
    <3>1. /\ UNCHANGED <<userOf, proved>>
          /\ userOf[sess[l]] # NoUser
          /\ pc[l] \in {"readUser", "getUser"}
          /\ req' = [req EXCEPT ![l].user = userOf[sess[l]]]
          /\ \E w \in {"clear", "serve"} : pc' = [pc EXCEPT ![l] = w]
      BY <2>7 DEF ReadUser, GetUser, sessionVars, history
    <3>2. /\ sess[l] \in SessionIds /\ req[l] \in Request
          /\ req[l].op # "login"
      BY <3>1 DEF TypeOK, StepsOK, LogoutSteps, ChatSteps
    <3>3. <<req[l].client, userOf[sess[l]]>> \in proved
      BY <3>1, <3>2 DEF UserIsProved, Holds, Request
    <3>4. /\ req'[l].client = req[l].client /\ req'[l].op = req[l].op
          /\ req'[l].user = userOf[sess[l]]
          /\ \A m \in Loops \ {l} : req'[m] = req[m] /\ pc'[m] = pc[m]
      BY <3>1, <3>2 DEF TypeOK, Request
    <3> QED
      BY <2>0, <3>1, <3>2, <3>3, <3>4 DEF LoginIsProved, ActsForProvedUser, Acting
  <2>8. ASSUME NEW l \in Loops,
               \/ LoginRejected(l) \/ RefuseLogin(l) \/ MarkOnline(l) \/ LogoutWithoutUser(l)
               \/ LogoutThrows(l) \/ EraseOnline(l) \/ Unauthorized(l) \/ NoUserLeft(l) \/ Serve(l)
        PROVE  ProvedInv'
    BY <2>2, <2>8 DEF LoginRejected, RefuseLogin, MarkOnline, LogoutWithoutUser, LogoutThrows,
                      EraseOnline, Unauthorized, NoUserLeft, Serve, sessionVars, history
  <2>9. ASSUME NEW s \in SessionIds, Expire(s) PROVE ProvedInv'
    BY <2>0, <2>1, <2>9 DEF Expire, loopVars
  <2>10. CASE UNCHANGED vars
    BY <2>0, <2>1, <2>10 DEF vars, loopVars, sessionVars, history
  <2> QED
    BY <2>3, <2>4, <2>5, <2>6, <2>7, <2>8, <2>9, <2>10 DEF Next, Finished
<1> QED
  BY <1>1, <1>2, TypeCorrect, SessionsHaveOneOwner, PTL DEF Spec

(* Whatever the loops interleave, the server acts for a user only on       *)
(* behalf of a browser that has given this user's password.                *)
THEOREM UsersAreProved == Spec => []ActsForProvedUser
<1>1. ProvedInv => ActsForProvedUser
  BY DEF ProvedInv
<1> QED
  BY <1>1, PasswordsAreProved, PTL

(***************************************************************************)
(* After a logout                                                          *)
(***************************************************************************)
(* A session that no cookie opened is known to its handler alone; unless   *)
(* that is a login there is nobody in it.                                  *)
NewIsAlone ==
    \A l \in Loops : sess[l] # NoSession /\ sess[l] # req[l].cookie =>
        /\ \A c \in Clients : cookie[c] # sess[l]
        /\ \A m \in Loops \ {l} : pc[m] # "idle" => sess[l] \notin {sess[m], req[m].cookie}
        /\ req[l].op # "login" => sess[l] \notin loggedIn /\ userOf[sess[l]] = NoUser

(* A logout that finds a user is in the session of its cookie. *)
LogoutOpensCookie ==
    \A l \in Loops : pc[l] \in LogoutSteps \ {"readUser"} => sess[l] = req[l].cookie

NewInv == NewIsAlone /\ LogoutOpensCookie

(* What a step does to the request of a loop it does not end. *)
LEMMA StepRequests ==
    ASSUME TypeOK, [Next]_vars, NEW m \in Loops, pc'[m] # "idle"
    PROVE  \/ /\ pc[m] # "idle" /\ req[m] # NoRequest
              /\ req'[m].client = req[m].client /\ req'[m].op = req[m].op
              /\ req'[m].cookie = req[m].cookie
              /\ req'[m].quiet => req[m].quiet
              /\ \/ pc'[m] \in {"destroy", "parse", "eraseOnline"} =>
                        pc[m] \in {"destroy", "parse", "eraseOnline"}
                 \/ ClearSession(m)
           \/ /\ pc[m] = "idle"
              /\ \E c \in Clients, op \in Ops, u \in Users \cup {NoUser}, ok \in BOOLEAN :
                    Receive(m, c, op, u, ok)
<1> USE NoRequestAssumption DEF Goto
<1>1. ASSUME NEW l \in Loops, NEW c \in Clients, NEW op \in Ops,
             NEW u \in Users \cup {NoUser}, NEW ok \in BOOLEAN, Receive(l, c, op, u, ok), l # m
      PROVE  /\ pc'[m] = pc[m] /\ req[m] # NoRequest
             /\ req'[m].client = req[m].client /\ req'[m].op = req[m].op
             /\ req'[m].cookie = req[m].cookie
             /\ req'[m].quiet => req[m].quiet
  <2>1. pc'[m] = pc[m] /\ req[m] # NoRequest
    BY <1>1 DEF Receive, TypeOK
  <2> QED
    BY <1>1, <2>1, ReceiveRequests
<1>2. ASSUME NEW l \in Loops, SetUser(l)
      PROVE  /\ pc[m] # "idle" /\ req[m] # NoRequest
             /\ req'[m].client = req[m].client /\ req'[m].op = req[m].op
             /\ req'[m].cookie = req[m].cookie
             /\ req'[m].quiet => req[m].quiet
             /\ pc'[m] \in {pc[m], "setLoggedIn"}
  <2>1. pc[l] = "setUser" /\ pc' = [pc EXCEPT ![l] = "setLoggedIn"] /\ req[l] \in Request
    BY <1>2 DEF SetUser, TypeOK
  <2>2. req'[m].quiet => req[m].quiet
    BY <1>2, <2>1 DEF SetUser, TypeOK, Request
  <2> QED
    BY <1>2, <2>1, <2>2, SetUserRequests DEF TypeOK
<1>3. ASSUME NEW l \in Loops, ReadUser(l) \/ GetUser(l)
      PROVE  /\ pc[m] # "idle" /\ req[m] # NoRequest
             /\ req'[m].client = req[m].client /\ req'[m].op = req[m].op
             /\ req'[m].cookie = req[m].cookie
             /\ req'[m].quiet => req[m].quiet
             /\ pc'[m] \in {pc[m], "clear", "serve"}
  BY <1>3 DEF ReadUser, GetUser, TypeOK, Request
<1>4. ASSUME NEW l \in Loops, pc[l] # "idle", Answer(l)
      PROVE  pc'[m] = pc[m] /\ req'[m] = req[m]
  BY <1>4 DEF Answer, TypeOK
<1>5. ASSUME NEW l \in Loops,
             \/ LoadSession(l) \/ SaveSession(l) \/ LoginAccepted(l) \/ SetLoggedIn(l)
             \/ CheckOnline(l) \/ DestroySession(l) \/ ParseBody(l) \/ CheckLogin(l)
      PROVE  /\ pc[m] # "idle" /\ req'[m] = req[m]
             /\ pc'[m] \in {"destroy", "parse", "eraseOnline"} =>
                        pc[m] \in {"destroy", "parse", "eraseOnline"}
  BY <1>5 DEF LoadSession, SaveSession, LoginAccepted, SetLoggedIn, CheckOnline, DestroySession,
              ParseBody, CheckLogin, TypeOK, Request, Ops
<1>6. ASSUME NEW l \in Loops, ClearSession(l)
      PROVE  pc[m] # "idle" /\ req'[m] = req[m] /\ (m = l \/ pc'[m] = pc[m])
  BY <1>6 DEF ClearSession, TypeOK
<1>7. ASSUME NEW l \in Loops,
             \/ LoginRejected(l) \/ RefuseLogin(l) \/ MarkOnline(l) \/ LogoutWithoutUser(l)
             \/ LogoutThrows(l) \/ EraseOnline(l) \/ Unauthorized(l) \/ NoUserLeft(l) \/ Serve(l)
      PROVE  pc'[m] = pc[m] /\ req'[m] = req[m]
  BY <1>4, <1>7 DEF LoginRejected, RefuseLogin, MarkOnline, LogoutWithoutUser, LogoutThrows,
                    EraseOnline, Unauthorized, NoUserLeft, Serve
<1>8. ASSUME (\E s \in SessionIds : Expire(s)) \/ UNCHANGED vars
      PROVE  pc'[m] = pc[m] /\ req'[m] = req[m]
  BY <1>8 DEF Expire, vars, loopVars
<1>9. ASSUME NEW c \in Clients, NEW op \in Ops, NEW u \in Users \cup {NoUser},
             NEW ok \in BOOLEAN, Receive(m, c, op, u, ok)
      PROVE  pc[m] = "idle"
  BY <1>9 DEF Receive
<1>10. pc[m] # "idle" => req[m] # NoRequest
  BY DEF TypeOK
<1>11. CASE \E l \in Loops : \E c \in Clients, op \in Ops, u \in Users \cup {NoUser}, ok \in BOOLEAN :
                Receive(l, c, op, u, ok)
  BY <1>1, <1>9, <1>11
<1> QED
  BY <1>2, <1>3, <1>5, <1>6, <1>7, <1>8, <1>10, <1>11 DEF Next, Finished

(* What a new session means is kept by every step. *)
THEOREM NewSessionsAreAlone == Spec => []NewInv
<1>1. Init => NewInv
  BY DEF Init, NewInv, NewIsAlone, LogoutOpensCookie, LogoutSteps
<1>2. TypeOK /\ TypeOK' /\ StepsOK /\ OwnerInv /\ ProvedInv /\ NewInv /\ [Next]_vars => NewInv'
  <2> SUFFICES ASSUME TypeOK, TypeOK', StepsOK, OwnerInv, ProvedInv, NewInv, [Next]_vars
               PROVE  NewInv'
    OBVIOUS
  <2> USE ConstantsAssumption, NoRequestAssumption DEF NewInv, Goto
  <2>1. ASSUME \A m \in Loops : pc'[m] # "idle" =>
                    /\ pc[m] # "idle"
                    /\ sess'[m] = sess[m]
                    /\ sess[m] # NoSession /\ sess[m] # req[m].cookie /\ req[m].op # "login" =>
                        /\ sess[m] \in loggedIn' => sess[m] \in loggedIn
                        /\ userOf[sess[m]] = NoUser => userOf'[sess[m]] = NoUser,
               \A c \in Clients : cookie'[c] \in {cookie[c]} \cup
                    {sess[m] : m \in {k \in Loops : pc'[k] = "idle" /\ sess[k] # req[k].cookie /\ sess[k] # NoSession}}
        PROVE  NewIsAlone'
    <3> SUFFICES ASSUME NEW l \in Loops, sess'[l] # NoSession, sess'[l] # req'[l].cookie
                 PROVE  /\ \A c \in Clients : cookie'[c] # sess'[l]
                        /\ \A m \in Loops \ {l} : pc'[m] # "idle" => sess'[l] \notin {sess'[m], req'[m].cookie}
                        /\ req'[l].op # "login" => sess'[l] \notin loggedIn' /\ userOf'[sess'[l]] = NoUser
      BY DEF NewIsAlone
    <3>1. pc'[l] # "idle" /\ pc[l] # "idle" /\ sess'[l] = sess[l]
      BY <2>1 DEF TypeOK
    <3>2. req'[l].cookie = req[l].cookie /\ req'[l].op = req[l].op
      BY <3>1, StepRequests
    <3>3. ASSUME NEW c \in Clients PROVE cookie'[c] # sess'[l]
      BY <2>1, <3>1, <3>2 DEF NewIsAlone, TypeOK
    <3>4. ASSUME NEW m \in Loops \ {l}, pc'[m] # "idle"
          PROVE  sess'[l] \notin {sess'[m], req'[m].cookie}
      <4>1. pc[m] # "idle" /\ sess'[m] = sess[m]
        BY <2>1, <3>4
      <4>2. req'[m].cookie = req[m].cookie
        BY <3>4, <4>1, StepRequests
      <4> QED
        BY <3>1, <3>2, <4>1, <4>2 DEF NewIsAlone
    <3> QED
      BY <2>1, <3>1, <3>2, <3>3, <3>4 DEF NewIsAlone
  <2>2. ASSUME NEW l \in Loops, NEW c \in Clients, NEW op \in Ops,
               NEW u \in Users \cup {NoUser}, NEW ok \in BOOLEAN, Receive(l, c, op, u, ok)
        PROVE  NewInv'
    <3>1. /\ UNCHANGED <<userOf, loggedIn, cookie, sess>>
          /\ sess[l] = NoSession /\ pc[l] = "idle" /\ pc'[l] \notin LogoutSteps
          /\ \A m \in Loops \ {l} : pc'[m] = pc[m]
      BY <2>2 DEF Receive, sessionVars, TypeOK, LogoutSteps
    <3>2. NewIsAlone'
      <4> SUFFICES ASSUME NEW k \in Loops, sess[k] # NoSession, sess[k] # req'[k].cookie
                   PROVE  /\ \A d \in Clients : cookie[d] # sess[k]
                          /\ \A m \in Loops \ {k} : pc'[m] # "idle" => sess[k] \notin {sess[m], req'[m].cookie}
                          /\ req'[k].op # "login" => sess[k] \notin loggedIn /\ userOf[sess[k]] = NoUser
        BY <3>1 DEF NewIsAlone
      <4>1. k # l /\ req[k] # NoRequest
        BY <3>1 DEF TypeOK
      <4>2. req'[k].cookie = req[k].cookie /\ req'[k].op = req[k].op
        BY <2>2, <4>1, ReceiveRequests
      <4>3. ASSUME NEW m \in Loops \ {k, l}, pc'[m] # "idle"
            PROVE  sess[k] \notin {sess[m], req'[m].cookie}
        <5>1. pc[m] # "idle" /\ req[m] # NoRequest
          BY <3>1, <4>3 DEF TypeOK
        <5>2. req'[m].cookie = req[m].cookie
          BY <2>2, <4>3, <5>1, ReceiveRequests
        <5> QED
          BY <4>2, <4>3, <5>1, <5>2 DEF NewIsAlone
      <4>4. sess[k] \notin {sess[l], req'[l].cookie}
        BY <2>2, <3>1, <4>2, ReceiveRequests DEF NewIsAlone
      <4> QED
        BY <4>2, <4>3, <4>4 DEF NewIsAlone
    <3>3. LogoutOpensCookie'
      BY <2>2, <3>1, ReceiveRequests DEF LogoutOpensCookie, LogoutSteps, TypeOK
    <3> QED
      BY <3>2, <3>3
  <2>3. ASSUME NEW l \in Loops, LoadSession(l) PROVE NewInv'
    <3>1. /\ UNCHANGED <<userOf, loggedIn, cookie, req>>
          /\ pc[l] = "load" /\ pc' = [pc EXCEPT ![l] = "save"]
      BY <2>3 DEF LoadSession
    <3>2. PICK s \in IF Alive(req[l].cookie) THEN {req[l].cookie} ELSE SessionIds \ issued :
            sess' = [sess EXCEPT ![l] = s]
      BY <2>3 DEF LoadSession
    <3>3. LogoutOpensCookie'
      BY <3>1, <3>2 DEF LogoutOpensCookie, LogoutSteps, TypeOK
    <3>4. CASE s = req[l].cookie
      BY <3>1, <3>2, <3>3, <3>4 DEF NewIsAlone, TypeOK
    <3>5. CASE s \in SessionIds \ issued
      <4>1. /\ \A c \in Clients : cookie[c] # s
            /\ \A m \in Loops : pc[m] # "idle" => req[m].cookie # s /\ sess[m] # s
            /\ s \notin loggedIn /\ userOf[s] = NoUser
        BY <3>5 DEF OwnerInv, HeldIsIssued, Holds, ProvedInv, UserIsProved, TypeOK, Request
      <4> QED
        BY <3>1, <3>2, <3>3, <4>1 DEF NewIsAlone, TypeOK
    <3> QED
      BY <3>2, <3>4, <3>5
  <2>4. ASSUME NEW l \in Loops, pc[l] # "idle", Answer(l), UNCHANGED <<loggedIn, userOf>>
        PROVE  NewInv'
    <3>1. NewIsAlone'
      BY <2>1, <2>4 DEF Answer, TypeOK
    <3>2. LogoutOpensCookie'
      BY <2>4 DEF Answer, LogoutOpensCookie, LogoutSteps, TypeOK
    <3> QED
      BY <3>1, <3>2
  <2>5. ASSUME UNCHANGED <<sess, req>>,
               \A m \in Loops : pc'[m] \in LogoutSteps \ {"readUser"} =>
                                pc[m] \in LogoutSteps \ {"readUser"}
        PROVE  LogoutOpensCookie'
    BY <2>5 DEF LogoutOpensCookie
  <2>6. ASSUME NEW l \in Loops,
               \/ SaveSession(l) \/ LoginAccepted(l) \/ CheckOnline(l) \/ ClearSession(l)
               \/ DestroySession(l) \/ ParseBody(l) \/ CheckLogin(l)
        PROVE  NewInv'
    <3>1. NewIsAlone'
      BY <2>1, <2>6 DEF SaveSession, LoginAccepted, CheckOnline, ClearSession, DestroySession,
                        ParseBody, CheckLogin, sessionVars, TypeOK
    <3>2. LogoutOpensCookie'
      BY <2>5, <2>6 DEF SaveSession, LoginAccepted, CheckOnline, ClearSession, DestroySession,
                        ParseBody, CheckLogin, LogoutSteps, TypeOK, Request, Ops
    <3> QED
      BY <3>1, <3>2
  <2>7. ASSUME NEW l \in Loops, SetUser(l) \/ SetLoggedIn(l) PROVE NewInv'
    <3>1. /\ UNCHANGED <<cookie, sess>>
          /\ pc[l] \in {"setUser", "setLoggedIn"}
          /\ \E w \in {"setLoggedIn", "checkOnline"} : pc' = [pc EXCEPT ![l] = w]
          /\ \A s \in SessionIds \ {sess[l]} :
                userOf'[s] = userOf[s] /\ (s \in loggedIn' => s \in loggedIn)
      BY <2>7 DEF SetUser, SetLoggedIn, TypeOK
    <3>2. req[l].op = "login" /\ sess[l] # NoSession
      BY <3>1 DEF StepsOK, LoginSteps, TypeOK
    <3>3. NewIsAlone'
      <4>1. ASSUME NEW m \in Loops, pc'[m] # "idle",
                   sess[m] # NoSession, sess[m] # req[m].cookie, req[m].op # "login"
            PROVE  /\ sess[m] \in loggedIn' => sess[m] \in loggedIn
                   /\ userOf[sess[m]] = NoUser => userOf'[sess[m]] = NoUser
        <5>1. m # l /\ pc[l] # "idle" /\ sess[m] \in SessionIds
          BY <3>1, <3>2, <4>1 DEF TypeOK
        <5> QED
          BY <3>1, <4>1, <5>1 DEF NewIsAlone
      <4> QED
        BY <2>1, <3>1, <4>1
    <3>4. LogoutOpensCookie'
      BY <2>7, <3>1, SetUserRequests DEF LogoutOpensCookie, LogoutSteps, TypeOK, SetLoggedIn
    <3> QED
      BY <3>3, <3>4
  <2>8. ASSUME NEW l \in Loops, ReadUser(l) \/ GetUser(l) PROVE NewInv'
    <3>1. NewIsAlone'
      BY <2>1, <2>8 DEF ReadUser, GetUser, sessionVars, TypeOK
    <3>2. /\ UNCHANGED sess /\ userOf[sess[l]] # NoUser /\ sess[l] # NoSession
          /\ \A m \in Loops \ {l} : pc'[m] = pc[m]
          /\ pc'[l] \in {"clear", "serve"} /\ req[l].op # "login"
      BY <2>8 DEF ReadUser, GetUser, TypeOK, StepsOK, LogoutSteps, ChatSteps
    <3>3. sess[l] = req[l].cookie
      BY <3>2 DEF NewIsAlone
    <3>4. \A m \in Loops : pc[m] # "idle" => req'[m].cookie = req[m].cookie
      BY <2>8 DEF ReadUser, GetUser, TypeOK, Request
    <3>5. LogoutOpensCookie'
      BY <3>2, <3>3, <3>4 DEF LogoutOpensCookie, LogoutSteps, TypeOK
    <3> QED
      BY <3>1, <3>5
  <2>9. ASSUME NEW l \in Loops,
               \/ LoginRejected(l) \/ RefuseLogin(l) \/ MarkOnline(l) \/ LogoutWithoutUser(l)
               \/ LogoutThrows(l) \/ EraseOnline(l) \/ Unauthorized(l) \/ NoUserLeft(l) \/ Serve(l)
        PROVE  NewInv'
    BY <2>4, <2>9 DEF LoginRejected, RefuseLogin, MarkOnline, LogoutWithoutUser, LogoutThrows,
                      EraseOnline, Unauthorized, NoUserLeft, Serve, sessionVars
  <2>10. ASSUME (\E s \in SessionIds : Expire(s)) \/ UNCHANGED vars PROVE NewInv'
    BY <2>10 DEF Expire, vars, loopVars, sessionVars, NewIsAlone, LogoutOpensCookie
  <2> QED
    BY <2>2, <2>3, <2>6, <2>7, <2>8, <2>9, <2>10 DEF Next, Finished
<1> QED
  BY <1>1, <1>2, TypeCorrect, SessionsHaveOneOwner, PasswordsAreProved, PTL DEF Spec

SignedOutIsQuiet == \A c \in signedOut : ~Busy(c, "login")

QuietMeansNoLogin ==
    \A l \in Loops : pc[l] # "idle" /\ req[l].op = "logout" /\ req[l].quiet =>
        ~Busy(req[l].client, "login")

LoggedOut(c) == cookie[c] = NoSession \/ cookie[c] \notin loggedIn

(* From clear() on the browser is out; until then its cookie is the one    *)
(* that clear() is about, or it is out as well.                            *)
QuietLogout ==
    \A l \in Loops : pc[l] # "idle" /\ req[l].op = "logout" /\ req[l].quiet =>
        \/ LoggedOut(req[l].client)
        \/ /\ pc[l] \notin {"destroy", "parse", "eraseOnline"}
           /\ cookie[req[l].client] = req[l].cookie

QuietInv == QuietMeansNoLogin /\ QuietLogout
SignedOutInv == SignedOutIsQuiet /\ LogoutEndsLogin

(* Only a request makes a browser busy. *)
LEMMA BusyFromReceive ==
    ASSUME TypeOK, [Next]_vars, NEW c \in Clients, Busy(c, "login")', ~Busy(c, "login")
    PROVE  \E l \in Loops, u \in Users \cup {NoUser}, ok \in BOOLEAN :
                Receive(l, c, "login", u, ok)
<1>1. PICK m \in Loops : pc'[m] # "idle" /\ req'[m].client = c /\ req'[m].op = "login"
  BY DEF Busy
<1>2. PICK d \in Clients, op \in Ops, u \in Users \cup {NoUser}, ok \in BOOLEAN :
        Receive(m, d, op, u, ok)
  BY <1>1, StepRequests DEF Busy
<1>3. d = c /\ op = "login"
  BY <1>1, <1>2, ReceiveRequests
<1> QED
  BY <1>2, <1>3

(* A browser that is not logging in gets no other session but one with     *)
(* nobody in it, and nobody gets into its session.                         *)
LEMMA QuietBrowser ==
    ASSUME TypeOK, StepsOK, OwnerInv, NewInv, [Next]_vars,
           NEW c \in Clients, ~Busy(c, "login")
    PROVE  /\ cookie'[c] = cookie[c] \/ LoggedOut(c)'
           /\ LoggedOut(c) => LoggedOut(c)'
<1> USE ConstantsAssumption DEF Goto
<1>1. ASSUME UNCHANGED <<cookie, loggedIn>>
      PROVE  cookie'[c] = cookie[c] /\ (LoggedOut(c) => LoggedOut(c)')
  BY <1>1 DEF LoggedOut
<1>2. ASSUME NEW l \in Loops, pc[l] # "idle", Answer(l), UNCHANGED loggedIn
      PROVE  /\ cookie'[c] = cookie[c] \/ LoggedOut(c)'
             /\ LoggedOut(c) => LoggedOut(c)'
  <2>1. CASE cookie'[c] = cookie[c]
    BY <1>2, <2>1 DEF LoggedOut
  <2>2. CASE cookie'[c] # cookie[c]
    <3>1. req[l].client = c /\ cookie'[c] = sess[l] /\ sess[l] \notin {NoSession, req[l].cookie}
      BY <1>2, <2>2 DEF Answer, TypeOK
    <3>2. sess[l] \notin loggedIn
      BY <1>2, <3>1 DEF Busy, NewInv, NewIsAlone
    <3> QED
      BY <1>2, <3>1, <3>2 DEF LoggedOut
  <2> QED
    BY <2>1, <2>2
<1>3. ASSUME NEW l \in Loops, SetLoggedIn(l)
      PROVE  cookie'[c] = cookie[c] /\ (LoggedOut(c) => LoggedOut(c)')
  <2>1. /\ UNCHANGED cookie /\ loggedIn' = loggedIn \cup {sess[l]} /\ pc[l] = "setLoggedIn"
    BY <1>3 DEF SetLoggedIn
  <2>2. /\ req[l].op = "login" /\ req[l].client \in Clients
        /\ sess[l] \in SessionIds /\ Holds(req[l].client, sess[l])
    BY <2>1 DEF StepsOK, LoginSteps, TypeOK, Request, Holds
  <2>3. cookie[c] # sess[l]
    BY <2>1, <2>2 DEF OwnerInv, OneOwner, Holds, Busy
  <2> QED
    BY <2>1, <2>3 DEF LoggedOut
<1>4. ASSUME NEW l \in Loops, ClearSession(l)
      PROVE  cookie'[c] = cookie[c] /\ (LoggedOut(c) => LoggedOut(c)')
  BY <1>4 DEF ClearSession, LoggedOut
<1>5. ASSUME NEW l \in Loops,
             \/ LoginRejected(l) \/ RefuseLogin(l) \/ MarkOnline(l) \/ LogoutWithoutUser(l)
             \/ LogoutThrows(l) \/ EraseOnline(l) \/ Unauthorized(l) \/ NoUserLeft(l) \/ Serve(l)
      PROVE  /\ cookie'[c] = cookie[c] \/ LoggedOut(c)'
             /\ LoggedOut(c) => LoggedOut(c)'
  BY <1>2, <1>5 DEF LoginRejected, RefuseLogin, MarkOnline, LogoutWithoutUser, LogoutThrows,
                    EraseOnline, Unauthorized, NoUserLeft, Serve, sessionVars
<1>6. ASSUME NEW l \in Loops,
             \/ LoadSession(l) \/ SaveSession(l) \/ LoginAccepted(l) \/ SetUser(l)
             \/ CheckOnline(l) \/ ReadUser(l) \/ DestroySession(l) \/ ParseBody(l)
             \/ CheckLogin(l) \/ GetUser(l)
      PROVE  UNCHANGED <<cookie, loggedIn>>
  BY <1>6 DEF LoadSession, SaveSession, LoginAccepted, SetUser, CheckOnline, ReadUser,
              DestroySession, ParseBody, CheckLogin, GetUser, sessionVars
<1>7. ASSUME NEW l \in Loops, NEW d \in Clients, NEW op \in Ops,
             NEW u \in Users \cup {NoUser}, NEW ok \in BOOLEAN, Receive(l, d, op, u, ok)
      PROVE  UNCHANGED <<cookie, loggedIn>>
  BY <1>7 DEF Receive, sessionVars
<1>8. ASSUME (\E s \in SessionIds : Expire(s)) \/ UNCHANGED vars
      PROVE  UNCHANGED <<cookie, loggedIn>>
  BY <1>8 DEF Expire, vars, sessionVars
<1> QED
  BY <1>1, <1>3, <1>4, <1>5, <1>6, <1>7, <1>8 DEF Next, Finished

(* While a logout that no login overlaps is under way. *)
THEOREM LogoutsAreQuiet == Spec => []QuietInv
<1>1. Init => QuietInv
  BY DEF Init, QuietInv, QuietMeansNoLogin, QuietLogout
<1>2. TypeOK /\ TypeOK' /\ StepsOK /\ OwnerInv /\ NewInv /\ QuietInv /\ [Next]_vars => QuietInv'
  <2> SUFFICES ASSUME TypeOK, TypeOK', StepsOK, OwnerInv, NewInv, QuietInv, [Next]_vars
               PROVE  QuietInv'
    OBVIOUS
  <2>1. ASSUME NEW m \in Loops, pc'[m] # "idle", req'[m].op = "logout", req'[m].quiet,
               NEW c \in Clients, c = req'[m].client
        PROVE  /\ ~Busy(c, "login")'
               /\ \/ LoggedOut(c)'
                  \/ /\ pc'[m] \notin {"destroy", "parse", "eraseOnline"}
                     /\ cookie'[c] = req'[m].cookie
    <3> USE NoRequestAssumption DEF Goto
    <3>1. CASE \E d \in Clients, op \in Ops, u \in Users \cup {NoUser}, ok \in BOOLEAN :
                  Receive(m, d, op, u, ok)
      <4>1. PICK d \in Clients, op \in Ops, u \in Users \cup {NoUser}, ok \in BOOLEAN :
              Receive(m, d, op, u, ok)
        BY <3>1
      <4>2. /\ d = c /\ op = "logout" /\ req'[m].cookie = cookie[c]
            /\ ~Busy(c, "login")
        BY <2>1, <4>1, ReceiveRequests
      <4>3. UNCHANGED cookie /\ pc'[m] = "load"
        BY <4>1, <4>2 DEF Receive, TypeOK
      <4>4. ~Busy(c, "login")'
        <5>1. SUFFICES ASSUME Busy(c, "login")' PROVE FALSE
          OBVIOUS
        <5>2. PICK u2 \in Users \cup {NoUser}, ok2 \in BOOLEAN, k \in Loops :
                Receive(k, c, "login", u2, ok2)
          BY <4>2, <5>1, BusyFromReceive
        <5>3. pc' = [pc EXCEPT ![k] = "query"] /\ pc[m] = "idle"
          BY <4>1, <5>2 DEF Receive
        <5> QED
          BY <4>3, <5>3 DEF TypeOK
      <4> QED
        BY <4>2, <4>3, <4>4
    <3>2. CASE ~\E d \in Clients, op \in Ops, u \in Users \cup {NoUser}, ok \in BOOLEAN :
                  Receive(m, d, op, u, ok)
      <4>1. /\ pc[m] # "idle" /\ req[m] # NoRequest
            /\ req[m].client = c /\ req[m].op = "logout" /\ req'[m].cookie = req[m].cookie
            /\ req[m].quiet
            /\ \/ pc'[m] \in {"destroy", "parse", "eraseOnline"} =>
                      pc[m] \in {"destroy", "parse", "eraseOnline"}
               \/ ClearSession(m)
        BY <2>1, <3>2, StepRequests
      <4>2. ~Busy(c, "login") /\ (\/ LoggedOut(c)
                                  \/ /\ pc[m] \notin {"destroy", "parse", "eraseOnline"}
                                     /\ cookie[c] = req[m].cookie)
        BY <4>1 DEF QuietInv, QuietMeansNoLogin, QuietLogout
      <4>3. ~Busy(c, "login")'
        <5>1. ASSUME NEW l \in Loops, NEW u \in Users \cup {NoUser}, NEW ok \in BOOLEAN,
                     Receive(l, c, "login", u, ok)
              PROVE  FALSE
          <6>1. l # m
            BY <4>1, <5>1 DEF Receive
          <6> QED
            BY <2>1, <4>1, <4>2, <5>1, <6>1, ReceiveRequests DEF Ops
        <5> QED
          BY <4>2, <5>1, BusyFromReceive
      <4>4. CASE ClearSession(m)
        <5>1. /\ pc[m] = "clear" /\ UNCHANGED cookie /\ loggedIn' = loggedIn \ {sess[m]}
              /\ sess[m] = req[m].cookie
          BY <4>4 DEF ClearSession, NewInv, LogoutOpensCookie, LogoutSteps
        <5> QED
          BY <4>1, <4>2, <4>3, <5>1 DEF LoggedOut
      <4>5. CASE ~ClearSession(m)
        BY <4>1, <4>2, <4>3, <4>5, QuietBrowser
      <4> QED
        BY <4>4, <4>5
    <3> QED
      BY <3>1, <3>2
  <2>2. \A m \in Loops : pc'[m] # "idle" => req'[m].client \in Clients
    BY DEF TypeOK, Request
  <2>3. QuietMeansNoLogin'
    BY <2>1, <2>2 DEF QuietMeansNoLogin, Busy
  <2>4. QuietLogout'
    BY <2>1, <2>2 DEF QuietLogout, LoggedOut
  <2> QED
    BY <2>3, <2>4 DEF QuietInv
<1> QED
  BY <1>1, <1>2, TypeCorrect, SessionsHaveOneOwner, NewSessionsAreAlone, PTL DEF Spec

(* After a logout that was answered with 200 and that no login overlapped  *)
(* the browser's cookie opens nothing until it logs in again, whatever the *)
(* requests that were under way store.                                     *)
THEOREM LogoutsEndLogins == Spec => []LogoutEndsLogin
<1>1. Init => SignedOutInv
  BY DEF Init, SignedOutInv, SignedOutIsQuiet, LogoutEndsLogin
<1>2. TypeOK /\ StepsOK /\ OwnerInv /\ NewInv /\ QuietInv /\ SignedOutInv /\ [Next]_vars => SignedOutInv'
  <2> SUFFICES ASSUME TypeOK, StepsOK, OwnerInv, NewInv, QuietInv, SignedOutInv, [Next]_vars,
                      NEW c \in signedOut'
               PROVE  ~Busy(c, "login")' /\ LoggedOut(c)'
    BY DEF SignedOutInv, SignedOutIsQuiet, LogoutEndsLogin, LoggedOut
  <2>1. c \in signedOut \/ \E l \in Loops : EraseOnline(l) /\ req[l].quiet /\ c = req[l].client
    <3>1. ASSUME NEW l \in Loops, NEW d \in Clients, NEW op \in Ops,
                 NEW u \in Users \cup {NoUser}, NEW ok \in BOOLEAN, Receive(l, d, op, u, ok)
          PROVE  signedOut' \subseteq signedOut
      BY <3>1 DEF Receive
    <3>2. ASSUME NEW l \in Loops,
                 \/ LoadSession(l) \/ SaveSession(l) \/ LoginRejected(l) \/ LoginAccepted(l)
                 \/ SetUser(l) \/ SetLoggedIn(l) \/ CheckOnline(l) \/ RefuseLogin(l)
                 \/ MarkOnline(l) \/ LogoutWithoutUser(l) \/ ReadUser(l) \/ ClearSession(l)
                 \/ DestroySession(l) \/ LogoutThrows(l) \/ ParseBody(l) \/ Unauthorized(l)
                 \/ CheckLogin(l) \/ NoUserLeft(l) \/ GetUser(l) \/ Serve(l)
          PROVE  UNCHANGED signedOut
      BY <3>2 DEF history, LoadSession, SaveSession, LoginRejected, LoginAccepted, SetUser,
                  SetLoggedIn, CheckOnline, RefuseLogin, MarkOnline, LogoutWithoutUser, ReadUser,
                  ClearSession, DestroySession, LogoutThrows, ParseBody, Unauthorized, CheckLogin,
                  NoUserLeft, GetUser, Serve
    <3>3. ASSUME NEW l \in Loops, EraseOnline(l)
          PROVE  signedOut' = signedOut \/ (req[l].quiet /\ signedOut' = signedOut \cup {req[l].client})
      BY <3>3 DEF EraseOnline
    <3>4. ASSUME (\E s \in SessionIds : Expire(s)) \/ UNCHANGED vars PROVE UNCHANGED signedOut
      BY <3>4 DEF Expire, vars, history
    <3> QED
      BY <3>1, <3>2, <3>3, <3>4 DEF Next, Finished
  <2>2. ~\E l \in Loops, u \in Users \cup {NoUser}, ok \in BOOLEAN : Receive(l, c, "login", u, ok)
    BY DEF Receive
  <2>3. c \in Clients /\ ~Busy(c, "login") /\ LoggedOut(c)
    <3>1. CASE c \in signedOut
      BY <3>1 DEF SignedOutInv, SignedOutIsQuiet, LogoutEndsLogin, LoggedOut, TypeOK
    <3>2. ASSUME NEW l \in Loops, EraseOnline(l), req[l].quiet, c = req[l].client
          PROVE  c \in Clients /\ ~Busy(c, "login") /\ LoggedOut(c)
      BY <3>2 DEF EraseOnline, QuietInv, QuietMeansNoLogin, QuietLogout, StepsOK, LogoutSteps,
                  TypeOK, Request
    <3> QED
      BY <2>1, <3>1, <3>2
  <2> QED
    BY <2>2, <2>3, BusyFromReceive, QuietBrowser
<1>3. SignedOutInv => LogoutEndsLogin
  BY DEF SignedOutInv
<1> QED
  BY <1>1, <1>2, <1>3, TypeCorrect, SessionsHaveOneOwner, NewSessionsAreAlone, LogoutsAreQuiet,
     PTL DEF Spec

(***************************************************************************)
(* Who is locked out                                                       *)
(***************************************************************************)
(* A session that a handler uses does not expire. *)
UsedIsFresh ==
    \A l \in Loops : pc[l] # "save" /\ sess[l] # NoSession => sess[l] \notin expired

InSession(l) == pc[l] \in {"setLoggedIn", "checkOnline", "markOnline"}

(* A login that nothing disturbed has a live session of its user, and no   *)
(* other login of this user is in it.                                      *)
LoginHasSession ==
    \A l \in Loops : InSession(l) /\ req[l].user \notin stranded =>
        /\ userOf[sess[l]] = req[l].user
        /\ Alive(sess[l])
        /\ pc[l] = "setLoggedIn" \/ sess[l] \in loggedIn
        /\ \A m \in Loops \ {l} : InSession(m) /\ sess[m] = sess[l] => req[m].user # req[l].user

Closing(m) == pc[m] \in {"clear", "destroy", "parse", "eraseOnline"}

(* A live session of u that is not just what a login of u has made. *)
HomeOf(u, s) ==
    /\ s \in loggedIn /\ Alive(s) /\ userOf[s] = u
    /\ \A l \in Loops : InSession(l) /\ sess[l] = s /\ req[l].user = u => req[l].before

OnlineHasSession ==
    \A u \in online \ stranded :
        \/ \E s \in SessionIds : HomeOf(u, s)
        \/ \E m \in Loops : Closing(m) /\ req[m].user = u

LockOutInv == UsedIsFresh /\ LoginHasSession /\ OnlineHasSession

(* A login refused although nothing has ended the user's sessions in one   *)
(* of the known ways finds another live session of the user, or a logout   *)
(* of the user that is under way.                                          *)
THEOREM LockOutsHaveCauses == Spec => []LockOutHasACause
<1>1. Init => LockOutInv
  BY DEF Init, LockOutInv, UsedIsFresh, LoginHasSession, OnlineHasSession, InSession
<1>2. TypeOK /\ StepsOK /\ LockOutInv /\ [Next]_vars => LockOutInv'
  <2> SUFFICES ASSUME TypeOK, StepsOK, LockOutInv, [Next]_vars PROVE LockOutInv'
    OBVIOUS
  <2> USE ConstantsAssumption, NoRequestAssumption DEF LockOutInv, Goto
  <2>1. ASSUME \A l \in Loops : InSession(l)' =>
                    /\ InSession(l) /\ sess'[l] = sess[l] /\ req'[l].user = req[l].user
                    /\ pc'[l] = "setLoggedIn" \/ pc[l] # "setLoggedIn" \/ sess[l] \in loggedIn'
                    /\ req[l].user \notin stranded' =>
                        /\ userOf'[sess[l]] = userOf[sess[l]]
                        /\ Alive(sess[l]) => Alive(sess[l])'
                        /\ sess[l] \in loggedIn => sess[l] \in loggedIn',
               stranded \subseteq stranded'
        PROVE  LoginHasSession'
    BY <2>1 DEF LoginHasSession
  <2>2. ASSUME stranded \subseteq stranded', online' \subseteq online,
               \A u \in online' \ stranded', s \in SessionIds : HomeOf(u, s) =>
                    HomeOf(u, s)' \/ \E m \in Loops : Closing(m)' /\ req'[m].user = u,
               \A m \in Loops : Closing(m) /\ req[m].user \in online' \ stranded' =>
                    Closing(m)' /\ req'[m].user = req[m].user
        PROVE  OnlineHasSession'
    BY <2>2 DEF OnlineHasSession
  <2>3. ASSUME NEW u, NEW s \in SessionIds, HomeOf(u, s),
               s \in loggedIn', Alive(s)', userOf'[s] = userOf[s],
               \A l \in Loops : InSession(l)' =>
                    /\ InSession(l) /\ sess'[l] = sess[l]
                    /\ req'[l].user = req[l].user /\ req'[l].before = req[l].before
        PROVE  HomeOf(u, s)'
    BY <2>3 DEF HomeOf
  (* The steps that take no session away. *)
  <2>4. ASSUME UNCHANGED userOf, stranded \subseteq stranded', online' \subseteq online,
               loggedIn \subseteq loggedIn',
               \A s \in SessionIds : Alive(s) => Alive(s)',
               \A l \in Loops : InSession(l)' =>
                    /\ InSession(l) /\ sess'[l] = sess[l]
                    /\ req'[l].user = req[l].user /\ req'[l].before = req[l].before
                    /\ pc'[l] = "setLoggedIn" \/ pc[l] # "setLoggedIn" \/ sess[l] \in loggedIn',
               \A m \in Loops : Closing(m) /\ req[m].user \in online' \ stranded' =>
                    Closing(m)' /\ req'[m].user = req[m].user
        PROVE  LoginHasSession' /\ OnlineHasSession'
    <3>1. LoginHasSession'
      <4>1. \A l \in Loops : InSession(l) => sess[l] \in SessionIds
        BY DEF InSession, TypeOK
      <4> QED
        BY <2>1, <2>4, <4>1 DEF Alive
    <3>2. \A u, s : s \in SessionIds /\ HomeOf(u, s) => HomeOf(u, s)'
      BY <2>3, <2>4 DEF HomeOf
    <3> QED
      BY <2>2, <2>4, <3>1, <3>2
  <2>5. ASSUME NEW l \in Loops, NEW c \in Clients, NEW op \in Ops,
               NEW u \in Users \cup {NoUser}, NEW ok \in BOOLEAN, Receive(l, c, op, u, ok)
        PROVE  LockOutInv'
    <3>1. /\ UNCHANGED <<stored, expired, userOf, loggedIn, online, sess, stranded>>
          /\ pc[l] = "idle" /\ pc' = [pc EXCEPT ![l] = IF op = "login" THEN "query" ELSE "load"]
      BY <2>5 DEF Receive, sessionVars
    <3>2. ASSUME NEW m \in Loops \ {l}, pc[m] # "idle"
          PROVE  /\ pc'[m] = pc[m] /\ req'[m].user = req[m].user
                 /\ req'[m].before = req[m].before
      <4>1. req[m] # NoRequest /\ pc'[m] = pc[m]
        BY <3>1, <3>2 DEF TypeOK
      <4> QED
        BY <2>5, <3>2, <4>1, ReceiveRequests
    <3>3. ASSUME NEW m \in Loops, InSession(m)' PROVE m # l /\ InSession(m)
      BY <3>1, <3>3 DEF InSession, TypeOK
    <3>4. ASSUME NEW m \in Loops, Closing(m) PROVE m # l /\ pc[m] # "idle"
      BY <3>1, <3>4 DEF Closing
    <3>5. UsedIsFresh'
      BY <3>1 DEF UsedIsFresh, TypeOK
    <3>6. \A m \in Loops : InSession(m)' =>
                    /\ InSession(m) /\ sess'[m] = sess[m]
                    /\ req'[m].user = req[m].user /\ req'[m].before = req[m].before
                    /\ pc'[m] = "setLoggedIn" \/ pc[m] # "setLoggedIn" \/ sess[m] \in loggedIn'
      BY <3>1, <3>2, <3>3 DEF InSession
    <3>7. \A m \in Loops : Closing(m) => Closing(m)' /\ req'[m].user = req[m].user
      BY <3>2, <3>4 DEF Closing
    <3> QED
      BY <2>4, <3>1, <3>5, <3>6, <3>7 DEF Alive
  <2>6. ASSUME NEW l \in Loops, LoadSession(l) PROVE LockOutInv'
    <3>1. /\ UNCHANGED <<expired, userOf, loggedIn, online, req, stranded>>
          /\ pc[l] = "load" /\ pc' = [pc EXCEPT ![l] = "save"]
          /\ \A m \in Loops \ {l} : sess'[m] = sess[m]
          /\ \A s : Alive(s) => s \in stored'
      BY <2>6 DEF LoadSession, Alive, TypeOK, history
    <3> QED
      BY <2>4, <3>1 DEF UsedIsFresh, InSession, Closing, Alive, TypeOK
  <2>7. ASSUME NEW l \in Loops, SaveSession(l) PROVE LockOutInv'
    <3>1. /\ UNCHANGED <<userOf, loggedIn, online, req, sess, stranded>>
          /\ expired' = expired \ {sess[l]} /\ stored' = stored \cup {sess[l]}
          /\ pc[l] = "save"
          /\ \E w \in {"setUser", "readUser", "checkLogin"} : pc' = [pc EXCEPT ![l] = w]
      BY <2>7 DEF SaveSession, history, TypeOK, Request, Ops
    <3> QED
      BY <2>4, <3>1 DEF UsedIsFresh, InSession, Closing, Alive, TypeOK
  <2>8. ASSUME NEW l \in Loops, SetLoggedIn(l) PROVE LockOutInv'
    BY <2>4, <2>8 DEF SetLoggedIn, history, UsedIsFresh, InSession, Closing, Alive, TypeOK
  <2>9. ASSUME NEW l \in Loops, LoginAccepted(l) \/ CheckOnline(l) \/ ParseBody(l) \/ CheckLogin(l)
        PROVE  LockOutInv'
    <3>1. /\ UNCHANGED <<stored, expired, userOf, loggedIn, online, req, sess, stranded>>
          /\ \/ pc[l] = "query" /\ pc' = [pc EXCEPT ![l] = "load"]
             \/ pc[l] = "checkOnline" /\ pc' = [pc EXCEPT ![l] = "markOnline"]
             \/ pc[l] = "parse" /\ pc' = [pc EXCEPT ![l] = "eraseOnline"]
             \/ pc[l] = "checkLogin" /\ pc' = [pc EXCEPT ![l] = "getUser"]
      BY <2>9 DEF LoginAccepted, CheckOnline, ParseBody, CheckLogin, history, sessionVars
    <3> QED
      BY <2>4, <3>1 DEF UsedIsFresh, InSession, Closing, Alive, TypeOK
  <2>10. ASSUME NEW l \in Loops, ReadUser(l) \/ GetUser(l) PROVE LockOutInv'
    <3>1. /\ UNCHANGED <<stored, expired, userOf, loggedIn, online, sess, stranded>>
          /\ pc[l] \in {"readUser", "getUser"}
          /\ \E w \in {"clear", "serve"} : pc' = [pc EXCEPT ![l] = w]
          /\ \A m \in Loops \ {l} : req'[m] = req[m]
      BY <2>10 DEF ReadUser, GetUser, history, sessionVars, TypeOK
    <3> QED
      BY <2>4, <3>1 DEF UsedIsFresh, InSession, Closing, Alive, TypeOK
  <2>11. ASSUME NEW l \in Loops, Answer(l), UNCHANGED <<sessionVars, requests>>,
                stranded \subseteq stranded', online' \subseteq online,
                Closing(l) => req[l].user \notin online' \ stranded'
         PROVE  LockOutInv'
    <3>1. /\ UNCHANGED <<stored, expired, userOf, loggedIn>>
          /\ pc' = [pc EXCEPT ![l] = "idle"]
          /\ sess' = [sess EXCEPT ![l] = NoSession]
          /\ \A m \in Loops \ {l} : req'[m] = req[m]
      BY <2>11 DEF Answer, sessionVars, TypeOK
    <3> QED
      BY <2>4, <2>11, <3>1 DEF UsedIsFresh, InSession, Closing, Alive, TypeOK
  <2>12. ASSUME NEW l \in Loops,
                \/ LoginRejected(l) \/ RefuseLogin(l) \/ LogoutWithoutUser(l)
                \/ LogoutThrows(l) \/ EraseOnline(l) \/ Unauthorized(l) \/ NoUserLeft(l) \/ Serve(l)
         PROVE  LockOutInv'
    BY <2>11, <2>12 DEF LoginRejected, RefuseLogin, LogoutWithoutUser, LogoutThrows, EraseOnline,
                        Unauthorized, NoUserLeft, Serve, history, Closing
  <2>13. ASSUME NEW l \in Loops, MarkOnline(l) PROVE LockOutInv'
    <3>1. /\ UNCHANGED <<stored, expired, userOf, loggedIn, stranded>>
          /\ online' = online \cup {req[l].user}
          /\ pc[l] = "markOnline" /\ pc' = [pc EXCEPT ![l] = "idle"]
          /\ sess' = [sess EXCEPT ![l] = NoSession]
          /\ \A m \in Loops \ {l} : req'[m] = req[m]
      BY <2>13 DEF MarkOnline, Answer, sessionVars, TypeOK
    <3>2. UsedIsFresh' /\ LoginHasSession'
      BY <2>1, <3>1 DEF UsedIsFresh, InSession, Alive, TypeOK
    <3>3. \A m \in Loops : InSession(m)' =>
            /\ m # l /\ InSession(m) /\ sess'[m] = sess[m] /\ req'[m] = req[m]
      BY <3>1 DEF InSession, TypeOK
    <3>4. \A u, s : s \in SessionIds /\ HomeOf(u, s) => HomeOf(u, s)'
      BY <2>3, <3>1, <3>3 DEF HomeOf, Alive
    <3>5. \A m \in Loops : Closing(m) => Closing(m)' /\ req'[m] = req[m]
      BY <3>1 DEF Closing, TypeOK
    <3>6. ASSUME NEW u, u = req[l].user, u \notin stranded
          PROVE  \E s \in SessionIds : HomeOf(u, s)'
      <4>1. PICK s \in SessionIds : InSession(l) /\ s = sess[l]
        BY <3>1 DEF InSession, TypeOK
      <4>2. /\ s \in loggedIn /\ Alive(s) /\ userOf[s] = u
            /\ \A m \in Loops \ {l} : InSession(m) /\ sess[m] = s => req[m].user # u
        BY <3>1, <3>6, <4>1 DEF LoginHasSession
      <4>3. /\ s \in loggedIn' /\ s \in stored' /\ s \notin expired' /\ userOf'[s] = u
            /\ \A m \in Loops : InSession(m)' /\ sess'[m] = s => req'[m].user # u
        BY <3>1, <3>3, <4>2 DEF Alive
      <4> QED
        BY <4>1, <4>3 DEF HomeOf, Alive
    <3>7. OnlineHasSession'
      BY <3>1, <3>4, <3>5, <3>6 DEF OnlineHasSession
    <3> QED
      BY <3>2, <3>7
  <2>14. ASSUME NEW l \in Loops, SetUser(l) PROVE LockOutInv'
    <3>1. /\ UNCHANGED <<expired, loggedIn, online, sess>>
          /\ stored' = stored \cup {sess[l]}
          /\ userOf' = [userOf EXCEPT ![sess[l]] = req[l].user]
          /\ pc[l] = "setUser" /\ pc' = [pc EXCEPT ![l] = "setLoggedIn"]
          /\ stranded \subseteq stranded'
          /\ userOf[sess[l]] \in Users \ {req[l].user} => userOf[sess[l]] \in stranded'
          /\ \A m \in Loops \ {l} : sess[m] = sess[l] /\ req[m].op = "login" /\ req[m].user \in Users =>
                req[m].user \in stranded'
      BY <2>14 DEF SetUser, Strand
    <3>2. /\ sess[l] \in SessionIds /\ sess[l] \notin expired /\ req[l].user \in Users
      BY <3>1 DEF UsedIsFresh, TypeOK, StepsOK, LoginSteps
    <3>3. ASSUME NEW m \in Loops \ {l}
          PROVE  /\ pc'[m] = pc[m] /\ req'[m] = req[m]
                 /\ InSession(m) /\ sess[m] = sess[l] => req[m].user \in stranded'
      BY <2>14, <3>1, SetUserRequests DEF InSession, StepsOK, LoginSteps, TypeOK
    <3>4. UsedIsFresh'
      BY <3>1, <3>2 DEF UsedIsFresh, TypeOK
    <3>5. LoginHasSession'
      <4> SUFFICES ASSUME NEW m \in Loops, InSession(m)', req'[m].user \notin stranded'
                   PROVE  /\ userOf'[sess[m]] = req'[m].user
                          /\ Alive(sess[m])'
                          /\ pc'[m] = "setLoggedIn" \/ sess[m] \in loggedIn
                          /\ \A k \in Loops \ {m} : InSession(k)' /\ sess[k] = sess[m] =>
                                req'[k].user # req'[m].user
        BY <3>1 DEF LoginHasSession
      <4>1. \A k \in Loops \ {l} : InSession(k)' => InSession(k)
        BY <3>3 DEF InSession
      <4>2. CASE m = l
        BY <2>14, <3>1, <3>2, <3>3, <4>1, <4>2, SetUserRequests DEF Alive, TypeOK
      <4>3. CASE m # l
        <5>1. InSession(m) /\ req'[m] = req[m] /\ sess[m] # sess[l] /\ sess[m] \in SessionIds
          BY <3>3, <4>1, <4>3 DEF InSession, TypeOK
        <5>2. /\ userOf[sess[m]] = req[m].user /\ Alive(sess[m])
              /\ pc[m] = "setLoggedIn" \/ sess[m] \in loggedIn
              /\ \A k \in Loops \ {m} : InSession(k) /\ sess[k] = sess[m] => req[k].user # req[m].user
          BY <3>1, <4>3, <5>1 DEF LoginHasSession
        <5> QED
          BY <3>1, <3>3, <4>1, <4>3, <5>1, <5>2 DEF Alive
      <4> QED
        BY <4>2, <4>3
    <3>6. ASSUME NEW u \in online' \ stranded', NEW s \in SessionIds, HomeOf(u, s)
          PROVE  HomeOf(u, s)'
      <4>1. s = sess[l] => u = req[l].user /\ req'[l].before
        BY <2>14, <3>1, <3>6, SetUserRequests DEF HomeOf, TypeOK
      <4>2. userOf'[s] = u /\ s \in loggedIn' /\ s \in stored' /\ s \notin expired'
        BY <3>1, <3>6, <4>1 DEF HomeOf, Alive, TypeOK
      <4>3. ASSUME NEW m \in Loops, InSession(m)', sess'[m] = s, req'[m].user = u
            PROVE  req'[m].before
        BY <3>1, <3>3, <3>6, <4>1, <4>3 DEF HomeOf, InSession
      <4> QED
        BY <4>2, <4>3 DEF HomeOf, Alive
    <3>7. OnlineHasSession'
      BY <2>2, <3>1, <3>3, <3>6 DEF Closing
    <3> QED
      BY <3>4, <3>5, <3>7
  <2>15. ASSUME NEW l \in Loops, ClearSession(l) \/ DestroySession(l) PROVE LockOutInv'
    <3>1. /\ UNCHANGED <<expired, online, req, sess>>
          /\ pc[l] \in {"clear", "destroy"}
          /\ \E w \in {"destroy", "parse"} : pc' = [pc EXCEPT ![l] = w]
          /\ stranded \subseteq stranded'
          /\ \A s \in SessionIds \ {sess[l]} :
                /\ userOf'[s] = userOf[s]
                /\ s \in loggedIn => s \in loggedIn'
                /\ s \in stored => s \in stored'
          /\ userOf[sess[l]] \in Users \ {req[l].user} => userOf[sess[l]] \in stranded'
          /\ \A m \in Loops \ {l} : sess[m] = sess[l] /\ req[m].op = "login" /\ req[m].user \in Users =>
                req[m].user \in stranded'
      BY <2>15 DEF ClearSession, DestroySession, Strand, TypeOK
    <3>2. UsedIsFresh'
      BY <3>1 DEF UsedIsFresh, TypeOK
    <3>3. \A m \in Loops : InSession(m)' =>
            /\ InSession(m) /\ pc'[m] = pc[m] /\ sess[m] \in SessionIds
            /\ sess[m] = sess[l] => req[m].user \in stranded'
      BY <3>1 DEF InSession, TypeOK, StepsOK, LoginSteps
    <3>4. LoginHasSession'
      BY <2>1, <3>1, <3>3 DEF Alive, LoginHasSession
    <3>5. ASSUME NEW u \in online' \ stranded', NEW s \in SessionIds, HomeOf(u, s)
          PROVE  HomeOf(u, s)' \/ \E m \in Loops : Closing(m)' /\ req'[m].user = u
      <4>1. CASE s = sess[l]
        <5>1. u = req[l].user
          BY <3>1, <3>5, <4>1 DEF HomeOf, TypeOK
        <5> QED
          BY <3>1, <5>1 DEF Closing, TypeOK
      <4>2. CASE s # sess[l]
        BY <2>3, <3>1, <3>3, <3>5, <4>2 DEF HomeOf, Alive
      <4> QED
        BY <4>1, <4>2
    <3>6. OnlineHasSession'
      BY <2>2, <3>1, <3>5 DEF Closing, TypeOK
    <3> QED
      BY <3>2, <3>4, <3>6
  <2>16. ASSUME NEW s \in SessionIds, Expire(s) PROVE LockOutInv'
    <3>1. /\ UNCHANGED <<stored, userOf, loggedIn, online, req, pc, sess>>
          /\ expired' = expired \cup {s}
          /\ \A l \in Loops : sess[l] # s
          /\ stranded' = stranded \cup ({userOf[s]} \cap Users)
      BY <2>16 DEF Expire, loopVars
    <3>2. UsedIsFresh'
      BY <3>1 DEF UsedIsFresh
    <3>3. LoginHasSession'
      BY <2>1, <3>1 DEF InSession, Alive
    <3>4. ASSUME NEW u \in online' \ stranded', NEW t \in SessionIds, HomeOf(u, t)
          PROVE  HomeOf(u, t)'
      <4>1. t # s
        BY <3>1, <3>4 DEF HomeOf, TypeOK
      <4> QED
        BY <2>3, <3>1, <3>4, <4>1 DEF HomeOf, Alive, InSession
    <3>5. OnlineHasSession'
      BY <2>2, <3>1, <3>4 DEF Closing
    <3> QED
      BY <3>2, <3>3, <3>5
  <2>17. CASE UNCHANGED vars
    BY <2>4, <2>17 DEF vars, loopVars, sessionVars, history, UsedIsFresh, InSession, Closing, Alive
  <2> QED
    BY <2>5, <2>6, <2>7, <2>8, <2>9, <2>10, <2>12, <2>13, <2>14, <2>15, <2>16, <2>17
       DEF Next, Finished
<1>3. TypeOK /\ LockOutInv => LockOutHasACause
  <2> SUFFICES ASSUME TypeOK, LockOutInv, NEW l \in Loops, Refused(l), req[l].user \notin stranded
               PROVE  Truthful(l)
    BY DEF LockOutHasACause
  <2>1. CASE \E s \in SessionIds : HomeOf(req[l].user, s)
    BY <2>1 DEF HomeOf, Refused, Truthful, InSession
  <2>2. CASE \E m \in Loops : Closing(m) /\ req[m].user = req[l].user
    BY <2>2 DEF Closing, Refused, Truthful
  <2> QED
    BY <2>1, <2>2 DEF Refused, LockOutInv, OnlineHasSession
<1> QED
  BY <1>1, <1>2, <1>3, TypeCorrect, PTL DEF Spec
=============================================================================
