---------------------------- MODULE LoginSessions ----------------------------
(***************************************************************************)
(* Who is logged in: SessionManager and MemorySessionStorage of HttpServer *)
(* and the login, logout and authenticated handlers of ChatServer.         *)
(*                                                                         *)
(* Every connection belongs to one of the event loops, a loop runs one     *)
(* handler at a time, and handlers of different loops interleave.          *)
(* sessions_m and the sessions themselves have no lock: a step below is    *)
(* one operation on one of these maps, so that all interleavings of whole  *)
(* map operations are explored (what two overlapping operations on one     *)
(* unordered_map can do beyond that is not).                               *)
(*                                                                         *)
(* A client is a browser: it sends the cookie it has when it makes the     *)
(* request and keeps the cookie of an answer that sets one.                *)
(***************************************************************************)
EXTENDS Naturals, FiniteSets

CONSTANTS
    Loops,        \* the event loops
    Clients,      \* the browsers
    Users,        \* rows of the table users
    SessionIds,   \* the ids generateSessionId() can draw (bound)
    NoSession,    \* no cookie
    NoUser,       \* no value under "userId"
    NoRequest,    \* the loop is not in a handler
    MaxRequests   \* bound: requests received

ASSUME ConstantsAssumption ==
    /\ NoSession \notin SessionIds
    /\ NoUser \notin Users
    /\ MaxRequests \in Nat
    /\ IsFiniteSet(Loops) /\ IsFiniteSet(SessionIds)

VARIABLES
    stored,     \* the keys of sessions_m
    expired,    \* sessions not refreshed for maxAge_m seconds
    userOf,     \* the session's "userId" (and "username")
    loggedIn,   \* sessions whose "isLoggedIn" is "true"
    issued,     \* ids drawn so far
    online,     \* onlineUsers_
    cookie,     \* the session id each browser keeps
    req,        \* the request each loop is handling
    pc,         \* where in its handler each loop is
    sess,       \* the session the handler got from getSession()
    requests,   \* requests received so far
    proved,     \* history: whose password each client has given
    signedOut,  \* history: clients whose last word was a logout
    logins,     \* history: 200 answers to logins of a user since it was
                \* last taken out of onlineUsers_
    stranded    \* history: users who may have lost their session otherwise
                \* than by a logout of their own (see Strand)

sessionVars == <<stored, expired, userOf, loggedIn, issued>>
loopVars    == <<req, pc, sess, requests>>
history     == <<proved, signedOut, logins, stranded>>
vars == <<sessionVars, online, cookie, loopVars, history>>

Ops == {"login", "logout", "chat"}

(* The request: its cookie, the user whose name it gives, whether the      *)
(* body is good JSON (logout), whether the session was u's already before  *)
(* this login, and whether no login of the client overlaps it.             *)
Request == [client: Clients, op: Ops, cookie: SessionIds \cup {NoSession},
            user: Users \cup {NoUser}, bodyOk: BOOLEAN, before: BOOLEAN,
            quiet: BOOLEAN]

ASSUME NoRequestAssumption == NoRequest \notin Request

PC == {"idle", "query", "load", "save", "setUser", "setLoggedIn", "checkOnline",
       "markOnline", "readUser", "clear", "destroy", "parse", "eraseOnline",
       "checkLogin", "getUser", "serve"}

Init ==
    /\ stored = {}
    /\ expired = {}
    /\ userOf = [s \in SessionIds |-> NoUser]
    /\ loggedIn = {}
    /\ issued = {}
    /\ online = {}
    /\ cookie = [c \in Clients |-> NoSession]
    /\ req = [l \in Loops |-> NoRequest]
    /\ pc = [l \in Loops |-> "idle"]
    /\ sess = [l \in Loops |-> NoSession]
    /\ requests = 0
    /\ proved = {}
    /\ signedOut = {}
    /\ logins = [u \in Users |-> 0]
    /\ stranded = {}

Goto(l, where) == pc' = [pc EXCEPT ![l] = where]

(* The users whom a step that takes session s away may leave in            *)
(* onlineUsers_ without a session: the one who has it, and those whose     *)
(* logins are under way in it.                                             *)
Strand(l, s) ==
    stranded' = stranded \cup ((({userOf[s]} \ {req[l].user})
        \cup {req[m].user : m \in {k \in Loops \ {l} : sess[k] = s /\ req[k].op = "login"}})
        \cap Users)

Busy(c, op) == \E l \in Loops : pc[l] # "idle" /\ req[l].client = c /\ req[l].op = op

(* The answer leaves; a new session's id goes with it as a cookie. *)
Answer(l) ==
    /\ Goto(l, "idle")
    /\ req' = [req EXCEPT ![l] = NoRequest]
    /\ sess' = [sess EXCEPT ![l] = NoSession]
    /\ cookie' = IF sess[l] \in {NoSession, req[l].cookie} THEN cookie
                 ELSE [cookie EXCEPT ![req[l].client] = sess[l]]

(***************************************************************************)
(* A request arrives                                                       *)
(***************************************************************************)
Receive(l, c, op, u, ok) ==
    /\ pc[l] = "idle"
    /\ requests < MaxRequests
    /\ Cardinality(SessionIds \ issued)
          > Cardinality({m \in Loops : pc[m] \in {"query", "load"}})
    /\ op = "login" <=> u # NoUser
    /\ op # "logout" => ok
    /\ LET r == [client |-> c, op |-> op, cookie |-> cookie[c], user |-> u,
                 bodyOk |-> ok, before |-> FALSE, quiet |-> ~Busy(c, "login")]
           heard == [m \in Loops |->
                        IF op = "login" /\ pc[m] # "idle" /\ req[m].client = c
                        THEN [req[m] EXCEPT !.quiet = FALSE] ELSE req[m]]
       IN  req' = [heard EXCEPT ![l] = r]
    /\ Goto(l, IF op = "login" THEN "query" ELSE "load")
    /\ requests' = requests + 1
    /\ signedOut' = IF op = "login" THEN signedOut \ {c} ELSE signedOut
    /\ UNCHANGED <<sessionVars, online, cookie, sess, proved, logins, stranded>>

(***************************************************************************)
(* SessionManager::getSession()                                            *)
(***************************************************************************)
Alive(s) == s \in stored /\ s \notin expired

(* Mutant of LoadSession: the ids of two loops may be equal. *)
LoadSessionAnyId(l) ==
    /\ pc[l] = "load"
    /\ stored' = IF Alive(req[l].cookie) THEN stored ELSE stored \ {req[l].cookie}
    /\ \E s \in IF Alive(req[l].cookie) THEN {req[l].cookie} ELSE SessionIds :
        /\ sess' = [sess EXCEPT ![l] = s]
        /\ issued' = issued \cup {s}
    /\ Goto(l, "save")
    /\ UNCHANGED <<expired, userOf, loggedIn, online, cookie, req, requests, history>>

(* Mutant of LoadSession: no new session takes the place of an old one. *)
LoadSessionNone(l) ==
    /\ pc[l] = "load"
    /\ stored' = IF Alive(req[l].cookie) THEN stored ELSE stored \ {req[l].cookie}
    /\ \E s \in IF Alive(req[l].cookie) THEN {req[l].cookie} ELSE {NoSession} :
        /\ sess' = [sess EXCEPT ![l] = s]
    /\ Goto(l, "save")
    /\ UNCHANGED <<expired, userOf, loggedIn, issued, online, cookie, req, requests, history>>

(* load() of the cookie's session, which erases it if it is expired, or a  *)
(* new session under a new id.                                             *)
LoadSession(l) ==
    /\ pc[l] = "load"
    /\ stored' = IF Alive(req[l].cookie) THEN stored ELSE stored \ {req[l].cookie}
    /\ \E s \in IF Alive(req[l].cookie) THEN {req[l].cookie} ELSE SessionIds \ issued :
        /\ sess' = [sess EXCEPT ![l] = s]
        /\ issued' = issued \cup {s}
    /\ Goto(l, "save")
    /\ UNCHANGED <<expired, userOf, loggedIn, online, cookie, req, requests, history>>

(* refresh() and save(): the session is stored, again if it was removed. *)
SaveSession(l) ==
    /\ pc[l] = "save"
    /\ expired' = expired \ {sess[l]}
    /\ stored' = stored \cup {sess[l]}
    /\ Goto(l, CASE req[l].op = "login"  -> "setUser"
                 [] req[l].op = "logout" -> "readUser"
                 [] req[l].op = "chat"   -> "checkLogin")
    /\ UNCHANGED <<userOf, loggedIn, issued, online, cookie, req, sess, requests, history>>

(* Time passes: nobody used the session for maxAge_m seconds. *)
Expire(s) ==
    /\ Alive(s)
    /\ \A l \in Loops : sess[l] # s
    /\ expired' = expired \cup {s}
    /\ stranded' = stranded \cup ({userOf[s]} \cap Users)
    /\ UNCHANGED <<stored, userOf, loggedIn, issued, online, cookie, loopVars, proved,
                   signedOut, logins>>

(***************************************************************************)
(* ChatLoginHandler                                                        *)
(***************************************************************************)
(* A bad request or a wrong password: 400 or 401, no session is touched. *)
LoginRejected(l) ==
    /\ pc[l] = "query"
    /\ Answer(l)
    /\ UNCHANGED <<sessionVars, online, requests, history>>

(* queryUserId() finds the row. *)
LoginAccepted(l) ==
    /\ pc[l] = "query"
    /\ Goto(l, "load")
    /\ proved' = proved \cup {<<req[l].client, req[l].user>>}
    /\ UNCHANGED <<sessionVars, online, cookie, req, sess, requests, signedOut, logins, stranded>>

(* setValue() stores the session again, as updateSession() does. *)
SetUser(l) ==
    /\ pc[l] = "setUser"
    /\ userOf' = [userOf EXCEPT ![sess[l]] = req[l].user]
    /\ stored' = stored \cup {sess[l]}
    /\ Goto(l, "setLoggedIn")
    /\ Strand(l, sess[l])
    /\ req' = [req EXCEPT ![l].before = (sess[l] \in loggedIn /\ userOf[sess[l]] = req[l].user)]
    /\ UNCHANGED <<expired, loggedIn, issued, online, cookie, sess, requests,
                   proved, signedOut, logins>>

SetLoggedIn(l) ==
    /\ pc[l] = "setLoggedIn"
    /\ loggedIn' = loggedIn \cup {sess[l]}
    /\ stored' = stored \cup {sess[l]}
    /\ Goto(l, "checkOnline")
    /\ UNCHANGED <<expired, userOf, issued, online, cookie, req, sess, requests, history>>

(* Line 34 reads onlineUsers_ without its mutex; the write takes it later. *)
CheckOnline(l) ==
    /\ pc[l] = "checkOnline"
    /\ req[l].user \notin online
    /\ Goto(l, "markOnline")
    /\ UNCHANGED <<sessionVars, online, cookie, req, sess, requests, history>>

(* 403, "User already logged in": the session has been written by now. *)
RefuseLogin(l) ==
    /\ pc[l] = "checkOnline"
    /\ req[l].user \in online
    /\ Answer(l)
    /\ UNCHANGED <<sessionVars, online, requests, history>>

MarkOnline(l) ==
    /\ pc[l] = "markOnline"
    /\ online' = online \cup {req[l].user}
    /\ logins' = [logins EXCEPT ![req[l].user] = @ + 1]
    /\ Answer(l)
    /\ UNCHANGED <<sessionVars, requests, proved, signedOut, stranded>>

(***************************************************************************)
(* ChatLogoutHandler                                                       *)
(***************************************************************************)
(* stoi("") throws: 400. *)
LogoutWithoutUser(l) ==
    /\ pc[l] = "readUser"
    /\ userOf[sess[l]] = NoUser
    /\ Answer(l)
    /\ UNCHANGED <<sessionVars, online, requests, history>>

ReadUser(l) ==
    /\ pc[l] = "readUser"
    /\ userOf[sess[l]] # NoUser
    /\ req' = [req EXCEPT ![l].user = userOf[sess[l]]]
    /\ Goto(l, "clear")
    /\ UNCHANGED <<sessionVars, online, cookie, sess, requests, history>>

(* Mutant of ClearSession: clear() is left out. *)
ClearSessionForgotten(l) ==
    /\ pc[l] = "clear"
    /\ Goto(l, "destroy")
    /\ UNCHANGED <<sessionVars, online, cookie, req, sess, requests, history>>

(* clear() empties the shared object; only destroySession() unlinks it. *)
ClearSession(l) ==
    /\ pc[l] = "clear"
    /\ userOf' = [userOf EXCEPT ![sess[l]] = NoUser]
    /\ loggedIn' = loggedIn \ {sess[l]}
    /\ Strand(l, sess[l])
    /\ Goto(l, "destroy")
    /\ UNCHANGED <<stored, expired, issued, online, cookie, req, sess, requests,
                   proved, signedOut, logins>>

DestroySession(l) ==
    /\ pc[l] = "destroy"
    /\ stored' = stored \ {sess[l]}
    /\ Strand(l, sess[l])
    /\ Goto(l, "parse")
    /\ UNCHANGED <<expired, userOf, loggedIn, issued, online, cookie, req, sess,
                   requests, proved, signedOut, logins>>

(* The body is parsed only now; if that throws, the user stays online. *)
LogoutThrows(l) ==
    /\ pc[l] = "parse"
    /\ ~req[l].bodyOk
    /\ stranded' = stranded \cup {req[l].user}
    /\ Answer(l)
    /\ UNCHANGED <<sessionVars, online, requests, proved, signedOut, logins>>

ParseBody(l) ==
    /\ pc[l] = "parse"
    /\ req[l].bodyOk
    /\ Goto(l, "eraseOnline")
    /\ UNCHANGED <<sessionVars, online, cookie, req, sess, requests, history>>

(* Mutant of EraseOnline: the user stays in onlineUsers_. *)
EraseOnlineForgotten(l) ==
    /\ pc[l] = "eraseOnline"
    /\ logins' = [logins EXCEPT ![req[l].user] = 0]
    /\ signedOut' = IF req[l].quiet THEN signedOut \cup {req[l].client} ELSE signedOut
    /\ Answer(l)
    /\ UNCHANGED <<sessionVars, online, requests, proved, stranded>>

EraseOnline(l) ==
    /\ pc[l] = "eraseOnline"
    /\ online' = online \ {req[l].user}
    /\ logins' = [logins EXCEPT ![req[l].user] = 0]
    /\ signedOut' = IF req[l].quiet THEN signedOut \cup {req[l].client} ELSE signedOut
    /\ Answer(l)
    /\ UNCHANGED <<sessionVars, requests, proved, stranded>>

(***************************************************************************)
(* The handlers that need a login (chat, history, sessions, upload, ...)   *)
(***************************************************************************)
Unauthorized(l) ==
    /\ pc[l] = "checkLogin"
    /\ sess[l] \notin loggedIn
    /\ Answer(l)
    /\ UNCHANGED <<sessionVars, online, requests, history>>

CheckLogin(l) ==
    /\ pc[l] = "checkLogin"
    /\ sess[l] \in loggedIn
    /\ Goto(l, "getUser")
    /\ UNCHANGED <<sessionVars, online, cookie, req, sess, requests, history>>

(* A second look at the session, which a logout may have cleared: stoi("") *)
(* throws and the answer is 400.                                           *)
NoUserLeft(l) ==
    /\ pc[l] = "getUser"
    /\ userOf[sess[l]] = NoUser
    /\ Answer(l)
    /\ UNCHANGED <<sessionVars, online, requests, history>>

GetUser(l) ==
    /\ pc[l] = "getUser"
    /\ userOf[sess[l]] # NoUser
    /\ req' = [req EXCEPT ![l].user = userOf[sess[l]]]
    /\ Goto(l, "serve")
    /\ UNCHANGED <<sessionVars, online, cookie, sess, requests, history>>

(* The handler's own work, for req[l].user. *)
Serve(l) ==
    /\ pc[l] = "serve"
    /\ Answer(l)
    /\ UNCHANGED <<sessionVars, online, requests, history>>

(* The bounds: no more requests are taken. *)
Finished ==
    /\ \A l \in Loops : pc[l] = "idle"
    /\ \/ requests = MaxRequests
       \/ issued = SessionIds
    /\ UNCHANGED vars

Next ==
    \/ \E l \in Loops :
        \/ \E c \in Clients, op \in Ops, u \in Users \cup {NoUser}, ok \in BOOLEAN :
            Receive(l, c, op, u, ok)
        \/ LoadSession(l)
        \/ SaveSession(l)
        \/ LoginRejected(l)
        \/ LoginAccepted(l)
        \/ SetUser(l)
        \/ SetLoggedIn(l)
        \/ CheckOnline(l)
        \/ RefuseLogin(l)
        \/ MarkOnline(l)
        \/ LogoutWithoutUser(l)
        \/ ReadUser(l)
        \/ ClearSession(l)
        \/ DestroySession(l)
        \/ LogoutThrows(l)
        \/ ParseBody(l)
        \/ EraseOnline(l)
        \/ Unauthorized(l)
        \/ CheckLogin(l)
        \/ NoUserLeft(l)
        \/ GetUser(l)
        \/ Serve(l)
    \/ \E s \in SessionIds : Expire(s)
    \/ Finished

Spec == Init /\ [][Next]_vars

(***************************************************************************)
(* Properties                                                              *)
(***************************************************************************)
(* Every variable has its type, and a loop is between requests exactly     *)
(* when it has none.                                                       *)
TypeOK ==
    /\ stored \subseteq issued
    /\ expired \subseteq issued
    /\ loggedIn \subseteq issued
    /\ issued \subseteq SessionIds
    /\ userOf \in [SessionIds -> Users \cup {NoUser}]
    /\ online \subseteq Users
    /\ cookie \in [Clients -> issued \cup {NoSession}]
    /\ req \in [Loops -> Request \cup {NoRequest}]
    /\ pc \in [Loops -> PC]
    /\ \A l \in Loops : pc[l] = "idle" <=> req[l] = NoRequest
    /\ sess \in [Loops -> issued \cup {NoSession}]
    /\ \A l \in Loops : sess[l] = NoSession <=> pc[l] \in {"idle", "query", "load"}
    /\ requests \in Nat
    /\ proved \subseteq Clients \X Users
    /\ signedOut \subseteq Clients
    /\ logins \in [Users -> Nat]
    /\ stranded \subseteq Users

(* Whatever its loops interleave, the server works for a user, or takes    *)
(* the user out of onlineUsers_, only on behalf of a client that has given *)
(* this user's password: a session never changes hands.                    *)
Acting == {"serve", "clear", "destroy", "parse", "eraseOnline"}

ActsForProvedUser ==
    \A l \in Loops : pc[l] \in Acting => <<req[l].client, req[l].user>> \in proved

(* A logout answered with 200 ends the login: until the client makes       *)
(* another login request its cookie opens nothing, although requests that  *)
(* were under way save the session again.                                  *)
LogoutEndsLogin ==
    \A c \in signedOut : cookie[c] = NoSession \/ cookie[c] \notin loggedIn

(* onlineUsers_ admits one login of a user at a time: between a login      *)
(* answered with 200 and the logout no other login of that user gets a 200 *)
(* (entry.html:198, "the account is logged in elsewhere").                 *)
OneLoginPerUser == \A u \in Users : logins[u] <= 1

(* A login refused with 403 leaves the browser as it was: a session that   *)
(* was not the user's before is not after (entry.html:198 tells the user   *)
(* that the login failed).                                                 *)
RefusedLoginStaysOut ==
    [][\A l \in Loops :
        RefuseLogin(l) /\ ~req[l].before => sess[l] \notin loggedIn]_vars

(* "Logged in elsewhere" is the truth: when a login is refused, the user   *)
(* has this or another live session, or one is being opened or closed.     *)
Truthful(l) ==
    \/ req[l].before
    \/ \E s \in loggedIn \ {sess[l]} : Alive(s) /\ userOf[s] = req[l].user
    \/ \E m \in Loops \ {l} : pc[m] # "idle" /\ req[m].user = req[l].user

Refused(l) == pc[l] = "checkOnline" /\ req[l].user \in online

(* The ways to be locked out are known: a session that expires, a logout   *)
(* with a bad body, another login in the same browser, a login and a       *)
(* logout in one session at once.  Any other refusal is truthful.          *)
LockOutHasACause ==
    \A l \in Loops : Refused(l) /\ req[l].user \notin stranded => Truthful(l)
=============================================================================
