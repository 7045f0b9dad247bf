---------------------------- MODULE Registration ----------------------------
(***************************************************************************)
(* ChatRegisterHandler: SELECT the name, INSERT the user, SELECT the id,   *)
(* three statements without a transaction, each on a connection of its     *)
(* own from the pool.  Handlers of different event loops interleave.       *)
(*                                                                         *)
(* The repository does not have the schema of the table users: whether     *)
(* username is UNIQUE is one of Schemas.                                   *)
(*                                                                         *)
(* A client is a person at the registration form, who may press the button *)
(* again at any time: after an answer, or while the first request is still *)
(* under way (entry.html does not disable it).                             *)
(***************************************************************************)
EXTENDS Naturals, Sequences, FiniteSets

CONSTANTS
    Loops,        \* the event loops
    Clients,      \* the people who register
    Names,        \* the names they ask for
    Nobody,       \* no client
    Schemas,      \* is username UNIQUE?  the possible answers
    MaxRequests,  \* bound: requests received
    MaxDbErrors   \* bound: statements that fail although they are good

ASSUME RegistrationAssumption ==
    /\ IsFiniteSet(Loops)
    /\ Nobody \notin Clients
    /\ Names # {}
    /\ Schemas \subseteq BOOLEAN
    /\ MaxRequests \in Nat
    /\ MaxDbErrors \in Nat

VARIABLES
    unique,    \* the schema
    users,     \* the table, a sequence: the id of a row is its position
    step,      \* where in its handler each loop is
    client,    \* whose request each loop is handling
    name,      \* the name it asks for
    replies,   \* the answers given so far
    requests,  \* requests received so far
    dbErrors,  \* errors so far
    peak       \* history: the most requests of a client for a name that were
               \* being handled at one time

loopVars == <<step, client, name>>
registrationVars == <<unique, users, loopVars, replies, requests, dbErrors, peak>>

Row    == [client : Clients, name : Names]
Rows(n) == {i \in DOMAIN users : users[i].name = n}

(* The id of the new user goes with a 200. *)
Answer == [client : Clients, name : Names, status : {200, 409, 500}, id : Nat]

RegistrationInit ==
    /\ unique \in Schemas
    /\ users = <<>>
    /\ step = [l \in Loops |-> "idle"]
    /\ client = [l \in Loops |-> Nobody]
    /\ name = [l \in Loops |-> CHOOSE n \in Names : TRUE]
    /\ replies = {}
    /\ requests = 0
    /\ dbErrors = 0
    /\ peak = [c \in Clients |-> [n \in Names |-> 0]]

(* The loops that handle a request of c for n. *)
Handling(c, n) == {l \in Loops : client[l] = c /\ name[l] = n}

Receive(l, c, n) ==
    /\ step[l] = "idle"
    /\ requests < MaxRequests
    /\ requests' = requests + 1
    /\ step' = [step EXCEPT ![l] = "exists"]
    /\ client' = [client EXCEPT ![l] = c]
    /\ name' = [name EXCEPT ![l] = n]
    /\ LET now == Cardinality(Handling(c, n)) + 1
       IN  peak' = [peak EXCEPT ![c][n] = IF now > @ THEN now ELSE @]
    /\ UNCHANGED <<unique, users, replies, dbErrors>>

Reply(l, status, id) ==
    /\ replies' = replies \cup
         {[client |-> client[l], name |-> name[l], status |-> status, id |-> id]}
    /\ step' = [step EXCEPT ![l] = "idle"]
    /\ client' = [client EXCEPT ![l] = Nobody]
    /\ UNCHANGED name

Goto(l, where) ==
    /\ step' = [step EXCEPT ![l] = where]
    /\ UNCHANGED <<client, name, replies>>

(* The body is no JSON, or lacks a field: the exception becomes a 500. *)
BadBody(l) ==
    /\ step[l] = "exists"
    /\ Reply(l, 500, 0)
    /\ UNCHANGED <<unique, users, requests, dbErrors, peak>>

(* isUserExist() *)
NameTaken(l) ==
    /\ step[l] = "exists"
    /\ Rows(name[l]) # {}
    /\ Reply(l, 409, 0)
    /\ UNCHANGED <<unique, users, requests, dbErrors, peak>>

(* Mutant of NameFree: isUserExist() is not asked. *)
NameFreeUnchecked(l) ==
    /\ step[l] = "exists"
    /\ Goto(l, "insert")
    /\ UNCHANGED <<unique, users, requests, dbErrors, peak>>

NameFree(l) ==
    /\ step[l] = "exists"
    /\ Rows(name[l]) = {}
    /\ Goto(l, "insert")
    /\ UNCHANGED <<unique, users, requests, dbErrors, peak>>

Stored(l) == Append(users, [client |-> client[l], name |-> name[l]])
Refused(l) == unique /\ Rows(name[l]) # {}

Insert(l) ==
    /\ step[l] = "insert"
    /\ ~Refused(l)
    /\ users' = Stored(l)
    /\ Goto(l, "select")
    /\ UNCHANGED <<unique, requests, dbErrors, peak>>

(* Mutant of InsertRefused: INSERT IGNORE, the refusal goes unnoticed. *)
InsertIgnored(l) ==
    /\ step[l] = "insert"
    /\ Refused(l)
    /\ Goto(l, "select")
    /\ UNCHANGED <<unique, users, requests, dbErrors, peak>>

(* Another loop has inserted the name since: the exception leaves the      *)
(* handler, HttpServer::handleRequest() makes it a 500.                    *)
InsertRefused(l) ==
    /\ step[l] = "insert"
    /\ Refused(l)
    /\ Reply(l, 500, 0)
    /\ UNCHANGED <<unique, users, requests, dbErrors, peak>>

(* The row is found by its name: any row with it may come first. *)
SelectId(l) ==
    /\ step[l] = "select"
    /\ \E i \in Rows(name[l]) : Reply(l, 200, i)
    /\ UNCHANGED <<unique, users, requests, dbErrors, peak>>

(* A statement fails, an INSERT perhaps after it has been committed; what  *)
(* earlier statements did stays.                                           *)
DbError(l) ==
    /\ step[l] # "idle"
    /\ dbErrors < MaxDbErrors
    /\ dbErrors' = dbErrors + 1
    /\ \/ UNCHANGED users
       \/ step[l] = "insert" /\ ~Refused(l) /\ users' = Stored(l)
    /\ Reply(l, 500, 0)
    /\ UNCHANGED <<unique, requests, peak>>

(* The bound: no more requests are received. *)
RegistrationFinished ==
    /\ requests = MaxRequests
    /\ \A l \in Loops : step[l] = "idle"
    /\ UNCHANGED registrationVars

RegistrationNext ==
    \/ \E l \in Loops :
        \/ \E c \in Clients, n \in Names : Receive(l, c, n)
        \/ BadBody(l)
        \/ NameTaken(l)
        \/ NameFree(l)
        \/ Insert(l)
        \/ InsertRefused(l)
        \/ SelectId(l)
        \/ DbError(l)
    \/ RegistrationFinished

RegistrationSpec == RegistrationInit /\ [][RegistrationNext]_registrationVars

(***************************************************************************)
(* Properties                                                              *)
(***************************************************************************)
(* Every variable has its type; a handler that has inserted its user finds *)
(* one, so that insertUser() never returns -1 for a user it has created.   *)
RegistrationTypeOK ==
    /\ unique \in BOOLEAN
    /\ users \in Seq(Row)
    /\ step \in [Loops -> {"idle", "exists", "insert", "select"}]
    /\ client \in [Loops -> Clients \cup {Nobody}]
    /\ \A l \in Loops : client[l] = Nobody <=> step[l] = "idle"
    /\ name \in [Loops -> Names]
    /\ \A l \in Loops : step[l] = "select" => Rows(name[l]) # {}
    /\ replies \subseteq Answer
    /\ requests \in Nat
    /\ dbErrors \in Nat
    /\ peak \in [Clients -> [Names -> Nat]]

Confirmed == {a \in replies : a.status = 200}

(* "Return the id of the newly inserted user" (ChatRegisterHandler.cpp:53): *)
(* the id in a 200 answer is that of the row of the client who gets it.    *)
NewIdReturned == \A a \in Confirmed : users[a.id].client = a.client

(* With a UNIQUE name the race of two check-then-inserts is harmless: the  *)
(* id in a 200 is the client's own, and a name belongs to one of them.     *)
UniqueNameIsOwned ==
    unique =>
        /\ NewIdReturned
        /\ \A a, b \in Confirmed : a.name = b.name => a.client = b.client

(* Whatever the schema: however often a client asks for a name, and        *)
(* although an error may hide that the user was created, the name gets no  *)
(* more rows of the client than requests of his for it were being handled  *)
(* at one time.  Who presses the button again only after an answer has one *)
(* row; who presses it twice at once may have two.                         *)
CopiesNeedOverlap ==
    \A c \in Clients, n \in Names :
        Cardinality({i \in Rows(n) : users[i].client = c}) <= peak[c][n]
=============================================================================
