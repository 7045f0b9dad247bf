------------------------------ MODULE EventLoops ------------------------------
(***************************************************************************)
(* The threads of the server together: event loops that run handlers to    *)
(* the end one after the other, workers that store rows, and what they     *)
(* share: mutexes, the maps of ChatServer, the channels of MQManager, the  *)
(* connection pool (ResourcePool, which DbConnectionPool implements), and  *)
(* calls to the outside that may not return.                               *)
(*                                                                         *)
(* A handler is the sequence of its steps on something shared; what it     *)
(* computes is left out (see LoginSessions, ChatConversation and           *)
(* ChatPersistence).  A step on a shared object is in progress while it is *)
(* the next one of its thread.  All clients are connections of one         *)
(* browser, asking about one conversation.                                 *)
(***************************************************************************)
EXTENDS Naturals, Sequences, FiniteSets, Functions

CONSTANTS
    Loops,        \* the event loops, setThreadNum()
    Workers,      \* the workers of RabbitMQThreadPool
    Conns,        \* the connections of the pool
    Channels,     \* MQManager::pool_, the sequence of its channels
    Clients,      \* TCP connections of clients
    LoopOf,       \* the loop that muduo gave each of them to
    Kinds,        \* what the clients ask for: see Programs
    Nobody,       \* no thread, no client
    Nothing,      \* no request
    Mutexes,      \* the mutexes of ChatServer
    MaxPolls,     \* max_loops of synthesize()
    MaxRequests,  \* bound: requests of all clients
    MaxDbErrors   \* bound: statements that fail

(* What threads share and no mutex of its own comes with: the maps of      *)
(* ChatServer, a conversation (messages and strategy of its AIHelper), the *)
(* session store with the sessions in it, the generator of session ids,    *)
(* the TLS connections.                                                    *)
Objects == {"onlineUsers_", "chatInformation", "sessionsIdsMap", "ImageRecognizerMap",
            "AIHelper", "sessions_m", "rng_m", "sslConns_m"}

ASSUME ConstantsAssumption ==
    /\ Loops \cap Workers = {}
    /\ Nobody \notin Loops \cup Workers \cup Clients
    /\ Nothing \notin Kinds \cup {"upload"}
    /\ LoopOf \in [Clients -> Loops]
    /\ Channels \in Seq(Range(Channels)) /\ Channels # <<>>
    /\ {"mutexForOnlineUsers_", "mutexForChatInformation", "mutexForSessionsId",
        "mutexForImageRecognizerMap"} \subseteq Mutexes
    /\ Range(Channels) \cap (Mutexes \cup Objects) = {}
    /\ MaxPolls \in Nat \ {0} /\ MaxRequests \in Nat /\ MaxDbErrors \in Nat

VARIABLES
    asked,     \* the request of each client that has no answer yet
    requests,  \* requests sent so far
    serving,   \* the client whose request a loop handles
    todo,      \* the steps a thread still has to take
    hung,      \* loops in a call that never returns
    lock,      \* who has each mutex
    open,      \* ResourcePool: filled, before the loops start
    want,      \* ResourcePool: threads in getConnection()
    owner,     \* ResourcePool: who holds each connection
    counter,   \* MQManager::counter_, modulo poolSize_
    rows,      \* rows in the queue
    dead,      \* workers ended by an exception
    dbErrors,  \* statements that have failed
    known,     \* is the user's recognizer in ImageRecognizerMap?
    built,     \* recognizers constructed
    polls      \* synthesize(): rounds of the loop so far

mqVars    == <<counter, rows>>
poolVars  == <<open, want, owner>>
loopVars  == <<asked, requests, serving>>
imageVars == <<known, built>>
vars == <<loopVars, todo, hung, lock, poolVars, mqVars, dead, dbErrors, imageVars, polls>>

Threads == Loops \cup Workers

Pool == INSTANCE ResourcePool WITH Clients <- Threads, Resources <- Conns

(***************************************************************************)
(* What handlers and workers do, in the order of the code                  *)
(***************************************************************************)
Step(op, on)  == [op |-> op, on |-> on]
Reads(map)    == Step("read", map)
Writes(map)   == Step("write", map)
Statement     == Step("statement", "pool")   \* one call of MysqlUtil
Publish       == Step("publish", "broker")
Model         == Step("model", "outside")    \* executeCurl()
Guarded(m, s) == <<Step("lock", m)>> \o s \o <<Step("unlock", m)>>

(* SessionManager::getSession(): load() and save() of the session of the   *)
(* cookie, which load() erases when it has expired, or of a new one.       *)
KnownSession == <<Writes("sessions_m")>>
NewSession   == <<Writes("sessions_m"), Writes("rng_m"), Writes("sessions_m")>>
GetSession   == {KnownSession, NewSession}

(* The user is unknown, or refused, or logged in.  setValue() comes before *)
(* the look at onlineUsers_, which is without the mutex, and its           *)
(* operator[] may insert; the assignment is with it.                       *)
LoginProgram ==
    {<<Statement>>} \cup
    {<<Statement>> \o s \o <<Writes("sessions_m"), Writes("onlineUsers_")>> \o set :
        s \in GetSession,
        set \in {<<>>, Guarded("mutexForOnlineUsers_", <<Writes("onlineUsers_")>>)}}

(* clear() and destroySession(), and the erase() unless the body is none   *)
(* that can be parsed.                                                     *)
LogoutProgram ==
    {<<Writes("sessions_m")>>,
     <<Writes("sessions_m")>> \o Guarded("mutexForOnlineUsers_", <<Writes("onlineUsers_")>>)}

RegisterProgram == {<<Statement>>, <<Statement, Statement, Statement>>}

(* AIHelper::addMessage() *)
AddMessage == <<Writes("AIHelper"), Publish>>

(* A prompt, a call of the model with all messages, and pop_back(). *)
AskWithPrompt == <<Writes("AIHelper"), Reads("AIHelper"), Model, Writes("AIHelper")>>

(* AIHelper::chat(): setStrategy(); a plain strategy, or the tool strategy *)
(* without and with a tool call, whose own HTTP call has a timeout and     *)
(* always returns.                                                         *)
ChatPrograms ==
    {<<Writes("AIHelper")>> \o chat :
        chat \in {AddMessage \o <<Reads("AIHelper"), Model>> \o AddMessage,
                  AskWithPrompt \o AddMessage \o AddMessage,
                  AskWithPrompt \o AskWithPrompt \o AddMessage \o AddMessage}}

(* Mutant of SendProgram: the mutex is kept for the whole chat. *)
SendLocksWholeChat ==
    {Guarded("mutexForChatInformation", <<Writes("chatInformation")>> \o chat) :
        chat \in ChatPrograms}

(* The helper of a conversation is looked up or created in the map. *)
SendProgram ==
    {Guarded("mutexForChatInformation", <<Writes("chatInformation")>>) \o chat :
        chat \in ChatPrograms}

(* A new conversation is also listed, under the same mutex. *)
CreateProgram ==
    {Guarded("mutexForChatInformation",
             <<Writes("chatInformation"), Writes("sessionsIdsMap")>>) \o chat :
        chat \in ChatPrograms}

HistoryProgram ==
    {Guarded("mutexForChatInformation", <<Writes("chatInformation"), Reads("AIHelper")>>)}

(* operator[] inserts a user who has no list. *)
SessionsProgram ==
    {Guarded("mutexForSessionsId", <<Writes("sessionsIdsMap")>>)}

(* Mutant of UploadProgram: the recognizer is constructed before the lock. *)
UploadLoadsUnlocked ==
    {<<Step("find", "ImageRecognizerMap"), Step("load", "model")>>
        \o Guarded("mutexForImageRecognizerMap", <<Step("insert", "ImageRecognizerMap")>>)}

(* If the map has none, the user's recognizer is constructed, from two     *)
(* files, and inserted.                                                    *)
UploadProgram ==
    {Guarded("mutexForImageRecognizerMap",
             <<Step("find", "ImageRecognizerMap"), Step("load", "model"),
               Step("insert", "ImageRecognizerMap")>>)}

(* AISpeechProcessor: its constructor, then synthesize(). *)
SpeechProgram == {<<Step("token", "outside"), Step("create", "outside"), Step("poll", "outside")>>}

(* Of a server with SSL: a connection comes, an answer goes, it ends. *)
TlsProgram == {<<Writes("sslConns_m"), Reads("sslConns_m")>>, <<Reads("sslConns_m")>>,
               <<Writes("sslConns_m")>>}

(* What a handler that has asked for the session does for a user who is    *)
(* logged in.                                                              *)
UserPrograms(kind) ==
    CASE kind = "logout"   -> LogoutProgram
      [] kind = "send"     -> SendProgram
      [] kind = "create"   -> CreateProgram
      [] kind = "history"  -> HistoryProgram
      [] kind = "sessions" -> SessionsProgram
      [] kind = "upload"   -> UploadProgram
      [] kind = "speech"   -> SpeechProgram
      [] OTHER             -> {}

(* A handler may also refuse before it touches anything, or after a look   *)
(* at the session, and a page does nothing more than that.                 *)
Programs(kind) ==
    {<<>>} \cup
    CASE kind = "login"    -> LoginProgram
      [] kind = "register" -> RegisterProgram
      [] kind = "tls"      -> TlsProgram
      [] OTHER             -> GetSession \cup {KnownSession \o p : p \in UserPrograms(kind)}

(* RabbitMQThreadPool::worker() for one row: executeMysql(), BasicAck(). *)
WorkerProgram == <<Statement, Step("ack", "broker")>>

(***************************************************************************)
(* State                                                                   *)
(***************************************************************************)
Init ==
    /\ asked = [c \in Clients |-> Nothing]
    /\ requests = 0
    /\ serving = [l \in Loops |-> Nobody]
    /\ todo = [t \in Threads |-> <<>>]
    /\ hung = {}
    /\ lock = [m \in Mutexes \cup Range(Channels) |-> Nobody]
    /\ open = TRUE
    /\ want = {}
    /\ owner = [c \in Conns |-> Nobody]
    /\ counter = 0
    /\ rows = 0
    /\ dead = {}
    /\ dbErrors = 0
    /\ known = FALSE
    /\ built = 0
    /\ polls = [l \in Loops |-> 0]

AtStep(t, op)  == t \notin hung /\ todo[t] # <<>> /\ Head(todo[t]).op = op
Object(t)     == Head(todo[t]).on
Continue(t)   == todo' = [todo EXCEPT ![t] = Tail(@)]
Holds(t)      == {m \in DOMAIN lock : lock[m] = t}
HasConn(t)    == \E c \in Conns : owner[c] = t

(***************************************************************************)
(* Requests                                                                *)
(***************************************************************************)
Ask(c, kind) ==
    /\ requests < MaxRequests
    /\ asked[c] = Nothing
    /\ asked' = [asked EXCEPT ![c] = kind]
    /\ requests' = requests + 1
    /\ UNCHANGED <<serving, todo, hung, lock, poolVars, mqVars, dead, dbErrors, imageVars, polls>>

(* HttpServer::onRequest() calls the handler, on the connection's loop. *)
Begin(l, c) ==
    /\ LoopOf[c] = l /\ asked[c] # Nothing
    /\ serving[l] = Nobody
    /\ serving' = [serving EXCEPT ![l] = c]
    /\ \E p \in Programs(asked[c]) : todo' = [todo EXCEPT ![l] = p]
    /\ polls' = [polls EXCEPT ![l] = 0]
    /\ UNCHANGED <<asked, requests, hung, lock, poolVars, mqVars, dead, dbErrors, imageVars>>

AnswerClient(l) ==
    /\ serving[l] # Nobody /\ todo[l] = <<>>
    /\ asked' = [asked EXCEPT ![serving[l]] = Nothing]
    /\ serving' = [serving EXCEPT ![l] = Nobody]
    /\ UNCHANGED <<requests, todo, hung, lock, poolVars, mqVars, dead, dbErrors, imageVars, polls>>

Unwind(t) ==
    /\ todo' = [todo EXCEPT ![t] = <<>>]
    /\ lock' = [m \in DOMAIN lock |-> IF lock[m] = t THEN Nobody ELSE lock[m]]

(***************************************************************************)
(* Mutexes, maps and the channels to the broker                            *)
(***************************************************************************)
Lock(t) ==
    /\ AtStep(t, "lock")
    /\ lock[Object(t)] = Nobody
    /\ lock' = [lock EXCEPT ![Object(t)] = t]
    /\ Continue(t)
    /\ UNCHANGED <<loopVars, hung, poolVars, mqVars, dead, dbErrors, imageVars, polls>>

Unlock(t) ==
    /\ AtStep(t, "unlock")
    /\ lock' = [lock EXCEPT ![Object(t)] = Nobody]
    /\ Continue(t)
    /\ UNCHANGED <<loopVars, hung, poolVars, mqVars, dead, dbErrors, imageVars, polls>>

Access(t) ==
    /\ AtStep(t, "read") \/ AtStep(t, "write")
    /\ Continue(t)
    /\ UNCHANGED <<loopVars, hung, lock, poolVars, mqVars, dead, dbErrors, imageVars, polls>>

(* MQManager::publish(): channels in turn, each with a mutex of its own. *)
PublishRow(t) ==
    /\ AtStep(t, "publish")
    /\ counter' = (counter + 1) % Len(Channels)
    /\ LET ch == Channels[counter + 1]
       IN  todo' = [todo EXCEPT ![t] = Guarded(ch, <<Step("send", ch)>>) \o Tail(@)]
    /\ UNCHANGED <<loopVars, hung, lock, poolVars, rows, dead, dbErrors, imageVars, polls>>

(* An exception of BasicPublish() is caught: the row is lost. *)
SendRow(t, sent) ==
    /\ AtStep(t, "send")
    /\ rows' = IF sent THEN rows + 1 ELSE rows
    /\ Continue(t)
    /\ UNCHANGED <<loopVars, hung, lock, poolVars, counter, dead, dbErrors, imageVars, polls>>

(***************************************************************************)
(* The database                                                            *)
(***************************************************************************)
GetConnection(t) ==
    /\ AtStep(t, "statement")
    /\ Pool!Request(t)
    /\ UNCHANGED <<loopVars, todo, hung, lock, mqVars, dead, dbErrors, imageVars, polls>>

Granted(t) ==
    /\ Pool!Acquire(t)
    /\ UNCHANGED <<loopVars, todo, hung, lock, mqVars, dead, dbErrors, imageVars, polls>>

(* The shared_ptr's deleter returns the connection. *)
StatementDone(t) ==
    /\ AtStep(t, "statement")
    /\ Pool!Release(t)
    /\ Continue(t)
    /\ UNCHANGED <<loopVars, hung, lock, mqVars, dead, dbErrors, imageVars, polls>>

(* SQLException: the connection is given back all the same.  A worker      *)
(* ends, and the broker has its row again.                                 *)
StatementFails(t) ==
    /\ AtStep(t, "statement")
    /\ Pool!Release(t)
    /\ dbErrors < MaxDbErrors /\ dbErrors' = dbErrors + 1
    /\ Unwind(t)
    /\ dead' = IF t \in Workers THEN dead \cup {t} ELSE dead
    /\ rows' = IF t \in Workers THEN rows + 1 ELSE rows
    /\ UNCHANGED <<loopVars, hung, counter, imageVars, polls>>

(* BasicConsumeMessage() returns a row; BasicAck() takes it off the queue. *)
WorkerTakes(w) ==
    /\ w \notin dead /\ todo[w] = <<>>
    /\ rows > 0
    /\ rows' = rows - 1
    /\ todo' = [todo EXCEPT ![w] = WorkerProgram]
    /\ UNCHANGED <<loopVars, hung, lock, poolVars, counter, dead, dbErrors, imageVars, polls>>

Acknowledge(w) ==
    /\ AtStep(w, "ack")
    /\ Continue(w)
    /\ UNCHANGED <<loopVars, hung, lock, poolVars, mqVars, dead, dbErrors, imageVars, polls>>

(***************************************************************************)
(* Image recognizers                                                       *)
(***************************************************************************)
(* If there is one, the next two steps are left out. *)
FindRecognizer(t) ==
    /\ AtStep(t, "find")
    /\ todo' = [todo EXCEPT ![t] = IF known THEN SubSeq(@, 4, Len(@)) ELSE Tail(@)]
    /\ UNCHANGED <<loopVars, hung, lock, poolVars, mqVars, dead, dbErrors, imageVars, polls>>

(* The constructor: the model's session, then LoadLabels(). *)
LoadRecognizer(t) ==
    /\ AtStep(t, "load")
    /\ built' = built + 1
    /\ Continue(t)
    /\ UNCHANGED <<loopVars, hung, lock, poolVars, mqVars, dead, dbErrors, known, polls>>

(* No model, no label file, or an empty one. *)
LoadFails(t) ==
    /\ AtStep(t, "load")
    /\ Unwind(t)
    /\ UNCHANGED <<loopVars, hung, poolVars, mqVars, dead, dbErrors, imageVars, polls>>

InsertRecognizer(t) ==
    /\ AtStep(t, "insert")
    /\ known' = TRUE
    /\ Continue(t)
    /\ UNCHANGED <<loopVars, hung, lock, poolVars, mqVars, dead, dbErrors, built, polls>>

(***************************************************************************)
(* Calls to the outside (curl)                                             *)
(***************************************************************************)
Outside(t) == \E op \in {"model", "token", "create", "poll"} : AtStep(t, op)

(* No call but a tool's sets a timeout. *)
Hang(l) ==
    /\ Outside(l)
    /\ hung' = hung \cup {l}
    /\ UNCHANGED <<loopVars, todo, lock, poolVars, mqVars, dead, dbErrors, imageVars, polls>>

ModelAnswers(l) ==
    /\ AtStep(l, "model")
    /\ Continue(l)
    /\ UNCHANGED <<loopVars, hung, lock, poolVars, mqVars, dead, dbErrors, imageVars, polls>>

(* executeCurl() throws: no connection, or an answer that is no JSON. *)
ModelFails(l) ==
    /\ AtStep(l, "model")
    /\ Unwind(l)
    /\ UNCHANGED <<loopVars, hung, poolVars, mqVars, dead, dbErrors, imageVars, polls>>

(* getAccessToken(): without a token synthesize() is called all the same.  *)
(* The first call of synthesize() makes the task.                          *)
SpeechAnswers(l) ==
    /\ AtStep(l, "token") \/ AtStep(l, "create")
    /\ Continue(l)
    /\ UNCHANGED <<loopVars, hung, lock, poolVars, mqVars, dead, dbErrors, imageVars, polls>>

(* No task id: synthesize() returns "". *)
CreateFails(l) ==
    /\ AtStep(l, "create")
    /\ todo' = [todo EXCEPT ![l] = <<>>]
    /\ UNCHANGED <<loopVars, hung, lock, poolVars, mqVars, dead, dbErrors, imageVars, polls>>

(* Mutant of Poll: the counter starts anew and the loop never ends. *)
PollCountsAnew(l, url) ==
    /\ AtStep(l, "poll")
    /\ polls' = [polls EXCEPT ![l] = (@ + 1) % MaxPolls]
    /\ todo' = [todo EXCEPT ![l] = IF url THEN Tail(@) ELSE @]
    /\ UNCHANGED <<loopVars, hung, lock, poolVars, mqVars, dead, dbErrors, imageVars>>

(* One round: sleep for a second, on the event loop, and query.  Only an   *)
(* answer of "Success" with a url ends the loop: the answer that the task  *)
(* has failed, or one without tasks_info, does not.                        *)
Poll(l, url) ==
    /\ AtStep(l, "poll")
    /\ polls' = [polls EXCEPT ![l] = @ + 1]
    /\ todo' = [todo EXCEPT ![l] = IF url \/ polls[l] + 1 >= MaxPolls THEN Tail(@) ELSE @]
    /\ UNCHANGED <<loopVars, hung, lock, poolVars, mqVars, dead, dbErrors, imageVars>>

(* No connection, or an answer that is no JSON: the loop is left. *)
PollFails(l) ==
    /\ AtStep(l, "poll")
    /\ polls' = [polls EXCEPT ![l] = @ + 1]
    /\ Continue(l)
    /\ UNCHANGED <<loopVars, hung, lock, poolVars, mqVars, dead, dbErrors, imageVars>>

(***************************************************************************)
(* Specification                                                           *)
(***************************************************************************)
(* A thread goes on with its program. *)
Run(t) ==
    \/ Lock(t) \/ Unlock(t) \/ Access(t)
    \/ PublishRow(t) \/ \E sent \in BOOLEAN : SendRow(t, sent)
    \/ GetConnection(t) \/ StatementDone(t) \/ StatementFails(t)
    \/ FindRecognizer(t) \/ LoadRecognizer(t) \/ LoadFails(t) \/ InsertRecognizer(t)
    \/ ModelAnswers(t) \/ ModelFails(t)

Synthesize(l) ==
    \/ SpeechAnswers(l) \/ CreateFails(l)
    \/ \E url \in BOOLEAN : Poll(l, url)
    \/ PollFails(l)

(* The bound, and nothing but calls that hang or rows nobody takes. *)
Quiet ==
    /\ requests = MaxRequests
    /\ \A l \in Loops \ hung : serving[l] = Nobody
    /\ \A c \in Clients : asked[c] # Nothing => LoopOf[c] \in hung
    /\ rows = 0 \/ dead = Workers
    /\ \A w \in Workers : todo[w] = <<>>
    /\ UNCHANGED vars

Next ==
    \/ \E c \in Clients, k \in Kinds : Ask(c, k)
    \/ \E l \in Loops, c \in Clients : Begin(l, c)
    \/ \E l \in Loops : AnswerClient(l) \/ Synthesize(l) \/ Hang(l)
    \/ \E t \in Threads : Run(t) \/ Granted(t)
    \/ \E w \in Workers : WorkerTakes(w) \/ Acknowledge(w)
    \/ Quiet

Spec == Init /\ [][Next]_vars

(* Threads run; while one asks for a connection and one is free somebody   *)
(* gets it (ResourcePool!ServingSpec).  That a statement gives its         *)
(* connection back assumes that the pool's checker does not keep mutex_m   *)
(* for itself (DbConnectionPool!OnlyCheckerHoldsBack).  Calls that hang    *)
(* stay hung.                                                              *)
Fairness ==
    /\ \A l \in Loops : WF_vars(AnswerClient(l) \/ Synthesize(l) \/ \E c \in Clients : Begin(l, c))
    /\ \A t \in Threads : WF_vars(Run(t))
    /\ \A w \in Workers : WF_vars(WorkerTakes(w) \/ Acknowledge(w))
    /\ WF_vars(\E t \in Threads : Granted(t))

LiveSpec == Spec /\ Fairness

(***************************************************************************)
(* Properties                                                              *)
(***************************************************************************)
(* Every variable has its type; a connection is held by a thread at a      *)
(* statement, and each mutex's owner is still to unlock it.                *)
TypeOK ==
    /\ asked \in [Clients -> Kinds \cup {Nothing}]
    /\ requests \in 0..MaxRequests
    /\ serving \in [Loops -> Clients \cup {Nobody}]
    /\ DOMAIN todo = Threads
    /\ hung \subseteq Loops
    /\ lock \in [Mutexes \cup Range(Channels) -> Threads \cup {Nobody}]
    /\ open
    /\ want \subseteq Threads
    /\ owner \in [Conns -> Threads \cup {Nobody}]
    /\ counter \in 0..Len(Channels) - 1
    /\ rows \in Nat
    /\ dead \subseteq Workers
    /\ dbErrors \in 0..MaxDbErrors
    /\ known \in BOOLEAN
    /\ built \in Nat
    /\ polls \in [Loops -> 0..MaxPolls]
    /\ \A t \in Threads : HasConn(t) => todo[t] # <<>> /\ Head(todo[t]).op = "statement"
    /\ \A m \in DOMAIN lock : lock[m] # Nobody => Step("unlock", m) \in Range(todo[lock[m]])

(* Two threads are at a step on the same object, and one changes it. *)
Using(t)  == todo[t] # <<>> /\ Head(todo[t]).op \in {"read", "write", "find", "insert", "send"}
Racing(t, u) ==
    /\ t # u /\ Using(t) /\ Using(u)
    /\ Object(t) = Object(u)
    /\ Head(todo[t]).op \in {"write", "insert", "send"}
RacesOn(objects) == \E t, u \in Threads : Racing(t, u) /\ Object(t) \in objects

(* The channels of the broker, each with its mutex, and two of the four    *)
(* maps of ChatServer, chatInformation and ImageRecognizerMap, are race    *)
(* free: whatever handlers run and fail at the same moment, no thread is   *)
(* in one of them while another changes it.  Nothing is said of the other  *)
(* objects: the code looks at onlineUsers_ without its mutex, changes      *)
(* sessionsIdsMap with two different ones, and has none for a              *)
(* conversation, the sessions, rng_m and sslConns_m.                       *)
GuardedAreRaceFree ==
    ~RacesOn({"chatInformation", "ImageRecognizerMap"} \cup Range(Channels))

(* What one request waits for keeps nobody else waiting: a thread that     *)
(* calls the outside or asks for a connection has no mutex and no          *)
(* connection, and nobody who has a mutex waits for another.  A model that *)
(* never answers stops one loop, not all.                                  *)
NothingHeldWhileWaiting ==
    \A t \in Threads :
        /\ t \in want \/ t \in hung \/ Outside(t) => Holds(t) = {} /\ ~HasConn(t)
        /\ AtStep(t, "lock") => Holds(t) = {}

(* A user's recognizer is constructed once, although several requests may  *)
(* find none at the same time and a construction may fail.                 *)
OneRecognizer == built <= 1

(* Every request is answered, through exceptions and polling, unless the   *)
(* loop of its connection is in a call that never returns.                 *)
RequestsFinish ==
    \A c \in Clients : (asked[c] # Nothing) ~> (asked[c] = Nothing \/ LoopOf[c] \in hung)

(* "mutexForSessionsId" (ChatServer.h:99) guards sessionsIdsMap (line 98). *)
SessionListIsGuarded == ~RacesOn({"sessionsIdsMap"})

(* A model that does not answer delays its own client alone: not true of   *)
(* code that calls it on the event loop.                                   *)
OthersAreServed ==
    \A c \in Clients :
        (asked[c] # Nothing)
            ~> (asked[c] = Nothing \/ \E l \in hung : serving[l] = c)
=============================================================================
