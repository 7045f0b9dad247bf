# CppAura: a verification development

CppAura is a C++ HTTP framework on top of muduo (`AIApps/HttpServer`) and a chat
server built with it (`AIApps/ChatServer`): users register, log in and hold
conversations with large language models; messages are kept in memory and
reach MySQL through RabbitMQ. This directory models the parts of it that hold
state and decide something, checks them with TLC on small instances, and proves
most of their safety properties with TLAPS for every number of threads, connections,
loops, clients, conversations and messages.

Contents: 1 the system, 2 the models, 3 the runs, 4 fairness, 5 the proofs,
6 where the code and its words differ, 7 what is not modelled, 8 the plan.

## 1. The system

### 1.1 Who runs

One process. `main()` fills the connection pool, reads the table of messages into
memory (`initChatMessage`), starts the message-queue workers, and then starts the
server with four event loops (`setThreadNum(4)`). From then on these threads run:

| thread | runs | blocks on |
|---|---|---|
| event loops | every handler, from the first byte of a request to its answer, one at a time per loop; a connection stays with its loop | MySQL, the pool, the HTTP call of a model, mutexes |
| workers | `RabbitMQThreadPool::worker`: take a row from the queue, `executeMysql`, acknowledge | the queue, MySQL, the pool |
| pool checker | `DbConnectionPool::checkConnections` | its sleeps, MySQL |

### 1.2 How the parts interact

A request crosses them in this order:

    TCP -> SslConnection (if TLS) -> HttpServer::onMessage -> HttpContext (parser)
        -> onRequest -> handleRequest -> MiddlewareChain::processBefore (CORS)
        -> Router -> handler -> SessionManager, onlineUsers_, AIHelper, MysqlUtil
        -> HttpResponse -> SslConnection::send or TcpConnection::send

    AIHelper::addMessage -> MQManager::publish -> RabbitMQ (external) -> worker
        -> executeMysql -> MysqlUtil -> DbConnectionPool -> MySQL (external)
        -> (after a restart) readDataFromMySQL -> AIHelper::restoreMessage

Handlers of different loops meet in nine places: the session store, the generator of
session ids, `onlineUsers_`, the conversations of one user (a map of helpers under a mutex,
the helpers themselves without one), the list of conversation ids, the map of image
recognizers, the map of TLS connections, the table `users`, and the connection pool. With the
workers they share the pool, and with each other the channels of `MQManager`.

The browser is a part of the system too: the script of `AI.html` keeps its own copy of
the conversations and goes on, after every answer, with variables that may have changed.

### 1.3 Components

For each: its state, its operations, what is hard, and what makes it correct.

* **Database connection pool** (`utils/db`). State: a FIFO of connections, a mutex,
  a condition variable, a flag; per connection a link and a mutex.
  Operations: `init`, `getConnection` with its catch block, the deleter of the
  `shared_ptr`, `cleanup`, `ping`, `reconnect`, `checkConnections`.
  Hard: between pop and push a connection exists only in local variables, across
  calls that may throw; one `notify_one` per push; a checker that works on a copy of
  the queue and sleeps with the mutex. Correct: no connection lost, duplicated or
  shared; no wake-up missing; every connection comes back; somebody is served;
  broken idle links are repaired.
* **Sessions, login, logout** (`session`, `ChatLoginHandler`, `ChatLogoutHandler`).
  State: `sessions_m`, what a session holds, `onlineUsers_`, the cookies of browsers.
  Operations: `getSession` (load, refresh, save), `setValue`, `clear`, `destroySession`,
  expiry, the two handlers and the login check of all others. Hard: no lock around
  the session store; `onlineUsers_` is read without its mutex; requests under way
  store a session again. Correct: nobody acts for a user whose password they
  have not given; a logout ends the login; one login per user; a refusal changes
  nothing and is truthful.
* **Registration** (`ChatRegisterHandler`). State: the table `users`. Three statements
  without a transaction, and a form whose button works while a request runs. Correct: the
  id returned is the client's own; a name has one owner; asking again, after a failure
  or while a request runs, creates no more users than requests overlapped.
* **Conversations** (`AIHelper`, the chat handlers). State: `messages`, `strategy` and
  the rows published, per conversation; the list of ids. Hard: a helper is shared by
  all requests of its user and used without a lock; model calls fail in the middle;
  roles come from the parity of the index. Correct: roles are right, prompts
  of the server do not stay, memory and table agree, the model asked for is called.
* **Persistence of messages** (`MQManager`, `RabbitMQThreadPool`, `executeMysql`,
  `readDataFromMySQL`). State: channels, the queue, unacknowledged rows, the table,
  the memory after a restart. Hard: crashes, redelivery, workers that die for good, order.
  Correct: accepted rows are not forgotten, duplicates need failures, rows are
  stored in the end, the restored context is complete and in order.
* **HTTP parser and connection** (`HttpContext`, `HttpRequest`, `HttpServer::onMessage`).
  State: the parser's state, a request object reused for the whole connection, the
  buffer. Hard: TCP cuts anywhere, pipelining, data after an error, what `reset`
  forgets. Correct: handlers get what was sent; one answer per request; every request
  is answered.
* **Routing, middleware, CORS and responses**. State: four tables, the chain, and the
  response a handler fills. Hard: three ways out (a handler, the middleware's exception,
  any other exception) and handlers without a try block. Correct: the code
  that answers is the one the order of the tables prescribes; answers
  pass the middleware; an answer has a status and an end.
* **TLS connection and context** (`SslConnection`, `SslContext`, the setup calls of
  `HttpServer`). State: `state_m`, two memory BIOs, `decryptedBuffer_m`, `sslConns_m`,
  `useSSL_m`. Hard: several records per read, the end of the handshake, errors
  after good data, setup calls in any order. Correct: no request lost inside, answers in
  order and encrypted, a handshake that was begun ends, a server with TLS enabled never
  serves without.
* **Event loops and what they share** (`ChatServer`, all handlers, the workers). State:
  mutexes, maps, channels, who holds a connection. Hard: handlers block their loop, take
  mutexes across calls, and throw; of the eight objects they share, four have no mutex
  and two are used outside theirs. Correct: what is guarded is guarded on every way through
  a handler; nobody waits with something others need; requests finish.
* **Speech synthesis** (`ChatSpeechHandler`, `AISpeechProcessor`) and **image recognition**
  (`AIUploadSendHandler`, `ImageRecognizer`). State: the polls of a task; a recognizer per
  user. Hard: a polling loop whose calls fail, on an event loop; a load that throws, under
  a mutex. Correct: the polling ends, whatever fails or is left out of an answer; one
  recognizer per user.
* **Chat page** (`AI.html`). State: `currentSessionId`, `tempSession`, `sessions`, what is shown.
  Hard: every function awaits answers and then reads variables that other functions
  have changed. Correct: a text is shown in the conversation it belongs to; page and
  server agree; a synchronisation repairs what went wrong.
* **Start of the server**: its order (table, then workers, then server; routes,
  then `start`) is part of the models above.

## 2. The models

Every module has its state as VARIABLES, one action per operation or step, `Spec`, and
its properties at the end, each with a comment naming the code or the sentence it is
about. Names are those of the source where TLA+ allows. Definitions called "Mutant of X"
are plausible bugs; no specification uses them, they serve to see that each property
notices one. A module `MCX` adds to `X` only constants and symmetry sets.

**Grain.** A block under a mutex is one action. Code without a lock is cut at every
operation on shared state. Where the code overlaps operations on one
`unordered_map` or `vector` without a lock (sessions, `messages`, `sslConns_m`), the
models explore all interleavings of whole operations, not what a torn operation of the
library may leave: that is undefined behaviour and nothing in the source says what it
does. Properties that hold here hold under this assumption.

### DbConnectionPool, ResourcePool
`connections` is `connections_m`; `pc[t]` is where a thread is in `getConnection`, its
statement and the deleter; `held[t]` the connection it popped; `up[c]` the link; `connMutex[c]`
the connection's mutex when a thread blocks holding it; `checker`, `temp`, `checked` the
checker, its copy of the queue and the connection it repairs; `dbUp`, `losses` and `outages`
the world. `Take`/`Wait`/`Refuse` are the loop of `getConnection`, `Ping`/`Reconnect`/`Fail`
the code between the pop and the return, `Cleanup`/`CleanupRelocks`/`Return` the deleter, with
`NotifyOne` choosing any waiter; `SpuriousWakeup` is what a condition variable may do. The
checker's actions are those of its loop; `CheckerDoze` to `CheckerWake` is the sleep with
`mutex_m` locked, during which no thread gets the mutex. `InitThrows` ends the process as an
exception in `main` does. Whether `getAutoCommit()` throws on a lost link depends on the
connector, hence the constant `CleanupMayThrow`.

`ResourcePool` is the abstract promise: clients ask, get a free resource and release it;
`ServingSpec` adds that somebody acquires while something is free. It promises no `Release`,
because the real pool cannot: see `OnlyCheckerHoldsBack` in section 3. The pool refines it
under `want <- threads in getConnection`, `owner <- who holds`, `open <- initialised`.

### LoginSessions
`stored` are the keys of `sessions_m`, `userOf` and `loggedIn` what the (shared) session
objects hold, so that `clear()` on one loop is visible on another; `expired` is the passing of
time; `cookie` what a browser keeps. A loop runs `LoadSession`, `SaveSession` (which is refresh
and save and may store again what a logout removed), then the steps of `ChatLoginHandler`
(write the session, *then* look at `onlineUsers_`), of `ChatLogoutHandler` (clear, destroy,
*then* parse the body), or of a handler that needs a login (check, then read the user id: two
looks). `proved`, `signedOut`, `logins` and `stranded` are history variables: what the clients
have really done, against which the properties compare. A new session id is one never drawn
before: that the unlocked `mt19937` of `SessionManager` yields distinct ids is an assumption
here.

### Registration
`Receive`, `BadBody`, `NameTaken`, `NameFree`, `Insert`, `InsertRefused`, `SelectId`, `DbError`:
the three statements of `insertUser` and their failures, an INSERT also after its commit.
A client may ask again at any time, also while a request of his runs: `entry.html` does not
disable its button. `peak` is history: how many of his requests for a name ran at one time.
The schema is not in the repository, so `Schemas` says whether a UNIQUE name is assumed.

### ChatConversation
`messages`, `strategy` and `published` per conversation. A loop enters through
`ChatSendHandler` or `ChatCreateAndSendHandler` and runs `AIHelper::chat()`: `SetStrategy`,
`Branch` (which reads the strategy back), the plain path `Ask`, `Curl`, `AddAnswer`, or the tool
path with its two prompts. `CurlFails` is the exception that leaves everything as it is.
A message is who wrote it and for which question; `Role` is the parity rule of the
strategies. A tool that throws leads to an answer, as a call without a tool does: `NoTool`. A
response without an answer in it is kept and published as an empty answer; what the client
is told instead is in ChatPage.

### ChatPersistence
Row k is the k-th message of one conversation, `ts` its millisecond (question and answer
may share one). `Publish` hands a row to a channel and does not look back; `Enqueue`,
redelivery and `BrokerRestart` are the broker (external): a durable queue with messages
that are not persistent, declared by the first worker. Workers `Declare`, `Deliver`, `Insert`,
`Ack`; an exception ends them for good (`PoisonKills`, `DbError`). A worker whose handler
is at work when the broker restarts finishes it: its row is among the `orphans`, which
nobody will deliver again, and `FinishOrphan` inserts it or fails; either way the worker ends,
at `BasicAck` at the latest. A worker that has not opened its channel yet survives. `Crash`
empties memory and requeues what was not acknowledged; `Restart` reads the table in any order
that `ORDER BY ts, id` allows, `RestartUnread` any part of it, because a row that cannot
be read is logged and skipped. `Poison` is the set of rows whose SQL is always refused.

### HttpConnection
The stream is lines and body bytes, abstracted to what the parser tells apart; `Arrive(n)`
delivers any prefix, `Arrive(0)` a part of a line. `RequestLine`, `BadRequestLine`, `Header`,
`BadHeader`, `BadLength`, `EndOfHeaders`, `Body` and `NeedMore` are the branches of
`parseRequest`, each with what it consumes or leaves; `Error` and `Dispatch` are the two ends
of `onMessage`. `AssertionFails` is the `assert` of `setMethod` (Debug build). Whether the
client pipelines is chosen once, at the start (`pipelining`). `connection` is what the last
Connection header of the request says. A negative Content-Length becomes `Huge`, as by
conversion to `uint64_t`. HEAD, DELETE and OPTIONS parse as GET does, PUT as POST; path and
query are data. What a client may send is any set of messages that follow `Grammar`: a
well-formed request is a request line, header lines, the empty line and the body the last
Content-Length announces; a malformed message stops being the beginning of one at some line
(`IsWrongAt`). Only well-formed messages carry body bytes: without a CRLF those of another
would be the beginning of the next line.

`RequestService` is the abstract promise of a connection, plain or TLS: requests are answered
in order, each at most once and with its own answer, a malformed one is refused, and
nothing follows a refusal or the end. Here it is refined under `asked <- ` what the client has
sent, each message by its method and body (`Asked`), `answers <- ` the answers with what the
router got (`Answered`), `open <- ` the connection is not shut down.

### SslConnection
One call of `onRead` is one action, because a connection is served by one loop: it takes n
records into `readBio` and then continues the handshake or decrypts everything and runs the
callback, which answers one request. A malformed request is one with an unknown
method, which the parser leaves at the head of the buffer; the other refusals are in
HttpConnection. `handshake` is OpenSSL's side (external), as are
client and network. `HandshakeCompletes` leaves what OpenSSL has just written in
`writeBio`, as the code does. `coalescing`
and `pipelining` say how the client's records come and are chosen at the start.
Before there is a connection, `EnableSSL`, `SetSslConfig` and `Start` come in any order;
`useSSL` starts with any value, because the constructor does not write it, and building
the context may fail. `OnConnection` makes a TLS connection if there is a context, and
`OnDisconnection` removes it from `sslConns_m`. The module implements `RequestService` too.

### RequestRouting
The registration calls fill four tables; after `Start` they are only read, so that a request
is one action. `Candidates` are what the four tables have for a request, in the order in which
`Router::route` asks them, `Found` the first of them, `Preflight` the
exception that `CorsMiddleware::before` throws. Regular expressions are a constant
relation `Match`. `calls` is history: the property is stated on the calls alone, and says what
the tables must then do. `Answers` is what the handlers of ChatServer make of a response:
a record of its status, what it says of its length, the length of its body (empty or not) and
whether the connection closes; `PackageResp` returns it unchanged, because
`packageResp()` does. `InternalError` is the catch block of `handleRequest`, which the
handlers without a try block rely on. A response stays in `answer` until `Send`.

### EventLoops
The composition: what a handler or worker does is reduced to the sequence `todo` of its
steps on something shared (`lock`, `unlock`, `read`, `write`, a statement, a publication, a
call of the outside), in the order of the code; `Programs` has all sequences a
handler may take. A thread is *at* a step while it is the head of its sequence, so two
threads at conflicting steps on one object are a race. `Objects` are all that handlers share
without the pool and the broker, those without a mutex included: the session store, on
which nearly every handler works through `getSession()`, the generator of session ids, the
conversation (`messages` and `strategy` of its helper) and the TLS connections. An
`operator[]` that may insert is a write. The pool is `ResourcePool`, instantiated
on the threads: that the real pool may stand in for it is the theorem `PoolRefinement` of
section 5. `StatementFails`, `ModelFails` and `LoadFails`
go through `Unwind`, which releases the locks of the scopes left; `CreateFails` and `PollFails` end
`synthesize()`, which holds none. `Hang` is a call of the outside that never
returns: `executeCurl` sets no timeout. `Poll` is one round of `synthesize()`: only an
answer of success with a url ends the loop, one that says the task has failed, or has no
`tasks_info`, does not. The second it sleeps is the steps others take in between.

### ChatPage
One user and one page. A function of the script runs to its await in one action; the call is
then in `calls` until the server has answered it and another action continues the function,
with the page's variables as they are by then. `List`, `SendHistory`, `Ask`, `AskNew`,
`AnswerCall` and `Fail` are the handlers; the question is in the history from `Ask` on, the
answer from `AnswerCall`. What the server keeps and what it tells the page are two things: a
response without an answer in it is kept as an empty text, and the page is told, with `success:
true`, an error note (the tool path: the empty text itself). Tool calls, whose prompts would be
extra texts, are left to ChatConversation. `overlapped`, `failed`, `strayed` and `again` are
history: what the user and the network have done, which the properties need to say whom they
are about. `strayed` is set by an action of the user that leaves a conversation while a call is
under way, and by nothing else; `again` by a further question in a new chat that already shows
one, because its creation waits or has failed.

## 3. The runs

`PROJECT.json` lists twelve runs. "pass": TLC finds no error. "violation": the property is a
sentence of the repository, and TLC shows a behaviour of the code that contradicts it.

| run | instance | properties | shows |
|---|---|---|---|
| PoolSafety | 4 threads, 2 connections, 2 lost links, 1 outage, clean-up may throw | TypeOK, Conservation, NoLostWakeup | no path loses, shares or duplicates a connection, no wake-up is missing |
| PoolLive | 3 threads, 2 connections, 1 outage, clean-up may throw, mutexes as fair as `std::mutex` | IdleIsRepaired, OnlyCheckerHoldsBack, PoolServes | broken idle links are repaired unless a blocked clean-up stops the checker; connections come back unless the checker finds the pool empty over and over or their own clean-up blocks; the pool implements ResourcePool with its progress |
| LoginSafety | 2 loops, 2 browsers, 2 users, 3 ids, 4 requests | TypeOK, ActsForProvedUser, LogoutEndsLogin, LockOutHasACause | no interleaving gives a session away; a logout holds; a user is refused without being logged in only after one of four named events |
| LoginTwice | 2 loops, 2 browsers, 1 user, 2 requests | OneLoginPerUser | violation |
| RegistrationSafety | 2 loops, 2 people, 2 names, 4 requests, 2 errors, both schemas | UniqueNameIsOwned, CopiesNeedOverlap | with UNIQUE the race is harmless; with or without it, asking again after an answer creates nothing, and asking at the same time no more users than requests overlapped |
| ChatSafety | 2 loops, 2 conversations, 3 questions, all models | TypeOK, QuietConversationAlternates, QuietChatCallsItsModel, AnsweredIsPublished | both branches of `chat()` are right, and the chosen model is called, when calls neither overlap nor fail; answers are always published, overlaps and failures included |
| ChatPage | 1 old and 2 new conversations, 4 actions of the user, answers, empty ones too, and failures in any order | TypeOK, ShownBelongs, PatientPageAgrees, SyncHeals | a conversation shows its own texts unless the user left one that waited or asked again in a new chat; a patient user's page reads as the server's history; a synchronisation that runs alone repairs the page |
| Persistence | 2 workers, 2 channels, 4 rows, one of them poisoned, 1 crash, 1 database error, 1 broker restart with handlers at work | TypeOK, NothingForgotten, DuplicatesNeedFailures, RestartMissesOnlyQueued, QueuedIsStored | rows the broker has taken survive and are stored while a worker lives; a restart misses only what is still queued |
| Http | up to 3 of 13 messages, cut anywhere, pipelined or not | ClosedAsAsked, ServiceSpec, PatientClientIsAnswered | the connection implements RequestService; connections close if asked and never without a reason; patient clients are always answered |
| Ssl | TLS 1.2 and 1.3, records coalesced or not, pipelined or not, 4 requests, the setup calls in any order | TypeOK, NothingLostInside, EnabledMeansTls, ServiceSpec, Tls13HandshakeSucceeds, PatientClientIsAnswered | nothing is lost between socket and router; the connection implements RequestService; a TLS 1.3 handshake completes; patient clients are answered |
| RoutingSafety | 2 methods, 2 paths, 2 overlapping patterns, 3 registrations, 1 middleware, all answers | RoutingTypeOK, AnsweredAsRegistered, CompleteOrBlank | precedence of the tables; an answer is complete, or as blank as it was built |
| EventLoops | 2 loops with a client each, 1 worker, 1 connection, 2 channels, all 10 kinds of requests, 2 polls, 2 requests, 1 database error, calls that fail or hang | GuardedAreRaceFree, NothingHeldWhileWaiting, RequestsFinish | every pair of handlers together with the worker: `chatInformation`, `ImageRecognizerMap` and the channels are free of races (nothing is claimed of the other objects), no lock is held across a call of the outside or a wait, requests finish |

One further configuration passes and is kept beside the runs, for what is worth
checking after a change but is implied by the theorems: HttpMore (`TypeOK`,
`GoodClientIsServed`). `RegistrationTypeOK`, `TypeOK` of EventLoops, and `OneRecognizer` are in
no run because section 5 proves them.

Where a strong property fails, a passing run checks the strongest condition under which it
holds: `OnlyCheckerHoldsBack` is `TakenIsReturned` with the two things the code itself puts in
its way, the checker that sleeps with `mutex_m` on an empty pool and locks it again at once,
and the clean-up that waits for a mutex its own thread has; `CopiesNeedOverlap` is "one row per
client and name" for who waits for each answer, and a bound for who does not;
`LockOutHasACause` is "who is refused is logged in" with its exceptions,
`QuietConversationAlternates` is `HistoryAlternates` without failed calls,
`QuietChatCallsItsModel` is `ChosenModelIsCalled` without overlaps, `RestartMissesOnlyQueued`
says what `ContextIsComplete` may lack, `CompleteOrBlank` is `UnauthorizedIsSaid` with its one
exception, `ShownBelongs` is `AlwaysItsOwn` for a user who neither leaves a conversation that
waits nor asks a second question in a new chat that shows a first one, `GuardedAreRaceFree` is
the race freedom of those objects that every user guards with one mutex, `ClosedAsAsked`
requires the close that a `Connection: close` header asks for, allows the one that HTTP/1.0
asks for (the code forgets it: `ShortConnectionCloses`) and no other, `RequestsFinish` excuses
the loops whose call hangs as `OthersAreServed` does not, `UniqueNameIsOwned` is
`NewIdReturned` under the constraint, `PatientClientIsAnswered` and `Tls13HandshakeSucceeds`
are the unconditional liveness properties for the clients that get what they expect.

**Why these bounds are enough to see the interesting cases.** Pool: with more threads than
connections threads wait, with two connections the queue has an order, with four threads a
newcomer overtakes a woken thread while another still sleeps; two losses and an outage break
one link, both, and a link a second time. PoolLive has an outage, which breaks every link at
once, so that one clean-up blocks while another thread's connection goes back. The theorems of
section 5 remove the bounds for the safety properties. Login: the races are between two loops;
a second user and browser let sessions be confused, three ids allow a session to expire and be
replaced, four requests are a login, a chat, a logout and one more in any overlap.
Registration: two requests of one client or of two race, two more retry. Chat: three questions
are two that overlap and one after them, so that what the overlap left is used. Persistence:
four rows are two exchanges, two workers overtake each other, and with one failure of each kind
all pairs of different failures occur. HTTP: a third message meets what the second left of the
first; a body is at most two bytes, so that it can be cut. TLS: four requests give two per read
twice. Routing: three registrations are enough for a replaced route, a pattern shadowed by
another, and a callback shadowed by a handler. Event loops: the hazards are between two
handlers, or a handler and the worker, on one object; one connection makes them queue for it,
two polls are a last one and one before. Chat page: four actions are a conversation, a
question, leaving it or asking again before the answer, and a synchronisation; two new ids
allow two conversations to be begun while the first one waits. The bounds that limit counters
are constants named `Max...`; each is a guard of the actions that count.

**Deadlock** is checked in every run. Where the system may come to rest a stuttering action says
when: `Aborted` (the process ended), `Finished` (the bounds are used up and nothing is under
way), `Quiet` (nobody sends).

## 4. Fairness

* Pool, `ThreadFairness`: threads go on, and calls of the database return because the
  connections set `OPT_CONNECT_TIMEOUT`. Nobody must call the pool again. `MutexProgress` is weak:
  a thread gets `mutex_m` if it stays free, which is all that `std::mutex` promises. The
  checker takes it again and again while the pool is empty, and then a return may never get
  in (PoolUnfairMutex); `OnlyCheckerHoldsBack` shows that nothing else keeps it
  out. `MutexFairness` (strong) is more than the code has. Only PoolCleanupDeadlock
  assumes it, to show that the deadlock there is not for want of a fair mutex.
* Persistence: the broker delivers and live workers go on. No fairness on `Restart`:
  nobody promises to restart a server, so the properties except a server that is down.
* HTTP: the loop finishes what it began; TCP delivers in the end, in any number of segments
  (strong, because the delivery waits for the loop, again and again). The client need not send.
* TLS: the loop reads what has arrived, the client carries on with a handshake it began and
  reads what it gets. It need not begin or send.
* Event loops: each thread goes on, and somebody asking gets a free connection
  (`ResourcePool!ServingSpec`, which the pool implements with no fair mutex). That a statement
  ends and gives its connection back is more than the pool promises: it assumes that the
  checker does not keep `mutex_m` for itself and that no clean-up blocks, the two exceptions of
  `OnlyCheckerHoldsBack`. `RequestsFinish` holds under that assumption. That a thread waiting
  for a mutex gets it needs no more: a lock is one step, and who has one goes on to release it.
  A call of the outside returns, fails or hangs; a loop that hangs is excused, not assumed
  away. Speech tasks need not end.
* Login, registration, chat, the chat page and routing are checked for safety only.

## 5. The proofs

Eight modules named `...Proofs` hold the theorems; each EXTENDS the module it is about
(HttpServerProofs three, whose names therefore differ) and assumes nothing but that module's
`ConstantsAssumption` (LoginSessions: and `NoRequestAssumption`; RequestRouting:
`RoutingAssumption`; Registration: `RegistrationAssumption`). They hold for all values of the
constants: any number of threads, loops, connections, clients, ids, messages, failures. The
assumptions say that the names for "nobody" and "nothing" are no threads, clients or ids; that
bounds are natural numbers; that loops, workers, threads, connections, session ids and channels
are finitely many, as those of a process are; that there is a channel, a conversation id, a
name; that OPTIONS is one of the methods and that "no route" is no handler; that the messages of
an HTTP client follow `Grammar`, which has every kind of message the parser tells apart; that a
mutex, a channel and a map are different objects; and that a conversation of an earlier visit is
not numbered like a question of this one.

Each proof has the same shape: an inductive invariant as a conjunction of named parts, first
checked by TLC as an invariant of the runs' instances, then one lemma or step per action. What
follows is each invariant and why the property alone is not inductive.

**DbConnectionPoolProofs**
* `TypeCorrect`: `Spec => []TypeOK`. `TypeOK` is inductive as it stands because it ties
  `held` to `pc`: a thread has a connection exactly from its pop to its push, so that the
  push never queues a null pointer, and the checker has a connection exactly while
  it repairs one.
* `ConnectionsConserved`: `Spec => []Conservation`. The invariant is `TypeOK` with the five
  parts of `Conservation`. None of the parts alone is inductive: that `Take` keeps
  `NotShared` needs `HeldNotIdle`, that it keeps `HeldNotIdle` needs `NoDuplicate`,
  that `PutBack` keeps `NoDuplicate` needs `HeldNotIdle` and `NotShared`, and
  that `InitPool` establishes them needs `EmptyUntilReady`. Only `Take` and `PutBack` move
  a connection (`QueueSteps`), so that the argument is in `TakeConserves` and `PutBackConserves`.
* `WakeupsNotLost`: `Spec => []NoLostWakeup`. `NoLostWakeup` is strengthened with "nobody
  waits before the pool is ready", because `init` pushes without notifying. A push adds one
  connection and, if anybody waits, one woken thread (`PutBackPreservesWakeups`); a
  thread that goes from woken to taking removes one of each, and one that finds
  nothing to take proves the queue empty (`TakePreservesWakeups`, `WaiterSteps`).
* `PoolRefinement`: `Spec => Pool!Spec`. `Take` maps to `Acquire` and `PutBack` to `Release`
  (`TakeAcquires`, `PutBackReleases`), `Request`, `Refuse` and `InitPool` to their
  namesakes, every other step to a stutter (`OtherStepsStutter`). That `Owner`, which is
  defined with CHOOSE, is a function of `held` (`OwnerOf`) is where `NotShared` is used.

**LoginSessionsProofs**
* `TypeCorrect`: `TypeOK` needs `StepsOK`, which says that a handler is at its own steps and
  has a user where it acts for one.
* `SessionsHaveOneOwner`: a session is the cookie of one browser, or with the requests and
  handlers of that browser (`OneOwner`), and only issued sessions are (`HeldIsIssued`, which
  makes a new one nobody's). `NewHolders` shows that `LoadSession` alone gives a browser one.
* `UsersAreProved`: `Spec => []ActsForProvedUser`. A user id is read from a session that
  others may have written, so the invariant is about sessions: whoever holds a session with
  a user in it has given that user's password (`UserIsProved`), and a login past its query has
  (`LoginIsProved`). `OneOwner` is what keeps the first when `setUser` writes.
* `LogoutsEndLogins`: `Spec => []LogoutEndsLogin`. Three layers: a session opened by no cookie is
  known to its handler alone (`NewInv`); while a logout that no login overlaps is under way,
  the cookie is the one it is about to clear or opens nothing (`QuietInv`); then the answer
  leaves it so, although `SaveSession` of another request stores the object again, because
  the object is the cleared one.
* `LockOutsHaveCauses`: `Spec => []LockOutHasACause`. Of a user who is online without a named
  cause there is a live session that no login is just making, or a logout under way
  (`OnlineHasSession`); that logins have a session that does not expire under them
  (`UsedIsFresh`, `LoginHasSession`) is what `markOnline` needs to establish it.

**HttpServerProofs**, on HttpConnection
* `HttpTypeCorrect`: `TypeOK` needs that past the request line the method is known
  (`MethodIsKnown`): else the end of the headers would have no branch.
* `HttpInvariant`: what the other theorems rest on. `StreamInv` says where the parser is. The
  tokens in the buffer and on the wire are the messages one after the other, message j after
  the first `at[j]` of them (`Layout`); `at[j]` is negative for one already begun. The one
  after those served is the one being read, and method, length and close header are what its
  tokens so far say (`Position`, with `InLine`, `InHeaders`, `InBody`, `AllRead`). Consuming
  shifts all places (`ConsumeMoves`), TCP moves tokens from wire to buffer without moving a
  place (`ArriveKeeps`), a new message is laid out after the last (`SendExtends`). That the
  next token of a well-formed message fits the parser's state is a fact about `Grammar`
  (`RequestGoesOn`), and so is that a malformed one meets its end in time (`WrongGoesOn`).
  After a refusal the stream means nothing any more, unless all messages are good: hence the
  premise of `StreamInv`. `Counted`: served requests and answers have the same numbers until
  the connection closes, and only then does an answer say 400.
* `HttpClosedAsAsked`: `Spec => []ClosedAsAsked`. What is inductive with the above is stronger
  and says what this code does: it closes exactly for the reasons it knows (`ClosedExactly`), and
  `AllRead` says that the Connection header is the request's own.
* `HttpGoodClient`: `Spec => []GoodClientIsServed`: with good messages no branch to an error, and
  no failing assertion, is enabled, although after `closed` parsing goes on.
* `HttpIsService`: `Spec => ServiceSpec`, the refinement of `RequestService`: `Dispatch` is its
  answer, `Error` its refusal, `ClientSends` its question, the rest stutters (`ServiceStep`).
  That a served request has the method and body of its message is `AllRead` again.

**HttpServerProofs**, on RequestRouting
* `RoutingTypeCorrect`, `RoutesAreAsRegistered`, `AnswersAreCompleteOrBlank`, from one
  invariant, `RouterInv`. The property is about the history of calls and the code looks into
  tables, so `TablesInv` relates them: an exact table has, for each key, the target of the last
  call of its kind for that key (`TableIs`); a list has the calls of its kind, all of them, in
  their order (`ListIs`, with a monotonic numbering). Then what a table yields is the last call
  that takes the request (`LookupIs`), what a list yields is the first (`FirstMatchIs`, on the
  least number of a set, `LeastIs`), and `FoundIs` puts the four together. `TablesStep` shows
  that each registration keeps it. `AnswersWhenStarted` is needed because a registration after
  the answer would change what the answer should have been.
* `AnswersAre`: each way a handler fills a response leaves it complete, or as it was.

**HttpServerProofs**, on Registration
* `RegistrationTypeCorrect`: a handler that has inserted finds a row.
* `NamesAreOwned`: `Spec => []UniqueNameIsOwned`. Inductive with: the constraint holds of the
  rows (`UniqueRows`), the row a handler looks for is its own (`OwnRowIsThere`), and a confirmed
  id is that of the named row (`ConfirmedIsStored`).
* `CopiesAreBounded`: `Spec => []CopiesNeedOverlap`, with or without UNIQUE, and with any number
  of requests of a client at once. What is counted is the client's rows together with its
  handlers between SELECT and INSERT (`CopiesInv`): a handler that inserts leaves the second
  group for the first, and while there is a row nobody joins the second. So the sum grows only
  while there is no row, and then it is at most what runs at that time (`PeakIsReached`).

**ChatPersistenceProofs**
* `TypeCorrect`: `TypeOK` with `DownIsIdle`.
* `RowsAreInOnePlace`: at the broker a row is once on one channel, once in the queue or with one
  worker (`OnePlace`, seven parts that need each other: a move from one place to the next keeps
  injectivity only if the row is not there yet). What each action moves is a lemma of its own
  (`PublishMoves` to `OrphanMoves`).
* `NothingIsForgotten`: `Spec => []NothingForgotten`, through `KeptInv`: a row that is going to be
  acknowledged is in the table. Without that part `Ack` could take the last copy.
* `RestartsMissOnlyQueued`: `Spec => RestartMissesOnlyQueued`, an action property, from `KeptInv`
  and `RestoredIsTable`: what is read has the rows of the table in some order, and, if some
  could not be read, at least no others (`ReadRowsAreRows`).
* `CopiesNeedFailures`: `Spec => []DuplicatesNeedFailures`. Strengthened with: a row that may be
  inserted again, by a worker or by a handler without a broker (`Pending`), has one copy fewer
  (`CopiesInv`). `OnePlace` gives that one worker at most inserts it, and `OrphansStayGone` that
  a row of the `orphans` is not at the broker as well: only a restart of the broker makes
  an orphan, and it takes the row from everywhere else (`BrokerOnlyLoses`).

**ChatConversationProofs**
* `TypeCorrect`: that `pop_back()` meets no empty vector, when any loops push and pop in one
  vector, is a count: a conversation has at least as many messages as loops have a prompt in it
  (`PromptsAreThere`).
* `QuietChatsCallTheirModel`: two loops in one conversation are known to the history variable
  (`OverlapsAreSeen`), so that without an overlap the strategy stays that of the request
  from `SetStrategy` on and the branch follows it (`StrategyInv`).
* `QuietConversationsAlternate`: a conversation in which one request is at most has pairs of
  messages, or pairs and a question, or pairs and a prompt, as the place of that
  request says (`ContentInv`, `WorkFits`).
* `AnsweredArePublished`: needs no quiet. A question is with one loop and never served twice
  (`TurnsInv`), and at each place of a request it is known which of its rows there are (`RowsInv`).

**SslConnectionProofs**
* `TypeCorrect`: `TypeOK` is inductive; that only requests reach the router needs the type of what
  `OfKinds` selects from the BIO.
* `NothingIsLost`: `Spec => []NothingLostInside`, inductive with the types. What it rests on is that
  the requests in two queues one after the other are those in each (`OfKindsConcat`), an
  induction over sequences. The library's induction theorems take an operator, which the
  provers cannot give them; `Induction` states it for sets of naturals and is proved by
  counting (a number missing from such a set would give an injection of a finite set into a
  smaller one). From it follow that the recursion in `OfKinds` has a solution (`OfKindsRecurs`)
  and what it does to a longer sequence. This is why `OfKinds` is a definition of
  SslConnection and not `SelectSeq`, which the prover cannot expand.
* `RequestsAreServed`: `Spec => ServiceSpec`, the refinement of `RequestService`. `AnswersInv`:
  requests and answers are numbered without a gap, no answer waits in the write BIO, and while
  the connection is open every request served has its answer; so `ServeRequest` is the abstract
  `Answer`, or `Close` when the same read held garbage, `ClientRequest` is `Ask`, a refusal
  (plain text, no answer to this client) is `Close`, and every other step stutters or closes.
* `TlsIsServed`: `Spec => []EnabledMeansTls` for every list of setup calls, from `SetupInv` (what
  the calls made so far have brought about) and `VersionInv` (OpenSSL compares the version
  once, the client names it once). `SetupCorrect` types the variables that this is about.

**EventLoopsProofs**
* `TypesKept`: the types, with the one fact that carries the module: what a thread has left of
  its program is *tidy*. A program is tidy if it locks only what is unlocked later, takes no mutex
  under another, does under a mutex only what `DoneUnder` allows and alone only what is in
  `Alone`, and polls last. That all programs are (`ProgramsTidy`), and that rests and concatenations
  of tidy programs are (`RestTidy`, `ConcatTidy`), are lemmas about sequences.
* `GuardedStayRaceFree`: `Spec => []GuardedAreRaceFree`. `MutexInv`: a mutex is with the thread
  whose rest unlocks it, and with no other. Every step on one of these objects is in `DoneUnder`
  for one mutex and never in `Alone`, so that two threads at one object would have the same
  mutex. `ServingInv` says whose request a loop works for, on which depends what
  may be done under which mutex.
* `NothingIsHeld`: `Spec => []NothingHeldWhileWaiting`, from `MutexInv` and `CallsInv`: who wants or
  has a connection is at a statement, who hangs is at a call, and neither is under a mutex.
* `TypeCorrect`: `TypeOK`, which says that a mutex's owner is still to unlock it; with `PollInv`,
  by which a speech that is still to be polled has rounds left.
* `RecognizersAreBuiltOnce`: `Spec => []OneRecognizer`. `UploadInv`: what an upload has left
  are the last steps of find, load, insert; `BuildInv`: while one constructs, nothing is in the
  map, and what is constructed is inserted by the same thread under the same lock.

**ChatPageProofs**
* `TypesKept`, `TypeCorrect`: `TypeOK` needs that every call under way is about conversations that
  page and server will still have when it is answered (`WellMade`).
* `ShownIsItsOwn`: `Spec => []ShownBelongs`. A submission has one conversation from its call to the
  server's history (`HomesInv`); until the user leaves a conversation that waits or asks again
  in a new chat, what is kept, shown, and on its way is of the right one (`StayInv`), through
  every failure.
* `SyncsHeal`: `Spec => SyncHeals`, an action property: a synchronisation that was begun alone, and
  after which the user did nothing, is still the only call, and what it brings is still what the
  server has (`HealInv`).
* `PagesAgree`: `Spec => []PatientPageAgrees`. One call is under way at most, and `CallAgrees`
  says for each kind and phase how far page and server are apart meanwhile; the labels are
  right because a history has an even number of texts unless its question is being answered
  (`PatientInv`). Lines *read as* texts (`ReadsAs`) if they are the texts, in order and in
  their roles, but for an error note in place of an empty answer; that is kept by adding a text
  and its line (`ReadsAppend`).

Only model-checked: all liveness (`IdleIsRepaired`, `OnlyCheckerHoldsBack`, `QueuedIsStored`,
`PatientClientIsAnswered`, `RequestsFinish`, `Tls13HandshakeSucceeds`) and the progress of
`ResourcePool` in `PoolServes`:
fairness and ENABLED are beyond the prover. Every safety invariant, every action property
and the safety part of every refinement that a passing run checks is proved. (The properties of the
configurations in section 6 are false, so that there is nothing to prove.)

## 6. Where the code and its words differ

One run ends in a counterexample to a sentence of the repository: in LoginTwice,
`onlineUsers_` is read before, and outside, the lock it is written under, so that one user
gets two logins.

More were met while modelling. Each has a configuration beside the modules, not among the
runs, which reproduces it with `tlc -config <name>.cfg <module>`; one that names several properties
shows them all with `-continue`:

| configuration | module | property | what happens |
|---|---|---|---|
| PoolCleanupDeadlock | MCDbConnectionPool | TakenIsReturned | `cleanup()` holds the connection's mutex when it calls `reconnect()`, which locks it: if `getAutoCommit()` throws on a lost link, thread and connection are gone, even with a fair mutex |
| PoolUnfairMutex | MCDbConnectionPool | TakenIsReturned | the checker sleeps holding the mutex of an empty pool and takes it again at once: with only what `std::mutex` promises a return may never get in |
| LoginRefusedButIn | MCLoginSessions | RefusedLoginStaysOut | a login refused with 403 has already marked its session as logged in |
| RegistrationRace | MCRegistration | NewIdReturned | without UNIQUE, two loops find a name free; one client gets the id of the other's row |
| ChatHistoryLabels | MCChatConversation | HistoryAlternates | a model call that fails leaves a question without an answer: all later roles are swapped |
| ChatModelSwapped | MCChatConversation | ChosenModelIsCalled | another request of the user replaces the strategy between `setStrategy` and the call |
| ChatPageMixed | ChatPage | ShownIsSent, StayingIsEnough, AlwaysItsOwn | the page reads `currentSessionId` after its await: the answer of one conversation is shown, and kept, in another; a user who stays sees it too if a creation fails, or waits, and a second question is asked in the new chat; a question asked before a conversation is chosen is shown, and an exception keeps it from being sent |
| PersistenceContext | MCChatPersistence | ContextIsComplete | at a restart the table is read before the queue of the last run is emptied |
| HttpPipelining | MCHttpConnection | EveryMessageAnswered | one request per call of `onMessage`: the second waits for more data |
| HttpSequences | MCHttpConnection | NoAssertionFails, BodyIsOwn, ShortConnectionCloses | a refused request line leaves its method, so that the next line fails `assert`; `swap()` leaves the body out, so that a GET after a POST has its body; `"Http/1.0"` is stored and `"HTTP/1.0"` compared |
| SslTls12 | MCSslConnection | HandshakeSucceeds | the server's Finished of TLS 1.2 stays in the write BIO |
| SslEarlyData | MCSslConnection | RequestsAreAnswered | a request that comes with the client's Finished stays in the read BIO |
| SslPlainText | MCSslConnection | OnlyCiphertext, PlainByDefault | the 400 of a malformed request goes out in plain text; `useSSL_m` is never initialised |
| RoutingUnauthorized | MCRequestRouting | UnauthorizedIsSaid, AnswersPassAfter | `packageResp()` is empty: a handler's 401 has no status, no length and no body; nobody calls `processAfter` |
| EventLoopsSessions | MCEventLoops | SessionListIsGuarded | the list of conversations is read under `mutexForSessionsId` and extended under `mutexForChatInformation` |
| EventLoopsHung | MCEventLoops | OthersAreServed | a model that never answers takes every client of its loop with it |

The models also contain, without a configuration of their own: a row whose SQL is always
refused ends the workers one after the other (`PoisonKills`); question and answer with one
timestamp come back from the table in either order (`Restored`); a failing call leaves the
server's prompt in the conversation (`CurlFails` after `FirstPrompt`); a session that expires,
or a logout whose body is not JSON, leaves its user in `onlineUsers_` and locked out, which is
why `LockOutHasACause` names both; an answer that could not be read is empty in the history and
an error note on the page (`AnswerCall`); two overlapping requests of one client create two
rows where the name is not UNIQUE (the bound in `CopiesNeedOverlap` is reached); and two loops
use the session store, `rng_m`, `onlineUsers_`, a conversation or `sslConns_m` at once
(`GuardedAreRaceFree` says nothing of these).

## 7. What is not modelled

* `DbConnectionPool`'s destructor and `RabbitMQThreadPool::shutdown`: they run when `main`
  returns, which `HttpServer::start` never does. The destructor joins the checker while it
  holds the mutex that the checker needs: a candidate for the next model.
* `MemorySessionStorage::clearExpired`: nobody calls it.
* The bits of the random generators of session and conversation ids. Equal conversation
  ids are covered (`CreateAndSend` for a helper that exists), equal session ids are not:
  distinctness is assumed in `LoginSessions`.
* What a race on an `unordered_map` leaves behind (section 2, *Grain*): EventLoops says which maps
  are used by two threads at once, not what then becomes of them.
* A connection lost while the server works on its request, as the chat page would see it: in
  `Fail` of ChatPage the request ends there, in the code the handler goes on and its texts come
  into the history later. `PatientPageAgrees` excludes failures, and `SyncHeals` says nothing
  of a synchronisation that such a handler overlaps.
* With the tool strategy, a history that is read before the model has answered: the question
  is added only afterwards (AIHelper.cpp:103, 149), with prompts in between. ChatPage has the
  question in the history from `Ask` on, as the plain strategies do. The order and the prompts are
  ChatConversation's subject.
* On a TLS connection, malformed requests other than one with an unknown method (they are in
  HttpConnection).
* `AISpeechProcessor::recognize`: nobody calls it. Preprocessing, inference and base64 (numeric and
  vendored code), the JSON of models and services, prompts and tools (text), cipher lists
  and session cache of `SslContext` (options of OpenSSL), file contents (I/O).
* The scripts of `entry.html`, `menu.html` and `upload.html`: forms that send one request and keep
  nothing.

## 8. The plan

Order of modules, most important first: (1) DbConnectionPool with ResourcePool and its
proofs; (2) LoginSessions; (3) ChatPersistence; (4) ChatConversation; (5) HttpConnection;
(6) SslConnection, with RequestService above both; (7) RequestRouting; (8) Registration;
(9) EventLoops over ResourcePool; (10) ChatPage. All are on disk. Left, in order:

1. An abstract "durable conversation" implemented by `ChatConversation` and
   `ChatPersistence` together.
2. The shut-down of pool and workers.
