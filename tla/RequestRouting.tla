---------------------------- MODULE RequestRouting ----------------------------
(***************************************************************************)
(* Which code answers a request, and what of the answer a client needs to  *)
(* go on: the registration calls of HttpServer.h, the tables of Router.h / *)
(* Router.cpp, the chain of MiddlewareChain.cpp with CorsMiddleware.cpp in *)
(* it, HttpServer::handleRequest(), HttpResponse and how the handlers of   *)
(* ChatServer fill one.                                                    *)
(*                                                                         *)
(* The application registers routes and middleware and then starts the     *)
(* server; from then on the tables are only read, so a request is handled  *)
(* in one action whatever the other loops do.                              *)
(***************************************************************************)
EXTENDS Integers, Sequences, FiniteSetsExt

CONSTANTS
    Methods,         \* the methods of a request, OPTIONS among them
    Options,         \* kOptions
    Paths,           \* the paths clients ask for
    Patterns,        \* path patterns with parameters ("/user/:id")
    Match,           \* for each pattern, the paths its regular expression matches
    Targets,         \* handler objects and callbacks
    NoTarget,        \* no route
    Origins,         \* what the Origin header says
    AllowedOrigins,  \* CorsConfig::allowedOrigins; {} and {"*"} admit all
    MaxCalls,        \* bound: registration calls
    MaxMiddlewares   \* bound: calls of addMiddleware()

ASSUME RoutingAssumption ==
    /\ Options \in Methods
    /\ Match \in [Patterns -> SUBSET Paths]
    /\ NoTarget \notin Targets
    /\ AllowedOrigins \subseteq Origins \cup {"*"}
    /\ MaxCalls \in Nat
    /\ MaxMiddlewares \in Nat

VARIABLES
    handlers,        \* handlers_m: from keys to handlers
    callbacks,       \* callbacks_m: from keys to callbacks
    regexHandlers,   \* regexhandlers_m, in the order of registration
    regexCallbacks,  \* regexcallbacks_m
    middlewares,     \* middlewares_m: how many CORS middlewares were added
    started,         \* has HttpServer::start() been called?
    calls,           \* history: the registration calls, in order
    answer           \* a request that has been handled and its answer, until sent

tables      == <<handlers, callbacks, regexHandlers, regexCallbacks>>
routingVars == <<tables, middlewares, started, calls, answer>>

Keys    == Methods \X Paths
Request == [method : Methods, path : Paths,
            close : BOOLEAN]   \* did the client ask for a short connection?
Route   == [method : Methods, pattern : Patterns, target : Targets]

(* Get() and Post() register exact routes, addRoute() patterns. *)
Call == [kind : {"handler", "callback"}, method : Methods \ {Options}, path : Paths,
         target : Targets]
        \cup [kind : {"regexHandler", "regexCallback"}, method : Methods,
              path : Patterns, target : Targets]

(* A response: length is what Content-Length says, body how long the body  *)
(* is, of which only 0 and more are told apart.                            *)
NoLength == 2
Response == [status : {0, 200, 204, 400, 401, 403, 404, 409, 500}, close : BOOLEAN,
             length : 0..NoLength, body : 0..1]

NoAnswer == [by |-> "nobody"]

RoutingInit ==
    /\ handlers = <<>>
    /\ callbacks = <<>>
    /\ regexHandlers = <<>>
    /\ regexCallbacks = <<>>
    /\ middlewares = 0
    /\ started = FALSE
    /\ calls = <<>>
    /\ answer = NoAnswer

(***************************************************************************)
(* Registration: Get(), Post(), addRoute(), addMiddleware()                *)
(***************************************************************************)
(* table[key] = target: a later call for the same key replaces an earlier. *)
Put(table, method, path, target) ==
    [k \in DOMAIN table \cup {<<method, path>>} |->
        IF k = <<method, path>> THEN target ELSE table[k]]

Registering(c) ==
    /\ ~started
    /\ Len(calls) < MaxCalls
    /\ calls' = Append(calls, c)
    /\ UNCHANGED <<middlewares, started, answer>>

RegisterHandler(c) ==
    /\ c.kind = "handler"
    /\ Registering(c)
    /\ handlers' = Put(handlers, c.method, c.path, c.target)
    /\ UNCHANGED <<callbacks, regexHandlers, regexCallbacks>>

RegisterCallback(c) ==
    /\ c.kind = "callback"
    /\ Registering(c)
    /\ callbacks' = Put(callbacks, c.method, c.path, c.target)
    /\ UNCHANGED <<handlers, regexHandlers, regexCallbacks>>

Dynamic(c) == [method |-> c.method, pattern |-> c.path, target |-> c.target]

AddRegexHandler(c) ==
    /\ c.kind = "regexHandler"
    /\ Registering(c)
    /\ regexHandlers' = Append(regexHandlers, Dynamic(c))
    /\ UNCHANGED <<handlers, callbacks, regexCallbacks>>

AddRegexCallback(c) ==
    /\ c.kind = "regexCallback"
    /\ Registering(c)
    /\ regexCallbacks' = Append(regexCallbacks, Dynamic(c))
    /\ UNCHANGED <<handlers, callbacks, regexHandlers>>

AddMiddleware ==
    /\ ~started
    /\ middlewares < MaxMiddlewares
    /\ middlewares' = middlewares + 1
    /\ UNCHANGED <<tables, started, calls, answer>>

Start ==
    /\ ~started
    /\ started' = TRUE
    /\ UNCHANGED <<tables, middlewares, calls, answer>>

(***************************************************************************)
(* HttpResponse, and what ChatServer's handlers make of it                 *)
(***************************************************************************)
NewResponse(close) == [status |-> 0, close |-> close, length |-> NoLength, body |-> 0]

(* Mutant of SetBody: it leaves Content-Length to the caller. *)
SetBodyOnly(r, n) == [r EXCEPT !.body = n]

SetBody(r, n) == [r EXCEPT !.body = n, !.length = n]

(* setStatusLine(), setCloseConnection(), setContentLength(), setBody() *)
Filled(r, status, close, n) ==
    SetBody([r EXCEPT !.status = status, !.close = close, !.length = n], n)

Failure(r) == Filled(r, 400, TRUE, 1)

(* ChatServer::packageResp(): its body is empty. *)
PackageResp(r, status) == r

(* A handler that needs a login: the 401 is left to packageResp(). *)
GuardedAnswers(r) == {PackageResp(r, 401), Filled(r, 200, FALSE, 1), Failure(r)}

(* Missing JSON; welcome; already logged in; wrong password. *)
LoginAnswers(r) ==
    {Filled(r, 400, TRUE, 0), Filled(r, 200, FALSE, 1), Filled(r, 403, TRUE, 1),
     Filled(r, 401, FALSE, 1), Failure(r)}

LogoutAnswers(r) == {Filled(r, 400, TRUE, 0), Filled(r, 200, TRUE, 1), Failure(r)}

(* The catch of handleRequest() *)
InternalError(r) == SetBody([r EXCEPT !.status = 500], 1)

(* There is no try block in ChatRegisterHandler, *)
RegisterAnswers(r) == {Filled(r, 200, FALSE, 1), Filled(r, 409, FALSE, 1), InternalError(r)}

(* nor in ChatEntryHandler, which throws if neither its page nor the       *)
(* default page can be opened: their size is then -1 as an unsigned        *)
(* number.  An empty page is one.                                          *)
EntryAnswers(r) == {Filled(r, 200, FALSE, n) : n \in 0..1} \cup {InternalError(r)}

Answers(r) ==
    GuardedAnswers(r) \cup LoginAnswers(r) \cup LogoutAnswers(r)
        \cup RegisterAnswers(r) \cup EntryAnswers(r)

(***************************************************************************)
(* HttpServer::handleRequest()                                             *)
(***************************************************************************)
Stopped(req) == middlewares > 0 /\ req.method = Options

IsOriginAllowed(origin) ==
    AllowedOrigins = {} \/ {"*", origin} \cap AllowedOrigins # {}

Respond(req, by, cors, r) ==
    /\ started
    /\ answer = NoAnswer
    /\ answer' = [req |-> req, by |-> by, cors |-> cors, response |-> r]
    /\ UNCHANGED <<tables, middlewares, started, calls>>

(* CorsMiddleware::before() throws the response to a preflight request, a  *)
(* new one: no later middleware and no route sees it.                      *)
Preflight(req, origin) ==
    /\ Stopped(req)
    /\ LET allowed == IsOriginAllowed(origin)
           status  == IF allowed THEN 204 ELSE 403
       IN  Respond(req, NoTarget, allowed, [NewResponse(TRUE) EXCEPT !.status = status])

(* The places of a list where a route takes the request. *)
TakenBy(routes, req) ==
    {i \in DOMAIN routes : /\ routes[i].method = req.method
                           /\ req.path \in Match[routes[i].pattern]}

(* Mutant of FirstMatch: the search does not stop at the first. *)
LastMatch(routes, req) ==
    IF TakenBy(routes, req) = {} THEN NoTarget ELSE routes[Max(TakenBy(routes, req))].target

(* The first route of a list that takes the request. *)
FirstMatch(routes, req) ==
    IF TakenBy(routes, req) = {} THEN NoTarget ELSE routes[Min(TakenBy(routes, req))].target

Lookup(table, req) ==
    LET key == <<req.method, req.path>>
    IN  IF key \in DOMAIN table THEN table[key] ELSE NoTarget

(* The four tables of Router::route(), in the order it asks them. *)
Candidates(req) ==
    <<Lookup(handlers, req), Lookup(callbacks, req),
      FirstMatch(regexHandlers, req), FirstMatch(regexCallbacks, req)>>

Found(req) ==
    LET hits == {i \in 1..4 : Candidates(req)[i] # NoTarget}
    IN  IF hits = {} THEN NoTarget ELSE Candidates(req)[Min(hits)]

(* Mutant of Routed: it is not tested whether anything was found. *)
RoutedUnchecked(req) ==
    /\ ~Stopped(req)
    /\ \E r \in Answers(NewResponse(req.close)) : Respond(req, Found(req), FALSE, r)

(* The handler found answers as one of ChatServer's does. *)
Routed(req) ==
    /\ ~Stopped(req)
    /\ Found(req) # NoTarget
    /\ \E r \in Answers(NewResponse(req.close)) : Respond(req, Found(req), FALSE, r)

NotFound(req) ==
    /\ ~Stopped(req)
    /\ Found(req) = NoTarget
    /\ Respond(req, NoTarget, FALSE, [NewResponse(TRUE) EXCEPT !.status = 404])

(* onRequest() sends the answer. *)
Send ==
    /\ answer # NoAnswer
    /\ answer' = NoAnswer
    /\ UNCHANGED <<tables, middlewares, started, calls>>

RoutingNext ==
    \/ \E c \in Call :
        \/ RegisterHandler(c)
        \/ RegisterCallback(c)
        \/ AddRegexHandler(c)
        \/ AddRegexCallback(c)
    \/ AddMiddleware
    \/ Start
    \/ \E req \in Request :
        \/ \E origin \in Origins : Preflight(req, origin)
        \/ Routed(req)
        \/ NotFound(req)
    \/ Send

RoutingSpec == RoutingInit /\ [][RoutingNext]_routingVars

(***************************************************************************)
(* Properties                                                              *)
(***************************************************************************)
(* Every variable has its type, and an answer that no route gave says so.  *)
RoutingTypeOK ==
    /\ DOMAIN handlers \subseteq Keys /\ handlers \in [DOMAIN handlers -> Targets]
    /\ DOMAIN callbacks \subseteq Keys /\ callbacks \in [DOMAIN callbacks -> Targets]
    /\ regexHandlers \in Seq(Route)
    /\ regexCallbacks \in Seq(Route)
    /\ middlewares \in 0..MaxMiddlewares
    /\ started \in BOOLEAN
    /\ calls \in Seq(Call)
    /\ answer = NoAnswer \/ answer \in [req : Request, by : Targets \cup {NoTarget},
                                        cors : BOOLEAN, response : Response]
    /\ (answer # NoAnswer /\ answer.by = NoTarget) => answer.response.status \in {204, 403, 404}

(* The registration calls of one kind that take a request. *)
Taking(kind, req) ==
    {i \in DOMAIN calls :
        /\ calls[i].kind = kind
        /\ calls[i].method = req.method
        /\ IF kind \in {"regexHandler", "regexCallback"}
           THEN req.path \in Match[calls[i].path]
           ELSE req.path = calls[i].path}

Latest(S) == calls[Max(S)].target
First(S)  == calls[Min(S)].target

(* A request is answered by the code the order of the registration calls   *)
(* prescribes: an exact route before a pattern and a handler before a      *)
(* callback, whichever was registered first; among exact routes of one     *)
(* kind the last call, among patterns the first; 404 only if no call takes *)
(* the request; and a preflight request reaches none of them once the CORS *)
(* middleware is in the chain.                                             *)
AnsweredAsRegistered ==
    answer # NoAnswer =>
        LET req == answer.req
            handler       == Taking("handler", req)
            callback      == Taking("callback", req)
            regexHandler  == Taking("regexHandler", req)
            regexCallback == Taking("regexCallback", req)
        IN  IF middlewares > 0 /\ req.method = Options
            THEN answer.by = NoTarget /\ answer.response.status \in {204, 403}
            ELSE answer.by =
                   IF handler # {} THEN Latest(handler)
                   ELSE IF callback # {} THEN Latest(callback)
                   ELSE IF regexHandler # {} THEN First(regexHandler)
                   ELSE IF regexCallback # {} THEN First(regexCallback)
                   ELSE NoTarget

(* Who reads an answer knows what it means and where it ends: it has a     *)
(* status, and its length is that of its body or the connection closes     *)
(* after it.                                                               *)
Complete(r) == r.status # 0 /\ (r.close \/ r.length = r.body)

(* Through handlers, exceptions, the middleware's answer and missing       *)
(* routes, whatever the client said about its connection, an answer is     *)
(* complete, or has neither status nor length nor body, which is what      *)
(* packageResp() makes of a missing login: nothing in between.             *)
CompleteOrBlank ==
    answer # NoAnswer =>
        Complete(answer.response) \/ answer.response = NewResponse(answer.req.close)

(* "Unauthorized" (ChatSendHandler.cpp:19) is what the handlers pass for a *)
(* client that is not logged in, to a function that is "not used for now"  *)
(* (ChatServer.cpp:172).                                                   *)
UnauthorizedIsSaid == answer # NoAnswer => Complete(answer.response)

(* The onion model: the answer of a route passes after() of the middleware *)
(* on its way out, which is where the CORS headers are added               *)
(* (MiddlewareChain.cpp:20-22).                                            *)
AnswersPassAfter ==
    answer # NoAnswer /\ answer.by # NoTarget /\ middlewares > 0 => answer.cors
===============================================================================
