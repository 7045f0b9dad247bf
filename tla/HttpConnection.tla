--------------------------- MODULE HttpConnection ---------------------------
(***************************************************************************)
(* One connection: HttpContext's parser, HttpServer::onMessage() and       *)
(* onRequest(), on the byte stream of a client that TCP cuts anywhere.     *)
(*                                                                         *)
(* The stream is a sequence of lines (up to their CRLF) and body bytes,    *)
(* each abstracted to what the parser tells apart.  A segment may end      *)
(* inside a line: then onMessage() runs although no new line is complete.  *)
(*                                                                         *)
(* HttpRequest::swap(), by which reset() empties the request, leaves out   *)
(* the body and its length.                                                *)
(***************************************************************************)
EXTENDS Integers, Sequences, FiniteSetsExt

CONSTANTS
    Messages,     \* what the client may send: see MessageType and Grammar
    Pipelining,   \* does it send before the previous answer has come?
                  \* the possible answers
    MaxMessages   \* bound: messages the client sends

(* Request lines (one of each kind), header lines, the empty line, bytes. *)
RequestLines == {"get", "get10", "post"}
BadLines     == {"badVersion", "badMethod"}
LengthLines  == {"length0", "length1", "length2", "lengthNegative", "lengthBad"}
ConnectionLines == {"close", "keepAlive"}
HeaderLines  == LengthLines \cup ConnectionLines \cup {"other"}
Bytes        == {"a", "b"}
Tokens       == RequestLines \cup BadLines \cup HeaderLines \cup Bytes \cup {"noColon", "end"}

(* What getHeader("Content-Length") may find, apart from a number: nothing, *)
(* a text that is no number, or a negative number.                         *)
None     == -1
Bad      == -2
Negative == -3
Lengths  == {None, Bad, Negative} \cup 0..2

LengthOf(line) ==
    CASE line = "length0" -> 0
      [] line = "length1" -> 1
      [] line = "length2" -> 2
      [] line = "lengthNegative" -> Negative
      [] line = "lengthBad" -> Bad

(* The line, as processRequestLine() reads it: has it a first word, and    *)
(* does setMethod() know it?  (A header line has a word but no method.)    *)
HasWord(line)  == line \notin {"end", "noColon"} \cup Bytes
MethodOf(line) == CASE line \in {"get", "get10", "badVersion"} -> "get"
                    [] line = "post" -> "post"
                    [] OTHER -> "invalid"

(* A message that is ok is one well-formed request, with its method and    *)
(* body.  Only such a message carries body bytes: without a CRLF the bytes *)
(* of another one would be the beginning of the next line.                 *)
MessageType == [ok : BOOLEAN, tokens : Seq(Tokens), method : {"get", "post"},
                body : Seq(Bytes)]

(* Lines 1 to n are a request line and header lines. *)
Headed(lines, n) ==
    /\ n \in 1..Len(lines)
    /\ lines[1] \in RequestLines
    /\ \A i \in 2..n : lines[i] \in HeaderLines

(* What lines 1 to n say of the length of the body: the last one counts. *)
LengthIn(lines, n) ==
    LET said == {i \in 2..n : lines[i] \in LengthLines}
    IN  IF said = {} THEN None ELSE LengthOf(lines[Max(said)])

(* The last of the Connection headers among lines 1 to n says what. *)
Says(lines, n, what) ==
    \E i \in 1..n :
        /\ lines[i] = what
        /\ \A j \in (i + 1)..n : lines[j] \notin ConnectionLines \ {what}

(* HTTP asks the server to close the connection after such a request. *)
AsksToClose(lines) ==
    \/ Says(lines, Len(lines), "close")
    \/ lines[1] = "get10" /\ ~Says(lines, Len(lines), "keepAlive")

(* A request line, header lines, the empty line and a body of the length   *)
(* the header lines say; a GET has none.                                   *)
IsRequest(m) ==
    \E n \in 1..Len(m.tokens) :
        /\ Headed(m.tokens, n)
        /\ n < Len(m.tokens) /\ m.tokens[n + 1] = "end"
        /\ SubSeq(m.tokens, n + 2, Len(m.tokens)) = m.body
        /\ MethodOf(m.tokens[1]) = m.method
        /\ IF m.method = "get" THEN m.body = <<>> ELSE LengthIn(m.tokens, n) = Len(m.body)

(* The line where a message stops being the beginning of a request: no     *)
(* request line, no header line, or the empty line of a POST that says no  *)
(* length.                                                                 *)
IsWrongAt(lines, n) ==
    \/ n = 1 /\ lines[n] \notin RequestLines
    \/ /\ Headed(lines, n - 1)
       /\ \/ lines[n] \notin HeaderLines \cup {"end"}
          \/ lines[n] = "end" /\ lines[1] = "post" /\ LengthIn(lines, n - 1) \notin Nat

Grammar(m) ==
    IF m.ok THEN IsRequest(m) ELSE \E n \in 1..Len(m.tokens) : IsWrongAt(m.tokens, n)

ASSUME ConstantsAssumption ==
    /\ \A m \in Messages :
        /\ m \in MessageType
        /\ Grammar(m)
        /\ ~m.ok => \A i \in 1..Len(m.tokens) : m.tokens[i] \notin Bytes
    /\ Pipelining \subseteq BOOLEAN
    /\ MaxMessages \in Nat

VARIABLES
    pipelining,     \* does this client pipeline?
    sent,           \* the messages the client has sent
    wire,           \* what of them has not arrived
    buf,            \* the connection's input buffer
    pc,             \* idle, parse (in parseRequest()) or error (answering 400)
    state,          \* HttpContext::state_m
    method,         \* HttpRequest::method_m
    version,        \* HttpRequest::version_m
    length,         \* the Content-Length header, one of Lengths
    connection,     \* the Connection header: none, or the last one
    content,        \* HttpRequest::content_m
    contentLength,  \* HttpRequest::contentLength_m
    served,         \* the requests given to the router, with their answers
    answers,        \* what has been written to the client
    closed,         \* shutdown(): nothing more is written, data is still read
    aborted         \* an assertion has failed

(* A negative length as the uint64_t of setContentLength(): more than any  *)
(* buffer holds (see BodyArrived).                                         *)
Huge == 3

headerVars == <<length, connection>>
bodyVars   == <<content, contentLength>>
clientVars == <<pipelining, sent, wire>>
vars == <<clientVars, buf, pc, state, method, version, headerVars, bodyVars,
          served, answers, closed, aborted>>

Init ==
    /\ pipelining \in Pipelining
    /\ sent = <<>>
    /\ wire = <<>>
    /\ buf = <<>>
    /\ pc = "idle"
    /\ state = "requestLine"
    /\ method = "invalid"
    /\ version = "unknown"
    /\ length = None
    /\ connection = "none"
    /\ content = <<>>
    /\ contentLength = 0
    /\ served = <<>>
    /\ answers = <<>>
    /\ closed = FALSE
    /\ aborted = FALSE

(***************************************************************************)
(* The client and TCP (external)                                           *)
(***************************************************************************)
ClientSends(m) ==
    /\ Len(sent) < MaxMessages
    /\ pipelining \/ Len(answers) = Len(sent)
    /\ ~closed
    /\ sent' = Append(sent, m)
    /\ wire' = wire \o m.tokens
    /\ UNCHANGED <<pipelining, buf, pc, state, method, version, headerVars, bodyVars,
                   served, answers, closed, aborted>>

(* n more lines or bytes are complete; onMessage() is called. *)
Arrive(n) ==
    /\ ~aborted
    /\ pc = "idle"
    /\ wire # <<>>
    /\ buf' = buf \o SubSeq(wire, 1, n)
    /\ wire' = SubSeq(wire, n + 1, Len(wire))
    /\ pc' = "parse"
    /\ UNCHANGED <<pipelining, sent, state, method, version, headerVars, bodyVars, served,
                   answers, closed, aborted>>

(***************************************************************************)
(* HttpContext::parseRequest()                                             *)
(***************************************************************************)
Consume(n) == buf' = SubSeq(buf, n + 1, Len(buf))

ReadingLine == pc = "parse" /\ state = "requestLine" /\ buf # <<>>

(* setMethod() asserts that the request has no method yet. *)
MethodAsserts == HasWord(Head(buf)) /\ method # "invalid"

AssertionFails ==
    /\ ReadingLine
    /\ MethodAsserts
    /\ aborted' = TRUE
    /\ pc' = "idle"
    /\ UNCHANGED <<clientVars, buf, state, method, version, headerVars, bodyVars,
                   served, answers, closed>>

RequestLine ==
    /\ ReadingLine
    /\ ~MethodAsserts
    /\ Head(buf) \in RequestLines
    /\ method' = MethodOf(Head(buf))
    /\ version' = IF Head(buf) = "get10" THEN "Http/1.0" ELSE "HTTP/1.1"
    /\ state' = "headers"
    /\ Consume(1)
    /\ UNCHANGED <<clientVars, pc, headerVars, bodyVars, served, answers, closed, aborted>>

(* The line stays in the buffer, and so does a method already recognized. *)
BadRequestLine ==
    /\ ReadingLine
    /\ ~MethodAsserts
    /\ Head(buf) \notin RequestLines
    /\ method' = IF HasWord(Head(buf)) THEN MethodOf(Head(buf)) ELSE method
    /\ pc' = "error"
    /\ UNCHANGED <<clientVars, buf, state, version, headerVars, bodyVars, served,
                   answers, closed, aborted>>

ReadingHeader == pc = "parse" /\ state = "headers" /\ buf # <<>>

Header ==
    /\ ReadingHeader
    /\ Head(buf) \in HeaderLines
    /\ length' = IF Head(buf) \in LengthLines THEN LengthOf(Head(buf)) ELSE length
    /\ connection' = IF Head(buf) \in ConnectionLines THEN Head(buf) ELSE connection
    /\ Consume(1)
    /\ UNCHANGED <<clientVars, pc, state, method, version, bodyVars, served, answers,
                   closed, aborted>>

(* A line without a colon, or a POST without a length: the line is         *)
(* consumed and the parser goes on expecting headers.                      *)
BadHeader ==
    /\ ReadingHeader
    /\ \/ Head(buf) \notin HeaderLines \cup {"end"}
       \/ Head(buf) = "end" /\ method = "post" /\ length = None
    /\ Consume(1)
    /\ pc' = "error"
    /\ UNCHANGED <<clientVars, state, method, version, headerVars, bodyVars, served,
                   answers, closed, aborted>>

(* stoi() throws: the empty line is not consumed. *)
BadLength ==
    /\ ReadingHeader
    /\ Head(buf) = "end" /\ method = "post" /\ length = Bad
    /\ pc' = "error"
    /\ UNCHANGED <<clientVars, buf, state, method, version, headerVars, bodyVars, served,
                   answers, closed, aborted>>

EndOfHeaders ==
    /\ ReadingHeader
    /\ Head(buf) = "end"
    /\ \/ method = "get" /\ UNCHANGED contentLength /\ state' = "gotAll"
       \/ /\ method = "post" /\ length \notin {None, Bad}
          /\ contentLength' = IF length = Negative THEN Huge ELSE length
          /\ state' = IF contentLength' > 0 THEN "body" ELSE "gotAll"
    /\ Consume(1)
    /\ UNCHANGED <<clientVars, pc, method, version, headerVars, content, served, answers,
                   closed, aborted>>

(* Mutant of BodyArrived: one byte more is waited for. *)
BodyArrivedLate == contentLength # Huge /\ Len(buf) > contentLength

BodyArrived == contentLength # Huge /\ Len(buf) >= contentLength

Body ==
    /\ pc = "parse" /\ state = "body"
    /\ BodyArrived
    /\ content' = SubSeq(buf, 1, contentLength)
    /\ Consume(contentLength)
    /\ state' = "gotAll"
    /\ UNCHANGED <<clientVars, pc, method, version, headerVars, contentLength, served,
                   answers, closed, aborted>>

(* Incomplete: wait for the next call. *)
NeedMore ==
    /\ pc = "parse"
    /\ \/ state \in {"requestLine", "headers"} /\ buf = <<>>
       \/ state = "body" /\ ~BodyArrived
    /\ pc' = "idle"
    /\ UNCHANGED <<clientVars, buf, state, method, version, headerVars, bodyVars, served,
                   answers, closed, aborted>>

(***************************************************************************)
(* HttpServer::onMessage() and onRequest()                                 *)
(***************************************************************************)
(* Mutant of Write: data is written although shutdown() was called. *)
WriteAlways(a) == answers' = Append(answers, a)

(* send() does nothing once the connection is shut down (external). *)
Write(a) == answers' = IF closed THEN answers ELSE Append(answers, a)

(* The answer to a bad request; the context stays as it is. *)
Error ==
    /\ pc = "error"
    /\ Write("400")
    /\ closed' = TRUE
    /\ pc' = "idle"
    /\ UNCHANGED <<clientVars, buf, state, method, version, headerVars, bodyVars, served, aborted>>

(* Line 110 compares the version with "HTTP/1.0". *)
Short == connection = "close" \/ (version = "HTTP/1.0" /\ connection # "keepAlive")

(* Mutant of Dispatch: the context is not reset. *)
DispatchWithoutReset(handler) ==
    /\ pc = "parse" /\ state = "gotAll"
    /\ served' = Append(served, [method |-> method, body |-> content, handler |-> handler])
    /\ Write("answer")
    /\ closed' = (closed \/ handler = "close" \/ (handler = "leave" /\ Short))
    /\ pc' = "idle"
    /\ UNCHANGED <<clientVars, buf, state, method, version, headerVars, bodyVars, aborted>>

(* Mutant of Dispatch: the method outlives the request. *)
DispatchKeepsMethod(handler) ==
    /\ pc = "parse" /\ state = "gotAll"
    /\ served' = Append(served, [method |-> method, body |-> content, handler |-> handler])
    /\ Write("answer")
    /\ closed' = (closed \/ handler = "close" \/ (handler = "leave" /\ Short))
    /\ state' = "requestLine"
    /\ version' = "unknown"
    /\ length' = None
    /\ connection' = "none"
    /\ pc' = "idle"
    /\ UNCHANGED <<clientVars, buf, method, bodyVars, aborted>>

(* Mutant of Dispatch: "Connection: close" outlives the request. *)
DispatchKeepsHeader(handler) ==
    /\ pc = "parse" /\ state = "gotAll"
    /\ served' = Append(served, [method |-> method, body |-> content, handler |-> handler])
    /\ Write("answer")
    /\ closed' = (closed \/ handler = "close" \/ (handler = "leave" /\ Short))
    /\ state' = "requestLine"
    /\ method' = "invalid"
    /\ version' = "unknown"
    /\ length' = None
    /\ pc' = "idle"
    /\ UNCHANGED <<clientVars, buf, bodyVars, connection, aborted>>

(* The handler may set closeConnection either way or leave it.  The rest   *)
(* of the buffer stays for the next call of onMessage().                   *)
Dispatch(handler) ==
    /\ pc = "parse" /\ state = "gotAll"
    /\ served' = Append(served, [method |-> method, body |-> content, handler |-> handler])
    /\ Write("answer")
    /\ closed' = (closed \/ handler = "close" \/ (handler = "leave" /\ Short))
    /\ state' = "requestLine"
    /\ method' = "invalid"
    /\ version' = "unknown"
    /\ length' = None
    /\ connection' = "none"
    /\ pc' = "idle"
    /\ UNCHANGED <<clientVars, buf, bodyVars, aborted>>

Parse ==
    \/ AssertionFails
    \/ RequestLine
    \/ BadRequestLine
    \/ Header
    \/ BadHeader
    \/ BadLength
    \/ EndOfHeaders
    \/ Body
    \/ NeedMore

Handlers == {"close", "keep", "leave"}

(* The bound, the end of the connection or of the process. *)
Finished ==
    /\ pc = "idle"
    /\ \/ aborted
       \/ wire = <<>>
    /\ UNCHANGED vars

Next ==
    \/ \E m \in Messages : ClientSends(m)
    \/ \E n \in 0..Len(wire) : Arrive(n)
    \/ Parse
    \/ Error
    \/ \E h \in Handlers : Dispatch(h)
    \/ Finished

Spec == Init /\ [][Next]_vars

(* The event loop finishes what it has begun, and TCP delivers every line  *)
(* in the end, in however many segments.                                   *)
Fairness ==
    /\ WF_vars(Parse \/ Error \/ \E h \in Handlers : Dispatch(h))
    /\ SF_vars(\E n \in 1..Len(wire) : Arrive(n))

LiveSpec == Spec /\ Fairness

(***************************************************************************)
(* Properties                                                              *)
(***************************************************************************)
(* Every variable has its type, and between two calls of onMessage() no    *)
(* finished request is left in the context: parseRequest() would loop for  *)
(* ever on it, since it has no branch for kGotAll.                         *)
TypeOK ==
    /\ pipelining \in Pipelining
    /\ sent \in Seq(Messages)
    /\ wire \in Seq(Tokens)
    /\ buf \in Seq(Tokens)
    /\ pc \in {"idle", "parse", "error"}
    /\ state \in {"requestLine", "headers", "body", "gotAll"}
    /\ state = "gotAll" => pc = "parse"
    /\ method \in {"invalid", "get", "post"}
    /\ version \in {"unknown", "Http/1.0", "HTTP/1.1"}
    /\ length \in Lengths
    /\ connection \in {"none"} \cup ConnectionLines
    /\ content \in Seq(Tokens)
    /\ contentLength \in 0..2 \cup {Huge}
    /\ served \in Seq([method : {"get", "post"}, body : Seq(Tokens), handler : Handlers])
    /\ answers \in Seq({"answer", "400"})
    /\ closed \in BOOLEAN
    /\ aborted \in BOOLEAN

GoodUpTo(i) == i <= Len(sent) /\ \A j \in 1..i : sent[j].ok

(* The connection keeps the promises of RequestService: the answers, each   *)
(* with the method and the body that its request had, are those of the      *)
(* client's messages, in order; a 400 answers a malformed one and ends all. *)
(* (What the code takes for the body of a request without one is left out.) *)
Asked(m)    == IF m.ok THEN <<m.method, m.body>> ELSE <<"malformed", <<>>>>
Answered(i) == IF answers[i] = "400" THEN <<"400", <<>>>>
               ELSE <<served[i].method, IF sent[i].body = <<>> THEN <<>> ELSE served[i].body>>
Service == INSTANCE RequestService WITH
    Requests  <- {Asked(m) : m \in Messages},
    Malformed <- {<<"malformed", <<>>>>},
    Refusal   <- <<"400", <<>>>>,
    asked     <- [i \in 1..Len(sent) |-> Asked(sent[i])],
    answers   <- [i \in 1..Len(answers) |-> Answered(i)],
    open      <- ~closed
ServiceSpec == Service!Spec

(* Answer i says that the connection closes: it is a 400, its handler       *)
(* wanted it closed, or left it to the request and the last Connection      *)
(* header of that very request, of no earlier one, was "close".             *)
MustClose(i) ==
    \/ answers[i] = "400"
    \/ served[i].handler = "close"
    \/ served[i].handler = "leave" /\ Says(sent[i].tokens, Len(sent[i].tokens), "close")

(* Whether a connection persists (HttpServer.cpp:108) is decided by each    *)
(* request for itself: the connection is closed if an answer says so, and   *)
(* closed only then or where HTTP has the request ask for it.               *)
ClosedAsAsked ==
    /\ (\E i \in 1..Len(answers) : MustClose(i)) => closed
    /\ closed => \E i \in 1..Len(answers) :
                    \/ MustClose(i)
                    \/ served[i].handler = "leave" /\ AsksToClose(sent[i].tokens)

(* A client that sends only well-formed requests is never refused, and     *)
(* never brings setMethod() to fail its assertion, on whatever connection, *)
(* however its data is cut and whether or not it pipelines.                *)
GoodClientIsServed ==
    (\A j \in 1..Len(sent) : sent[j].ok) =>
        ~aborted /\ \A i \in 1..Len(answers) : answers[i] = "answer"

(* A client that waits for each answer before it sends the next request    *)
(* gets one for every good request, or its connection is closed.           *)
PatientClientIsAnswered ==
    \A i \in 1..MaxMessages :
        (GoodUpTo(i) /\ ~pipelining) ~> (Len(answers) >= i \/ closed)

(* Every good request is answered in the end, or its connection closed:    *)
(* after each request, onMessage() "starts a new round of parsing"         *)
(* (HttpServer.cpp:94).  Not true of a client that pipelines.              *)
EveryMessageAnswered ==
    \A i \in 1..MaxMessages :
        GoodUpTo(i) ~> (Len(answers) >= i \/ closed)

(* "assert(method_m==kInvalid)" (HttpRequest.cpp:13): setMethod() is only  *)
(* called on a request that has no method.                                 *)
NoAssertionFails == ~aborted

(* "Reset the internal state, start a new round of parsing"                *)
(* (HttpServer.cpp:94): a request has its own body, not an earlier one's.  *)
BodyIsOwn ==
    \A i \in 1..Len(served) : GoodUpTo(i) => served[i].body = sent[i].body

(* "If it is a short connection, disconnect after the response"            *)
(* (HttpServer.cpp:133), when the handler leaves the decision to the       *)
(* server.                                                                 *)
ShortConnectionCloses ==
    \A i \in 1..Len(served) :
        (GoodUpTo(i) /\ AsksToClose(sent[i].tokens) /\ served[i].handler = "leave") => closed
=============================================================================
