---------------------------- MODULE SslConnection ----------------------------
(***************************************************************************)
(* A connection of an HttpServer with SSL: the calls that set the server   *)
(* up, SslContext, onConnection(), SslConnection between muduo and         *)
(* HttpServer::onMessage(), OpenSSL and a TLS client (both external).      *)
(*                                                                         *)
(* A TLS record, a handshake flight and a decrypted request are one item   *)
(* each.  onRead() runs in one loop without interruption: it is one step,  *)
(* together with the callback into HttpServer, which answers one request   *)
(* per call (see HttpConnection).  The memory BIOs are the two queues      *)
(* readBio and writeBio.                                                   *)
(***************************************************************************)
EXTENDS Naturals, Sequences, SequencesExt

CONSTANTS
    Setups,       \* sequences of calls made before start(), see SetupCalls
    Protocols,    \* what SslConfig::setProtocolVersion() may have been given
    Versions,     \* the TLS version a client may offer
    Coalescing,   \* may one read return several records?  and
    Pipelining,   \* may the client send before it has all answers?  the
                  \* possible answers
    MaxRequests   \* bound: requests the client sends

SetupCalls == {"enableSSL", "setSslConfig"}

ASSUME ConstantsAssumption ==
    /\ Setups \subseteq Seq(SetupCalls)
    /\ Protocols \subseteq {"TLS_1_0", "TLS_1_1", "TLS_1_2", "TLS_1_3"}
    /\ Versions \subseteq {"TLS1.1", "TLS1.2", "TLS1.3"}
    /\ Coalescing \subseteq BOOLEAN /\ Pipelining \subseteq BOOLEAN
    /\ MaxRequests \in Nat

VARIABLES
    setup,      \* the calls that set the server up,
    calls,      \* how many of them have been made, and
    protocol,   \* the version configured
    useSSL,     \* HttpServer::useSSL_m
    context,    \* HttpServer::sslCtx_m: has it been initialized?
    conn,       \* how far the server is, and what it has made of the connection
    state,      \* SslConnection::state_m
    handshake,  \* what OpenSSL's side of the handshake waits for
    readBio,    \* records given to OpenSSL and not yet read by it
    decrypted,  \* decryptedBuffer_m
    writeBio,   \* records of OpenSSL's not yet given to muduo
    served,     \* the requests given to the router
    closed,     \* conn_m->shutdown() was called: nothing more is sent
    coalescing, \* does a read return several records?
    pipelining, \* does the client send before it has all answers?
    version,    \* the version negotiated
    client,     \* where the client is
    sent,       \* the requests the client has sent
    received,   \* the answers the client has got
    toServer,   \* records on their way
    toClient

sslVars    == <<state, handshake, readBio, decrypted, writeBio>>
clientVars == <<version, client, sent, received>>
setupVars  == <<setup, calls, protocol, useSSL, context>>
modeVars   == <<setupVars, coalescing, pipelining>>
vars == <<modeVars, conn, sslVars, served, closed, clientVars, toServer, toClient>>

Item(kind)     == [kind |-> kind, n |-> 0]
Message(k, i)  == [kind |-> k, n |-> i]
Requests       == {Message(k, i) : k \in {"good", "malformed"}, i \in 1..MaxRequests}
Answer(r)      == Message("answer", r.n)
ClientItems    == Requests \cup {Item(k) : k \in {"hello", "finished", "garbage", "bye"}}
ServerItems    == {Item(k) : k \in {"flight", "done", "ticket", "plain400"}}
                  \cup {Message("answer", i) : i \in 1..MaxRequests}

(* The items of s of these kinds, in their order. *)
OfKinds(kinds, s) ==
    LET kept[i \in 0..Len(s)] ==
            IF i = 0 THEN <<>>
            ELSE IF s[i].kind \in kinds THEN Append(kept[i - 1], s[i])
            ELSE kept[i - 1]
    IN kept[Len(s)]

RequestsIn(s) == OfKinds({"good", "malformed"}, s)
AnswersIn(s)  == OfKinds({"answer"}, s)

(* HttpServer's constructor does not initialize useSSL_m: until            *)
(* enableSSL() is called it is whatever the memory held.                   *)
Init ==
    /\ setup \in Setups
    /\ calls = 0
    /\ protocol \in Protocols
    /\ useSSL \in BOOLEAN
    /\ context = FALSE
    /\ coalescing \in Coalescing
    /\ pipelining \in Pipelining
    /\ conn = "setup"
    /\ state = "HANDSHAKE"
    /\ handshake = "hello"
    /\ readBio = <<>>
    /\ decrypted = <<>>
    /\ writeBio = <<>>
    /\ served = <<>>
    /\ closed = FALSE
    /\ version = "none"
    /\ client = "start"
    /\ sent = <<>>
    /\ received = <<>>
    /\ toServer = <<>>
    /\ toClient = <<>>

(***************************************************************************)
(* Setting the server up, and onConnection()                               *)
(***************************************************************************)
Unconnected == UNCHANGED <<setup, protocol, coalescing, pipelining, sslVars, served, closed,
                           clientVars, toServer, toClient>>
Calling(f)  == /\ conn = "setup" /\ calls < Len(setup) /\ setup[calls + 1] = f
               /\ calls' = calls + 1

EnableSSL ==
    /\ Calling("enableSSL")
    /\ useSSL' = TRUE
    /\ UNCHANGED <<context, conn>>
    /\ Unconnected

(* Mutant of SetSslConfig: a context that cannot be initialized is kept. *)
SetSslConfigUnchecked ==
    /\ Calling("setSslConfig")
    /\ context' \in IF useSSL THEN BOOLEAN ELSE {FALSE}
    /\ UNCHANGED <<conn, useSSL>>
    /\ Unconnected

(* Without useSSL_m the call has no effect.  A certificate, a key or a     *)
(* cipher list that cannot be loaded ends the process.                     *)
SetSslConfig ==
    /\ Calling("setSslConfig")
    /\ context' \in IF useSSL THEN BOOLEAN ELSE {FALSE}
    /\ conn' = IF useSSL /\ ~context' THEN "aborted" ELSE conn
    /\ UNCHANGED useSSL
    /\ Unconnected

Start ==
    /\ conn = "setup" /\ calls = Len(setup)
    /\ conn' = "none"
    /\ UNCHANGED <<calls, useSSL, context>>
    /\ Unconnected

(* onConnection(): without SSL the messages go to onMessage() directly;    *)
(* with SSL, a missing context is a null pointer that is dereferenced, and *)
(* startHandshake() has nothing to read or send yet.                       *)
OnConnection ==
    /\ conn = "none"
    /\ conn' = IF ~useSSL THEN "plain" ELSE IF context THEN "tls" ELSE "crashed"
    /\ UNCHANGED <<calls, useSSL, context>>
    /\ Unconnected

(* The client has closed: the SslConnection is erased from sslConns_m. *)
OnDisconnection ==
    /\ conn = "tls" /\ client = "gone" /\ toServer = <<>>
    /\ conn' = "over"
    /\ UNCHANGED <<modeVars, sslVars, served, closed, clientVars, toServer, toClient>>

(***************************************************************************)
(* The client (external)                                                   *)
(***************************************************************************)
ServerUnchanged == UNCHANGED <<modeVars, conn, sslVars, served, closed>>
Transmit(x)     == toServer' = Append(toServer, x)

ClientHello(v) ==
    /\ conn = "tls" /\ client = "start"
    /\ version' = v
    /\ client' = "helloSent"
    /\ Transmit(Item("hello"))
    /\ UNCHANGED <<sent, received, toClient>>
    /\ ServerUnchanged

(* In TLS 1.3 the client may send data right after its Finished, in TLS    *)
(* 1.2 it waits for the server's.                                          *)
ClientFinished ==
    /\ toClient # <<>> /\ Head(toClient).kind = "flight"
    /\ toClient' = Tail(toClient)
    /\ Transmit(Item("finished"))
    /\ client' = IF version = "TLS1.3" THEN "open" ELSE "finishedSent"
    /\ UNCHANGED <<version, sent, received>>
    /\ ServerUnchanged

(* Bytes that are no TLS record end the connection for the client. *)
ClientReceives ==
    /\ toClient # <<>> /\ Head(toClient).kind # "flight"
    /\ toClient' = Tail(toClient)
    /\ client' = CASE Head(toClient).kind = "done"     -> "open"
                   [] Head(toClient).kind = "plain400" -> "gone"
                   [] OTHER -> client
    /\ received' = IF Head(toClient).kind = "answer" THEN Append(received, Head(toClient))
                   ELSE received
    /\ UNCHANGED <<version, sent, toServer>>
    /\ ServerUnchanged

ClientRequest(kind) ==
    /\ client = "open"
    /\ Len(sent) < MaxRequests
    /\ pipelining \/ Len(sent) = Len(received)
    /\ sent' = Append(sent, Message(kind, Len(sent) + 1))
    /\ Transmit(Message(kind, Len(sent) + 1))
    /\ UNCHANGED <<version, client, received, toClient>>
    /\ ServerUnchanged

(* A record that fails to decrypt, or a close_notify: the client's last. *)
ClientEnds(kind) ==
    /\ conn = "tls" /\ client \in {"start", "open"}
    /\ client' = "gone"
    /\ Transmit(Item(kind))
    /\ UNCHANGED <<version, sent, received, toClient>>
    /\ ServerUnchanged

(***************************************************************************)
(* SslConnection                                                           *)
(***************************************************************************)
(* conn_m->send() *)
ToNetwork(s) == toClient' = IF closed' THEN toClient ELSE toClient \o s

(* The first lines of onRead(): n records go into the read BIO. *)
Fed(n) == readBio \o SubSeq(toServer, 1, n)
Read(n) ==
    /\ conn = "tls"
    /\ toServer' = SubSeq(toServer, n + 1, Len(toServer))
    /\ UNCHANGED <<modeVars, conn, clientVars>>

(* SslContext::setupProtocol(): a least version, for the old ones also the *)
(* greatest.                                                               *)
Accepted == CASE protocol = "TLS_1_0" -> {"TLS1.0"}
              [] protocol = "TLS_1_1" -> {"TLS1.1"}
              [] protocol = "TLS_1_2" -> {"TLS1.2", "TLS1.3"}
              [] protocol = "TLS_1_3" -> {"TLS1.3"}

(* Mutant of HandshakeContinues: what OpenSSL wants to send is not sent. *)
HandshakeNotFlushed(n) ==
    /\ Read(n)
    /\ version \in Accepted
    /\ state = "HANDSHAKE" /\ handshake = "hello" /\ Head(Fed(n)) = Item("hello")
    /\ readBio' = Tail(Fed(n))
    /\ handshake' = "finished"
    /\ writeBio' = Append(writeBio, Item("flight"))
    /\ UNCHANGED <<state, decrypted, served, closed, toClient>>

(* SSL_ERROR_WANT_READ: OpenSSL's flight is written out. *)
HandshakeContinues(n) ==
    /\ Read(n)
    /\ version \in Accepted
    /\ state = "HANDSHAKE" /\ handshake = "hello" /\ Head(Fed(n)) = Item("hello")
    /\ readBio' = Tail(Fed(n))
    /\ handshake' = "finished"
    /\ UNCHANGED <<state, decrypted, writeBio, served, closed>>
    /\ ToNetwork(Append(writeBio, Item("flight")))

(* Mutant of HandshakeCompletes: state_m is not set. *)
EstablishedForgotten(n) ==
    /\ Read(n)
    /\ state = "HANDSHAKE" /\ handshake = "finished" /\ Head(Fed(n)) = Item("finished")
    /\ readBio' = Tail(Fed(n))
    /\ handshake' = "over"
    /\ writeBio' = Append(writeBio, Item("ticket"))
    /\ UNCHANGED <<state, decrypted, served, closed, toClient>>

(* SSL_do_handshake() returns 1 and so does the function, at once: what    *)
(* OpenSSL has just written, the server's Finished of TLS 1.2 or a session *)
(* ticket of TLS 1.3, stays in the write BIO, and records that came with   *)
(* the client's Finished stay in the read BIO.                             *)
HandshakeCompletes(n) ==
    /\ Read(n)
    /\ state = "HANDSHAKE" /\ handshake = "finished" /\ Head(Fed(n)) = Item("finished")
    /\ readBio' = Tail(Fed(n))
    /\ handshake' = "over"
    /\ state' = "ESTABLISHED"
    /\ writeBio' = Append(writeBio, Item(IF version = "TLS1.3" THEN "ticket" ELSE "done"))
    /\ UNCHANGED <<decrypted, served, closed, toClient>>

(* Any other error: state_m stays HANDSHAKE. *)
HandshakeFails(n) ==
    /\ Read(n)
    /\ state = "HANDSHAKE"
    /\ \/ handshake = "failed"
       \/ Head(Fed(n)).kind # handshake
       \/ handshake = "hello" /\ version \notin Accepted
    /\ readBio' = Fed(n)
    /\ handshake' = "failed"
    /\ closed' = TRUE
    /\ UNCHANGED <<state, decrypted, writeBio, served, toClient>>

(* SSL_read() until nothing is left.  A record that fails to decrypt ends  *)
(* in handleError(); a close_notify makes SSL_read() return 0, which is    *)
(* not taken for an error.                                                 *)
Decrypt(n) ==
    /\ state = "ESTABLISHED"
    /\ Read(n)
    /\ readBio' = <<>>
    /\ state' = IF Item("garbage") \in ToSet(Fed(n)) THEN "ERROR" ELSE state
    /\ UNCHANGED handshake

Plain(n) == decrypted \o RequestsIn(Fed(n))

(* Mutant of Kept: the buffer is emptied after the callback. *)
KeptNothing(n) == <<>>

(* Mutant of Kept: the request stays in the buffer. *)
KeptAll(n) == Plain(n)

(* What HttpContext leaves in the buffer after one request. *)
Kept(n) == Tail(Plain(n))

NothingToServe(n) ==
    /\ Decrypt(n)
    /\ Plain(n) = <<>>
    /\ decrypted' = <<>>
    /\ closed' = (closed \/ state' = "ERROR")
    /\ UNCHANGED <<writeBio, served, toClient>>

(* Mutant of ServeRequest: the answer stays in the write BIO. *)
AnswerNotFlushed(n, close) ==
    /\ Decrypt(n)
    /\ Plain(n) # <<>> /\ Head(Plain(n)).kind = "good"
    /\ served' = Append(served, Head(Plain(n)))
    /\ decrypted' = Kept(n)
    /\ closed' = (closed \/ close \/ state' = "ERROR")
    /\ writeBio' = Append(writeBio, Answer(Head(Plain(n))))
    /\ UNCHANGED toClient

(* onRequest(): the answer goes through send(), which refuses it unless    *)
(* the state is ESTABLISHED and else empties the write BIO into the        *)
(* network; then the server or the handler may close.                      *)
ServeRequest(n, close) ==
    /\ Decrypt(n)
    /\ Plain(n) # <<>> /\ Head(Plain(n)).kind = "good"
    /\ served' = Append(served, Head(Plain(n)))
    /\ decrypted' = Kept(n)
    /\ closed' = (closed \/ close \/ state' = "ERROR")
    /\ IF state' = "ERROR" THEN UNCHANGED <<writeBio, toClient>>
       ELSE /\ writeBio' = <<>>
            /\ toClient' = IF closed THEN toClient
                           ELSE toClient \o Append(writeBio, Answer(Head(Plain(n))))

(* onMessage() answers a malformed request itself, past the SslConnection. *)
(* Malformed is here a request of an unknown method, whose line stays in   *)
(* the buffer and is refused again; the parser's other ways of refusing    *)
(* are HttpConnection's.                                                   *)
RefuseRequest(n) ==
    /\ Decrypt(n)
    /\ Plain(n) # <<>> /\ Head(Plain(n)).kind = "malformed"
    /\ decrypted' = Plain(n)
    /\ closed' = TRUE
    /\ toClient' = IF closed \/ state' = "ERROR" THEN toClient
                   ELSE Append(toClient, Item("plain400"))
    /\ UNCHANGED <<writeBio, served>>

(* After an error onRead() only fills the read BIO. *)
ReadAfterError(n) ==
    /\ Read(n)
    /\ state = "ERROR"
    /\ readBio' = Fed(n)
    /\ UNCHANGED <<state, handshake, decrypted, writeBio, served, closed, toClient>>

OnRead(n) ==
    \/ HandshakeContinues(n)
    \/ HandshakeCompletes(n)
    \/ HandshakeFails(n)
    \/ NothingToServe(n)
    \/ \E close \in BOOLEAN : ServeRequest(n, close)
    \/ RefuseRequest(n)
    \/ ReadAfterError(n)

Segments == IF coalescing THEN 1..Len(toServer) ELSE 1..Len(toServer) \cap {1}

(* Nothing is under way: the client may stop here, and it always does when *)
(* the connection is not a TLS one.                                        *)
Quiet ==
    /\ conn \notin {"setup", "none"} /\ toServer = <<>> /\ toClient = <<>>
    /\ UNCHANGED vars

Next ==
    \/ EnableSSL
    \/ SetSslConfig
    \/ Start
    \/ OnConnection
    \/ OnDisconnection
    \/ \E v \in Versions : ClientHello(v)
    \/ ClientFinished
    \/ ClientReceives
    \/ \E k \in {"good", "malformed"} : ClientRequest(k)
    \/ \E k \in {"garbage", "bye"} : ClientEnds(k)
    \/ \E n \in Segments : OnRead(n)
    \/ Quiet

Spec == Init /\ [][Next]_vars

(* What has arrived is read and what was sent arrives; the client carries  *)
(* on with its handshake.  It need not begin, or send requests.            *)
Fairness ==
    /\ WF_vars(EnableSSL \/ SetSslConfig \/ Start \/ OnConnection)
    /\ WF_vars(\E n \in Segments : OnRead(n))
    /\ WF_vars(ClientFinished \/ ClientReceives)

LiveSpec == Spec /\ Fairness

(***************************************************************************)
(* Properties                                                              *)
(***************************************************************************)
(* Every variable has its type, and SslConnection and OpenSSL agree on     *)
(* whether the handshake is over.                                          *)
TypeOK ==
    /\ setup \in Setups
    /\ calls \in 0..Len(setup)
    /\ protocol \in Protocols
    /\ useSSL \in BOOLEAN
    /\ context \in BOOLEAN
    /\ coalescing \in Coalescing /\ pipelining \in Pipelining
    /\ conn \in {"setup", "none", "plain", "tls", "crashed", "aborted", "over"}
    /\ state \in {"HANDSHAKE", "ESTABLISHED", "ERROR"}
    /\ handshake \in {"hello", "finished", "over", "failed"}
    /\ state = "HANDSHAKE" <=> handshake # "over"
    /\ readBio \in Seq(ClientItems)
    /\ decrypted \in Seq(Requests)
    /\ writeBio \in Seq(ServerItems)
    /\ served \in Seq(Requests)
    /\ closed \in BOOLEAN
    /\ version \in {"none"} \cup Versions
    /\ client \in {"start", "helloSent", "finishedSent", "open", "gone"}
    /\ sent \in Seq(Requests)
    /\ received \in Seq(ServerItems)
    /\ toServer \in Seq(ClientItems)
    /\ toClient \in Seq(ServerItems)

(* Through BIO, SSL_read() and decryptedBuffer_m ("do not retrieveAll()    *)
(* here", SslConnection.cpp:142) no request is lost, repeated or           *)
(* reordered, errors and half-closed connections included.                 *)
NothingLostInside ==
    served \o decrypted \o RequestsIn(readBio) \o RequestsIn(toServer) = sent

(* The connection keeps the promises of RequestService towards a TLS       *)
(* client: through encryption, errors and the two ways out the answers are *)
(* those to its requests, in order, none skipped.  A refusal goes out in   *)
(* plain text: to this client that is no answer but the end.               *)
Answers == received \o AnswersIn(toClient)
Service == INSTANCE RequestService WITH
    Malformed <- {r \in Requests : r.kind = "malformed"},
    Refusal   <- Item("plain400"),
    asked     <- sent,
    answers   <- [i \in 1..Len(Answers) |-> sent[Answers[i].n]],
    open      <- ~closed
ServiceSpec == Service!Spec

(* A server set up in the right order, enableSSL() before setSslConfig(),  *)
(* serves TLS or does not run at all, whatever useSSL_m was at first; and  *)
(* who gets as far as a request speaks a version that was configured.      *)
SetUp == \E i, j \in 1..Len(setup) : i < j /\ setup[i] = "enableSSL" /\ setup[j] = "setSslConfig"
EnabledMeansTls ==
    SetUp => /\ conn \notin {"plain", "crashed"}
             /\ served # <<>> => version \in Accepted

(* A handshake of TLS 1.3, if configured, that the client begins ends with *)
(* an open connection, however its records are put together: the server    *)
(* has the last word only with a ticket, which the client does not wait    *)
(* for.                                                                    *)
Tls13HandshakeSucceeds ==
    (client = "helloSent" /\ version = "TLS1.3" /\ version \in Accepted)
        ~> client \in {"open", "gone"}

(* A TLS 1.3 client that waits for its answers, and whose records do not   *)
(* share a segment with its Finished, is answered or its connection is     *)
(* closed: nothing else keeps a request inside.                            *)
PatientClientIsAnswered ==
    \A i \in 1..MaxRequests :
        (Len(sent) >= i /\ ~coalescing /\ ~pipelining)
            ~> (Len(received) >= i \/ closed \/ client = "gone")

(* "OpenSSL writes what it has to send to the write BIO, then returns      *)
(* WANT_WRITE, so that it is sent to the client"                           *)
(* (SslConnection.cpp:187-190), in TLS 1.2 too.                            *)
HandshakeSucceeds == client = "helloSent" ~> client \in {"open", "gone"}

(* "Read all data that can be decrypted" (SslConnection.cpp:123): every    *)
(* request is answered unless the connection closes, also one that comes   *)
(* in the same segment as the client's Finished.                           *)
RequestsAreAnswered ==
    \A i \in 1..MaxRequests :
        (Len(sent) >= i) ~> (Len(received) >= i \/ closed \/ client = "gone")

(* "Muduo only sees encrypted data" (SslConnection.h:14). *)
OnlyCiphertext == \A i \in 1..Len(toClient) : toClient[i].kind # "plain400"

(* "useSSL = false" (HttpServer.h:37) is the default: a server on which    *)
(* nobody enabled SSL serves plain connections.                            *)
PlainByDefault ==
    "enableSSL" \notin {setup[i] : i \in 1..Len(setup)} => conn \in {"setup", "none", "plain"}
=============================================================================
