--------------------------- MODULE HttpServerProofs ---------------------------
(***************************************************************************)
(* Theorems about what a request passes, for every value of the constants: *)
(* HttpConnection, for every set of messages that follow its Grammar;      *)
(* RequestRouting, for every sequence of registration calls; Registration, *)
(* for every number of event loops and clients.                            *)
(***************************************************************************)
EXTENDS HttpConnection, RequestRouting, Registration, SequenceTheorems,
        FiniteSetTheorems, WellFoundedInduction, TLAPS

(***************************************************************************)
(* HttpConnection: where in the client's messages the parser is            *)
(***************************************************************************)
(* What has been sent and not been consumed, in the buffer or on the wire. *)
Left == Len(buf) + Len(wire)
TokenAt(k) == IF k <= Len(buf) THEN buf[k] ELSE wire[k - Len(buf)]

(* Message j begins after at[j] of the tokens that are left (before them,  *)
(* if at[j] is negative, and the parser has consumed so many of it).       *)
Layout(at) ==
    /\ at \in [1..(Len(sent) + 1) -> Int]
    /\ at[Len(sent) + 1] = Left
    /\ \A j \in 1..Len(sent) : at[j + 1] = at[j] + Len(sent[j].tokens)
    /\ \A j \in 1..(Len(sent) + 1) : at[j] <= Left
    /\ \A j \in 1..Len(sent) : \A i \in 1..Len(sent[j].tokens) :
            at[j] + i >= 1 => TokenAt(at[j] + i) = sent[j].tokens[i]

SaysClose(lines, n) == Says(lines, n, "close")

(* The parser has read n tokens of message m; what it remembers is what    *)
(* they say.                                                               *)
InLine(n) ==
    n = 0 /\ method = "invalid" /\ length = None /\ connection = "none"

InHeaders(m, n) ==
    /\ Headed(m.tokens, n)
    /\ method = MethodOf(m.tokens[1])
    /\ length = LengthIn(m.tokens, n)
    /\ connection = "close" <=> SaysClose(m.tokens, n)

(* A negative length is one that is never reached. *)
InBody(m, n) ==
    IF m.ok
    THEN /\ n \in Nat /\ n = Len(m.tokens) - Len(m.body)
         /\ contentLength = Len(m.body)
         /\ SubSeq(m.tokens, n + 1, Len(m.tokens)) = m.body
         /\ method = m.method
         /\ connection = "close" <=> SaysClose(m.tokens, Len(m.tokens))
    ELSE contentLength = Huge

AllRead(m, n) ==
    /\ m.ok
    /\ n = Len(m.tokens)
    /\ method = m.method
    /\ m.body # <<>> => content = m.body
    /\ connection = "close" <=> SaysClose(m.tokens, Len(m.tokens))

(* The message after those served is the one that is being read. *)
Position(at) ==
    LET m == sent[Len(served) + 1]
        n == 0 - at[Len(served) + 1]
    IN  /\ Len(served) <= Len(sent)
        /\ state # "requestLine" \/ pc = "error" => Len(served) < Len(sent)
        /\ pc = "error" => ~m.ok
        /\ pc # "error" =>
            /\ state = "requestLine" => InLine(n)
            /\ state = "headers" => InHeaders(m, n)
            /\ state = "body" => InBody(m, n)
            /\ state = "gotAll" => AllRead(m, n)

AllGood == \A j \in 1..Len(sent) : sent[j].ok

(* After an error the parser may be anywhere, but then the connection is   *)
(* closed, so that no new message comes and no answer is written.          *)
StreamInv == ~closed \/ AllGood => \E at : Layout(at) /\ Position(at)

(***************************************************************************)
(* The grammar                                                             *)
(***************************************************************************)
LEMMA MessageTyped ==
    ASSUME NEW m \in Messages
    PROVE  /\ m \in MessageType
           /\ Grammar(m)
           /\ m.ok \in BOOLEAN
           /\ m.method \in {"get", "post"}
           /\ m.tokens \in Seq(Tokens) /\ Len(m.tokens) \in Nat
           /\ m.body \in Seq(Bytes) /\ Len(m.body) \in Nat
<1>1. m \in MessageType /\ Grammar(m)
  BY ConstantsAssumption
<1>2. /\ m.ok \in BOOLEAN /\ m.method \in {"get", "post"}
      /\ m.tokens \in Seq(Tokens) /\ m.body \in Seq(Bytes)
  BY <1>1 DEF MessageType
<1> QED
  BY <1>1, <1>2, LenProperties

(* The greatest element of a set of numbers, where there is one. *)
LEMMA MaxIs ==
    ASSUME NEW S, S \subseteq Int, NEW n \in S, \A k \in S : k <= n
    PROVE  Max(S) = n
<1>1. \A k \in S : n >= k
  OBVIOUS
<1>2. \E x \in S : \A k \in S : x >= k
  BY <1>1
<1>3. Max(S) = CHOOSE x \in S : \A k \in S : x >= k
  BY DEF Max
<1>4. Max(S) \in S /\ \A k \in S : Max(S) >= k
  BY <1>2, <1>3
<1>5. n >= Max(S) /\ Max(S) >= n /\ n \in Int /\ Max(S) \in Int
  BY <1>1, <1>4
<1> QED
  BY <1>5

(* A first line says nothing of the length. *)
LEMMA FirstLine ==
    ASSUME NEW m \in Messages
    PROVE  /\ Len(m.tokens) >= 1
           /\ m.ok => m.tokens[1] \in RequestLines
           /\ m.tokens[1] \in RequestLines =>
                Headed(m.tokens, 1) /\ LengthIn(m.tokens, 1) = None /\ ~SaysClose(m.tokens, 1)
<1>1. Len(m.tokens) >= 1
  BY MessageTyped DEF Grammar, IsRequest
<1>2. {i \in 2..1 : m.tokens[i] \in LengthLines} = {}
  OBVIOUS
<1>3. LengthIn(m.tokens, 1) = None
  BY <1>2 DEF LengthIn
<1>4. m.tokens[1] \in RequestLines => ~SaysClose(m.tokens, 1)
  BY DEF RequestLines, SaysClose, Says, ConnectionLines
<1>5. m.ok => m.tokens[1] \in RequestLines
  BY MessageTyped DEF Grammar, IsRequest, Headed
<1>6. m.tokens[1] \in RequestLines => Headed(m.tokens, 1)
  BY <1>1, MessageTyped DEF Headed
<1> QED
  BY <1>1, <1>3, <1>4, <1>5, <1>6

(* One more header line. *)
LEMMA NextHeader ==
    ASSUME NEW m \in Messages, NEW n, Headed(m.tokens, n),
           n < Len(m.tokens), m.tokens[n + 1] \in HeaderLines
    PROVE  /\ Headed(m.tokens, n + 1)
           /\ LengthIn(m.tokens, n + 1) =
                IF m.tokens[n + 1] \in LengthLines THEN LengthOf(m.tokens[n + 1])
                ELSE LengthIn(m.tokens, n)
           /\ SaysClose(m.tokens, n + 1) <=>
                IF m.tokens[n + 1] \in ConnectionLines THEN m.tokens[n + 1] = "close"
                ELSE SaysClose(m.tokens, n)
<1> DEFINE t == m.tokens
           said(k) == {i \in 2..k : t[i] \in LengthLines}
<1>1. n \in 1..Len(t) /\ Len(t) \in Nat
  BY MessageTyped DEF Headed
<1>2. \A k : LengthIn(t, k) = IF said(k) = {} THEN None ELSE LengthOf(t[Max(said(k))])
  BY DEF LengthIn
<1>3. ASSUME t[n + 1] \in LengthLines
      PROVE  said(n + 1) # {} /\ Max(said(n + 1)) = n + 1
  <2>1. n + 1 \in said(n + 1) /\ said(n + 1) \subseteq Int /\ \A j \in said(n + 1) : j <= n + 1
    BY <1>1, <1>3
  <2> QED
    BY <2>1, MaxIs
<1>4. t[n + 1] \notin LengthLines => said(n + 1) = said(n)
  BY <1>1
<1>5. Headed(t, n + 1)
  BY <1>1 DEF Headed
<1>6. SaysClose(t, n + 1) <=>
        IF t[n + 1] \in ConnectionLines THEN t[n + 1] = "close" ELSE SaysClose(t, n)
  BY <1>1 DEF SaysClose, Says, ConnectionLines
<1> HIDE DEF said
<1> QED
  BY <1>2, <1>3, <1>4, <1>5, <1>6

(* After n header lines of a request comes another, or the empty line; and *)
(* then the length is that of the body, and what is left is the body.      *)
LEMMA RequestGoesOn ==
    ASSUME NEW m \in Messages, m.ok, NEW n, Headed(m.tokens, n)
    PROVE  /\ n < Len(m.tokens)
           /\ m.tokens[n + 1] \in HeaderLines \cup {"end"}
           /\ MethodOf(m.tokens[1]) = m.method
           /\ m.tokens[n + 1] = "end" =>
                /\ SubSeq(m.tokens, n + 2, Len(m.tokens)) = m.body
                /\ n + 1 = Len(m.tokens) - Len(m.body)
                /\ m.method = "get" => m.body = <<>>
                /\ m.method = "post" => LengthIn(m.tokens, n) = Len(m.body)
                /\ SaysClose(m.tokens, Len(m.tokens)) <=> SaysClose(m.tokens, n)
<1> DEFINE t == m.tokens
<1>1. n \in 1..Len(t) /\ Len(t) \in Nat /\ t \in Seq(Tokens)
  BY MessageTyped DEF Headed
<1>2. "end" \notin HeaderLines
  BY DEF HeaderLines, LengthLines, ConnectionLines
<1>3. PICK e \in 1..Len(t) :
        /\ Headed(t, e) /\ e < Len(t) /\ t[e + 1] = "end"
        /\ SubSeq(t, e + 2, Len(t)) = m.body
        /\ MethodOf(t[1]) = m.method
        /\ IF m.method = "get" THEN m.body = <<>> ELSE LengthIn(t, e) = Len(m.body)
  BY MessageTyped DEF Grammar, IsRequest
<1>4. n <= e
  BY <1>1, <1>2, <1>3 DEF Headed
<1>5. ASSUME n < e
      PROVE  t[n + 1] \in HeaderLines
  BY <1>1, <1>3, <1>4, <1>5 DEF Headed
<1>6. ASSUME n = e
      PROVE  /\ n + 1 = Len(t) - Len(m.body)
             /\ SaysClose(t, Len(t)) <=> SaysClose(t, n)
  <2>1. \A i \in (e + 2)..Len(t) : t[i] \in Tokens
    BY <1>1, <1>3, ElementOfSeq
  <2>2. /\ Len(m.body) = IF e + 2 <= Len(t) THEN Len(t) - (e + 2) + 1 ELSE 0
        /\ \A i \in 1..(Len(t) - (e + 2) + 1) : m.body[i] = t[(e + 2) + i - 1]
    BY <1>1, <1>3, <2>1, SubSeqProperties
  <2>3. Len(m.body) = Len(t) - (e + 1)
    BY <1>1, <1>3, <2>2
  <2>4. \A i \in (e + 2)..Len(t) : t[i] \notin ConnectionLines
    <3> TAKE i \in (e + 2)..Len(t)
    <3>1. i - (e + 1) \in 1..Len(m.body) /\ m.body[i - (e + 1)] = t[i]
      BY <1>1, <1>3, <2>2, <2>3
    <3>2. t[i] \in Bytes
      BY <3>1, MessageTyped, ElementOfSeq
    <3> QED
      BY <3>2 DEF Bytes, ConnectionLines
  <2>5. t[e + 1] \notin ConnectionLines
    BY <1>3 DEF ConnectionLines
  <2>6. \A i \in (n + 1)..Len(t) : t[i] \notin ConnectionLines
    BY <1>1, <1>3, <1>6, <2>4, <2>5
  <2>7. SaysClose(t, Len(t)) <=> SaysClose(t, n)
    BY <1>1, <2>6 DEF SaysClose, Says, ConnectionLines
  <2>8. n + 1 = Len(t) - Len(m.body)
    <3>1. PICK k \in Nat, l \in Nat : k = Len(m.body) /\ l = Len(t)
      BY <1>1, MessageTyped
    <3>2. k = l - (n + 1) /\ n \in Int
      BY <1>1, <1>6, <2>3, <3>1
    <3>3. PICK i \in Int : i = n + 1
      BY <3>2
    <3>4. k = l - i
      BY <3>2, <3>3
    <3>5. i = l - k
      BY ONLY <3>1, <3>3, <3>4
    <3> QED
      BY ONLY <3>1, <3>3, <3>5
  <2> QED
    BY ONLY <2>7, <2>8
<1>7. n < Len(t) /\ (n < e \/ n = e)
  BY <1>1, <1>3, <1>4
<1>8. t[n + 1] = "end" => n = e
  BY <1>2, <1>5, <1>7
<1>9. t[n + 1] \in HeaderLines \cup {"end"}
  BY <1>3, <1>5, <1>7
<1>10. n = e =>
        /\ SubSeq(t, n + 2, Len(t)) = m.body
        /\ m.method = "get" => m.body = <<>>
        /\ m.method = "post" => LengthIn(t, n) = Len(m.body)
  BY <1>3
<1> QED
  BY <1>3, <1>6, <1>7, <1>8, <1>9, <1>10

(* After n header lines of a message that is none comes another, or what   *)
(* is wrong with it.                                                       *)
LEMMA WrongGoesOn ==
    ASSUME NEW m \in Messages, ~m.ok, NEW n, Headed(m.tokens, n)
    PROVE  /\ n < Len(m.tokens)
           /\ m.tokens[n + 1] = "end" =>
                m.tokens[1] = "post" /\ LengthIn(m.tokens, n) \notin Nat
<1> DEFINE t == m.tokens
<1>1. n \in 1..Len(t) /\ Len(t) \in Nat
  BY MessageTyped DEF Headed
<1>2. PICK e \in 1..Len(t) : IsWrongAt(t, e)
  BY MessageTyped DEF Grammar
<1>3. "end" \notin HeaderLines
  BY DEF HeaderLines, LengthLines, ConnectionLines
<1>4. n < e
  BY <1>1, <1>2, <1>3 DEF IsWrongAt, Headed
<1>5. n + 1 < e => t[n + 1] \in HeaderLines
  BY <1>1, <1>2, <1>4 DEF IsWrongAt, Headed
<1>6. n + 1 = e /\ t[n + 1] = "end" => t[1] = "post" /\ LengthIn(t, n) \notin Nat
  BY <1>1, <1>2 DEF IsWrongAt, Headed
<1> QED
  BY <1>1, <1>3, <1>4, <1>5, <1>6

(***************************************************************************)
(* Types                                                                   *)
(***************************************************************************)
(* A queue that is cut after its first n elements. *)
LEMMA Cut ==
    ASSUME NEW S, NEW q \in Seq(S), NEW n \in 0..Len(q)
    PROVE  /\ SubSeq(q, 1, n) \in Seq(S)
           /\ Len(SubSeq(q, 1, n)) = n
           /\ \A i \in 1..n : SubSeq(q, 1, n)[i] = q[i]
           /\ SubSeq(q, n + 1, Len(q)) \in Seq(S)
           /\ Len(SubSeq(q, n + 1, Len(q))) = Len(q) - n
           /\ \A i \in 1..(Len(q) - n) : SubSeq(q, n + 1, Len(q))[i] = q[n + i]
<1>1. Len(q) \in Nat /\ \A i \in 1..Len(q) : q[i] \in S
  BY ElementOfSeq
<1>2. /\ SubSeq(q, 1, n) \in Seq(S)
      /\ Len(SubSeq(q, 1, n)) = n
      /\ \A i \in 1..n : SubSeq(q, 1, n)[i] = q[i]
  <2>1. \A i \in 1..n : q[i] \in S
    BY <1>1
  <2> QED
    BY <1>1, <2>1, SubSeqProperties
<1>3. /\ SubSeq(q, n + 1, Len(q)) \in Seq(S)
      /\ Len(SubSeq(q, n + 1, Len(q))) = Len(q) - n
      /\ \A i \in 1..(Len(q) - n) : SubSeq(q, n + 1, Len(q))[i] = q[n + i]
  <2>1. \A i \in (n + 1)..Len(q) : q[i] \in S
    BY <1>1
  <2>2. n + 1 \in Int /\ Len(q) \in Int
    BY <1>1
  <2>3. /\ SubSeq(q, n + 1, Len(q)) \in Seq(S)
        /\ Len(SubSeq(q, n + 1, Len(q))) = IF n + 1 <= Len(q) THEN Len(q) - (n + 1) + 1 ELSE 0
        /\ \A i \in 1..(Len(q) - (n + 1) + 1) : SubSeq(q, n + 1, Len(q))[i] = q[(n + 1) + i - 1]
    BY <2>1, <2>2, SubSeqProperties
  <2> QED
    BY <1>1, <2>3
<1> QED
  BY <1>2, <1>3

LEMMA HeadFacts ==
    ASSUME TypeOK, buf # <<>>
    PROVE  Head(buf) = buf[1] /\ Head(buf) \in Tokens /\ Len(buf) >= 1 /\ Len(buf) \in Nat
BY HeadTailProperties, EmptySeq, LenProperties DEF TypeOK

LEMMA ConsumeTyped ==
    ASSUME TypeOK, NEW n \in 0..Len(buf), Consume(n)
    PROVE  buf' \in Seq(Tokens)
BY Cut DEF TypeOK, Consume

(* Dispatch() keeps the types, and so does what it writes. *)
LEMMA ServedTyped ==
    ASSUME TypeOK, NEW h \in Handlers, method \in {"get", "post"},
           served' = Append(served, [method |-> method, body |-> content, handler |-> h])
    PROVE  served' \in Seq([method : {"get", "post"}, body : Seq(Tokens), handler : Handlers])
<1>1. [method |-> method, body |-> content, handler |-> h]
        \in [method : {"get", "post"}, body : Seq(Tokens), handler : Handlers]
  BY DEF TypeOK
<1> QED
  BY <1>1, AppendProperties DEF TypeOK

(* A request that has been read has a method. *)
MethodIsKnown == state \notin {"requestLine"} => method \in {"get", "post"}

LEMMA HttpTypedInit == Init => TypeOK /\ MethodIsKnown
<1> SUFFICES ASSUME Init PROVE TypeOK /\ MethodIsKnown
  OBVIOUS
<1>1. Pipelining \subseteq BOOLEAN
  BY ConstantsAssumption
<1>2. None \in Lengths
  BY DEF Lengths
<1>3. /\ sent \in Seq(Messages) /\ wire \in Seq(Tokens) /\ buf \in Seq(Tokens)
      /\ content \in Seq(Tokens) /\ answers \in Seq({"answer", "400"})
      /\ served \in Seq([method : {"get", "post"}, body : Seq(Tokens), handler : Handlers])
  BY EmptySeq DEF Init
<1> QED
  <2>1. /\ pipelining \in Pipelining
        /\ pc \in {"idle", "parse", "error"}
        /\ state \in {"requestLine", "headers", "body", "gotAll"}
        /\ state = "gotAll" => pc = "parse"
    BY DEF Init
  <2>2. /\ method \in {"invalid", "get", "post"}
        /\ version \in {"unknown", "Http/1.0", "HTTP/1.1"}
        /\ contentLength \in 0..2 \cup {Huge}
    BY DEF Init
  <2>3. /\ length \in Lengths /\ connection \in {"none"} \cup ConnectionLines
        /\ closed \in BOOLEAN /\ aborted \in BOOLEAN
    BY <1>2 DEF Init
  <2>4. MethodIsKnown
    BY DEF Init, MethodIsKnown
  <2> QED
    BY <1>1, <1>3, <2>1, <2>2, <2>3, <2>4 DEF TypeOK

LEMMA HttpTypedStep == TypeOK /\ MethodIsKnown /\ [Next]_vars => (TypeOK /\ MethodIsKnown)'
<1> SUFFICES ASSUME TypeOK, MethodIsKnown, [Next]_vars
             PROVE  (TypeOK /\ MethodIsKnown)'
  OBVIOUS
<1> USE DEF clientVars, headerVars, bodyVars
<1>1. ASSUME NEW m \in Messages, ClientSends(m) PROVE (TypeOK /\ MethodIsKnown)'
  <2>1. sent' \in Seq(Messages)
    BY <1>1, AppendProperties DEF ClientSends, TypeOK
  <2>2. wire' \in Seq(Tokens)
    BY <1>1, MessageTyped, ConcatProperties DEF ClientSends, TypeOK
  <2> QED
    BY <1>1, <2>1, <2>2 DEF ClientSends, TypeOK, MethodIsKnown
<1>2. ASSUME NEW n \in 0..Len(wire), Arrive(n) PROVE (TypeOK /\ MethodIsKnown)'
  <2>1. buf' \in Seq(Tokens) /\ wire' \in Seq(Tokens)
    BY <1>2, Cut, ConcatProperties DEF Arrive, TypeOK
  <2> QED
    BY <1>2, <2>1 DEF Arrive, TypeOK, MethodIsKnown
<1>3. ASSUME AssertionFails PROVE (TypeOK /\ MethodIsKnown)'
  BY <1>3 DEF AssertionFails, ReadingLine, TypeOK, MethodIsKnown
<1>4. ASSUME RequestLine PROVE (TypeOK /\ MethodIsKnown)'
  <2>1. buf' \in Seq(Tokens)
    BY <1>4, HeadFacts, ConsumeTyped DEF RequestLine, ReadingLine
  <2>2. method' \in {"get", "post"} /\ version' \in {"Http/1.0", "HTTP/1.1"}
    BY <1>4 DEF RequestLine, MethodOf, RequestLines
  <2> QED
    BY <1>4, <2>1, <2>2 DEF RequestLine, ReadingLine, TypeOK, MethodIsKnown
<1>5. ASSUME BadRequestLine PROVE (TypeOK /\ MethodIsKnown)'
  <2>1. method' \in {"invalid", "get", "post"}
    BY <1>5 DEF BadRequestLine, MethodOf, TypeOK
  <2> QED
    BY <1>5, <2>1 DEF BadRequestLine, ReadingLine, TypeOK, MethodIsKnown
<1>6. ASSUME Header PROVE (TypeOK /\ MethodIsKnown)'
  <2>1. buf' \in Seq(Tokens)
    BY <1>6, HeadFacts, ConsumeTyped DEF Header, ReadingHeader
  <2>2. length' \in Lengths
    BY <1>6 DEF Header, LengthOf, LengthLines, Lengths, Negative, Bad, TypeOK
  <2> QED
    BY <1>6, <2>1, <2>2 DEF Header, ReadingHeader, TypeOK, MethodIsKnown
<1>7. ASSUME BadHeader PROVE (TypeOK /\ MethodIsKnown)'
  <2>1. buf' \in Seq(Tokens)
    BY <1>7, HeadFacts, ConsumeTyped DEF BadHeader, ReadingHeader
  <2> QED
    BY <1>7, <2>1 DEF BadHeader, ReadingHeader, TypeOK, MethodIsKnown
<1>8. ASSUME BadLength PROVE (TypeOK /\ MethodIsKnown)'
  BY <1>8 DEF BadLength, ReadingHeader, TypeOK, MethodIsKnown
<1>9. ASSUME EndOfHeaders PROVE (TypeOK /\ MethodIsKnown)'
  <2>1. buf' \in Seq(Tokens)
    BY <1>9, HeadFacts, ConsumeTyped DEF EndOfHeaders, ReadingHeader
  <2>2. contentLength' \in 0..2 \cup {Huge} /\ state' \in {"body", "gotAll"}
    BY <1>9 DEF EndOfHeaders, Lengths, None, Bad, Negative, Huge, TypeOK
  <2> QED
    BY <1>9, <2>1, <2>2 DEF EndOfHeaders, ReadingHeader, TypeOK, MethodIsKnown
<1>10. ASSUME Body PROVE (TypeOK /\ MethodIsKnown)'
  <2>1. contentLength \in 0..Len(buf)
    BY <1>10, LenProperties DEF Body, BodyArrived, Huge, TypeOK
  <2>2. buf' \in Seq(Tokens) /\ content' \in Seq(Tokens)
    BY <1>10, <2>1, Cut DEF Body, Consume, TypeOK
  <2> QED
    BY <1>10, <2>2 DEF Body, TypeOK, MethodIsKnown
<1>11. ASSUME NeedMore PROVE (TypeOK /\ MethodIsKnown)'
  BY <1>11 DEF NeedMore, TypeOK, MethodIsKnown
<1>12. ASSUME Error PROVE (TypeOK /\ MethodIsKnown)'
  <2>1. answers' \in Seq({"answer", "400"})
    BY <1>12, AppendProperties DEF Error, Write, TypeOK
  <2> QED
    BY <1>12, <2>1 DEF Error, TypeOK, MethodIsKnown
<1>13. ASSUME NEW h \in Handlers, Dispatch(h) PROVE (TypeOK /\ MethodIsKnown)'
  <2>1. answers' \in Seq({"answer", "400"})
    BY <1>13, AppendProperties DEF Dispatch, Write, TypeOK
  <2>2. served' \in Seq([method : {"get", "post"}, body : Seq(Tokens), handler : Handlers])
    BY <1>13, ServedTyped DEF Dispatch, MethodIsKnown
  <2>3. closed' \in BOOLEAN /\ length' \in Lengths
    BY <1>13 DEF Dispatch, Lengths, None, TypeOK
  <2> QED
    BY <1>13, <2>1, <2>2, <2>3 DEF Dispatch, TypeOK, MethodIsKnown
<1>14. CASE UNCHANGED vars
  BY <1>14 DEF vars, TypeOK, MethodIsKnown
<1> QED
  BY <1>1, <1>2, <1>3, <1>4, <1>5, <1>6, <1>7, <1>8, <1>9, <1>10, <1>11, <1>12, <1>13, <1>14
     DEF Next, Parse, Finished

(* Type correctness: nothing finished is left in the context between two   *)
(* calls of onMessage(), and the router gets requests that have a method.  *)
THEOREM HttpTypeCorrect == Spec => [](TypeOK /\ MethodIsKnown)
BY HttpTypedInit, HttpTypedStep, PTL DEF Spec

(***************************************************************************)
(* The layout of what is left                                              *)
(***************************************************************************)
Shift(at, n) == [j \in DOMAIN at |-> at[j] - n]

(* Token k of the p tokens after a is one of those that are left. *)
LEMMA WithinLeft ==
    ASSUME NEW a \in Int, NEW k \in Int, NEW p \in Int, NEW all \in Int,
           a + p <= all, k <= p
    PROVE  a + k <= all
OBVIOUS

(* Where a token was, from where it is after n tokens are gone. *)
LEMMA BackAndForth ==
    ASSUME NEW a \in Int, NEW k \in Int, NEW n \in Nat, (a - n) + k >= 1
    PROVE  a + k >= 1 /\ ((a - n) + k) + n = a + k /\ (a - n) + k \in Int
OBVIOUS

(* What is consumed moves every message forward. *)
LEMMA ConsumeMoves ==
    ASSUME TypeOK, NEW at, Layout(at), NEW n \in 0..Len(buf), Consume(n),
           UNCHANGED <<sent, wire>>
    PROVE  /\ Layout(Shift(at, n))'
           /\ \A j \in 1..(Len(sent) + 1) : Shift(at, n)[j] = at[j] - n
<1> PICK c : c = Shift(at, n)
  OBVIOUS
<1>1. /\ buf' \in Seq(Tokens) /\ Len(buf') = Len(buf) - n
      /\ \A i \in 1..(Len(buf) - n) : buf'[i] = buf[n + i]
  BY Cut DEF TypeOK, Consume
<1>2. Len(buf) \in Nat /\ Len(wire) \in Nat /\ Len(sent) \in Nat /\ Len(buf') \in Nat
  BY <1>1, LenProperties DEF TypeOK
<1>3. at \in [1..(Len(sent) + 1) -> Int]
  BY DEF Layout
<1>4. c \in [1..(Len(sent) + 1) -> Int] /\ \A j \in 1..(Len(sent) + 1) : c[j] = at[j] - n
  BY <1>3 DEF Shift
<1>5. Left' = Left - n /\ Left \in Nat /\ n \in Nat
  BY <1>1, <1>2 DEF Left
<1>6. \A k \in Int : k >= 1 => TokenAt(k)' = TokenAt(k + n)
  BY <1>1, <1>2 DEF TokenAt
<1>7. \A j \in 1..Len(sent) : sent[j] \in Messages /\ Len(sent[j].tokens) \in Nat
  BY MessageTyped, ElementOfSeq DEF TypeOK
<1>8. Layout(c)'
  <2>1. /\ c[Len(sent') + 1] = Left'
        /\ \A j \in 1..(Len(sent') + 1) : c[j] <= Left'
    <3>1. \A j \in 1..(Len(sent) + 1) : at[j] \in Int /\ at[j] <= Left /\ c[j] = at[j] - n
      BY <1>3, <1>4 DEF Layout
    <3>2. at[Len(sent) + 1] = Left /\ Len(sent) + 1 \in 1..(Len(sent) + 1)
      BY <1>2 DEF Layout
    <3> QED
      BY <1>5, <3>1, <3>2
  <2>2. ASSUME NEW j \in 1..Len(sent')
        PROVE  c[j + 1] = c[j] + Len(sent'[j].tokens)
    <3>1. /\ j \in 1..(Len(sent) + 1) /\ j + 1 \in 1..(Len(sent) + 1)
          /\ Len(sent[j].tokens) \in Nat /\ sent'[j] = sent[j]
      BY <1>2, <1>7
    <3>2. at[j + 1] = at[j] + Len(sent[j].tokens) /\ at[j] \in Int
      BY <1>3, <3>1 DEF Layout
    <3>3. c[j] = at[j] - n /\ c[j + 1] = at[j + 1] - n
      BY <1>4, <3>1
    <3> HIDE DEF Layout
    <3> QED
      BY <1>5, <3>1, <3>2, <3>3
  <2>3. ASSUME NEW j \in 1..Len(sent'), NEW i \in 1..Len(sent'[j].tokens), c[j] + i >= 1
        PROVE  TokenAt(c[j] + i)' = sent'[j].tokens[i]
    <3>1. j \in 1..(Len(sent) + 1) /\ at[j] \in Int /\ c[j] = at[j] - n /\ i \in Int
      <4>1. j \in 1..Len(sent) /\ j \in 1..(Len(sent) + 1)
        BY <1>2
      <4>2. Len(sent[j].tokens) \in Nat /\ sent'[j] = sent[j]
        BY <1>2, <1>7, <4>1
      <4> QED
        BY <1>3, <1>4, <4>1, <4>2
    <3>2. at[j] + i >= 1 /\ (c[j] + i) + n = at[j] + i /\ c[j] + i \in Int
      <4>1. PICK a \in Int, k \in Int, l \in Nat : a = at[j] /\ k = i /\ l = n
        BY <1>5, <3>1
      <4>2. c[j] = a - l
        BY <3>1, <4>1
      <4>3. (a - l) + k >= 1
        BY <2>3, <4>1, <4>2
      <4>4. a + k >= 1 /\ ((a - l) + k) + l = a + k /\ (a - l) + k \in Int
        BY <4>3, BackAndForth
      <4> QED
        BY ONLY <4>1, <4>2, <4>4
    <3>3. TokenAt(c[j] + i)' = TokenAt(at[j] + i)
      BY <1>6, <2>3, <3>2
    <3> QED
      BY <3>2, <3>3 DEF Layout
  <2> QED
    BY <1>4, <2>1, <2>2, <2>3 DEF Layout
<1> QED
  BY <1>4, <1>8

(* A new message comes after everything else. *)
LEMMA SendExtends ==
    ASSUME TypeOK, NEW at, Layout(at), NEW m \in Messages, ClientSends(m)
    PROVE  \E c : Layout(c)' /\ \A j \in 1..(Len(sent) + 1) : c[j] = at[j]
<1>1. /\ sent' = Append(sent, m) /\ wire' = wire \o m.tokens /\ buf' = buf
  BY DEF ClientSends
<1>2. /\ Len(buf) \in Nat /\ Len(wire) \in Nat /\ Len(sent) \in Nat
      /\ m.tokens \in Seq(Tokens) /\ Len(m.tokens) \in Nat
  BY MessageTyped, LenProperties DEF TypeOK
<1>3. /\ Len(wire') = Len(wire) + Len(m.tokens)
      /\ \A i \in 1..Len(wire) : wire'[i] = wire[i]
      /\ \A i \in 1..Len(m.tokens) : wire'[Len(wire) + i] = m.tokens[i]
  BY <1>1, <1>2, ConcatProperties DEF TypeOK
<1>4. /\ Len(sent') = Len(sent) + 1
      /\ \A j \in 1..Len(sent) : sent'[j] = sent[j]
      /\ sent'[Len(sent) + 1] = m
  BY <1>1, AppendProperties DEF TypeOK
<1>5. PICK left : left = Left
  OBVIOUS
<1>6. PICK c : c = [j \in 1..(Len(sent) + 2) |->
                       IF j = Len(sent) + 2 THEN left + Len(m.tokens) ELSE at[j]]
  OBVIOUS
<1>7. at \in [1..(Len(sent) + 1) -> Int] /\ at[Len(sent) + 1] = left /\ left \in Nat
  BY <1>2, <1>5 DEF Layout, Left
<1>8. /\ c \in [1..(Len(sent') + 1) -> Int]
      /\ \A j \in 1..(Len(sent) + 1) : c[j] = at[j]
      /\ c[Len(sent) + 2] = left + Len(m.tokens)
  BY <1>2, <1>4, <1>6, <1>7
<1>9. Left' = left + Len(m.tokens)
  <2>1. PICK k \in Nat : k = Len(m.tokens)
    BY <1>2
  <2>2. Len(buf') = Len(buf) /\ Len(wire') = Len(wire) + k
    BY <1>1, <1>3, <2>1
  <2>3. Len(buf) \in Nat /\ Len(wire) \in Nat
    BY <1>2
  <2>4. Left' = left + k
    BY <1>5, <1>7, <2>2, <2>3 DEF Left
  <2> QED
    BY <2>1, <2>4
<1>10. \A k \in Int : k >= 1 /\ k <= left => TokenAt(k)' = TokenAt(k)
  BY <1>1, <1>2, <1>3, <1>5 DEF TokenAt, Left
<1>11. \A i \in 1..Len(m.tokens) : TokenAt(left + i)' = m.tokens[i]
  <2> TAKE i \in 1..Len(m.tokens)
  <2>1. left = Len(buf) + Len(wire) /\ i \in Nat /\ i >= 1
    BY <1>2, <1>5 DEF Left
  <2>2. ~(left + i <= Len(buf)) /\ (left + i) - Len(buf) = Len(wire) + i
    BY <1>2, <2>1
  <2>3. TokenAt(left + i)' = wire'[Len(wire) + i]
    BY <1>1, <2>2 DEF TokenAt
  <2> QED
    BY <1>3, <2>3
<1>12. Layout(c)'
  <2>1. /\ c[Len(sent') + 1] = Left'
        /\ \A j \in 1..(Len(sent') + 1) : c[j] <= Left'
    <3>1. \A j \in 1..(Len(sent) + 1) : c[j] = at[j] /\ at[j] \in Int /\ at[j] <= left
      BY <1>5, <1>7, <1>8 DEF Layout
    <3>2. \A j \in 1..(Len(sent') + 1) : j \in 1..(Len(sent) + 1) \/ j = Len(sent) + 2
      BY <1>2, <1>4
    <3>3. Len(sent') + 1 = Len(sent) + 2
      BY <1>2, <1>4
    <3>4. PICK k \in Nat : k = Len(m.tokens)
      BY <1>2
    <3>5. Left' = left + k /\ c[Len(sent) + 2] = left + k /\ left \in Nat
      BY <1>7, <1>8, <1>9, <3>4
    <3>6. \A j \in 1..(Len(sent) + 1) : c[j] <= Left'
      BY ONLY <3>1, <3>4, <3>5
    <3>7. c[Len(sent) + 2] <= Left'
      BY ONLY <3>4, <3>5
    <3> QED
      BY ONLY <3>2, <3>3, <3>5, <3>6, <3>7
  <2>2. \A j \in 1..Len(sent') : c[j + 1] = c[j] + Len(sent'[j].tokens)
    <3>1. \A j \in 1..Len(sent) : c[j + 1] = c[j] + Len(sent'[j].tokens)
      BY <1>2, <1>4, <1>8 DEF Layout
    <3>2. c[Len(sent) + 2] = c[Len(sent) + 1] + Len(m.tokens)
      BY <1>2, <1>7, <1>8
    <3>3. c[(Len(sent) + 1) + 1] = c[Len(sent) + 1] + Len(sent'[Len(sent) + 1].tokens)
      BY <1>2, <1>4, <3>2
    <3>4. \A j \in 1..Len(sent') : j \in 1..Len(sent) \/ j = Len(sent) + 1
      BY <1>2, <1>4
    <3> QED
      BY <3>1, <3>3, <3>4
  <2>3. ASSUME NEW j \in 1..Len(sent'), NEW i \in 1..Len(sent'[j].tokens), c[j] + i >= 1
        PROVE  TokenAt(c[j] + i)' = sent'[j].tokens[i]
    <3>1. CASE j = Len(sent) + 1
      <4>1. c[j] = left /\ sent'[j] = m
        BY <1>2, <1>4, <1>7, <1>8, <3>1
      <4> QED
        BY <1>11, <2>3, <4>1
    <3>2. CASE j \in 1..Len(sent)
      <4> sent[j] \in Messages
        BY <3>2, ElementOfSeq DEF TypeOK
      <4>1. /\ j \in 1..(Len(sent) + 1) /\ j + 1 \in 1..(Len(sent) + 1)
            /\ c[j] = at[j] /\ sent'[j] = sent[j] /\ at[j] \in Int
            /\ Len(sent[j].tokens) \in Nat
            /\ i \in Nat /\ i <= Len(sent[j].tokens)
        <5>1. Len(sent[j].tokens) \in Nat
          BY MessageTyped
        <5>2. j \in 1..(Len(sent) + 1) /\ j + 1 \in 1..(Len(sent) + 1)
          BY <1>2, <3>2
        <5>3. c[j] = at[j] /\ at[j] \in Int
          BY <1>7, <1>8, <5>2
        <5>4. sent'[j] = sent[j]
          BY <1>4, <3>2
        <5> QED
          BY <5>1, <5>2, <5>3, <5>4
      <4>2. at[j] + i <= left
        <5>1. at[j + 1] = at[j] + Len(sent[j].tokens) /\ at[j + 1] <= left
          BY <1>5, <3>2, <4>1 DEF Layout
        <5> QED
          BY <1>7, <4>1, <5>1
      <4>3. TokenAt(c[j] + i)' = TokenAt(at[j] + i)
        BY <1>10, <2>3, <4>1, <4>2
      <4> QED
        BY <2>3, <3>2, <4>1, <4>3 DEF Layout
    <3> QED
      BY <1>2, <1>4, <3>1, <3>2
  <2> QED
    BY <1>8, <2>1, <2>2, <2>3 DEF Layout
<1> QED
  BY <1>8, <1>12

(* Data that arrives stays in its place among what is left. *)
LEMMA ArriveKeeps ==
    ASSUME TypeOK, NEW at, Layout(at), NEW n \in 0..Len(wire), Arrive(n)
    PROVE  Layout(at)'
<1>1. buf' = buf \o SubSeq(wire, 1, n) /\ wire' = SubSeq(wire, n + 1, Len(wire)) /\ sent' = sent
  BY DEF Arrive
<1>2. /\ Len(SubSeq(wire, 1, n)) = n
      /\ SubSeq(wire, 1, n) \in Seq(Tokens)
      /\ \A i \in 1..n : SubSeq(wire, 1, n)[i] = wire[i]
      /\ Len(wire') = Len(wire) - n
      /\ \A i \in 1..(Len(wire) - n) : wire'[i] = wire[n + i]
  BY <1>1, Cut DEF TypeOK
<1>3. /\ Len(buf') = Len(buf) + n
      /\ \A i \in 1..(Len(buf) + n) : buf'[i] = IF i <= Len(buf) THEN buf[i] ELSE wire[i - Len(buf)]
  BY <1>1, <1>2, ConcatProperties, LenProperties DEF TypeOK
<1>4. Len(buf) \in Nat /\ Len(wire) \in Nat /\ Len(sent) \in Nat
  BY LenProperties DEF TypeOK
<1>5. Left' = Left
  BY <1>2, <1>3, <1>4 DEF Left
<1>6. \A k \in Int : k >= 1 /\ k <= Left => TokenAt(k)' = TokenAt(k)
  <2> TAKE k \in Int
  <2> HAVE k >= 1 /\ k <= Left
  <2>1. TokenAt(k)' = IF k <= Len(buf') THEN buf'[k] ELSE wire'[k - Len(buf')]
    BY DEF TokenAt
  <2>2. CASE k <= Len(buf) + n
    BY <1>3, <1>4, <2>1, <2>2 DEF TokenAt
  <2>3. CASE k > Len(buf) + n
    <3>1. k - (Len(buf) + n) \in 1..(Len(wire) - n)
      BY <1>4, <2>3 DEF Left
    <3>2. wire'[k - (Len(buf) + n)] = wire[n + (k - (Len(buf) + n))]
      BY <1>2, <3>1
    <3>3. n + (k - (Len(buf) + n)) = k - Len(buf) /\ ~(k <= Len(buf)) /\ ~(k <= Len(buf'))
      BY <1>3, <1>4, <2>3
    <3> QED
      BY <1>3, <2>1, <3>2, <3>3 DEF TokenAt
  <2> QED
    BY <1>4, <2>2, <2>3
<1>7. ASSUME NEW j \in 1..Len(sent), NEW i \in 1..Len(sent[j].tokens), at[j] + i >= 1
      PROVE  TokenAt(at[j] + i)' = sent[j].tokens[i]
  <2>1. sent[j] \in Messages
    BY ElementOfSeq DEF TypeOK
  <2>2. i \in Int /\ i <= Len(sent[j].tokens) /\ Len(sent[j].tokens) \in Nat
    BY <2>1, MessageTyped
  <2> j \in 1..(Len(sent) + 1) /\ j + 1 \in 1..(Len(sent) + 1) /\ Left \in Int
    BY <1>4 DEF Left
  <2>3. /\ at[j] \in Int /\ at[j + 1] \in Int
        /\ at[j + 1] = at[j] + Len(sent[j].tokens) /\ at[j + 1] <= Left
    BY DEF Layout
  <2>4. PICK k \in Int : k = at[j] + i
    BY <2>2, <2>3
  <2>5. k >= 1 /\ k <= Left
    <3>1. PICK a \in Int, b \in Int, p \in Int, all \in Int :
            a = at[j] /\ b = at[j + 1] /\ p = Len(sent[j].tokens) /\ all = Left
      BY <2>2, <2>3
    <3>2. a + p <= all /\ k = a + i /\ i <= p /\ i \in Int
      BY ONLY <2>2, <2>3, <2>4, <3>1
    <3>3. a + i <= all
      BY ONLY <3>1, <3>2, WithinLeft, ZenonT(30)
    <3> QED
      BY ONLY <1>7, <2>4, <3>1, <3>2, <3>3
  <2>6. TokenAt(k)' = TokenAt(k)
    <3>1. k \in Int
      OBVIOUS
    <3> QED
      BY ONLY <1>6, <2>5, <3>1, ZenonT(30)
  <2>7. TokenAt(at[j] + i)' = TokenAt(at[j] + i)
    BY ONLY <2>4, <2>6, ZenonT(30)
  <2> QED
    BY <1>7, <2>7 DEF Layout
<1> QED
  BY <1>1, <1>5, <1>7 DEF Layout

(* The message that is being read: what the parser finds in the buffer is  *)
(* its next token.                                                         *)
LEMMA HeadIsNext ==
    ASSUME TypeOK, NEW at, Layout(at), buf # <<>>, Len(served) < Len(sent),
           NEW n \in Nat, n = 0 - at[Len(served) + 1],
           n < Len(sent[Len(served) + 1].tokens)
    PROVE  Head(buf) = sent[Len(served) + 1].tokens[n + 1]
<1>1. Len(served) \in Nat /\ Len(sent) \in Nat
  BY LenProperties DEF TypeOK
<1>2. Len(served) + 1 \in 1..Len(sent) /\ sent[Len(served) + 1] \in Messages
  BY <1>1, ElementOfSeq DEF TypeOK
<1>3. n + 1 \in 1..Len(sent[Len(served) + 1].tokens)
  BY <1>2, MessageTyped
<1>4. at[Len(served) + 1] \in Int
  BY <1>1, <1>2 DEF Layout
<1>5. at[Len(served) + 1] + (n + 1) = 1
  <2>1. n = 0 - at[Len(served) + 1]
    OBVIOUS
  <2> QED
    BY <1>4, <2>1
<1>6. TokenAt(1) = sent[Len(served) + 1].tokens[n + 1]
  <2>1. TokenAt(at[Len(served) + 1] + (n + 1)) = sent[Len(served) + 1].tokens[n + 1]
    BY <1>2, <1>3, <1>5 DEF Layout
  <2> QED
    BY <1>5, <2>1
<1> QED
  BY <1>6, HeadFacts DEF TokenAt

(* If there is anything in the buffer, there is a message to read. *)
LEMMA BufferedIsSent ==
    ASSUME TypeOK, NEW at, Layout(at), Len(served) <= Len(sent), buf # <<>>,
           at[Len(served) + 1] <= 0
    PROVE  Len(served) < Len(sent)
<1>1. /\ Len(served) \in Nat /\ Len(sent) \in Nat
      /\ Len(wire) \in Nat /\ Len(buf) \in Nat /\ Len(buf) >= 1
  BY LenProperties, HeadFacts DEF TypeOK
<1>2. Left \in Nat /\ Left >= 1
  BY <1>1 DEF Left
<1>3. at[Len(sent) + 1] = Left
  BY DEF Layout
<1>4. Len(served) # Len(sent)
  BY <1>2, <1>3
<1> QED
  BY <1>1, <1>4

LEMMA LayoutKept ==
    ASSUME NEW at, Layout(at), UNCHANGED <<sent, buf, wire>>
    PROVE  Layout(at)'
BY DEF Layout, Left, TokenAt

(* Where the parser is. *)
LEMMA PositionTyped ==
    ASSUME TypeOK, NEW at, Layout(at), Position(at)
    PROVE  /\ Len(served) \in Nat /\ Len(sent) \in Nat /\ Len(served) <= Len(sent)
           /\ at[Len(served) + 1] \in Int
           /\ Len(served) < Len(sent) =>
                /\ sent[Len(served) + 1] \in Messages
                /\ at[Len(served) + 2] = at[Len(served) + 1] + Len(sent[Len(served) + 1].tokens)
<1>1. Len(served) \in Nat /\ Len(sent) \in Nat /\ Len(served) <= Len(sent)
  BY LenProperties DEF TypeOK, Position
<1>2. at[Len(served) + 1] \in Int
  BY <1>1 DEF Layout
<1>3. ASSUME Len(served) < Len(sent)
      PROVE  /\ sent[Len(served) + 1] \in Messages
             /\ at[Len(served) + 2] = at[Len(served) + 1] + Len(sent[Len(served) + 1].tokens)
  <2>1. Len(served) + 1 \in 1..Len(sent) /\ (Len(served) + 1) + 1 = Len(served) + 2
    BY <1>1, <1>3
  <2>2. sent[Len(served) + 1] \in Messages
    BY <2>1, ElementOfSeq DEF TypeOK
  <2>3. at[(Len(served) + 1) + 1] = at[Len(served) + 1] + Len(sent[Len(served) + 1].tokens)
    BY <2>1 DEF Layout
  <2> QED
    BY <2>1, <2>2, <2>3
<1> QED
  BY <1>1, <1>2, <1>3

(* In a request line the parser is at the beginning of a message. *)
LEMMA AtLine ==
    ASSUME TypeOK, NEW at, Layout(at), Position(at), ReadingLine
    PROVE  /\ at[Len(served) + 1] = 0
           /\ Len(served) < Len(sent)
           /\ Head(buf) = sent[Len(served) + 1].tokens[1]
           /\ method = "invalid" /\ length = None /\ connection = "none"
<1>1. /\ at[Len(served) + 1] = 0
      /\ method = "invalid" /\ length = None /\ connection = "none"
  <2>1. InLine(0 - at[Len(served) + 1])
    BY DEF Position, ReadingLine
  <2>2. 0 - at[Len(served) + 1] = 0 /\ at[Len(served) + 1] \in Int
    BY <2>1, PositionTyped DEF InLine
  <2> QED
    BY <2>1, <2>2 DEF InLine
<1>2. Len(served) < Len(sent)
  BY <1>1, PositionTyped, BufferedIsSent DEF ReadingLine
<1>3. sent[Len(served) + 1] \in Messages
  BY <1>2, PositionTyped
<1>4. 0 < Len(sent[Len(served) + 1].tokens)
  BY <1>3, FirstLine, MessageTyped
<1>5. Head(buf) = sent[Len(served) + 1].tokens[0 + 1]
  BY <1>1, <1>2, <1>4, HeadIsNext DEF ReadingLine
<1> QED
  BY <1>1, <1>2, <1>5

(* Among the header lines it has read n lines of a message. *)
LEMMA AtHeader ==
    ASSUME TypeOK, NEW at, Layout(at), Position(at), ReadingHeader
    PROVE  \E n \in Nat :
             /\ n = 0 - at[Len(served) + 1]
             /\ Len(served) < Len(sent)
             /\ n < Len(sent[Len(served) + 1].tokens)
             /\ Head(buf) = sent[Len(served) + 1].tokens[n + 1]
             /\ InHeaders(sent[Len(served) + 1], n)
<1>1. PICK m : m = sent[Len(served) + 1]
  OBVIOUS
<1>2. PICK n : n = 0 - at[Len(served) + 1]
  OBVIOUS
<1>3. Len(served) < Len(sent) /\ InHeaders(m, n)
  BY <1>1, <1>2 DEF Position, ReadingHeader
<1>4. m \in Messages
  BY <1>1, <1>3, PositionTyped
<1>5. n \in Nat
  BY <1>3, <1>4, MessageTyped DEF InHeaders, Headed
<1>6. n < Len(m.tokens)
  <2>1. Headed(m.tokens, n)
    BY <1>3 DEF InHeaders
  <2>2. m.ok => n < Len(m.tokens)
    BY <1>4, <2>1, RequestGoesOn
  <2>3. ~m.ok => n < Len(m.tokens)
    BY <1>4, <2>1, WrongGoesOn
  <2> QED
    BY <2>2, <2>3
<1>7. Head(buf) = m.tokens[n + 1]
  BY <1>1, <1>2, <1>3, <1>5, <1>6, HeadIsNext DEF ReadingHeader
<1> QED
  BY <1>1, <1>2, <1>3, <1>5, <1>6, <1>7

(* What is consumed of the message that is being read. *)
LEMMA Consumed ==
    ASSUME TypeOK, NEW at, Layout(at), Position(at), NEW k \in 0..Len(buf), Consume(k),
           UNCHANGED <<sent, wire>>
    PROVE  \E c : Layout(c)' /\ c[Len(served) + 1] = at[Len(served) + 1] - k
<1>1. Len(served) + 1 \in 1..(Len(sent) + 1)
  BY PositionTyped
<1> QED
  BY <1>1, ConsumeMoves

(* The parser's steps: what has been read, and what it now remembers.      *)
LEMMA ReadLine ==
    ASSUME TypeOK, NEW at, Layout(at), Position(at), RequestLine
    PROVE  \E c : Layout(c)' /\ Position(c)'
<1>1. PICK m : m = sent[Len(served) + 1]
  OBVIOUS
<1>2. /\ at[Len(served) + 1] = 0 /\ Len(served) < Len(sent) /\ Head(buf) = m.tokens[1]
      /\ length = None /\ connection = "none"
  BY <1>1, AtLine DEF RequestLine
<1>3. m \in Messages
  BY <1>1, <1>2, PositionTyped
<1>4. 1 \in 0..Len(buf)
  BY HeadFacts DEF RequestLine, ReadingLine
<1>5. PICK c : Layout(c)' /\ c[Len(served) + 1] = at[Len(served) + 1] - 1
  BY <1>4, Consumed DEF RequestLine, clientVars
<1>6. 0 - c[Len(served) + 1] = 1
  BY <1>2, <1>5, PositionTyped
<1>7. m.tokens[1] \in RequestLines
  BY <1>2 DEF RequestLine
<1>8. Headed(m.tokens, 1) /\ LengthIn(m.tokens, 1) = None /\ ~SaysClose(m.tokens, 1)
  BY <1>3, <1>7, FirstLine
<1>9. Position(c)'
  <2>1. /\ sent' = sent /\ served' = served /\ state' = "headers" /\ pc' = pc /\ pc = "parse"
        /\ method' = MethodOf(m.tokens[1]) /\ length' = None /\ connection' = "none"
    BY <1>2 DEF RequestLine, ReadingLine, headerVars, clientVars
  <2>2. InHeaders(m, 1)'
    BY <1>8, <2>1 DEF InHeaders
  <2> QED
    BY <1>1, <1>2, <1>6, <1>8, <2>1, <2>2, PositionTyped DEF Position, InHeaders
<1> QED
  BY <1>5, <1>9

LEMMA ReadHeader ==
    ASSUME TypeOK, NEW at, Layout(at), Position(at), Header
    PROVE  \E c : Layout(c)' /\ Position(c)'
<1>1. PICK m : m = sent[Len(served) + 1]
  OBVIOUS
<1>2. PICK n \in Nat :
        /\ n = 0 - at[Len(served) + 1] /\ Len(served) < Len(sent)
        /\ n < Len(m.tokens) /\ Head(buf) = m.tokens[n + 1] /\ InHeaders(m, n)
  BY <1>1, AtHeader DEF Header
<1>3. m \in Messages
  BY <1>1, <1>2, PositionTyped
<1>4. 1 \in 0..Len(buf)
  BY HeadFacts DEF Header, ReadingHeader
<1>5. PICK c : Layout(c)' /\ c[Len(served) + 1] = at[Len(served) + 1] - 1
  BY <1>4, Consumed DEF Header, clientVars
<1>6. 0 - c[Len(served) + 1] = n + 1
  BY <1>2, <1>5, PositionTyped
<1>7. /\ Headed(m.tokens, n + 1)
      /\ LengthIn(m.tokens, n + 1) =
           IF Head(buf) \in LengthLines THEN LengthOf(Head(buf)) ELSE LengthIn(m.tokens, n)
      /\ SaysClose(m.tokens, n + 1) <=>
           IF Head(buf) \in ConnectionLines THEN Head(buf) = "close"
           ELSE SaysClose(m.tokens, n)
  BY <1>2, <1>3, NextHeader DEF InHeaders, Header
<1>8. Position(c)'
  <2>1. /\ sent' = sent /\ served' = served /\ state' = "headers" /\ pc' = pc /\ pc = "parse"
        /\ method' = MethodOf(m.tokens[1])
    BY <1>2 DEF Header, ReadingHeader, clientVars, InHeaders
  <2>2. length' = LengthIn(m.tokens, n + 1)
    BY <1>2, <1>7 DEF Header, InHeaders
  <2>3. connection' = "close" <=> SaysClose(m.tokens, n + 1)
    BY <1>2, <1>7 DEF Header, InHeaders, ConnectionLines
  <2> QED
    BY <1>1, <1>2, <1>6, <1>7, <2>1, <2>2, <2>3, PositionTyped DEF Position, InHeaders
<1> QED
  BY <1>5, <1>8

(* The lines for which the parser gives a 400 are those of no request. *)
LEMMA RefuseLine ==
    ASSUME TypeOK, NEW at, Layout(at), Position(at), BadRequestLine
    PROVE  Layout(at)' /\ Position(at)'
<1>1. PICK m : m = sent[Len(served) + 1]
  OBVIOUS
<1>2. Len(served) < Len(sent) /\ Head(buf) = m.tokens[1]
  BY <1>1, AtLine DEF BadRequestLine
<1>3. ~m.ok
  BY <1>1, <1>2, FirstLine, PositionTyped DEF BadRequestLine
<1>4. sent' = sent /\ wire' = wire /\ buf' = buf /\ served' = served /\ pc' = "error"
  BY DEF BadRequestLine, clientVars
<1> QED
  BY <1>1, <1>2, <1>3, <1>4, LayoutKept, PositionTyped DEF Position

LEMMA NoGoodHeaderIsRefused ==
    ASSUME TypeOK, NEW at, Layout(at), Position(at), BadHeader \/ BadLength
    PROVE  ~sent[Len(served) + 1].ok /\ Len(served) < Len(sent)
<1>1. PICK m : m = sent[Len(served) + 1]
  OBVIOUS
<1>2. PICK n \in Nat :
        /\ Len(served) < Len(sent)
        /\ Head(buf) = m.tokens[n + 1] /\ InHeaders(m, n)
  BY <1>1, AtHeader DEF BadHeader, BadLength
<1>3. m \in Messages
  BY <1>1, <1>2, PositionTyped
<1>4. ASSUME m.ok PROVE FALSE
  <2>1. /\ Head(buf) \in HeaderLines \cup {"end"}
        /\ Head(buf) = "end" /\ method = "post" => length = Len(m.body)
    BY <1>2, <1>3, <1>4, RequestGoesOn DEF InHeaders
  <2>2. Len(m.body) # None /\ Len(m.body) # Bad
    BY <1>3, MessageTyped DEF None, Bad
  <2> QED
    BY <2>1, <2>2 DEF BadHeader, BadLength
<1> QED
  BY <1>1, <1>2, <1>4

LEMMA RefuseHeader ==
    ASSUME TypeOK, NEW at, Layout(at), Position(at), BadHeader \/ BadLength
    PROVE  \E c : Layout(c)' /\ Position(c)'
<1>1. /\ sent' = sent /\ wire' = wire /\ served' = served /\ pc' = "error"
      /\ Consume(1) \/ buf' = buf
  BY DEF BadHeader, BadLength, clientVars
<1>2. 1 \in 0..Len(buf)
  BY HeadFacts DEF BadHeader, BadLength, ReadingHeader
<1>3. PICK c : Layout(c)'
  BY <1>1, <1>2, Consumed, LayoutKept
<1>4. Position(c)'
  BY <1>1, NoGoodHeaderIsRefused, PositionTyped DEF Position
<1> QED
  BY <1>3, <1>4

LEMMA ReadEnd ==
    ASSUME TypeOK, NEW at, Layout(at), Position(at), EndOfHeaders
    PROVE  \E c : Layout(c)' /\ Position(c)'
<1>1. PICK m : m = sent[Len(served) + 1]
  OBVIOUS
<1>2. PICK n \in Nat :
        /\ n = 0 - at[Len(served) + 1] /\ Len(served) < Len(sent)
        /\ Head(buf) = m.tokens[n + 1] /\ InHeaders(m, n)
  BY <1>1, AtHeader DEF EndOfHeaders
<1>3. m \in Messages
  BY <1>1, <1>2, PositionTyped
<1>4. 1 \in 0..Len(buf)
  BY HeadFacts DEF EndOfHeaders, ReadingHeader
<1>5. PICK c : Layout(c)' /\ c[Len(served) + 1] = at[Len(served) + 1] - 1
  BY <1>4, Consumed DEF EndOfHeaders, clientVars
<1>6. 0 - c[Len(served) + 1] = n + 1
  BY <1>2, <1>5, PositionTyped
<1>7. /\ sent' = sent /\ served' = served /\ pc' = pc /\ pc = "parse" /\ method' = method
      /\ connection' = connection /\ content' = content /\ m.tokens[n + 1] = "end"
      /\ \/ method = "get" /\ state' = "gotAll"
         \/ /\ method = "post" /\ length \notin {None, Bad}
            /\ contentLength' = IF length = Negative THEN Huge ELSE length
            /\ state' = IF contentLength' > 0 THEN "body" ELSE "gotAll"
  BY <1>2 DEF EndOfHeaders, ReadingHeader, clientVars, headerVars
<1>8. CASE ~m.ok
  <2>1. method = "post" /\ length \notin Nat
    BY <1>2, <1>3, <1>7, <1>8, WrongGoesOn DEF InHeaders, MethodOf
  <2>2. contentLength' = Huge /\ state' = "body"
    BY <1>7, <2>1 DEF TypeOK, Lengths, None, Bad, Negative, Huge
  <2>3. InBody(m, n + 1)'
    BY <1>8, <2>2 DEF InBody
  <2>4. Position(c)'
    BY <1>1, <1>2, <1>6, <1>7, <2>2, <2>3, PositionTyped DEF Position
  <2> QED
    BY <1>5, <2>4
<1>9. CASE m.ok
  <2>1. /\ SubSeq(m.tokens, n + 2, Len(m.tokens)) = m.body
        /\ n + 1 = Len(m.tokens) - Len(m.body)
        /\ m.method = "get" => m.body = <<>>
        /\ m.method = "post" => length = Len(m.body)
        /\ method = m.method
        /\ connection = "close" <=> SaysClose(m.tokens, Len(m.tokens))
    BY <1>2, <1>3, <1>7, <1>9, RequestGoesOn DEF InHeaders
  <2>2. Len(m.body) \in Nat /\ Len(m.tokens) \in Nat /\ m.body \in Seq(Bytes)
    BY <1>3, MessageTyped
  <2>3. CASE m.body = <<>>
    <3>1. state' = "gotAll"
      BY <1>7, <2>1, <2>3 DEF Negative
    <3>2. n + 1 = Len(m.tokens)
      BY <2>1, <2>2, <2>3
    <3>3. AllRead(m, n + 1)'
      BY <1>7, <1>9, <2>1, <2>3, <3>2 DEF AllRead
    <3>4. Position(c)'
      BY <1>1, <1>2, <1>6, <1>7, <3>1, <3>3, PositionTyped DEF Position
    <3> QED
      BY <1>5, <3>4
  <2>4. CASE m.body # <<>>
    <3>1. Len(m.body) > 0
      BY <2>2, <2>4, EmptySeq
    <3>2. contentLength' = Len(m.body) /\ state' = "body"
      BY <1>7, <2>1, <2>2, <2>4, <3>1 DEF Negative
    <3>3. (n + 1) + 1 = n + 2 /\ n + 1 \in Nat
      OBVIOUS
    <3>4. InBody(m, n + 1)'
      BY <1>7, <1>9, <2>1, <3>2, <3>3 DEF InBody
    <3>5. Position(c)'
      BY <1>1, <1>2, <1>6, <1>7, <3>2, <3>4, PositionTyped DEF Position
    <3> QED
      BY <1>5, <3>5
  <2> QED
    BY <2>3, <2>4
<1> QED
  BY <1>8, <1>9

(* The body that is cut off the buffer is that of the message. *)
LEMMA ReadBody ==
    ASSUME TypeOK, NEW at, Layout(at), Position(at), Body
    PROVE  \E c : Layout(c)' /\ Position(c)'
<1>1. PICK m : m = sent[Len(served) + 1]
  OBVIOUS
<1>2. PICK n : n = 0 - at[Len(served) + 1]
  OBVIOUS
<1>3. Len(served) < Len(sent) /\ InBody(m, n)
  BY <1>1, <1>2 DEF Position, Body
<1>4. m \in Messages
  BY <1>1, <1>3, PositionTyped
<1>5. PICK t, b : t = m.tokens /\ b = m.body
  OBVIOUS
<1>6. /\ m.ok
      /\ n \in Nat /\ n = Len(t) - Len(b)
      /\ contentLength = Len(b)
      /\ SubSeq(t, n + 1, Len(t)) = b
      /\ method = m.method
      /\ connection = "close" <=> SaysClose(t, Len(t))
  BY <1>3, <1>5 DEF InBody, Body, BodyArrived
<1>7. Len(t) \in Nat /\ Len(b) \in Nat /\ t \in Seq(Tokens)
  BY <1>4, <1>5, MessageTyped
<1>8. contentLength \in 0..Len(buf)
  BY LenProperties DEF Body, BodyArrived, Huge, TypeOK
<1>9. PICK c : Layout(c)' /\ c[Len(served) + 1] = at[Len(served) + 1] - contentLength
  BY <1>8, Consumed DEF Body, clientVars
<1>10. 0 - c[Len(served) + 1] = Len(t)
  <2>1. PICK k \in Nat : k = Len(b) /\ Len(t) = n + k
    BY <1>6, <1>7
  <2>2. contentLength = k
    BY <1>6, <2>1
  <2>3. at[Len(served) + 1] \in Int /\ n \in Int
    BY <1>2, PositionTyped
  <2>4. 0 - c[Len(served) + 1] = n + k
    BY ONLY <1>2, <1>9, <2>1, <2>2, <2>3
  <2> QED
    BY ONLY <2>1, <2>4
<1>11. content' = b
  <2>1. /\ content' \in Seq(Tokens) /\ Len(content') = Len(b)
        /\ \A i \in 1..Len(b) : content'[i] = buf[i]
    BY <1>6, <1>8, Cut DEF Body, TypeOK
  <2>2. n \in 0..Len(t) /\ Len(t) - n = Len(b)
    BY <1>6, <1>7
  <2>3. b \in Seq(Tokens) /\ \A i \in 1..Len(b) : b[i] = t[n + i]
    <3>1. /\ SubSeq(t, n + 1, Len(t)) \in Seq(Tokens)
          /\ \A i \in 1..(Len(t) - n) : SubSeq(t, n + 1, Len(t))[i] = t[n + i]
      BY <1>7, <2>2, Cut
    <3> QED
      BY <1>6, <2>2, <3>1
  <2>4. \A i \in 1..Len(b) : buf[i] = t[n + i]
    <3> TAKE i \in 1..Len(b)
    <3>1. n + i \in 1..Len(t) /\ Len(served) + 1 \in 1..Len(sent)
      BY <1>3, <1>7, <2>2, PositionTyped
    <3>2. at[Len(served) + 1] + (n + i) = i /\ i >= 1
      BY <1>2, PositionTyped
    <3>3. TokenAt(at[Len(served) + 1] + (n + i)) = t[n + i]
      BY <1>1, <1>5, <3>1, <3>2 DEF Layout
    <3>4. TokenAt(i) = t[n + i]
      BY <3>2, <3>3
    <3>5. i <= Len(buf)
      BY <1>6, <1>7, <1>8
    <3> QED
      BY <3>4, <3>5 DEF TokenAt
  <2> QED
    BY <2>1, <2>3, <2>4, SeqEqual
<1>12. Position(c)'
  <2>1. /\ sent' = sent /\ served' = served /\ pc' = pc /\ pc = "parse" /\ state' = "gotAll"
        /\ method' = method /\ connection' = connection
    BY DEF Body, clientVars, headerVars
  <2>2. AllRead(m, Len(t))'
    BY <1>5, <1>6, <1>11, <2>1 DEF AllRead
  <2> QED
    BY <1>1, <1>3, <1>10, <2>1, <2>2, PositionTyped DEF Position
<1> QED
  BY <1>9, <1>12

(* After a request has been served the next one begins. *)
LEMMA ServeMoves ==
    ASSUME TypeOK, NEW at, Layout(at), Position(at), NEW h \in Handlers, Dispatch(h)
    PROVE  Layout(at)' /\ Position(at)'
<1>1. PICK m : m = sent[Len(served) + 1]
  OBVIOUS
<1>2. Len(served) < Len(sent) /\ AllRead(m, 0 - at[Len(served) + 1])
  BY <1>1 DEF Position, Dispatch
<1>3. m \in Messages /\ at[Len(served) + 2] = at[Len(served) + 1] + Len(m.tokens)
  BY <1>1, <1>2, PositionTyped
<1>4. PICK k \in Nat : k = Len(m.tokens) /\ 0 - at[Len(served) + 1] = k
  BY <1>2, <1>3, MessageTyped DEF AllRead
<1>5. 0 - at[Len(served) + 2] = 0
  BY <1>3, <1>4, PositionTyped
<1>6. /\ sent' = sent /\ wire' = wire /\ buf' = buf /\ pc' = "idle" /\ state' = "requestLine"
      /\ method' = "invalid" /\ length' = None /\ connection' = "none"
  BY DEF Dispatch, clientVars
<1>7. Len(served') = Len(served) + 1
  BY AppendProperties DEF Dispatch, TypeOK
<1>8. Len(served') + 1 = Len(served) + 2 /\ Len(served') <= Len(sent)
  BY <1>2, <1>7, PositionTyped
<1>9. Position(at)'
  BY <1>5, <1>6, <1>8 DEF Position, InLine
<1> QED
  BY <1>6, <1>9, LayoutKept

(* A new message does not disturb the one that is being read. *)
LEMMA SendKeeps ==
    ASSUME TypeOK, NEW at, Layout(at), Position(at), NEW m \in Messages, ClientSends(m)
    PROVE  \E c : Layout(c)' /\ Position(c)'
<1>1. PICK c : Layout(c)' /\ \A j \in 1..(Len(sent) + 1) : c[j] = at[j]
  BY SendExtends
<1>2. c[Len(served) + 1] = at[Len(served) + 1]
  BY <1>1, PositionTyped
<1>3. /\ Len(sent') = Len(sent) + 1
      /\ \A j \in 1..Len(sent) : sent'[j] = sent[j]
  BY AppendProperties DEF ClientSends, TypeOK
<1>4. /\ UNCHANGED <<pc, state, method, length, connection, content, contentLength, served>>
  BY DEF ClientSends, headerVars, bodyVars
<1>5. Len(served) < Len(sent) => sent'[Len(served) + 1] = sent[Len(served) + 1]
  BY <1>3, PositionTyped
<1>6. PICK s : s = sent[Len(served) + 1]
  OBVIOUS
<1>7. PICK n : n = 0 - at[Len(served) + 1]
  OBVIOUS
<1>8. /\ InLine(n) => InLine(n)'
      /\ InHeaders(s, n) => InHeaders(s, n)'
      /\ InBody(s, n) => InBody(s, n)'
      /\ AllRead(s, n) => AllRead(s, n)'
  BY <1>4 DEF InLine, InHeaders, InBody, AllRead
<1>9. CASE Len(served) < Len(sent)
  <2>1. sent'[Len(served') + 1] = s /\ 0 - c[Len(served') + 1] = n
    BY <1>2, <1>4, <1>5, <1>6, <1>7, <1>9
  <2>2. Position(c)'
    BY <1>3, <1>4, <1>6, <1>7, <1>8, <1>9, <2>1, PositionTyped DEF Position
  <2> QED
    BY <1>1, <2>2
<1>10. CASE ~(Len(served) < Len(sent))
  <2>1. state = "requestLine" /\ pc # "error" /\ InLine(n)
    BY <1>7, <1>10 DEF Position, TypeOK
  <2>2. InLine(0 - c[Len(served) + 1])'
    BY <1>2, <1>4, <1>7, <1>8, <2>1 DEF InLine
  <2>3. Position(c)'
    BY <1>3, <1>4, <2>1, <2>2, PositionTyped DEF Position
  <2> QED
    BY <1>1, <2>3
<1> QED
  BY <1>9, <1>10

(* Once closed a connection stays so, and what was sent stays sent. *)
LEMMA StillOpen ==
    ASSUME TypeOK, [Next]_vars, (~closed \/ AllGood)'
    PROVE  ~closed \/ AllGood
<1>1. closed => closed'
  BY DEF TypeOK, Next, vars, clientVars, Parse, ClientSends, Arrive, AssertionFails, RequestLine,
         BadRequestLine, Header, BadHeader, BadLength, EndOfHeaders, Body, NeedMore, Error,
         Dispatch, Finished
<1>2. sent' = sent \/ \E m \in Messages : sent' = Append(sent, m)
  BY DEF Next, vars, clientVars, Parse, ClientSends, Arrive, AssertionFails, RequestLine,
         BadRequestLine, Header, BadHeader, BadLength, EndOfHeaders, Body, NeedMore, Error,
         Dispatch, Finished
<1>3. ASSUME AllGood' PROVE AllGood
  <2>1. CASE sent' = sent
    BY <1>3, <2>1 DEF AllGood
  <2>2. ASSUME NEW m \in Messages, sent' = Append(sent, m) PROVE AllGood
    <3>1. Len(sent') = Len(sent) + 1 /\ \A j \in 1..Len(sent) : sent'[j] = sent[j]
      BY <2>2, AppendProperties DEF TypeOK
    <3>2. Len(sent) \in Nat
      BY LenProperties DEF TypeOK
    <3> QED
      BY <1>3, <3>1, <3>2 DEF AllGood
  <2> QED
    BY <1>2, <2>1, <2>2
<1> QED
  BY <1>1, <1>3

LEMMA StreamStep ==
    ASSUME TypeOK, StreamInv, [Next]_vars
    PROVE  StreamInv'
<1> SUFFICES ASSUME (~closed \/ AllGood)' PROVE \E at : Layout(at)' /\ Position(at)'
  BY DEF StreamInv
<1>1. PICK at : Layout(at) /\ Position(at)
  BY StillOpen DEF StreamInv
<1>2. ASSUME NEW m \in Messages, ClientSends(m) PROVE \E c : Layout(c)' /\ Position(c)'
  BY <1>1, <1>2, SendKeeps
<1>3. ASSUME NEW n \in 0..Len(wire), Arrive(n) PROVE \E c : Layout(c)' /\ Position(c)'
  <2>1. Layout(at)'
    BY <1>1, <1>3, ArriveKeeps
  <2>2. /\ pc = "idle" /\ pc' = "parse"
        /\ UNCHANGED <<sent, state, method, length, connection, content, contentLength, served>>
    BY <1>3 DEF Arrive, headerVars, bodyVars
  <2>3. Position(at)'
    BY <1>1, <2>2 DEF Position, InLine, InHeaders, InBody, AllRead
  <2> QED
    BY <2>1, <2>3
<1>4. ASSUME AssertionFails PROVE FALSE
  BY <1>1, <1>4, AtLine DEF AssertionFails, MethodAsserts
<1>5. ASSUME RequestLine PROVE \E c : Layout(c)' /\ Position(c)'
  BY <1>1, <1>5, ReadLine
<1>6. ASSUME BadRequestLine PROVE \E c : Layout(c)' /\ Position(c)'
  BY <1>1, <1>6, RefuseLine
<1>7. ASSUME Header PROVE \E c : Layout(c)' /\ Position(c)'
  BY <1>1, <1>7, ReadHeader
<1>8. ASSUME BadHeader \/ BadLength PROVE \E c : Layout(c)' /\ Position(c)'
  BY <1>1, <1>8, RefuseHeader
<1>9. ASSUME EndOfHeaders PROVE \E c : Layout(c)' /\ Position(c)'
  BY <1>1, <1>9, ReadEnd
<1>10. ASSUME Body PROVE \E c : Layout(c)' /\ Position(c)'
  BY <1>1, <1>10, ReadBody
<1>11. ASSUME NeedMore \/ UNCHANGED vars PROVE \E c : Layout(c)' /\ Position(c)'
  <2>1. /\ UNCHANGED <<sent, buf, wire, state, method, length, connection, content,
                       contentLength, served>>
        /\ pc' = pc \/ (pc' = "idle" /\ pc = "parse")
    <3>1. CASE NeedMore
      BY <3>1 DEF NeedMore, clientVars, headerVars, bodyVars
    <3>2. CASE UNCHANGED vars
      BY <3>2 DEF vars, clientVars, headerVars, bodyVars
    <3> QED
      BY <1>11, <3>1, <3>2
  <2>2. Position(at)'
    BY <1>1, <2>1 DEF Position, InLine, InHeaders, InBody, AllRead
  <2> QED
    BY <1>1, <2>1, <2>2, LayoutKept
<1>12. ASSUME Error PROVE FALSE
  <2>1. ~sent[Len(served) + 1].ok /\ Len(served) < Len(sent)
    BY <1>1, <1>12 DEF Position, Error
  <2>2. ~AllGood
    BY <1>1, <2>1, PositionTyped DEF AllGood
  <2>3. AllGood' = AllGood /\ closed'
    BY <1>12 DEF Error, clientVars, AllGood
  <2> QED
    BY <2>2, <2>3
<1>13. ASSUME NEW h \in Handlers, Dispatch(h) PROVE \E c : Layout(c)' /\ Position(c)'
  BY <1>1, <1>13, ServeMoves
<1> QED
  BY <1>2, <1>3, <1>4, <1>5, <1>6, <1>7, <1>8, <1>9, <1>10, <1>11, <1>12, <1>13
     DEF Next, Parse, Finished

(***************************************************************************)
(* What is answered                                                        *)
(***************************************************************************)
(* While the connection is open every request given to the router has had  *)
(* its answer; a 400 has closed it.                                        *)
Counted ==
    /\ Len(answers) <= Len(sent)
    /\ ~closed => Len(answers) = Len(served) /\ \A i \in 1..Len(answers) : answers[i] = "answer"
    /\ \A i \in 1..Len(answers) : answers[i] = "answer" => i <= Len(served)

(* The steps that the client or the router sees. *)
LEMMA VisibleSteps ==
    ASSUME [Next]_vars
    PROVE  \/ \E m \in Messages : ClientSends(m)
           \/ AssertionFails
           \/ Error
           \/ \E h \in Handlers : Dispatch(h)
           \/ UNCHANGED <<sent, served, answers, closed, aborted>>
BY DEF Next, vars, clientVars, Parse, Arrive, RequestLine, BadRequestLine, Header, BadHeader,
       BadLength, EndOfHeaders, Body, NeedMore, Finished

(* A 400 answers the message that is being read, which is no request. *)
LEMMA RefusesBad ==
    ASSUME TypeOK, StreamInv, ~closed, Error
    PROVE  /\ Len(served) < Len(sent)
           /\ ~sent[Len(served) + 1].ok
BY DEF StreamInv, Position, Error

(* The router is given the message that is being read, which is a request. *)
LEMMA ServesOwn ==
    ASSUME TypeOK, StreamInv, ~closed, NEW h \in Handlers, Dispatch(h)
    PROVE  /\ Len(served) < Len(sent)
           /\ sent[Len(served) + 1] \in Messages
           /\ sent[Len(served) + 1].ok
           /\ method = sent[Len(served) + 1].method
           /\ sent[Len(served) + 1].body # <<>> => content = sent[Len(served) + 1].body
           /\ connection = "close" <=> SaysClose(sent[Len(served) + 1].tokens,
                                      Len(sent[Len(served) + 1].tokens))
<1>1. PICK at : Layout(at) /\ Position(at)
  BY DEF StreamInv
<1>2. Len(served) < Len(sent) /\ AllRead(sent[Len(served) + 1], 0 - at[Len(served) + 1])
  BY <1>1 DEF Position, Dispatch
<1>3. sent[Len(served) + 1] \in Messages
  BY <1>1, <1>2, PositionTyped
<1> QED
  BY <1>2, <1>3 DEF AllRead

(* What a step leaves of the lists: they only grow. *)
LEMMA ListsGrow ==
    ASSUME TypeOK, MethodIsKnown, [Next]_vars
    PROVE  /\ Len(sent) \in Nat /\ Len(served) \in Nat /\ Len(answers) \in Nat
           /\ Len(sent') >= Len(sent) /\ \A i \in 1..Len(sent) : sent'[i] = sent[i]
           /\ Len(served') >= Len(served) /\ \A i \in 1..Len(served) : served'[i] = served[i]
           /\ Len(answers') >= Len(answers) /\ \A i \in 1..Len(answers) : answers'[i] = answers[i]
<1>1. Len(sent) \in Nat /\ Len(served) \in Nat /\ Len(answers) \in Nat
  BY LenProperties DEF TypeOK
<1>2. sent' = sent \/ \E m \in Messages : sent' = Append(sent, m)
  BY VisibleSteps DEF ClientSends, AssertionFails, Error, Dispatch, clientVars
<1>3. \/ served' = served
      \/ \E r \in [method : {"get", "post"}, body : Seq(Tokens), handler : Handlers] :
            served' = Append(served, r)
  <2>1. ASSUME NEW h \in Handlers, Dispatch(h)
        PROVE  \E r \in [method : {"get", "post"}, body : Seq(Tokens), handler : Handlers] :
                  served' = Append(served, r)
    BY <2>1 DEF Dispatch, MethodIsKnown, TypeOK
  <2> QED
    BY <2>1, VisibleSteps DEF ClientSends, AssertionFails, Error
<1>4. answers' = answers \/ \E a \in {"answer", "400"} : answers' = Append(answers, a)
  BY VisibleSteps DEF ClientSends, AssertionFails, Error, Dispatch, Write
<1>5. Len(sent') >= Len(sent) /\ \A i \in 1..Len(sent) : sent'[i] = sent[i]
  <2>1. CASE sent' = sent
    BY <1>1, <2>1
  <2>2. ASSUME NEW m \in Messages, sent' = Append(sent, m)
        PROVE  /\ Len(sent') = Len(sent) + 1
               /\ \A i \in 1..Len(sent) : sent'[i] = sent[i]
    BY <2>2, AppendProperties DEF TypeOK
  <2> QED
    BY <1>1, <1>2, <2>1, <2>2
<1>6. Len(served') >= Len(served) /\ \A i \in 1..Len(served) : served'[i] = served[i]
  <2>1. CASE served' = served
    BY <1>1, <2>1
  <2>2. ASSUME NEW r \in [method : {"get", "post"}, body : Seq(Tokens), handler : Handlers],
               served' = Append(served, r)
        PROVE  /\ Len(served') = Len(served) + 1
               /\ \A i \in 1..Len(served) : served'[i] = served[i]
    BY <2>2, AppendProperties DEF TypeOK
  <2> QED
    BY <1>1, <1>3, <2>1, <2>2
<1>7. Len(answers') >= Len(answers) /\ \A i \in 1..Len(answers) : answers'[i] = answers[i]
  <2>1. CASE answers' = answers
    BY <1>1, <2>1
  <2>2. ASSUME NEW a \in {"answer", "400"}, answers' = Append(answers, a)
        PROVE  /\ Len(answers') = Len(answers) + 1
               /\ \A i \in 1..Len(answers) : answers'[i] = answers[i]
    BY <2>2, AppendProperties DEF TypeOK
  <2> QED
    BY <1>1, <1>4, <2>1, <2>2
<1> QED
  BY <1>1, <1>5, <1>6, <1>7

LEMMA CountedStep ==
    ASSUME TypeOK, StreamInv, Counted, [Next]_vars
    PROVE  Counted'
<1>1. Len(sent) \in Nat /\ Len(served) \in Nat /\ Len(answers) \in Nat
  BY LenProperties DEF TypeOK
<1>2. ASSUME NEW m \in Messages, ClientSends(m) PROVE Counted'
  <2>1. Len(sent') >= Len(sent) /\ Len(sent') \in Nat
    BY <1>1, <1>2, AppendProperties DEF ClientSends, TypeOK
  <2> QED
    BY <1>1, <1>2, <2>1 DEF ClientSends, Counted
<1>3. CASE Error
  <2>1. CASE closed
    BY <1>3, <2>1 DEF Error, Write, clientVars, Counted
  <2>2. CASE ~closed
    <3>1. /\ Len(answers') = Len(answers) + 1 /\ answers'[Len(answers) + 1] = "400"
          /\ \A i \in 1..Len(answers) : answers'[i] = answers[i]
      BY <1>3, <2>2, AppendProperties DEF Error, Write, TypeOK
    <3> QED
      BY <1>1, <1>3, <2>2, <3>1, RefusesBad DEF Error, clientVars, Counted
  <2> QED
    BY <2>1, <2>2
<1>4. ASSUME NEW h \in Handlers, Dispatch(h) PROVE Counted'
  <2>1. Len(served') = Len(served) + 1
    BY <1>4, AppendProperties DEF Dispatch, TypeOK
  <2>2. CASE closed
    <3>1. answers' = answers /\ sent' = sent /\ closed'
      BY <1>4, <2>2 DEF Dispatch, Write, clientVars
    <3> QED
      BY <1>1, <2>1, <2>2, <3>1 DEF Counted
  <2>3. CASE ~closed
    <3>1. /\ Len(answers') = Len(answers) + 1 /\ answers'[Len(answers) + 1] = "answer"
          /\ \A i \in 1..Len(answers) : answers'[i] = answers[i]
      BY <1>4, <2>3, AppendProperties DEF Dispatch, Write, TypeOK
    <3>2. sent' = sent /\ Len(served) < Len(sent)
      BY <1>4, <2>3, ServesOwn DEF Dispatch, clientVars
    <3>3. Len(answers) = Len(served) /\ \A i \in 1..Len(answers) : answers[i] = "answer"
      BY <2>3 DEF Counted
    <3>4. \A i \in 1..Len(answers') : answers'[i] = "answer" /\ i <= Len(served')
      BY <1>1, <2>1, <3>1, <3>3
    <3> QED
      BY <1>1, <2>1, <3>1, <3>2, <3>3, <3>4 DEF Counted
  <2> QED
    BY <2>2, <2>3
<1>5. CASE AssertionFails \/ UNCHANGED <<sent, served, answers, closed, aborted>>
  BY <1>5 DEF AssertionFails, clientVars, Counted
<1> QED
  BY <1>2, <1>3, <1>4, <1>5, VisibleSteps

(* What this code does, where HTTP leaves a choice: a request of HTTP/1.0  *)
(* does not close by itself.                                               *)
ClosedExactly == closed <=> \E i \in 1..Len(answers) : MustClose(i)

LEMMA ClosedStep ==
    ASSUME TypeOK, MethodIsKnown, StreamInv, Counted, ClosedExactly, [Next]_vars
    PROVE  ClosedExactly'
<1>1. /\ Len(sent) \in Nat /\ Len(served) \in Nat /\ Len(answers) \in Nat
      /\ Len(answers') >= Len(answers)
      /\ Len(sent') \in Nat /\ Len(answers') \in Nat
  BY ListsGrow DEF ClientSends
<1>2. \A i \in 1..Len(answers) : i <= Len(served) => MustClose(i)' = MustClose(i)
  <2> TAKE i \in 1..Len(answers)
  <2> HAVE i <= Len(served)
  <2>1. i \in 1..Len(sent) /\ i \in 1..Len(served)
    BY <1>1 DEF Counted
  <2>2. answers'[i] = answers[i] /\ sent'[i] = sent[i] /\ served'[i] = served[i]
    BY <2>1, ListsGrow
  <2> QED
    BY <2>2 DEF MustClose
<1>3. CASE closed
  <2>1. closed'
    BY <1>3, VisibleSteps DEF ClientSends, AssertionFails, Error, Dispatch
  <2>2. PICK i \in 1..Len(answers) : MustClose(i)
    BY <1>3 DEF ClosedExactly, MustClose
  <2>3. answers'[i] = answers[i] /\ i \in 1..Len(answers')
    BY <1>1, ListsGrow
  <2>4. MustClose(i)'
    <3>1. CASE answers[i] = "400"
      BY <2>3, <3>1 DEF MustClose
    <3>2. CASE answers[i] = "answer"
      BY <1>2, <2>2, <3>2 DEF Counted
    <3>3. answers[i] \in {"answer", "400"}
      BY <1>1, ElementOfSeq DEF TypeOK
    <3> QED
      BY <3>1, <3>2, <3>3
  <2> QED
    BY <2>1, <2>3, <2>4 DEF ClosedExactly, MustClose
<1>4. CASE ~closed
  <2>1. Len(answers) = Len(served) /\ \A i \in 1..Len(answers) : ~MustClose(i)'
    BY <1>1, <1>2, <1>4 DEF Counted, ClosedExactly, MustClose
  <2>2. CASE answers' = answers /\ closed' = closed
    BY <1>4, <2>1, <2>2 DEF ClosedExactly, MustClose
  <2>3. CASE Error
    <3>1. Len(answers') = Len(answers) + 1 /\ answers'[Len(answers) + 1] = "400" /\ closed'
      BY <1>4, <2>3, AppendProperties DEF Error, Write, TypeOK
    <3>2. PICK n : n = Len(answers) + 1
      OBVIOUS
    <3>3. n \in 1..Len(answers') /\ answers'[n] = "400"
      BY <1>1, <3>1, <3>2
    <3> QED
      BY <3>1, <3>3 DEF ClosedExactly, MustClose
  <2>4. ASSUME NEW h \in Handlers, Dispatch(h) PROVE ClosedExactly'
    <3>1. PICK n : n = Len(answers) + 1 /\ n = Len(served) + 1
      BY <2>1
    <3>2. PICK t : t = sent[n].tokens
      OBVIOUS
    <3>3. /\ Len(answers') = n /\ answers'[n] = "answer"
      BY <1>4, <2>4, <3>1, AppendProperties DEF Dispatch, Write, TypeOK
    <3>4. served'[n].handler = h
      <4>1. [method |-> method, body |-> content, handler |-> h]
              \in [method : {"get", "post"}, body : Seq(Tokens), handler : Handlers]
        BY <2>4 DEF Dispatch, MethodIsKnown, TypeOK
      <4>2. served'[n] = [method |-> method, body |-> content, handler |-> h]
        BY <2>4, <3>1, <4>1, AppendProperties DEF Dispatch, TypeOK
      <4> QED
        BY <4>2
    <3>5. (connection = "close" <=> SaysClose(t, Len(t))) /\ sent' = sent
      BY <1>4, <2>4, <3>1, <3>2, ServesOwn DEF Dispatch, clientVars
    <3>6. closed' <=> h = "close" \/ (h = "leave" /\ SaysClose(t, Len(t)))
      BY <1>4, <2>4, <3>5 DEF Dispatch, Short, TypeOK
    <3>7. MustClose(n)' <=> h = "close" \/ (h = "leave" /\ SaysClose(t, Len(t)))
      BY <3>2, <3>3, <3>4, <3>5 DEF MustClose, SaysClose
    <3>8. (\E i \in 1..Len(answers') : MustClose(i)') <=> MustClose(n)'
      BY <1>1, <2>1, <3>1, <3>3
    <3> QED
      BY <3>6, <3>7, <3>8 DEF ClosedExactly, MustClose
  <2>5. CASE (\E m \in Messages : ClientSends(m)) \/ AssertionFails
    BY <2>2, <2>5 DEF ClientSends, AssertionFails
  <2> QED
    BY <2>2, <2>3, <2>4, <2>5, VisibleSteps
<1> QED
  BY <1>3, <1>4

(* A client that sends only requests gets no 400. *)
LEMMA GoodStep ==
    ASSUME TypeOK, MethodIsKnown, StreamInv, GoodClientIsServed, [Next]_vars
    PROVE  GoodClientIsServed'
<1> SUFFICES ASSUME AllGood'
             PROVE  ~aborted' /\ \A i \in 1..Len(answers') : answers'[i] = "answer"
  BY DEF GoodClientIsServed, AllGood
<1>1. AllGood
  BY ListsGrow DEF AllGood
<1>2. ~aborted /\ \A i \in 1..Len(answers) : answers[i] = "answer"
  BY <1>1 DEF GoodClientIsServed, AllGood
<1>3. PICK at : Layout(at) /\ Position(at)
  BY <1>1 DEF StreamInv
<1>4. ~AssertionFails
  BY <1>3, AtLine DEF AssertionFails, MethodAsserts
<1>5. ~Error
  BY <1>1, <1>3, PositionTyped DEF Error, Position, AllGood
<1>6. ASSUME NEW h \in Handlers, Dispatch(h)
      PROVE  ~aborted' /\ \A i \in 1..Len(answers') : answers'[i] = "answer"
  <2>1. CASE closed
    BY <1>2, <1>6, <2>1 DEF Dispatch, Write
  <2>2. CASE ~closed
    <3>1. /\ Len(answers') = Len(answers) + 1 /\ answers'[Len(answers) + 1] = "answer"
          /\ \A i \in 1..Len(answers) : answers'[i] = answers[i]
          /\ Len(answers) \in Nat
      BY <1>6, <2>2, AppendProperties, LenProperties DEF Dispatch, Write, TypeOK
    <3> QED
      BY <1>2, <1>6, <3>1 DEF Dispatch
  <2> QED
    BY <2>1, <2>2
<1> QED
  BY <1>2, <1>4, <1>5, <1>6, VisibleSteps DEF ClientSends

HttpInv == TypeOK /\ MethodIsKnown /\ StreamInv /\ Counted /\ ClosedExactly /\ GoodClientIsServed

LEMMA HttpInitially == Init => HttpInv
<1> SUFFICES ASSUME Init PROVE HttpInv
  OBVIOUS
<1>1. TypeOK /\ MethodIsKnown
  BY HttpTypedInit
<1>2. StreamInv
  <2>1. PICK c : c = [j \in 1..1 |-> 0]
    OBVIOUS
  <2>2. Len(sent) = 0 /\ Len(buf) = 0 /\ Len(wire) = 0 /\ Len(served) = 0
    BY EmptySeq DEF Init
  <2>3. Layout(c)
    BY <2>1, <2>2 DEF Layout, Left
  <2>4. Position(c)
    BY <2>1, <2>2 DEF Position, Init, InLine
  <2> QED
    BY <2>3, <2>4 DEF StreamInv
<1>3. Len(answers) = 0 /\ Len(sent) = 0 /\ Len(served) = 0 /\ closed = FALSE /\ aborted = FALSE
  BY EmptySeq DEF Init
<1>4. Counted /\ ClosedExactly /\ GoodClientIsServed
  BY <1>3 DEF Counted, ClosedExactly, GoodClientIsServed
<1> QED
  BY <1>1, <1>2, <1>4 DEF HttpInv

LEMMA HttpStep == HttpInv /\ [Next]_vars => HttpInv'
<1> SUFFICES ASSUME HttpInv, [Next]_vars PROVE HttpInv'
  OBVIOUS
<1> USE DEF HttpInv
<1>1. (TypeOK /\ MethodIsKnown)'
  BY HttpTypedStep
<1> QED
  BY <1>1, StreamStep, CountedStep, ClosedStep, GoodStep

(* HttpServer::onMessage() and the parser, over every stream of requests   *)
(* and of messages that are none, cut anywhere: where in which message the *)
(* parser is, and what it remembers of it.                                 *)
THEOREM HttpInvariant == Spec => []HttpInv
<1>1. HttpInv /\ UNCHANGED vars => HttpInv'
  BY HttpStep
<1> QED
  BY HttpInitially, HttpStep, <1>1, PTL DEF Spec

(* A connection is closed if one of its answers says so, and only if one   *)
(* does or its own request asks for it (HttpServer.cpp:108-137).           *)
THEOREM HttpClosedAsAsked == Spec => []ClosedAsAsked
<1>1. HttpInv => ClosedAsAsked
  BY DEF HttpInv, ClosedExactly, ClosedAsAsked
<1> QED
  BY <1>1, HttpInvariant, PTL

(* A client that sends only well-formed requests never sees a 400, and     *)
(* never fails the assertion of setMethod().                               *)
THEOREM HttpGoodClient == Spec => []GoodClientIsServed
<1>1. HttpInv => GoodClientIsServed
  BY DEF HttpInv
<1> QED
  BY <1>1, HttpInvariant, PTL

(***************************************************************************)
(* HttpConnection implements RequestService                                *)
(***************************************************************************)
(* What was asked and what was answered, as RequestService sees them. *)
Asks  == [i \in 1..Len(sent) |-> Asked(sent[i])]
Given == [i \in 1..Len(answers) |-> Answered(i)]
Pairs == {"get", "post", "malformed", "400"} \X Seq(Tokens)

LEMMA AskedTyped ==
    ASSUME NEW m \in Messages
    PROVE  /\ Asked(m) \in Pairs
           /\ m.ok <=> Asked(m) # <<"malformed", <<>>>>
<1>1. \A i \in 1..Len(m.body) : m.body[i] \in Tokens
  <2>1. \A i \in 1..Len(m.body) : m.body[i] \in Bytes
    BY MessageTyped, ElementOfSeq
  <2> QED
    BY <2>1 DEF Tokens
<1>2. m.body \in Seq(Tokens)
  BY <1>1, MessageTyped, SeqDef
<1> QED
  BY <1>2, MessageTyped, EmptySeq DEF Asked, Pairs

LEMMA AnsweredTyped ==
    ASSUME TypeOK, Counted, NEW i \in 1..Len(answers)
    PROVE  Answered(i) \in Pairs
<1>1. CASE answers[i] = "400"
  BY <1>1, EmptySeq DEF Answered, Pairs
<1>2. CASE answers[i] # "400"
  <2>1. i \in 1..Len(served)
    BY <1>2, LenProperties, ElementOfSeq DEF TypeOK, Counted
  <2>2. served[i] \in [method : {"get", "post"}, body : Seq(Tokens), handler : Handlers]
    BY <2>1, ElementOfSeq DEF TypeOK
  <2> QED
    BY <1>2, <2>2, EmptySeq DEF Answered, Pairs
<1> QED
  BY <1>1, <1>2

ListsAre ==
    /\ Asks \in Seq(Pairs) /\ Len(Asks) = Len(sent)
    /\ Given \in Seq(Pairs) /\ Len(Given) = Len(answers)
    /\ Len(sent) \in Nat /\ Len(answers) \in Nat

LEMMA ListsTyped == TypeOK /\ Counted => ListsAre
<1> SUFFICES ASSUME TypeOK, Counted PROVE ListsAre
  OBVIOUS
<1>1. Len(sent) \in Nat /\ Len(answers) \in Nat /\ Len(served) \in Nat
  BY LenProperties DEF TypeOK
<1>2. \A i \in 1..Len(sent) : Asked(sent[i]) \in Pairs
  BY AskedTyped, ElementOfSeq DEF TypeOK
<1>3. Asks \in Seq(Pairs) /\ Len(Asks) = Len(sent)
  BY <1>1, <1>2 DEF Asks
<1>4. Given \in Seq(Pairs) /\ Len(Given) = Len(answers)
  BY <1>1, AnsweredTyped DEF Given
<1> QED
  BY <1>1, <1>3, <1>4 DEF ListsAre

LEMMA OneMore ==
    ASSUME NEW S, NEW q \in Seq(S), NEW x \in S, NEW r \in Seq(S),
           Len(r) = Len(q) + 1, \A i \in 1..Len(q) : r[i] = q[i], r[Len(q) + 1] = x
    PROVE  r = Append(q, x)
<1>1. Append(q, x) \in Seq(S) /\ Len(Append(q, x)) = Len(q) + 1 /\ Len(q) \in Nat
      /\ \A i \in 1..Len(q) : Append(q, x)[i] = q[i]
      /\ Append(q, x)[Len(q) + 1] = x
  BY AppendProperties, LenProperties
<1>2. \A i \in 1..(Len(q) + 1) : r[i] = Append(q, x)[i]
  BY <1>1
<1> QED
  BY <1>1, <1>2, SeqEqual

(* The earlier answers are what they were. *)
LEMMA GivenStays ==
    ASSUME HttpInv, HttpInv', [Next]_vars
    PROVE  \A i \in 1..Len(answers) : Given'[i] = Given[i]
<1> USE DEF HttpInv
<1> TAKE i \in 1..Len(answers)
<1>1. /\ i \in 1..Len(answers') /\ answers'[i] = answers[i]
      /\ i \in 1..Len(sent) /\ sent'[i] = sent[i]
      /\ i <= Len(served) => served'[i] = served[i]
  BY ListsGrow DEF Counted
<1>2. answers[i] = "400" \/ i <= Len(served)
  BY ElementOfSeq DEF TypeOK, Counted
<1>3. Answered(i)' = Answered(i)
  BY <1>1, <1>2 DEF Answered
<1> QED
  BY <1>1, <1>3 DEF Given

(* A step that answers answers the oldest request that has none. *)
LEMMA StepAnswers ==
    ASSUME HttpInv, HttpInv', [Next]_vars, NEW x \in Pairs, sent' = sent,
           Len(answers') = Len(answers) + 1, Len(answers) < Len(sent),
           NEW n, n = Len(answers) + 1, Answered(n)' = x
    PROVE  /\ Given' = Append(Given, x)
           /\ Asks' = Asks
           /\ Len(Given) < Len(Asks)
           /\ Asks[Len(Given) + 1] = Asked(sent[Len(answers) + 1])
<1>1. ListsAre
  BY ListsTyped DEF HttpInv
<1>2. ListsAre'
  <2>1. (TypeOK /\ Counted => ListsAre)'
    BY ListsTyped, PTL
  <2> QED
    BY <2>1 DEF HttpInv
<1>3. Given'[Len(Given) + 1] = x
  <2>1. n \in 1..Len(answers') /\ Len(Given) + 1 = n
    BY <1>1 DEF ListsAre
  <2> QED
    BY <2>1 DEF Given
<1>4. Given' = Append(Given, x)
  BY <1>1, <1>2, <1>3, GivenStays, OneMore DEF ListsAre
<1>5. Asks[Len(Given) + 1] = Asked(sent[Len(answers) + 1])
  BY <1>1 DEF Asks, ListsAre
<1>6. Asks' = Asks
  BY DEF Asks, Asked
<1> QED
  BY <1>1, <1>4, <1>5, <1>6 DEF ListsAre

LEMMA ServiceStep ==
    ASSUME HttpInv, HttpInv', [Next]_vars
    PROVE  [Service!Next]_(Service!vars)
<1> USE DEF HttpInv
<1>1. ListsAre
  BY ListsTyped
<1>2. ASSUME answers' = answers PROVE Given' = Given
  <2>1. Len(answers) \in Nat
    BY <1>1 DEF ListsAre
  <2>2. \A i \in 1..Len(answers) : Answered(i)' = Answered(i)
    BY <1>2, GivenStays DEF Given
  <2> QED
    BY <1>2, <2>2 DEF Given
<1>3. ASSUME sent' = sent, answers' = answers, closed' = closed
      PROVE  UNCHANGED Service!vars
  <2>1. Given' = Given /\ Asks' = Asks
    BY <1>2, <1>3 DEF Asks, Asked
  <2> QED
    BY <1>3, <2>1 DEF Service!vars, Given, Asks
<1>4. ASSUME NEW m \in Messages, ClientSends(m)
      PROVE  Service!Next
  <2>1. /\ Len(sent') = Len(sent) + 1 /\ sent'[Len(sent) + 1] = m
        /\ \A i \in 1..Len(sent) : sent'[i] = sent[i]
    BY <1>4, AppendProperties DEF ClientSends, TypeOK
  <2>2. ListsAre'
    <3>1. (TypeOK /\ Counted => ListsAre)'
      BY ListsTyped, PTL
    <3> QED
      BY <3>1
  <2>3. /\ \A i \in 1..Len(Asks) : Asks'[i] = Asks[i]
        /\ Asks'[Len(Asks) + 1] = Asked(m)
        /\ Len(Asks') = Len(Asks) + 1
    <3>1. Len(Asks) = Len(sent) /\ Len(Asks') = Len(sent') /\ Len(sent) \in Nat
      BY <1>1, <2>2 DEF ListsAre
    <3>2. \A i \in 1..Len(sent) : Asks[i] = Asked(sent[i])
      BY DEF Asks
    <3>3. \A i \in 1..Len(sent') : Asks'[i] = Asked(sent'[i])
      BY DEF Asks, Asked
    <3> QED
      BY <2>1, <3>1, <3>2, <3>3
  <2>4. Asks' = Append(Asks, Asked(m))
    BY <1>1, <2>2, <2>3, AskedTyped, OneMore DEF ListsAre
  <2>5. Given' = Given /\ closed' = closed
    BY <1>2, <1>4 DEF ClientSends
  <2>6. Service!Ask(Asked(m))
    BY <2>4, <2>5 DEF Service!Ask, Asks, Given
  <2> QED
    BY <2>6 DEF Service!Next
<1>5. ASSUME Error, ~closed PROVE Service!Next
  <2>1. PICK n : n = Len(answers) + 1
    OBVIOUS
  <2>2. Len(served) < Len(sent) /\ ~sent[n].ok /\ Len(answers) = Len(served)
    BY <1>5, <2>1, RefusesBad DEF Counted
  <2>3. /\ Len(answers') = Len(answers) + 1 /\ answers'[n] = "400"
        /\ sent' = sent /\ closed'
    BY <1>5, <2>1, AppendProperties DEF Error, Write, clientVars, TypeOK
  <2>4. Answered(n)' = <<"400", <<>>>> /\ <<"400", <<>>>> \in Pairs
    BY <2>3, EmptySeq DEF Answered, Pairs
  <2>5. /\ Given' = Append(Given, <<"400", <<>>>>) /\ Asks' = Asks
        /\ Len(Given) < Len(Asks) /\ Asks[Len(Given) + 1] = Asked(sent[n])
    BY <2>1, <2>2, <2>3, <2>4, StepAnswers
  <2>6. Asked(sent[n]) = <<"malformed", <<>>>>
    BY <2>2 DEF Asked
  <2>7. Service!Waiting /\ Service!Oldest = <<"malformed", <<>>>>
    BY <2>5, <2>6 DEF Service!Waiting, Service!Oldest, Asks, Given
  <2>8. Service!Refuse
    BY <1>5, <2>3, <2>5, <2>7 DEF Service!Refuse, Asks, Given, TypeOK
  <2> QED
    BY <2>8 DEF Service!Next
<1>6. ASSUME NEW h \in Handlers, Dispatch(h), ~closed PROVE Service!Next
  <2>1. PICK n : n = Len(answers) + 1
    OBVIOUS
  <2>2. PICK m : m = sent[n]
    OBVIOUS
  <2>3. /\ Len(served) < Len(sent) /\ Len(answers) = Len(served)
        /\ m \in Messages /\ m.ok /\ method = m.method
        /\ m.body # <<>> => content = m.body
    BY <1>6, <2>1, <2>2, ServesOwn DEF Counted
  <2>4. /\ Len(answers') = Len(answers) + 1 /\ answers'[n] = "answer" /\ sent' = sent
    BY <1>6, <2>1, AppendProperties DEF Dispatch, Write, clientVars, TypeOK
  <2>5. served'[n] = [method |-> method, body |-> content, handler |-> h]
    <3>1. [method |-> method, body |-> content, handler |-> h]
            \in [method : {"get", "post"}, body : Seq(Tokens), handler : Handlers]
      BY <1>6 DEF Dispatch, MethodIsKnown, TypeOK
    <3> QED
      BY <1>6, <2>1, <2>3, <3>1, AppendProperties DEF Dispatch, TypeOK
  <2>6. Answered(n)' = <<m.method, m.body>>
    BY <2>2, <2>3, <2>4, <2>5 DEF Answered
  <2>7. Asked(m) = <<m.method, m.body>> /\ Asked(m) \in Pairs /\ Asked(m) # <<"malformed", <<>>>>
    BY <2>3, AskedTyped DEF Asked
  <2>8. /\ Given' = Append(Given, Asked(m)) /\ Asks' = Asks
        /\ Len(Given) < Len(Asks) /\ Asks[Len(Given) + 1] = Asked(m)
    BY <2>1, <2>2, <2>3, <2>4, <2>6, <2>7, StepAnswers
  <2>9. Service!Waiting /\ Service!Oldest = Asked(m) /\ closed' \in BOOLEAN
    BY <2>8 DEF Service!Waiting, Service!Oldest, Asks, Given, TypeOK
  <2>10. Service!Answer
    BY <1>6, <2>7, <2>8, <2>9 DEF Service!Answer, Asks, Given
  <2> QED
    BY <2>10 DEF Service!Next
<1>7. ASSUME closed, Error \/ \E h \in Handlers : Dispatch(h)
      PROVE  UNCHANGED Service!vars
  BY <1>3, <1>7 DEF Error, Dispatch, Write, clientVars, TypeOK
<1> QED
  BY <1>3, <1>4, <1>5, <1>6, <1>7, VisibleSteps DEF AssertionFails, clientVars

(* Whatever the client sends and however it is cut, the connection answers *)
(* its messages in their order, each at most once and with its own method  *)
(* and body; a 400 answers a malformed one only, and ends all.             *)
THEOREM HttpIsService == Spec => ServiceSpec
<1>1. Init => Service!Init
  <2> SUFFICES ASSUME Init PROVE Service!Init
    OBVIOUS
  <2>1. Len(sent) = 0 /\ Len(answers) = 0 /\ closed = FALSE
    BY EmptySeq DEF Init
  <2>2. Asks = <<>> /\ Given = <<>>
    BY <2>1 DEF Asks, Given
  <2> QED
    BY <2>1, <2>2 DEF Service!Init, Asks, Given
<1>2. HttpInv /\ HttpInv' /\ [Next]_vars => [Service!Next]_(Service!vars)
  BY ServiceStep
<1> QED
  BY <1>1, <1>2, HttpInvariant, PTL DEF Spec, ServiceSpec, Service!Spec

(***************************************************************************)
(* RequestRouting: the tables and the calls                                *)
(***************************************************************************)
OfKind(cs, kind) == {i \in DOMAIN cs : cs[i].kind = kind}
KeyOf(c)         == <<c.method, c.path>>

(* An exact table has every key that was registered, with the target of    *)
(* the last of the calls cs for it.                                        *)
TableIs(table, cs, kind) ==
    /\ \A i \in OfKind(cs, kind) : KeyOf(cs[i]) \in DOMAIN table
    /\ \A k \in DOMAIN table : \E i \in OfKind(cs, kind) :
            /\ KeyOf(cs[i]) = k
            /\ table[k] = cs[i].target
            /\ \A j \in OfKind(cs, kind) : KeyOf(cs[j]) = k => j <= i

(* A list of patterns has the routes that were registered, in their order: *)
(* f says with which call.                                                 *)
ListIs(list, cs, kind) ==
    \E f \in [1..Len(list) -> OfKind(cs, kind)] :
        /\ \A a, b \in 1..Len(list) : a < b => f[a] < f[b]
        /\ \A i \in OfKind(cs, kind) : \E a \in 1..Len(list) : f[a] = i
        /\ \A a \in 1..Len(list) : list[a] = Dynamic(cs[f[a]])

TablesInv ==
    /\ TableIs(handlers, calls, "handler")
    /\ TableIs(callbacks, calls, "callback")
    /\ ListIs(regexHandlers, calls, "regexHandler")
    /\ ListIs(regexCallbacks, calls, "regexCallback")

(* No table changes under an answer: the server has started. *)
AnswersWhenStarted == answer # NoAnswer => started

(* The least element of a set of numbers, where there is one. *)
LEMMA MinIs ==
    ASSUME NEW S, S \subseteq Int, NEW n \in S, \A k \in S : n <= k
    PROVE  Min(S) = n
<1>1. \E x \in S : \A k \in S : x <= k
  OBVIOUS
<1>2. Min(S) = CHOOSE x \in S : \A k \in S : x <= k
  BY DEF Min
<1>3. Min(S) \in S /\ \A k \in S : Min(S) <= k
  BY <1>1, <1>2
<1>4. n <= Min(S) /\ Min(S) <= n /\ n \in Int /\ Min(S) \in Int
  BY <1>3
<1> QED
  BY <1>4

LEMMA LeastIs ==
    ASSUME NEW S, S \subseteq Nat, S # {}
    PROVE  \E n \in S : \A k \in S : n <= k
<1> DEFINE R == OpToRel(<, Nat)
<1>1. \A x, y \in Nat : x < y => <<x, y>> \in R
  BY DEF OpToRel
<1>2. IsWellFoundedOn(R, Nat)
  BY NatLessThanWellFounded
<1> HIDE DEF R
<1>3. PICK n \in S : \A k \in S : ~ (<<k, n>> \in R)
  BY <1>2, WFMin
<1>4. \A k \in S : n <= k
  <2> TAKE k \in S
  <2>1. n \in Nat /\ k \in Nat
    OBVIOUS
  <2>2. ~ (k < n)
    BY <1>1, <1>3, <2>1
  <2> QED
    BY <2>1, <2>2
<1> QED
  BY <1>4

LEMMA CallsTyped ==
    ASSUME RoutingTypeOK
    PROVE  /\ DOMAIN calls = 1..Len(calls) /\ Len(calls) \in Nat
           /\ \A i \in DOMAIN calls : calls[i] \in Call /\ calls[i].target \in Targets
<1>1. /\ DOMAIN calls = 1..Len(calls) /\ Len(calls) \in Nat
      /\ \A i \in DOMAIN calls : calls[i] \in Call
  BY LenProperties, ElementOfSeq DEF RoutingTypeOK
<1>2. \A c \in Call : c.target \in Targets
  BY DEF Call
<1> QED
  BY <1>1, <1>2

(* What the exact tables give. *)
LEMMA LookupIs ==
    ASSUME RoutingTypeOK, NEW kind \in {"handler", "callback"},
           NEW table, TableIs(table, calls, kind),
           NEW req \in Request
    PROVE  /\ Lookup(table, req) =
             IF Taking(kind, req) = {} THEN NoTarget ELSE Latest(Taking(kind, req))
           /\ Taking(kind, req) # {} => Latest(Taking(kind, req)) \in Targets
<1> DEFINE key == <<req.method, req.path>>
           S == Taking(kind, req)
<1>1. S = {i \in OfKind(calls, kind) : KeyOf(calls[i]) = key}
  BY DEF Taking, OfKind, KeyOf
<1>2. S \subseteq Int
  BY CallsTyped DEF Taking
<1>3. CASE key \in DOMAIN table
  <2>1. PICK i \in OfKind(calls, kind) :
          /\ KeyOf(calls[i]) = key
          /\ table[key] = calls[i].target
          /\ \A j \in OfKind(calls, kind) : KeyOf(calls[j]) = key => j <= i
    BY <1>3 DEF TableIs
  <2>2. i \in S /\ \A j \in S : j <= i
    BY <1>1, <2>1
  <2>3. Max(S) = i
    BY <1>2, <2>2, MaxIs
  <2> QED
    BY <1>3, <2>1, <2>2, <2>3, CallsTyped DEF Lookup, Latest, OfKind
<1>4. CASE key \notin DOMAIN table
  <2>1. S = {}
    BY <1>1, <1>4 DEF TableIs
  <2> QED
    BY <1>4, <2>1 DEF Lookup
<1> QED
  BY <1>3, <1>4

(* What the lists of patterns give. *)
LEMMA FirstMatchIs ==
    ASSUME RoutingTypeOK, NEW kind \in {"regexHandler", "regexCallback"}, NEW list \in Seq(Route),
           ListIs(list, calls, kind), NEW req \in Request
    PROVE  /\ FirstMatch(list, req) =
             IF Taking(kind, req) = {} THEN NoTarget ELSE First(Taking(kind, req))
           /\ Taking(kind, req) # {} => First(Taking(kind, req)) \in Targets
<1> DEFINE S == Taking(kind, req)
           T == TakenBy(list, req)
<1>1. Len(list) \in Nat /\ DOMAIN list = 1..Len(list)
  BY LenProperties
<1>2. PICK f \in [1..Len(list) -> OfKind(calls, kind)] :
        /\ \A a, b \in 1..Len(list) : a < b => f[a] < f[b]
        /\ \A i \in OfKind(calls, kind) : \E a \in 1..Len(list) : f[a] = i
        /\ \A a \in 1..Len(list) : list[a] = Dynamic(calls[f[a]])
  BY DEF ListIs
<1>3. \A i \in OfKind(calls, kind) : i \in S <=>
        calls[i].method = req.method /\ req.path \in Match[calls[i].path]
  BY DEF Taking, OfKind
<1>4. S \subseteq OfKind(calls, kind) /\ OfKind(calls, kind) \subseteq Int
  BY CallsTyped DEF Taking, OfKind
<1>5. \A a \in 1..Len(list) : a \in T <=> f[a] \in S
  BY <1>1, <1>2, <1>3 DEF TakenBy, Dynamic
<1>6. T \subseteq 1..Len(list)
  BY <1>1 DEF TakenBy
<1>7. CASE T = {}
  <2>1. S = {}
    BY <1>2, <1>4, <1>5, <1>7
  <2> QED
    BY <1>7, <2>1 DEF FirstMatch
<1>8. CASE T # {}
  <2>1. PICK a \in T : \A b \in T : a <= b
    BY <1>1, <1>6, <1>8, LeastIs
  <2>2. Min(T) = a
    BY <1>1, <1>6, <2>1, MinIs
  <2>3. f[a] \in S /\ \A i \in S : f[a] <= i
    <3>1. f[a] \in S
      BY <1>5, <1>6
    <3>2. ASSUME NEW i \in S PROVE f[a] <= i
      <4>1. PICK b \in 1..Len(list) : f[b] = i
        BY <1>2, <1>4
      <4>2. b \in T /\ a <= b /\ a \in 1..Len(list)
        BY <1>5, <1>6, <2>1, <4>1
      <4>3. f[a] \in Int /\ f[b] \in Int
        BY <1>2, <1>4, <4>2
      <4> QED
        BY <1>2, <4>1, <4>2, <4>3
    <3> QED
      BY <3>1, <3>2
  <2>4. Min(S) = f[a]
    BY <1>4, <2>3, MinIs
  <2>5. list[a].target = calls[f[a]].target
    <3>1. a \in 1..Len(list) /\ list[a] = Dynamic(calls[f[a]])
      BY <1>2, <1>6
    <3> QED
      BY <3>1 DEF Dynamic
  <2> QED
    BY <1>8, <2>2, <2>3, <2>4, <2>5, CallsTyped DEF FirstMatch, First, Taking
<1> QED
  BY <1>7, <1>8

(* The first of four places that holds anything but x. *)
LEMMA FirstOfFour ==
    ASSUME NEW f, NEW x, NEW hits, hits = {i \in 1..4 : f[i] # x},
           NEW y, y = IF hits = {} THEN x ELSE f[Min(hits)]
    PROVE  y = IF f[1] # x THEN f[1]
               ELSE IF f[2] # x THEN f[2]
               ELSE IF f[3] # x THEN f[3]
               ELSE f[4]
<1>1. \A i : i \in 1..4 <=> i = 1 \/ i = 2 \/ i = 3 \/ i = 4
  OBVIOUS
<1>2. hits \subseteq Int
  OBVIOUS
<1>3. CASE f[1] # x
  <2>1. 1 \in hits /\ \A k \in hits : 1 <= k
    BY <1>3
  <2>2. Min(hits) = 1
    BY <1>2, <2>1, MinIs
  <2> QED
    BY <1>3, <2>1, <2>2
<1>4. CASE f[1] = x /\ f[2] # x
  <2>1. 2 \in hits /\ \A k \in hits : k = 2 \/ k = 3 \/ k = 4
    BY <1>1, <1>4
  <2>2. \A k \in hits : 2 <= k
    BY <2>1
  <2>3. Min(hits) = 2
    BY <1>2, <2>1, <2>2, MinIs
  <2> QED
    BY <1>4, <2>1, <2>3
<1>5. CASE f[1] = x /\ f[2] = x /\ f[3] # x
  <2>1. 3 \in hits /\ \A k \in hits : k = 3 \/ k = 4
    BY <1>1, <1>5
  <2>2. \A k \in hits : 3 <= k
    BY <2>1
  <2>3. Min(hits) = 3
    BY <1>2, <2>1, <2>2, MinIs
  <2> QED
    BY <1>5, <2>1, <2>3
<1>6. CASE f[1] = x /\ f[2] = x /\ f[3] = x /\ f[4] # x
  <2>1. 4 \in hits /\ \A k \in hits : k = 4
    BY <1>1, <1>6
  <2>2. Min(hits) = 4
    BY <1>2, <2>1, MinIs
  <2> QED
    BY <1>6, <2>1, <2>2
<1>7. CASE f[1] = x /\ f[2] = x /\ f[3] = x /\ f[4] = x
  <2>1. hits = {}
    BY <1>1, <1>7
  <2> QED
    BY <1>7, <2>1
<1> QED
  BY <1>3, <1>4, <1>5, <1>6, <1>7

(* Router::route() gives what the order of the calls prescribes.           *)
LEMMA FoundIs ==
    ASSUME RoutingTypeOK, TablesInv, NEW req \in Request
    PROVE  /\ Found(req) =
                IF Taking("handler", req) # {} THEN Latest(Taking("handler", req))
                ELSE IF Taking("callback", req) # {} THEN Latest(Taking("callback", req))
                ELSE IF Taking("regexHandler", req) # {} THEN First(Taking("regexHandler", req))
                ELSE IF Taking("regexCallback", req) # {} THEN First(Taking("regexCallback", req))
                ELSE NoTarget
           /\ Found(req) \in Targets \cup {NoTarget}
<1> DEFINE c1 == Lookup(handlers, req)
           c2 == Lookup(callbacks, req)
           c3 == FirstMatch(regexHandlers, req)
           c4 == FirstMatch(regexCallbacks, req)
<1>1. /\ c1 = IF Taking("handler", req) = {} THEN NoTarget ELSE Latest(Taking("handler", req))
      /\ Taking("handler", req) # {} => Latest(Taking("handler", req)) \in Targets
  BY LookupIs DEF TablesInv
<1>2. /\ c2 = IF Taking("callback", req) = {} THEN NoTarget ELSE Latest(Taking("callback", req))
      /\ Taking("callback", req) # {} => Latest(Taking("callback", req)) \in Targets
  BY LookupIs DEF TablesInv
<1>3. /\ c3 = IF Taking("regexHandler", req) = {} THEN NoTarget
              ELSE First(Taking("regexHandler", req))
      /\ Taking("regexHandler", req) # {} => First(Taking("regexHandler", req)) \in Targets
  BY FirstMatchIs DEF TablesInv, RoutingTypeOK
<1>4. /\ c4 = IF Taking("regexCallback", req) = {} THEN NoTarget
              ELSE First(Taking("regexCallback", req))
      /\ Taking("regexCallback", req) # {} => First(Taking("regexCallback", req)) \in Targets
  BY FirstMatchIs DEF TablesInv, RoutingTypeOK
<1>5. NoTarget \notin Targets
  BY RoutingAssumption
<1>6. Found(req) = IF c1 # NoTarget THEN c1
                   ELSE IF c2 # NoTarget THEN c2
                   ELSE IF c3 # NoTarget THEN c3
                   ELSE c4
  <2>1. /\ Candidates(req)[1] = c1
        /\ Candidates(req)[2] = c2
        /\ Candidates(req)[3] = c3
        /\ Candidates(req)[4] = c4
    BY DEF Candidates
  <2>2. PICK f : f = Candidates(req)
    OBVIOUS
  <2>3. PICK hits : hits = {i \in 1..4 : f[i] # NoTarget}
    OBVIOUS
  <2>4. PICK y : y = Found(req)
    OBVIOUS
  <2>5. y = IF hits = {} THEN NoTarget ELSE f[Min(hits)]
    BY <2>2, <2>3, <2>4 DEF Found
  <2>6. y = IF f[1] # NoTarget THEN f[1]
            ELSE IF f[2] # NoTarget THEN f[2]
            ELSE IF f[3] # NoTarget THEN f[3]
            ELSE f[4]
    BY ONLY <2>3, <2>5, FirstOfFour
  <2> QED
    BY <2>1, <2>2, <2>4, <2>6
<1> QED
  BY <1>1, <1>2, <1>3, <1>4, <1>5, <1>6

(***************************************************************************)
(* RequestRouting: type correctness                                        *)
(***************************************************************************)
(* setBody() gives a response the length of its body.                      *)
LEMMA SetBodyIs ==
    ASSUME NEW r \in Response, NEW n \in 0..1
    PROVE  /\ SetBody(r, n) \in Response
           /\ SetBody(r, n).status = r.status
           /\ SetBody(r, n).length = SetBody(r, n).body
<1>1. PICK p : p = [r EXCEPT !.body = n]
  OBVIOUS
<1>2. p \in Response /\ p.status = r.status /\ p.body = n
  BY <1>1 DEF Response
<1>3. PICK q : q = [p EXCEPT !.length = n]
  OBVIOUS
<1>4. q \in Response /\ q.status = r.status /\ q.body = n /\ q.length = n
  BY <1>2, <1>3 DEF Response, NoLength
<1>5. q = SetBody(r, n)
  BY <1>1, <1>3 DEF SetBody
<1> QED
  BY <1>4, <1>5

Statuses == {0, 200, 204, 400, 401, 403, 404, 409, 500}

(* setStatusLine(), setCloseConnection(), setContentLength()               *)
LEMMA FilledIs ==
    ASSUME NEW r \in Response, NEW status \in Statuses \ {0}, NEW close \in BOOLEAN, NEW n \in 0..1
    PROVE  Filled(r, status, close, n) \in Response /\ Complete(Filled(r, status, close, n))
<1>1. PICK r1 : r1 = [r EXCEPT !.status = status]
  OBVIOUS
<1>2. r1 \in Response /\ r1.status = status
  BY <1>1 DEF Response, Statuses
<1>3. PICK r2 : r2 = [r1 EXCEPT !.close = close]
  OBVIOUS
<1>4. r2 \in Response /\ r2.status = status
  BY <1>2, <1>3 DEF Response
<1>5. PICK r3 : r3 = [r2 EXCEPT !.length = n]
  OBVIOUS
<1>6. r3 \in Response /\ r3.status = status
  BY <1>4, <1>5 DEF Response, NoLength
<1>7. r3 = [r EXCEPT !.status = status, !.close = close, !.length = n]
  BY <1>1, <1>3, <1>5
<1>8. Filled(r, status, close, n) = SetBody(r3, n)
  BY <1>7 DEF Filled
<1>9. status # 0
  BY DEF Statuses
<1> QED
  BY <1>6, <1>8, <1>9, SetBodyIs DEF Complete

(* The catch block of handleRequest()                                      *)
LEMMA ErrorIs ==
    ASSUME NEW r \in Response
    PROVE  InternalError(r) \in Response /\ Complete(InternalError(r))
<1>1. PICK e : e = [r EXCEPT !.status = 500]
  OBVIOUS
<1>2. e \in Response /\ e.status = 500
  BY <1>1 DEF Response
<1>3. InternalError(r) = SetBody(e, 1)
  BY <1>1 DEF InternalError
<1> QED
  BY <1>2, <1>3, SetBodyIs DEF Complete

(* Whatever handler runs, its answer is a response, and complete unless it *)
(* is the one packageResp() left as it was.                                *)
LEMMA AnswersAre ==
    ASSUME NEW blank \in Response, NEW r \in Answers(blank)
    PROVE  r \in Response /\ (Complete(r) \/ r = blank)
<1>1. PICK Good : Good = {x \in Response : Complete(x) \/ x = blank}
  OBVIOUS
<1>2. blank \in Good /\ InternalError(blank) \in Good
  BY <1>1, ErrorIs
<1>3. PICK S : S = Statuses \ {0}
  OBVIOUS
<1>4. 200 \in S /\ 400 \in S /\ 401 \in S /\ 403 \in S /\ 409 \in S
  BY <1>3 DEF Statuses
<1>5. PICK yes \in BOOLEAN, no \in BOOLEAN : yes = TRUE /\ no = FALSE
  OBVIOUS
<1>6. PICK zero \in 0..1, one \in 0..1 : zero = 0 /\ one = 1
  OBVIOUS
<1>7. /\ \A status \in S : Filled(blank, status, TRUE, 0) \in Good
      /\ \A status \in S : Filled(blank, status, TRUE, 1) \in Good
      /\ \A status \in S : Filled(blank, status, FALSE, 0) \in Good
      /\ \A status \in S : Filled(blank, status, FALSE, 1) \in Good
  <2>1. /\ \A status \in S : Filled(blank, status, yes, zero) \in Good
        /\ \A status \in S : Filled(blank, status, yes, one) \in Good
        /\ \A status \in S : Filled(blank, status, no, zero) \in Good
        /\ \A status \in S : Filled(blank, status, no, one) \in Good
    BY <1>1, <1>3, FilledIs
  <2> QED
    BY ONLY <1>5, <1>6, <2>1
<1>8. GuardedAnswers(blank) \cup LoginAnswers(blank) \cup LogoutAnswers(blank)
        \cup RegisterAnswers(blank) \cup EntryAnswers(blank) \subseteq Good
  <2>1. Filled(blank, 200, FALSE, 0) \in Good
    BY ONLY <1>4, <1>7, ZenonT(30)
  <2>2. Filled(blank, 200, FALSE, 1) \in Good
    BY ONLY <1>4, <1>7, ZenonT(30)
  <2>3. Filled(blank, 200, TRUE, 1) \in Good
    BY ONLY <1>4, <1>7, ZenonT(30)
  <2>4. Filled(blank, 400, TRUE, 0) \in Good
    BY ONLY <1>4, <1>7, ZenonT(30)
  <2>5. Filled(blank, 400, TRUE, 1) \in Good
    BY ONLY <1>4, <1>7, ZenonT(30)
  <2>6. Filled(blank, 401, FALSE, 1) \in Good
    BY ONLY <1>4, <1>7, ZenonT(30)
  <2>7. Filled(blank, 403, TRUE, 1) \in Good
    BY ONLY <1>4, <1>7, ZenonT(30)
  <2>8. Filled(blank, 409, FALSE, 1) \in Good
    BY ONLY <1>4, <1>7, ZenonT(30)
  <2>9. Failure(blank) \in Good /\ PackageResp(blank, 401) \in Good
    <3>1. Failure(blank) \in Good
      BY ONLY <2>5 DEF Failure
    <3>2. PackageResp(blank, 401) \in Good
      BY ONLY <1>2 DEF PackageResp
    <3> QED
      BY ONLY <3>1, <3>2
  <2>10. GuardedAnswers(blank) \subseteq Good
    <3>1. PICK unauthorized : unauthorized = PackageResp(blank, 401)
      OBVIOUS
    <3>2. PICK done : done = Filled(blank, 200, FALSE, 1)
      OBVIOUS
    <3>3. PICK failed : failed = Failure(blank)
      OBVIOUS
    <3>4. GuardedAnswers(blank) = {unauthorized, done, failed}
      BY ONLY <3>1, <3>2, <3>3 DEF GuardedAnswers
    <3>5. unauthorized \in Good /\ done \in Good /\ failed \in Good
      BY ONLY <2>2, <2>9, <3>1, <3>2, <3>3
    <3> QED
      BY ONLY <3>4, <3>5
  <2>11. LoginAnswers(blank) \subseteq Good
    <3>1. PICK missing : missing = Filled(blank, 400, TRUE, 0)
      OBVIOUS
    <3>2. PICK welcome : welcome = Filled(blank, 200, FALSE, 1)
      OBVIOUS
    <3>3. PICK already : already = Filled(blank, 403, TRUE, 1)
      OBVIOUS
    <3>4. PICK wrong : wrong = Filled(blank, 401, FALSE, 1)
      OBVIOUS
    <3>5. PICK failed : failed = Failure(blank)
      OBVIOUS
    <3>6. LoginAnswers(blank) = {missing, welcome, already, wrong, failed}
      BY ONLY <3>1, <3>2, <3>3, <3>4, <3>5 DEF LoginAnswers
    <3>7. missing \in Good /\ welcome \in Good /\ already \in Good /\ wrong \in Good
      BY ONLY <2>2, <2>4, <2>6, <2>7, <3>1, <3>2, <3>3, <3>4
    <3>8. failed \in Good
      BY ONLY <2>9, <3>5
    <3> QED
      BY ONLY <3>6, <3>7, <3>8
  <2>12. LogoutAnswers(blank) \subseteq Good
    <3>1. PICK missing : missing = Filled(blank, 400, TRUE, 0)
      OBVIOUS
    <3>2. PICK goodbye : goodbye = Filled(blank, 200, TRUE, 1)
      OBVIOUS
    <3>3. PICK failed : failed = Failure(blank)
      OBVIOUS
    <3>4. LogoutAnswers(blank) = {missing, goodbye, failed}
      BY ONLY <3>1, <3>2, <3>3 DEF LogoutAnswers
    <3>5. missing \in Good /\ goodbye \in Good /\ failed \in Good
      BY ONLY <2>3, <2>4, <2>9, <3>1, <3>2, <3>3
    <3> QED
      BY ONLY <3>4, <3>5
  <2>13. RegisterAnswers(blank) \subseteq Good
    <3>1. PICK stored : stored = Filled(blank, 200, FALSE, 1)
      OBVIOUS
    <3>2. PICK taken : taken = Filled(blank, 409, FALSE, 1)
      OBVIOUS
    <3>3. RegisterAnswers(blank) = {stored, taken, InternalError(blank)}
      BY ONLY <3>1, <3>2 DEF RegisterAnswers
    <3>4. stored \in Good /\ taken \in Good
      BY ONLY <2>2, <2>8, <3>1, <3>2
    <3> QED
      BY ONLY <1>2, <3>3, <3>4
  <2>14. EntryAnswers(blank) \subseteq Good
    <3>1. \A n \in 0..1 : n = 0 \/ n = 1
      OBVIOUS
    <3> QED
      BY ONLY <1>2, <2>1, <2>2, <3>1 DEF EntryAnswers
  <2> QED
    BY <2>10, <2>11, <2>12, <2>13, <2>14
<1>9. r \in Good
  BY <1>8 DEF Answers
<1> QED
  BY <1>1, <1>9

LEMMA BlankIs ==
    ASSUME NEW close \in BOOLEAN
    PROVE  NewResponse(close) \in Response
BY DEF NewResponse, Response, NoLength

(* The middleware's answer and that to a missing route.                    *)
Bare(status) == [NewResponse(TRUE) EXCEPT !.status = status]

LEMMA NoRouteAnswers ==
    ASSUME NEW status \in {204, 403, 404}
    PROVE  /\ Bare(status) \in Response
           /\ Bare(status).status = status
           /\ Complete(Bare(status))
<1>1. PICK close \in BOOLEAN : close = TRUE
  OBVIOUS
<1>2. PICK blank : blank = NewResponse(close)
  OBVIOUS
<1>3. blank = [status |-> 0, close |-> close, length |-> 2, body |-> 0]
  BY <1>2 DEF NewResponse, NoLength
<1>4. PICK r : r = [blank EXCEPT !.status = status]
  OBVIOUS
<1>5. r = [status |-> status, close |-> close, length |-> 2, body |-> 0]
  BY ONLY <1>3, <1>4
<1>6. status \in {204, 403, 404} /\ close \in BOOLEAN
  OBVIOUS
<1>7. r \in Response /\ r.status = status /\ r.close = close
  BY ONLY <1>5, <1>6 DEF Response, NoLength
<1>8. status # 0
  OBVIOUS
<1>9. Bare(status) = r
  BY <1>1, <1>2, <1>4 DEF Bare
<1>10. Complete(r)
  BY ONLY <1>1, <1>7, <1>8 DEF Complete
<1> QED
  BY ONLY <1>7, <1>9, <1>10

(* An exact table stays typed.                                             *)
LEMMA PutTyped ==
    ASSUME NEW table, DOMAIN table \subseteq Keys, table \in [DOMAIN table -> Targets],
           NEW m \in Methods, NEW p \in Paths, NEW t \in Targets, NEW new, new = Put(table, m, p, t)
    PROVE  DOMAIN new \subseteq Keys /\ new \in [DOMAIN new -> Targets]
BY DEF Put, Keys

LEMMA CallTyped ==
    ASSUME NEW c \in Call
    PROVE  /\ c.method \in Methods /\ c.target \in Targets
           /\ c.kind \in {"handler", "callback"} => c.path \in Paths
           /\ c.kind \in {"regexHandler", "regexCallback"} => Dynamic(c) \in Route
BY DEF Call, Dynamic, Route

(* What is said of an answer that has been given.                          *)
LEMMA Responds ==
    ASSUME NEW req \in Request, NEW by \in Targets \cup {NoTarget}, NEW cors \in BOOLEAN,
           NEW r \in Response, by = NoTarget => r.status \in {204, 403, 404},
           RoutingTypeOK, Respond(req, by, cors, r)
    PROVE  RoutingTypeOK'
<1>1. answer' = [req |-> req, by |-> by, cors |-> cors, response |-> r]
  BY DEF Respond
<1>2. answer' \in [req : Request, by : Targets \cup {NoTarget}, cors : BOOLEAN, response : Response]
  BY <1>1
<1>3. answer'.by = NoTarget => answer'.response.status \in {204, 403, 404}
  BY <1>1
<1> QED
  BY <1>2, <1>3 DEF Respond, RoutingTypeOK, tables

(* Type correctness of the registration calls and of every answer; what no *)
(* route answered is a preflight or a 404.                                 *)
LEMMA RoutingTypedStep ==
    RoutingTypeOK /\ TablesInv /\ [RoutingNext]_routingVars => RoutingTypeOK'
<1> SUFFICES ASSUME RoutingTypeOK, TablesInv, [RoutingNext]_routingVars PROVE RoutingTypeOK'
  OBVIOUS
<1>0. RoutingTypeOK
  OBVIOUS
<1>1. ASSUME NEW c \in Call, RegisterHandler(c) PROVE RoutingTypeOK'
  <2>1. DOMAIN handlers' \subseteq Keys /\ handlers' \in [DOMAIN handlers' -> Targets]
    BY <1>1, CallTyped, PutTyped DEF RegisterHandler, RoutingTypeOK
  <2>2. calls' \in Seq(Call)
    BY <1>1 DEF RegisterHandler, Registering, RoutingTypeOK
  <2> QED
    BY <1>1, <2>1, <2>2 DEF RegisterHandler, Registering, RoutingTypeOK
<1>2. ASSUME NEW c \in Call, RegisterCallback(c) PROVE RoutingTypeOK'
  <2>1. DOMAIN callbacks' \subseteq Keys /\ callbacks' \in [DOMAIN callbacks' -> Targets]
    BY <1>2, CallTyped, PutTyped DEF RegisterCallback, RoutingTypeOK
  <2>2. calls' \in Seq(Call)
    BY <1>2 DEF RegisterCallback, Registering, RoutingTypeOK
  <2> QED
    BY <1>2, <2>1, <2>2 DEF RegisterCallback, Registering, RoutingTypeOK
<1>3. ASSUME NEW c \in Call, AddRegexHandler(c) PROVE RoutingTypeOK'
  <2>1. regexHandlers' \in Seq(Route)
    BY <1>3, CallTyped DEF AddRegexHandler, RoutingTypeOK
  <2>2. calls' \in Seq(Call)
    BY <1>3 DEF AddRegexHandler, Registering, RoutingTypeOK
  <2> QED
    BY <1>3, <2>1, <2>2 DEF AddRegexHandler, Registering, RoutingTypeOK
<1>4. ASSUME NEW c \in Call, AddRegexCallback(c) PROVE RoutingTypeOK'
  <2>1. regexCallbacks' \in Seq(Route)
    BY <1>4, CallTyped DEF AddRegexCallback, RoutingTypeOK
  <2>2. calls' \in Seq(Call)
    BY <1>4 DEF AddRegexCallback, Registering, RoutingTypeOK
  <2> QED
    BY <1>4, <2>1, <2>2 DEF AddRegexCallback, Registering, RoutingTypeOK
<1>5. CASE AddMiddleware
  <2>1. middlewares' \in 0..MaxMiddlewares
    BY <1>5, RoutingAssumption DEF AddMiddleware, RoutingTypeOK
  <2> QED
    BY <1>5, <2>1 DEF AddMiddleware, RoutingTypeOK, tables
<1>6. CASE Start
  BY <1>6 DEF Start, RoutingTypeOK, tables
<1>7. ASSUME NEW req \in Request, NEW origin \in Origins, Preflight(req, origin)
      PROVE  RoutingTypeOK'
  <2>1. PICK allowed \in BOOLEAN : allowed = IsOriginAllowed(origin)
    BY DEF IsOriginAllowed
  <2>2. PICK status \in {204, 403} : status = IF allowed THEN 204 ELSE 403
    OBVIOUS
  <2>3. Respond(req, NoTarget, allowed, Bare(status))
    BY <1>7, <2>1, <2>2 DEF Preflight, Bare
  <2>4. Bare(status) \in Response /\ Bare(status).status = status
    BY NoRouteAnswers
  <2> QED
    BY <2>3, <2>4, Responds
<1>8. ASSUME NEW req \in Request, Routed(req) PROVE RoutingTypeOK'
  <2>1. Found(req) \in Targets /\ req.close \in BOOLEAN
    BY <1>8, FoundIs DEF Routed, Request
  <2>2. PICK r \in Answers(NewResponse(req.close)) : Respond(req, Found(req), FALSE, r)
    BY <1>8 DEF Routed
  <2>3. r \in Response
    BY <2>1, BlankIs, AnswersAre
  <2>4. Found(req) # NoTarget
    BY <1>8 DEF Routed
  <2>5. FALSE \in BOOLEAN
    OBVIOUS
  <2> QED
    BY ONLY <2>1, <2>2, <2>3, <2>4, <2>5, <1>0, Responds
<1>9. ASSUME NEW req \in Request, NotFound(req) PROVE RoutingTypeOK'
  <2>1. PICK r : r = Bare(404)
    OBVIOUS
  <2>2. Respond(req, NoTarget, FALSE, r)
    BY <1>9, <2>1 DEF NotFound, Bare
  <2>3. r \in Response /\ r.status = 404
    BY <2>1, NoRouteAnswers
  <2>4. FALSE \in BOOLEAN /\ NoTarget \in Targets \cup {NoTarget} /\ r.status \in {204, 403, 404}
    BY <2>3
  <2> QED
    BY ONLY <1>0, <2>2, <2>3, <2>4, Responds
<1>10. CASE Send
  BY <1>10 DEF Send, RoutingTypeOK, tables
<1>11. CASE UNCHANGED routingVars
  BY <1>11 DEF routingVars, RoutingTypeOK, tables
<1> QED
  BY <1>1, <1>2, <1>3, <1>4, <1>5, <1>6, <1>7, <1>8, <1>9, <1>10, <1>11 DEF RoutingNext

(***************************************************************************)
(* RequestRouting: what the tables know of the calls                       *)
(***************************************************************************)
IsNextCall(cs, c, ds) == cs \in Seq(Call) /\ c \in Call /\ ds = Append(cs, c)

LEMMA OneMoreCall ==
    ASSUME NEW cs, NEW c, NEW ds, IsNextCall(cs, c, ds)
    PROVE  /\ Len(cs) \in Nat
           /\ \A i \in 1..Len(cs) : ds[i] = cs[i]
           /\ ds[Len(cs) + 1] = c
<1>1. cs \in Seq(Call) /\ c \in Call /\ ds = Append(cs, c)
  BY DEF IsNextCall
<1> QED
  BY <1>1

LEMMA OneMoreOfKind ==
    ASSUME NEW cs, NEW c, NEW ds, IsNextCall(cs, c, ds), NEW kind
    PROVE  /\ OfKind(cs, kind) \subseteq 1..Len(cs)
           /\ \A i : i \in OfKind(ds, kind) <=>
                \/ i \in OfKind(cs, kind)
                \/ i = Len(cs) + 1 /\ c.kind = kind
<1>1. cs \in Seq(Call) /\ c \in Call /\ ds = Append(cs, c)
  BY DEF IsNextCall
<1>2. /\ Len(cs) \in Nat /\ DOMAIN cs = 1..Len(cs)
      /\ DOMAIN ds = 1..(Len(cs) + 1)
      /\ \A i \in 1..Len(cs) : ds[i] = cs[i]
      /\ ds[Len(cs) + 1] = c
  BY <1>1
<1> QED
  BY <1>2 DEF OfKind

(* A call of another kind *)
LEMMA OtherTable ==
    ASSUME NEW cs, NEW c, NEW ds, IsNextCall(cs, c, ds), NEW kind, c.kind # kind,
           NEW table, TableIs(table, cs, kind)
    PROVE  TableIs(table, ds, kind)
<1>1. /\ OfKind(ds, kind) = OfKind(cs, kind)
      /\ \A i \in OfKind(cs, kind) : ds[i] = cs[i]
  <2>1. \A i \in 1..Len(cs) : ds[i] = cs[i]
    BY OneMoreCall
  <2>2. /\ OfKind(cs, kind) \subseteq 1..Len(cs)
        /\ \A i : i \in OfKind(ds, kind) <=> i \in OfKind(cs, kind)
    BY OneMoreOfKind
  <2> QED
    BY <2>1, <2>2
<1> QED
  BY <1>1 DEF TableIs

LEMMA OtherList ==
    ASSUME NEW cs, NEW c, NEW ds, IsNextCall(cs, c, ds), NEW kind, c.kind # kind,
           NEW list, ListIs(list, cs, kind)
    PROVE  ListIs(list, ds, kind)
<1>1. /\ OfKind(ds, kind) = OfKind(cs, kind)
      /\ \A i \in OfKind(cs, kind) : ds[i] = cs[i]
  <2>1. \A i \in 1..Len(cs) : ds[i] = cs[i]
    BY OneMoreCall
  <2>2. /\ OfKind(cs, kind) \subseteq 1..Len(cs)
        /\ \A i : i \in OfKind(ds, kind) <=> i \in OfKind(cs, kind)
    BY OneMoreOfKind
  <2> QED
    BY <2>1, <2>2
<1> QED
  BY <1>1 DEF ListIs

(* table[key] = target; it is now the last call for its key.               *)
LEMMA PutCall ==
    ASSUME NEW cs, NEW c, NEW ds, IsNextCall(cs, c, ds), NEW kind, c.kind = kind,
           NEW table, TableIs(table, cs, kind)
    PROVE  TableIs(Put(table, c.method, c.path, c.target), ds, kind)
<1> DEFINE n == Len(cs) + 1
<1>0. PICK new : new = Put(table, c.method, c.path, c.target)
  OBVIOUS
<1>1. /\ Len(cs) \in Nat /\ n \in Nat
      /\ OfKind(cs, kind) \subseteq 1..Len(cs)
      /\ OfKind(ds, kind) = OfKind(cs, kind) \cup {n}
      /\ \A i \in OfKind(cs, kind) : ds[i] = cs[i] /\ i \in Int /\ i <= n
      /\ ds[n] = c
  <2>1. /\ Len(cs) \in Nat
        /\ \A i \in 1..Len(cs) : ds[i] = cs[i]
        /\ ds[Len(cs) + 1] = c
    BY OneMoreCall
  <2>2. /\ OfKind(cs, kind) \subseteq 1..Len(cs)
        /\ \A i : i \in OfKind(ds, kind) <=> i \in OfKind(cs, kind) \/ i = Len(cs) + 1
    BY OneMoreOfKind
  <2> QED
    BY <2>1, <2>2
<1>2. /\ DOMAIN new = DOMAIN table \cup {KeyOf(c)}
      /\ new[KeyOf(c)] = c.target
      /\ \A k \in DOMAIN table : k # KeyOf(c) => new[k] = table[k]
  BY <1>0 DEF Put, KeyOf
<1> HIDE DEF n
<1>3. \A i \in OfKind(ds, kind) : KeyOf(ds[i]) \in DOMAIN new
  BY <1>1, <1>2 DEF TableIs
<1>4. ASSUME NEW k \in DOMAIN new
      PROVE  \E i \in OfKind(ds, kind) :
                /\ KeyOf(ds[i]) = k
                /\ new[k] = ds[i].target
                /\ \A j \in OfKind(ds, kind) : KeyOf(ds[j]) = k => j <= i
  <2>1. CASE k = KeyOf(c)
    <3>1. n \in OfKind(ds, kind) /\ KeyOf(ds[n]) = k /\ new[k] = ds[n].target
      BY <1>1, <1>2, <2>1
    <3>2. \A j \in OfKind(ds, kind) : j <= n
      BY <1>1
    <3> QED
      BY <3>1, <3>2
  <2>2. CASE k # KeyOf(c)
    <3>1. k \in DOMAIN table /\ new[k] = table[k]
      BY <1>2, <2>2
    <3>2. PICK i \in OfKind(cs, kind) :
            /\ KeyOf(cs[i]) = k
            /\ table[k] = cs[i].target
            /\ \A j \in OfKind(cs, kind) : KeyOf(cs[j]) = k => j <= i
      BY <3>1 DEF TableIs
    <3>3. \A j \in OfKind(ds, kind) : KeyOf(ds[j]) = k => j \in OfKind(cs, kind) /\ ds[j] = cs[j]
      BY <1>1, <2>2
    <3> QED
      BY <1>1, <3>1, <3>2, <3>3
  <2> QED
    BY <2>1, <2>2
<1> QED
  BY <1>0, <1>3, <1>4 DEF TableIs

(* The list has one more route, that of the last call.                     *)
LEMMA AppendCall ==
    ASSUME NEW cs, NEW c, NEW ds, IsNextCall(cs, c, ds), NEW kind, c.kind = kind,
           NEW list \in Seq(Route), ListIs(list, cs, kind), Dynamic(c) \in Route,
           NEW new, new = Append(list, Dynamic(c))
    PROVE  ListIs(new, ds, kind)
<1> DEFINE n == Len(cs) + 1
           m == Len(list) + 1
<1>1. /\ Len(cs) \in Nat /\ n \in Nat
      /\ OfKind(cs, kind) \subseteq 1..Len(cs)
      /\ OfKind(ds, kind) = OfKind(cs, kind) \cup {n}
      /\ \A i \in OfKind(cs, kind) : ds[i] = cs[i] /\ i \in Int /\ i < n
      /\ ds[n] = c
  <2>1. /\ Len(cs) \in Nat
        /\ \A i \in 1..Len(cs) : ds[i] = cs[i]
        /\ ds[Len(cs) + 1] = c
    BY OneMoreCall
  <2>2. /\ OfKind(cs, kind) \subseteq 1..Len(cs)
        /\ \A i : i \in OfKind(ds, kind) <=> i \in OfKind(cs, kind) \/ i = Len(cs) + 1
    BY OneMoreOfKind
  <2> QED
    BY <2>1, <2>2
<1>2. /\ Len(list) \in Nat /\ m \in Nat /\ Len(new) = m
      /\ \A a \in 1..Len(list) : new[a] = list[a]
      /\ new[m] = Dynamic(c)
  OBVIOUS
<1>3. PICK f \in [1..Len(list) -> OfKind(cs, kind)] :
        /\ \A a, b \in 1..Len(list) : a < b => f[a] < f[b]
        /\ \A i \in OfKind(cs, kind) : \E a \in 1..Len(list) : f[a] = i
        /\ \A a \in 1..Len(list) : list[a] = Dynamic(cs[f[a]])
  BY DEF ListIs
<1> DEFINE g == [a \in 1..m |-> IF a = m THEN n ELSE f[a]]
<1>4. \A a \in 1..m : a = m \/ a \in 1..Len(list)
  BY <1>2
<1>5. /\ \A a \in 1..Len(list) : a \in 1..m /\ a # m /\ a < m
      /\ m \in 1..m
  BY <1>2
<1> HIDE DEF n, m
<1>6. g \in [1..m -> OfKind(ds, kind)]
  BY <1>1, <1>3, <1>4
<1>7. /\ \A a \in 1..Len(list) : g[a] = f[a] /\ f[a] \in OfKind(cs, kind)
      /\ g[m] = n
  BY <1>3, <1>5
<1> HIDE DEF g
<1>8. \A a, b \in 1..m : a < b => g[a] < g[b]
  <2> SUFFICES ASSUME NEW a \in 1..m, NEW b \in 1..m, a < b PROVE g[a] < g[b]
    OBVIOUS
  <2>1. a \in 1..Len(list)
    BY <1>2, <1>4
  <2>2. CASE b = m
    BY <1>1, <1>7, <2>1, <2>2
  <2>3. CASE b \in 1..Len(list)
    BY <1>3, <1>7, <2>1, <2>3
  <2> QED
    BY <1>4, <2>2, <2>3
<1>9. \A i \in OfKind(ds, kind) : \E a \in 1..m : g[a] = i
  BY <1>1, <1>3, <1>5, <1>7
<1>10. \A a \in 1..m : new[a] = Dynamic(ds[g[a]])
  <2> TAKE a \in 1..m
  <2>1. CASE a = m
    BY <1>1, <1>2, <1>7, <2>1
  <2>2. CASE a \in 1..Len(list)
    BY <1>1, <1>2, <1>3, <1>7, <2>2
  <2> QED
    BY <1>4, <2>1, <2>2
<1> QED
  <2>1. Len(new) = m
    BY <1>2
  <2> QED
    BY ONLY <1>6, <1>8, <1>9, <1>10, <2>1 DEF ListIs

LEMMA TablesStep ==
    RoutingTypeOK /\ TablesInv /\ [RoutingNext]_routingVars => TablesInv'
<1> SUFFICES ASSUME RoutingTypeOK, TablesInv, [RoutingNext]_routingVars PROVE TablesInv'
  OBVIOUS
<1>1. calls \in Seq(Call) /\ regexHandlers \in Seq(Route) /\ regexCallbacks \in Seq(Route)
  BY DEF RoutingTypeOK
<1>2. ASSUME NEW c \in Call, RegisterHandler(c) PROVE TablesInv'
  <2>0. IsNextCall(calls, c, calls')
    BY <1>1, <1>2 DEF IsNextCall, RegisterHandler, Registering
  <2>1. /\ calls' = Append(calls, c) /\ c.kind = "handler"
        /\ handlers' = Put(handlers, c.method, c.path, c.target)
        /\ UNCHANGED <<callbacks, regexHandlers, regexCallbacks>>
    BY <1>2 DEF RegisterHandler, Registering
  <2>2. TableIs(handlers', calls', "handler")
    BY <1>1, <2>0, <2>1, PutCall DEF TablesInv
  <2>3. TableIs(callbacks, calls', "callback")
    BY <1>1, <2>0, <2>1, OtherTable DEF TablesInv
  <2>4. ListIs(regexHandlers, calls', "regexHandler")
    BY <1>1, <2>0, <2>1, OtherList DEF TablesInv
  <2>5. ListIs(regexCallbacks, calls', "regexCallback")
    BY <1>1, <2>0, <2>1, OtherList DEF TablesInv
  <2> QED
    BY <2>1, <2>2, <2>3, <2>4, <2>5 DEF TablesInv
<1>3. ASSUME NEW c \in Call, RegisterCallback(c) PROVE TablesInv'
  <2>0. IsNextCall(calls, c, calls')
    BY <1>1, <1>3 DEF IsNextCall, RegisterCallback, Registering
  <2>1. /\ calls' = Append(calls, c) /\ c.kind = "callback"
        /\ callbacks' = Put(callbacks, c.method, c.path, c.target)
        /\ UNCHANGED <<handlers, regexHandlers, regexCallbacks>>
    BY <1>3 DEF RegisterCallback, Registering
  <2>2. TableIs(handlers, calls', "handler")
    BY <1>1, <2>0, <2>1, OtherTable DEF TablesInv
  <2>3. TableIs(callbacks', calls', "callback")
    BY <1>1, <2>0, <2>1, PutCall DEF TablesInv
  <2>4. ListIs(regexHandlers, calls', "regexHandler")
    BY <1>1, <2>0, <2>1, OtherList DEF TablesInv
  <2>5. ListIs(regexCallbacks, calls', "regexCallback")
    BY <1>1, <2>0, <2>1, OtherList DEF TablesInv
  <2> QED
    BY <2>1, <2>2, <2>3, <2>4, <2>5 DEF TablesInv
<1>4. ASSUME NEW c \in Call, AddRegexHandler(c) PROVE TablesInv'
  <2>0. IsNextCall(calls, c, calls')
    BY <1>1, <1>4 DEF IsNextCall, AddRegexHandler, Registering
  <2>1. /\ calls' = Append(calls, c) /\ c.kind = "regexHandler"
        /\ regexHandlers' = Append(regexHandlers, Dynamic(c))
        /\ UNCHANGED <<handlers, callbacks, regexCallbacks>>
        /\ Dynamic(c) \in Route
    BY <1>4, CallTyped DEF AddRegexHandler, Registering
  <2>2. TableIs(handlers, calls', "handler")
    BY <1>1, <2>0, <2>1, OtherTable DEF TablesInv
  <2>3. TableIs(callbacks, calls', "callback")
    BY <1>1, <2>0, <2>1, OtherTable DEF TablesInv
  <2>4. ListIs(regexHandlers', calls', "regexHandler")
    BY <1>1, <2>0, <2>1, AppendCall DEF TablesInv
  <2>5. ListIs(regexCallbacks, calls', "regexCallback")
    BY <1>1, <2>0, <2>1, OtherList DEF TablesInv
  <2> QED
    BY <2>1, <2>2, <2>3, <2>4, <2>5 DEF TablesInv
<1>5. ASSUME NEW c \in Call, AddRegexCallback(c) PROVE TablesInv'
  <2>0. IsNextCall(calls, c, calls')
    BY <1>1, <1>5 DEF IsNextCall, AddRegexCallback, Registering
  <2>1. /\ calls' = Append(calls, c) /\ c.kind = "regexCallback"
        /\ regexCallbacks' = Append(regexCallbacks, Dynamic(c))
        /\ UNCHANGED <<handlers, callbacks, regexHandlers>>
        /\ Dynamic(c) \in Route
    BY <1>5, CallTyped DEF AddRegexCallback, Registering
  <2>2. TableIs(handlers, calls', "handler")
    BY <1>1, <2>0, <2>1, OtherTable DEF TablesInv
  <2>3. TableIs(callbacks, calls', "callback")
    BY <1>1, <2>0, <2>1, OtherTable DEF TablesInv
  <2>4. ListIs(regexHandlers, calls', "regexHandler")
    BY <1>1, <2>0, <2>1, OtherList DEF TablesInv
  <2>5. ListIs(regexCallbacks', calls', "regexCallback")
    BY <1>1, <2>0, <2>1, AppendCall DEF TablesInv
  <2> QED
    BY <2>1, <2>2, <2>3, <2>4, <2>5 DEF TablesInv
<1>6. CASE UNCHANGED <<tables, calls>>
  BY <1>6 DEF TablesInv, tables
<1>7. \/ \E c \in Call : \/ RegisterHandler(c)
                         \/ RegisterCallback(c)
                         \/ AddRegexHandler(c)
                         \/ AddRegexCallback(c)
      \/ UNCHANGED <<tables, calls>>
  BY DEF RoutingNext, AddMiddleware, Start, Preflight, Routed, NotFound, Respond, Send, routingVars
<1> QED
  BY <1>2, <1>3, <1>4, <1>5, <1>6, <1>7

(***************************************************************************)
(* RequestRouting: the answers                                             *)
(***************************************************************************)
(* What a step that answers leaves as it was is all an answer is compared  *)
(* with.                                                                   *)
LEMMA AnswerStays ==
    ASSUME UNCHANGED <<answer, calls, middlewares>>, AnsweredAsRegistered, CompleteOrBlank
    PROVE  AnsweredAsRegistered' /\ CompleteOrBlank'
BY DEF AnsweredAsRegistered, CompleteOrBlank, Taking, Latest, First

LEMMA NoAnswerIsRight ==
    ASSUME answer' = NoAnswer
    PROVE  AnsweredAsRegistered' /\ CompleteOrBlank'
BY DEF AnsweredAsRegistered, CompleteOrBlank

(* The tables, which a request is looked up in, know as much as the calls. *)
LEMMA RoutedIsRight ==
    ASSUME RoutingTypeOK, TablesInv, NEW req \in Request, ~Stopped(req), NEW cors, NEW r,
           Complete(r) \/ r = NewResponse(req.close),
           Respond(req, Found(req), cors, r)
    PROVE  AnsweredAsRegistered' /\ CompleteOrBlank'
<1>1. /\ answer' = [req |-> req, by |-> Found(req), cors |-> cors, response |-> r]
      /\ UNCHANGED <<calls, middlewares>>
  BY DEF Respond
<1>2. answer'.req = req /\ answer'.by = Found(req) /\ answer'.response = r
  BY <1>1
<1>3. CompleteOrBlank'
  BY <1>2 DEF CompleteOrBlank
<1>4. ~(middlewares > 0 /\ req.method = Options)
  BY DEF Stopped
<1>5. AnsweredAsRegistered'
  <2>1. PICK h : h = Taking("handler", req)
    OBVIOUS
  <2>2. PICK c : c = Taking("callback", req)
    OBVIOUS
  <2>3. PICK rh : rh = Taking("regexHandler", req)
    OBVIOUS
  <2>4. PICK rc : rc = Taking("regexCallback", req)
    OBVIOUS
  <2>5. Taking("handler", answer.req)' = h
    BY <1>1, <1>2, <2>1 DEF Taking
  <2>6. Taking("callback", answer.req)' = c
    BY <1>1, <1>2, <2>2 DEF Taking
  <2>7. Taking("regexHandler", answer.req)' = rh
    BY <1>1, <1>2, <2>3 DEF Taking
  <2>8. Taking("regexCallback", answer.req)' = rc
    BY <1>1, <1>2, <2>4 DEF Taking
  <2>9. answer'.by = IF h # {} THEN calls'[Max(h)].target
                     ELSE IF c # {} THEN calls'[Max(c)].target
                     ELSE IF rh # {} THEN calls'[Min(rh)].target
                     ELSE IF rc # {} THEN calls'[Min(rc)].target
                     ELSE NoTarget
    BY <1>1, <1>2, <2>1, <2>2, <2>3, <2>4, FoundIs DEF Latest, First
  <2> QED
    BY <1>1, <1>2, <1>4, <2>5, <2>6, <2>7, <2>8, <2>9 DEF AnsweredAsRegistered, Latest, First
<1> QED
  BY <1>3, <1>5

LEMMA PreflightIsRight ==
    ASSUME NEW req \in Request, NEW origin, Preflight(req, origin)
    PROVE  AnsweredAsRegistered' /\ CompleteOrBlank'
<1>1. PICK allowed \in BOOLEAN : allowed = IsOriginAllowed(origin)
  BY DEF IsOriginAllowed
<1>2. PICK status \in {204, 403} : status = IF allowed THEN 204 ELSE 403
  OBVIOUS
<1>3. PICK r : r = Bare(status)
  OBVIOUS
<1>4. Respond(req, NoTarget, allowed, r)
  BY <1>1, <1>2, <1>3 DEF Preflight, Bare
<1>5. r.status = status /\ Complete(r)
  BY <1>3, NoRouteAnswers
<1>6. /\ answer' = [req |-> req, by |-> NoTarget, cors |-> allowed, response |-> r]
      /\ UNCHANGED <<calls, middlewares>>
  BY <1>4 DEF Respond
<1>7. answer'.req = req /\ answer'.by = NoTarget /\ answer'.response = r
  BY <1>6
<1>8. middlewares > 0 /\ req.method = Options
  BY DEF Preflight, Stopped
<1>9. AnsweredAsRegistered'
  BY <1>5, <1>6, <1>7, <1>8 DEF AnsweredAsRegistered
<1> QED
  BY <1>5, <1>7, <1>9 DEF CompleteOrBlank

(* The tables follow the calls, no table changes under an answer, and an   *)
(* answer is what the calls prescribe.                                     *)
RouterInv ==
    RoutingTypeOK /\ TablesInv /\ AnswersWhenStarted /\ AnsweredAsRegistered /\ CompleteOrBlank

LEMMA RouterInitially == RoutingInit => RouterInv
<1> SUFFICES ASSUME RoutingInit PROVE RouterInv
  OBVIOUS
<1>1. /\ handlers = <<>> /\ callbacks = <<>> /\ regexHandlers = <<>> /\ regexCallbacks = <<>>
      /\ calls = <<>> /\ middlewares = 0 /\ started = FALSE /\ answer = NoAnswer
  BY DEF RoutingInit
<1>2. DOMAIN calls = {} /\ DOMAIN handlers = {} /\ DOMAIN callbacks = {}
  BY <1>1
<1>3. RoutingTypeOK
  <2>1. handlers \in [DOMAIN handlers -> Targets] /\ callbacks \in [DOMAIN callbacks -> Targets]
    BY <1>1
  <2>2. regexHandlers \in Seq(Route) /\ regexCallbacks \in Seq(Route) /\ calls \in Seq(Call)
    BY <1>1, EmptySeq
  <2>3. middlewares \in 0..MaxMiddlewares
    BY <1>1, RoutingAssumption
  <2> QED
    BY <1>1, <1>2, <2>1, <2>2, <2>3 DEF RoutingTypeOK
<1>4. \A kind : OfKind(calls, kind) = {}
  BY <1>2 DEF OfKind
<1>5. TableIs(handlers, calls, "handler") /\ TableIs(callbacks, calls, "callback")
  BY <1>2, <1>4 DEF TableIs
<1>6. \A kind : ListIs(<<>>, calls, kind)
  <2> TAKE kind
  <2>1. Len(<<>>) = 0 /\ 1..0 = {}
    OBVIOUS
  <2>2. <<>> \in [{} -> OfKind(calls, kind)]
    OBVIOUS
  <2> QED
    BY <1>4, <2>1, <2>2 DEF ListIs
<1>7. TablesInv
  BY <1>1, <1>5, <1>6 DEF TablesInv
<1> QED
  BY <1>1, <1>3, <1>7 DEF RouterInv, AnswersWhenStarted, AnsweredAsRegistered, CompleteOrBlank

LEMMA RouterStep == RouterInv /\ [RoutingNext]_routingVars => RouterInv'
<1> SUFFICES ASSUME RouterInv, [RoutingNext]_routingVars PROVE RouterInv'
  OBVIOUS
<1> USE DEF RouterInv
<1>1. RoutingTypeOK' /\ TablesInv'
  BY RoutingTypedStep, TablesStep
<1>2. AnswersWhenStarted'
  BY DEF AnswersWhenStarted, RoutingNext, routingVars, RegisterHandler, RegisterCallback,
        AddRegexHandler, AddRegexCallback, Registering, AddMiddleware, Start, Preflight, Routed,
        NotFound, Respond, Send
<1>3. CASE ~started /\ ~started'
  <2>1. answer' = NoAnswer
    BY <1>2, <1>3 DEF AnswersWhenStarted
  <2> QED
    BY <1>1, <1>2, <2>1, NoAnswerIsRight
<1>4. CASE Start
  <2>1. answer' = NoAnswer
    BY <1>4 DEF Start, AnswersWhenStarted
  <2> QED
    BY <1>1, <1>2, <2>1, NoAnswerIsRight
<1>5. ASSUME NEW req \in Request, NEW origin \in Origins, Preflight(req, origin) PROVE RouterInv'
  BY <1>1, <1>2, <1>5, PreflightIsRight
<1>6. ASSUME NEW req \in Request, Routed(req) PROVE RouterInv'
  <2>1. PICK r \in Answers(NewResponse(req.close)) : Respond(req, Found(req), FALSE, r)
    BY <1>6 DEF Routed
  <2>2. NewResponse(req.close) \in Response
    BY BlankIs DEF Request
  <2>3. Complete(r) \/ r = NewResponse(req.close)
    BY <2>2, AnswersAre
  <2>4. AnsweredAsRegistered' /\ CompleteOrBlank'
    BY <1>6, <2>1, <2>3, RoutedIsRight DEF Routed
  <2> QED
    BY <1>1, <1>2, <2>4
<1>7. ASSUME NEW req \in Request, NotFound(req) PROVE RouterInv'
  <2>1. PICK r : r = Bare(404)
    OBVIOUS
  <2>2. Respond(req, Found(req), FALSE, r)
    BY <1>7, <2>1 DEF NotFound, Bare
  <2>3. Complete(r)
    BY <2>1, NoRouteAnswers
  <2>4. AnsweredAsRegistered' /\ CompleteOrBlank'
    BY <1>7, <2>2, <2>3, RoutedIsRight DEF NotFound
  <2> QED
    BY <1>1, <1>2, <2>4
<1>8. CASE Send
  BY <1>1, <1>2, <1>8, NoAnswerIsRight DEF Send
<1>9. CASE UNCHANGED routingVars
  BY <1>1, <1>2, <1>9, AnswerStays DEF routingVars
<1>10. \/ ~started /\ ~started'
       \/ Start
       \/ \E req \in Request :
            \/ \E origin \in Origins : Preflight(req, origin)
            \/ Routed(req)
            \/ NotFound(req)
       \/ Send
       \/ UNCHANGED routingVars
  BY DEF RoutingNext, RegisterHandler, RegisterCallback, AddRegexHandler, AddRegexCallback,
        Registering, AddMiddleware
<1> QED
  BY <1>3, <1>4, <1>5, <1>6, <1>7, <1>8, <1>9, <1>10

(* Type correctness of the router: whatever was registered, the tables     *)
(* hold targets of routes, an answer is a response, and one that no route  *)
(* gave is a preflight's or a 404.                                         *)
THEOREM RoutingTypeCorrect == RoutingSpec => []RoutingTypeOK
<1>1. RouterInv => RoutingTypeOK
  BY DEF RouterInv
<1> QED
  BY <1>1, RouterInitially, RouterStep, PTL DEF RoutingSpec

(* Router::route() and the chain of middleware answer a request by the     *)
(* code which the order of the registration calls prescribes, for every    *)
(* set of routes and patterns and every number of calls.                   *)
THEOREM RoutesAreAsRegistered == RoutingSpec => []AnsweredAsRegistered
<1>1. RouterInv => AnsweredAsRegistered
  BY DEF RouterInv
<1> QED
  BY <1>1, RouterInitially, RouterStep, PTL DEF RoutingSpec

(* An answer is complete, or blank where packageResp() was to say that the *)
(* login is missing: there is nothing in between.                          *)
THEOREM AnswersAreCompleteOrBlank == RoutingSpec => []CompleteOrBlank
<1>1. RouterInv => CompleteOrBlank
  BY DEF RouterInv
<1> QED
  BY <1>1, RouterInitially, RouterStep, PTL DEF RoutingSpec

(***************************************************************************)
(* Registration                                                            *)
(***************************************************************************)
(* An INSERT adds one row, that of the client and name of its handler;     *)
(* the rows that are there stay, at their places.                          *)
LEMMA StoredAddsRow ==
    ASSUME RegistrationTypeOK, NEW l \in Loops, step[l] = "insert", users' = Stored(l)
    PROVE  /\ users' \in Seq(Row)
           /\ Len(users) \in Nat
           /\ DOMAIN users = 1..Len(users)
           /\ DOMAIN users' = 1..(Len(users) + 1)
           /\ \A i \in 1..Len(users) : users'[i] = users[i]
           /\ users'[Len(users) + 1].client = client[l]
           /\ users'[Len(users) + 1].name = name[l]
<1>1. [client |-> client[l], name |-> name[l]] \in Row
  BY DEF RegistrationTypeOK, Row
<1> QED
  BY <1>1 DEF RegistrationTypeOK, Stored

(* An INSERT adds its row to those of its name. *)
LEMMA StoredAddsToRows ==
    ASSUME RegistrationTypeOK, NEW l \in Loops, step[l] = "insert", users' = Stored(l)
    PROVE  \A n \in Names :
             Rows(n)' = IF n = name[l] THEN Rows(n) \cup {Len(users) + 1} ELSE Rows(n)
<1> TAKE n \in Names
<1>1. users'[Len(users) + 1].name = name[l]
  BY StoredAddsRow
<1>2. \A i : i \in Rows(n)' <=> i \in Rows(n) \/ (n = name[l] /\ i = Len(users) + 1)
  BY <1>1, StoredAddsRow DEF Rows
<1> QED
  BY <1>2

(* Type correctness; insertUser() finds the row it has inserted.           *)
THEOREM RegistrationTypeCorrect == RegistrationSpec => []RegistrationTypeOK
<1>1. RegistrationInit => RegistrationTypeOK
  BY RegistrationAssumption DEF RegistrationInit, RegistrationTypeOK, Row, Answer
<1>2. RegistrationTypeOK /\ [RegistrationNext]_registrationVars => RegistrationTypeOK'
  <2> SUFFICES ASSUME RegistrationTypeOK, [RegistrationNext]_registrationVars
               PROVE  RegistrationTypeOK'
    OBVIOUS
  <2> USE RegistrationAssumption DEF RegistrationTypeOK
  <2>1. ASSUME NEW l \in Loops, NEW c \in Clients, NEW n \in Names, Receive(l, c, n)
        PROVE  RegistrationTypeOK'
    <3>1. Cardinality(Handling(c, n)) \in Nat
      BY FS_Subset, FS_CardinalityType DEF Handling
    <3>2. peak' \in [Clients -> [Names -> Nat]]
      BY <2>1, <3>1 DEF Receive
    <3> QED
      BY <2>1, <3>2 DEF Receive, Rows
  <2>2. ASSUME NEW l \in Loops, BadBody(l) PROVE RegistrationTypeOK'
    BY <2>2 DEF BadBody, Reply, Answer, Rows
  <2>3. ASSUME NEW l \in Loops, NameTaken(l) PROVE RegistrationTypeOK'
    BY <2>3 DEF NameTaken, Reply, Answer, Rows
  <2>4. ASSUME NEW l \in Loops, NameFree(l) PROVE RegistrationTypeOK'
    BY <2>4 DEF NameFree, Goto, Rows
  <2>5. ASSUME NEW l \in Loops, Insert(l) PROVE RegistrationTypeOK'
    <3>1. /\ users' \in Seq(Row)
          /\ \A n \in Names : Rows(n) \subseteq Rows(n)'
          /\ Rows(name[l])' # {}
      BY <2>5, StoredAddsRow, StoredAddsToRows DEF Insert, Goto
    <3>2. \A m \in Loops : step'[m] = "select" => Rows(name[m])' # {}
      BY <2>5, <3>1 DEF Insert, Goto
    <3> QED
      BY <2>5, <3>1, <3>2 DEF Insert, Goto
  <2>6. ASSUME NEW l \in Loops, InsertRefused(l) PROVE RegistrationTypeOK'
    BY <2>6 DEF InsertRefused, Reply, Answer, Rows
  <2>7. ASSUME NEW l \in Loops, SelectId(l) PROVE RegistrationTypeOK'
    BY <2>7 DEF SelectId, Reply, Answer, Rows
  <2>8. ASSUME NEW l \in Loops, DbError(l) PROVE RegistrationTypeOK'
    <3>1. /\ users' \in Seq(Row)
          /\ \A n \in Names : Rows(n) \subseteq Rows(n)'
      BY <2>8, StoredAddsRow, StoredAddsToRows DEF DbError, Rows
    <3> QED
      BY <2>8, <3>1 DEF DbError, Reply, Answer
  <2>9. CASE UNCHANGED registrationVars
    BY <2>9 DEF registrationVars, loopVars, Rows
  <2> QED
    BY <2>1, <2>2, <2>3, <2>4, <2>5, <2>6, <2>7, <2>8, <2>9
       DEF RegistrationNext, RegistrationFinished
<1> QED
  BY <1>1, <1>2, PTL DEF RegistrationSpec

(***************************************************************************)
(* A UNIQUE name                                                           *)
(***************************************************************************)
UniqueRows == unique => \A i, j \in DOMAIN users : users[i].name = users[j].name => i = j

(* The row a handler looks for after its INSERT is its own. *)
OwnRowIsThere ==
    unique => \A l \in Loops : step[l] = "select" =>
                \E i \in Rows(name[l]) : users[i].client = client[l]

ConfirmedIsStored ==
    \A a \in Confirmed :
        /\ a.id \in DOMAIN users
        /\ users[a.id].name = a.name
        /\ unique => users[a.id].client = a.client

NamesInv == UniqueRows /\ OwnRowIsThere /\ ConfirmedIsStored

(* The constraint lets an INSERT through only if the name is new. *)
LEMMA StoredKeepsNames ==
    ASSUME RegistrationTypeOK, NamesInv, UNCHANGED <<unique, name>>,
           NEW l \in Loops, step[l] = "insert", ~Refused(l), users' = Stored(l)
    PROVE  /\ UniqueRows'
           /\ \A a \in Confirmed :
                /\ a.id \in DOMAIN users'
                /\ users'[a.id] = users[a.id]
           /\ \A m \in Loops : unique /\ step[m] = "select" =>
                \E i \in Rows(name[m])' : users'[i].client = client[m]
<1>1. UniqueRows'
  BY SMTT(30), StoredAddsRow, StoredAddsToRows DEF NamesInv, UniqueRows, Refused, Rows
<1>2. \A a \in Confirmed : a.id \in DOMAIN users' /\ users'[a.id] = users[a.id]
  BY StoredAddsRow DEF NamesInv, ConfirmedIsStored
<1>3. \A m \in Loops : unique /\ step[m] = "select" =>
        \E i \in Rows(name[m])' : users'[i].client = client[m]
  <2> TAKE m \in Loops
  <2> HAVE unique /\ step[m] = "select"
  <2>1. PICK i \in Rows(name[m]) : users[i].client = client[m]
    BY DEF NamesInv, OwnRowIsThere
  <2>2. i \in 1..Len(users) /\ users'[i].client = client[m] /\ users'[i].name = name[m]
    BY <2>1, StoredAddsRow DEF Rows
  <2> QED
    BY <2>2, StoredAddsRow DEF Rows
<1> QED
  BY <1>1, <1>2, <1>3

(* With UNIQUE, every confirmed client has a row and every name one client. *)
THEOREM NamesAreOwned == RegistrationSpec => []UniqueNameIsOwned
<1>1. RegistrationInit => NamesInv
  BY DEF RegistrationInit, NamesInv, UniqueRows, OwnRowIsThere, ConfirmedIsStored, Confirmed
<1>2. RegistrationTypeOK /\ NamesInv /\ [RegistrationNext]_registrationVars => NamesInv'
  <2> SUFFICES ASSUME RegistrationTypeOK, NamesInv, [RegistrationNext]_registrationVars
               PROVE  NamesInv'
    OBVIOUS
  <2> USE DEF NamesInv
  <2>1. ASSUME UNCHANGED <<unique, users>>,
               \A a \in Confirmed' : a \in Confirmed,
               \A m \in Loops : step'[m] = "select" =>
                    step[m] = "select" /\ name'[m] = name[m] /\ client'[m] = client[m]
        PROVE  NamesInv'
    BY <2>1 DEF UniqueRows, OwnRowIsThere, ConfirmedIsStored, Rows
  <2>2. ASSUME NEW l \in Loops, NEW c \in Clients, NEW n \in Names, Receive(l, c, n)
        PROVE  NamesInv'
    BY <2>1, <2>2 DEF Receive, RegistrationTypeOK, Confirmed
  <2>3. ASSUME NEW l \in Loops, BadBody(l) \/ NameTaken(l) \/ InsertRefused(l)
        PROVE  NamesInv'
    BY <2>1, <2>3 DEF BadBody, NameTaken, InsertRefused, Reply, RegistrationTypeOK, Confirmed
  <2>4. ASSUME NEW l \in Loops, NameFree(l) PROVE NamesInv'
    BY <2>1, <2>4 DEF NameFree, Goto, RegistrationTypeOK, Confirmed
  <2>5. ASSUME NEW l \in Loops, Insert(l) PROVE NamesInv'
    <3>1. /\ step[l] = "insert" /\ ~Refused(l) /\ users' = Stored(l)
          /\ UNCHANGED <<unique, client, name, replies>>
      BY <2>5 DEF Insert, Goto
    <3>2. ConfirmedIsStored'
      BY <3>1, StoredKeepsNames DEF ConfirmedIsStored, Confirmed
    <3>3. \E i \in Rows(name[l])' : users'[i].client = client[l]
      BY <3>1, StoredAddsRow, StoredAddsToRows DEF RegistrationTypeOK
    <3>4. OwnRowIsThere'
      BY <2>5, <3>1, <3>3, StoredKeepsNames DEF Insert, Goto, OwnRowIsThere, RegistrationTypeOK
    <3> QED
      BY <3>1, <3>2, <3>4, StoredKeepsNames
  <2>6. ASSUME NEW l \in Loops, SelectId(l) PROVE NamesInv'
    <3>1. PICK i \in Rows(name[l]) : Reply(l, 200, i)
      BY <2>6 DEF SelectId
    <3>2. UNCHANGED <<unique, users>> /\ step[l] = "select"
      BY <2>6 DEF SelectId
    <3>3. unique => users[i].client = client[l]
      BY <3>2 DEF OwnRowIsThere, UniqueRows, Rows
    <3>4. ConfirmedIsStored'
      BY <3>1, <3>2, <3>3 DEF ConfirmedIsStored, Confirmed, Reply, Rows
    <3>5. OwnRowIsThere'
      BY <3>1, <3>2 DEF OwnRowIsThere, Reply, Rows, RegistrationTypeOK
    <3> QED
      BY <3>2, <3>4, <3>5 DEF UniqueRows
  <2>7. ASSUME NEW l \in Loops, DbError(l) PROVE NamesInv'
    <3>1. /\ UNCHANGED <<unique, name>>
          /\ \A a \in Confirmed' : a \in Confirmed
          /\ \A m \in Loops : step'[m] = "select" =>
                    step[m] = "select" /\ name'[m] = name[m] /\ client'[m] = client[m]
      BY <2>7 DEF DbError, Reply, RegistrationTypeOK, Confirmed
    <3>2. CASE UNCHANGED users
      BY <2>1, <3>1, <3>2
    <3>3. CASE step[l] = "insert" /\ ~Refused(l) /\ users' = Stored(l)
      <4>1. ConfirmedIsStored'
        BY <3>1, <3>3, StoredKeepsNames DEF ConfirmedIsStored
      <4>2. OwnRowIsThere'
        BY <3>1, <3>3, StoredKeepsNames DEF OwnRowIsThere
      <4> QED
        BY <3>1, <3>3, <4>1, <4>2, StoredKeepsNames
    <3> QED
      BY <2>7, <3>2, <3>3 DEF DbError
  <2>8. CASE UNCHANGED registrationVars
    BY <2>1, <2>8 DEF registrationVars, loopVars, Confirmed
  <2> QED
    BY <2>2, <2>3, <2>4, <2>5, <2>6, <2>7, <2>8 DEF RegistrationNext, RegistrationFinished
<1>3. NamesInv => UniqueNameIsOwned
  BY DEF NamesInv, UniqueRows, ConfirmedIsStored, UniqueNameIsOwned, NewIdReturned
<1> QED
  BY <1>1, <1>2, <1>3, RegistrationTypeCorrect, PTL DEF RegistrationSpec

(***************************************************************************)
(* A second request                                                        *)
(***************************************************************************)
(* The rows of a client with a name, and the handlers that have found the  *)
(* name free and have not inserted it yet.                                 *)
Own(c, n) == {i \in Rows(n) : users[i].client = c}
Inserting(c, n) == {l \in Handling(c, n) : step[l] = "insert"}

PeakIsReached ==
    \A c \in Clients, n \in Names : Cardinality(Handling(c, n)) <= peak[c][n]

(* A handler that will insert is counted with the rows: nobody joins it    *)
(* once there is a row.                                                    *)
CopiesInv ==
    \A c \in Clients, n \in Names :
        Cardinality(Own(c, n)) + Cardinality(Inserting(c, n)) <= peak[c][n]

RowsInv == PeakIsReached /\ CopiesInv

LEMMA CountsAreNumbers ==
    ASSUME RegistrationTypeOK, NEW c \in Clients, NEW n \in Names
    PROVE  /\ IsFiniteSet(Handling(c, n)) /\ Cardinality(Handling(c, n)) \in Nat
           /\ IsFiniteSet(Inserting(c, n)) /\ Cardinality(Inserting(c, n)) \in Nat
           /\ IsFiniteSet(Own(c, n)) /\ Cardinality(Own(c, n)) \in Nat
           /\ peak[c][n] \in Nat
<1>1. IsFiniteSet(Handling(c, n))
  BY FS_Subset, RegistrationAssumption DEF Handling
<1>2. IsFiniteSet(Inserting(c, n))
  BY <1>1, FS_Subset DEF Inserting
<1>3. Own(c, n) \subseteq 1..Len(users) /\ Len(users) \in Nat
  BY DEF Own, Rows, RegistrationTypeOK
<1>4. IsFiniteSet(1..Len(users))
  BY <1>3, FS_Interval
<1>5. IsFiniteSet(Own(c, n))
  BY <1>3, <1>4, FS_Subset
<1>6. peak[c][n] \in Nat
  BY DEF RegistrationTypeOK
<1> QED
  BY <1>1, <1>2, <1>5, <1>6, FS_CardinalityType

(* A step that adds no row, no handler and no handler that will insert.    *)
LEMMA FewerKeepRows ==
    ASSUME RegistrationTypeOK, RowsInv, UNCHANGED <<users, peak>>,
           \A c \in Clients, n \in Names :
                /\ Handling(c, n)' \subseteq Handling(c, n)
                /\ Inserting(c, n)' \subseteq Inserting(c, n)
    PROVE  RowsInv'
<1> SUFFICES ASSUME NEW c \in Clients, NEW n \in Names
             PROVE  /\ Cardinality(Handling(c, n)') <= peak[c][n]
                    /\ Cardinality(Own(c, n)) + Cardinality(Inserting(c, n)') <= peak[c][n]
  BY DEF RowsInv, PeakIsReached, CopiesInv, Own, Rows
<1>1. /\ Cardinality(Handling(c, n)') <= Cardinality(Handling(c, n))
      /\ Cardinality(Inserting(c, n)') <= Cardinality(Inserting(c, n))
      /\ Cardinality(Handling(c, n)') \in Nat /\ Cardinality(Inserting(c, n)') \in Nat
  BY CountsAreNumbers, FS_Subset, FS_CardinalityType
<1>2. /\ Cardinality(Handling(c, n)) <= peak[c][n]
      /\ Cardinality(Own(c, n)) + Cardinality(Inserting(c, n)) <= peak[c][n]
  BY DEF RowsInv, PeakIsReached, CopiesInv
<1> QED
  BY <1>1, <1>2, CountsAreNumbers

(* An INSERT: the handler leaves those that will insert, its row is there. *)
LEMMA StoredKeepsRows ==
    ASSUME RegistrationTypeOK, RowsInv, UNCHANGED peak,
           NEW l \in Loops, step[l] = "insert", users' = Stored(l),
           \A c \in Clients, n \in Names :
                /\ Handling(c, n)' \subseteq Handling(c, n)
                /\ Inserting(c, n)' \subseteq Inserting(c, n) \ {l}
    PROVE  RowsInv'
<1> SUFFICES ASSUME NEW c \in Clients, NEW n \in Names
             PROVE  /\ Cardinality(Handling(c, n)') <= peak[c][n]
                    /\ Cardinality(Own(c, n)') + Cardinality(Inserting(c, n)') <= peak[c][n]
  BY DEF RowsInv, PeakIsReached, CopiesInv
<1>1. /\ Cardinality(Handling(c, n)) <= peak[c][n]
      /\ Cardinality(Own(c, n)) + Cardinality(Inserting(c, n)) <= peak[c][n]
  BY DEF RowsInv, PeakIsReached, CopiesInv
<1>2. /\ Cardinality(Handling(c, n)') <= Cardinality(Handling(c, n))
      /\ Cardinality(Handling(c, n)') \in Nat
  BY CountsAreNumbers, FS_Subset, FS_CardinalityType
<1>3. /\ IsFiniteSet(Inserting(c, n) \ {l})
      /\ Cardinality(Inserting(c, n) \ {l}) =
            IF l \in Inserting(c, n) THEN Cardinality(Inserting(c, n)) - 1
                                     ELSE Cardinality(Inserting(c, n))
  BY CountsAreNumbers, FS_RemoveElement
<1>4. /\ Cardinality(Inserting(c, n)') <= Cardinality(Inserting(c, n) \ {l})
      /\ Cardinality(Inserting(c, n)') \in Nat
  BY <1>3, FS_Subset, FS_CardinalityType
<1>5. CASE c = client[l] /\ n = name[l]
  <2>1. l \in Inserting(c, n)
    BY <1>5 DEF Inserting, Handling
  <2>2. Own(c, n)' \subseteq Own(c, n) \cup {Len(users) + 1}
    BY StoredAddsRow, StoredAddsToRows DEF Own, Rows
  <2>3. /\ IsFiniteSet(Own(c, n) \cup {Len(users) + 1})
        /\ Cardinality(Own(c, n) \cup {Len(users) + 1}) <= Cardinality(Own(c, n)) + 1
    <3>1. PICK k \in Nat : k = Cardinality(Own(c, n))
      BY CountsAreNumbers
    <3>2. /\ IsFiniteSet(Own(c, n) \cup {Len(users) + 1})
          /\ Cardinality(Own(c, n) \cup {Len(users) + 1}) = k
                \/ Cardinality(Own(c, n) \cup {Len(users) + 1}) = k + 1
      BY <3>1, CountsAreNumbers, FS_AddElement
    <3> QED
      BY <3>1, <3>2
  <2>4. /\ Cardinality(Own(c, n)') <= Cardinality(Own(c, n) \cup {Len(users) + 1})
        /\ Cardinality(Own(c, n)') \in Nat
        /\ Cardinality(Own(c, n) \cup {Len(users) + 1}) \in Nat
    BY <2>2, <2>3, FS_Subset, FS_CardinalityType
  <2> QED
    BY <1>1, <1>2, <1>3, <1>4, <2>1, <2>3, <2>4, CountsAreNumbers
<1>6. CASE ~(c = client[l] /\ n = name[l])
  <2>1. Own(c, n)' = Own(c, n)
    BY <1>6, StoredAddsRow, StoredAddsToRows DEF Own, Rows
  <2> QED
    BY <1>1, <1>2, <1>3, <1>4, <2>1, CountsAreNumbers
<1> QED
  BY <1>5, <1>6

(* However often and however early a client presses the button again, a    *)
(* name gets no more rows of him than requests of his for it overlapped:   *)
(* one, if he waits for the answer before he asks again.                   *)
THEOREM CopiesAreBounded == RegistrationSpec => []CopiesNeedOverlap
<1>1. RegistrationInit => RowsInv
  <2> SUFFICES ASSUME RegistrationInit, NEW c \in Clients, NEW n \in Names
               PROVE  /\ Cardinality(Handling(c, n)) <= peak[c][n]
                      /\ Cardinality(Own(c, n)) + Cardinality(Inserting(c, n)) <= peak[c][n]
    BY DEF RowsInv, PeakIsReached, CopiesInv
  <2>1. Handling(c, n) = {} /\ Inserting(c, n) = {} /\ Own(c, n) = {}
    BY RegistrationAssumption DEF RegistrationInit, Handling, Inserting, Own, Rows
  <2> QED
    BY <2>1, FS_EmptySet DEF RegistrationInit
<1>2. RegistrationTypeOK /\ RowsInv /\ [RegistrationNext]_registrationVars => RowsInv'
  <2> SUFFICES ASSUME RegistrationTypeOK, RowsInv, [RegistrationNext]_registrationVars
               PROVE  RowsInv'
    OBVIOUS
  <2>1. ASSUME NEW l \in Loops, NEW c \in Clients, NEW n \in Names, Receive(l, c, n)
        PROVE  RowsInv'
    <3> SUFFICES ASSUME NEW d \in Clients, NEW k \in Names
                 PROVE  /\ Cardinality(Handling(d, k)') <= peak'[d][k]
                        /\ Cardinality(Own(d, k)') + Cardinality(Inserting(d, k)') <= peak'[d][k]
      BY DEF RowsInv, PeakIsReached, CopiesInv
    <3>1. client[l] = Nobody /\ c # Nobody /\ d # Nobody
      BY <2>1, RegistrationAssumption DEF Receive, RegistrationTypeOK
    <3>2. Own(d, k)' = Own(d, k) /\ Inserting(d, k)' = Inserting(d, k)
      BY <2>1, <3>1 DEF Receive, Own, Rows, Inserting, Handling, RegistrationTypeOK
    <3>3. /\ Cardinality(Handling(d, k)) <= peak[d][k]
          /\ Cardinality(Own(d, k)) + Cardinality(Inserting(d, k)) <= peak[d][k]
      BY DEF RowsInv, PeakIsReached, CopiesInv
    <3>4. CASE d = c /\ k = n
      <4>1. Handling(d, k)' = Handling(d, k) \cup {l} /\ l \notin Handling(d, k)
        BY <2>1, <3>1, <3>4 DEF Receive, Handling, RegistrationTypeOK
      <4>2. Cardinality(Handling(d, k)') = Cardinality(Handling(d, k)) + 1
        BY <4>1, CountsAreNumbers, FS_AddElement
      <4>3. peak'[d][k] = IF Cardinality(Handling(d, k)) + 1 > peak[d][k]
                          THEN Cardinality(Handling(d, k)) + 1 ELSE peak[d][k]
        BY <2>1, <3>4 DEF Receive, RegistrationTypeOK
      <4> QED
        BY <3>2, <3>3, <4>2, <4>3, CountsAreNumbers
    <3>5. CASE ~(d = c /\ k = n)
      <4>1. Handling(d, k)' = Handling(d, k)
        BY <2>1, <3>1, <3>5 DEF Receive, Handling, RegistrationTypeOK
      <4>2. peak'[d][k] = peak[d][k]
        BY <2>1, <3>5 DEF Receive, RegistrationTypeOK
      <4> QED
        BY <3>2, <3>3, <4>1, <4>2
    <3> QED
      BY <3>4, <3>5
  <2>2. ASSUME NEW l \in Loops, NEW status, NEW id, Reply(l, status, id)
        PROVE  \A c \in Clients, n \in Names :
                    /\ Handling(c, n)' \subseteq Handling(c, n)
                    /\ Inserting(c, n)' \subseteq Inserting(c, n) \ {l}
    BY <2>2, RegistrationAssumption DEF Reply, Handling, Inserting, RegistrationTypeOK
  <2>3. ASSUME NEW l \in Loops, UNCHANGED <<users, peak>>,
               NEW status, NEW id, Reply(l, status, id)
        PROVE  RowsInv'
    BY <2>2, <2>3, FewerKeepRows
  <2>4. ASSUME NEW l \in Loops, NameFree(l) PROVE RowsInv'
    <3> SUFFICES ASSUME NEW c \in Clients, NEW n \in Names
                 PROVE  /\ Cardinality(Handling(c, n)') <= peak[c][n]
                        /\ Cardinality(Own(c, n)') + Cardinality(Inserting(c, n)') <= peak[c][n]
      BY <2>4 DEF RowsInv, PeakIsReached, CopiesInv, NameFree
    <3>1. Handling(c, n)' = Handling(c, n) /\ Own(c, n)' = Own(c, n)
      BY <2>4 DEF NameFree, Goto, Handling, Own, Rows
    <3>2. /\ Cardinality(Handling(c, n)) <= peak[c][n]
          /\ Cardinality(Own(c, n)) + Cardinality(Inserting(c, n)) <= peak[c][n]
      BY DEF RowsInv, PeakIsReached, CopiesInv
    <3>3. CASE n = name[l]
      <4>1. Cardinality(Own(c, n)) = 0
        BY <2>4, <3>3, FS_EmptySet DEF NameFree, Own
      <4>2. Inserting(c, n)' \subseteq Handling(c, n)
        BY <3>1 DEF Inserting
      <4>3. /\ Cardinality(Inserting(c, n)') <= Cardinality(Handling(c, n))
            /\ Cardinality(Inserting(c, n)') \in Nat
        BY <4>2, CountsAreNumbers, FS_Subset, FS_CardinalityType
      <4> QED
        BY <3>1, <3>2, <4>1, <4>3, CountsAreNumbers
    <3>4. CASE n # name[l]
      <4>1. Inserting(c, n)' = Inserting(c, n)
        BY <2>4, <3>4 DEF NameFree, Goto, Inserting, Handling, RegistrationTypeOK
      <4> QED
        BY <3>1, <3>2, <4>1
    <3> QED
      BY <3>3, <3>4
  <2>5. ASSUME NEW l \in Loops, Insert(l) PROVE RowsInv'
    <3>1. \A c \in Clients, n \in Names :
                    /\ Handling(c, n)' \subseteq Handling(c, n)
                    /\ Inserting(c, n)' \subseteq Inserting(c, n) \ {l}
      BY <2>5 DEF Insert, Goto, Handling, Inserting, RegistrationTypeOK
    <3> QED
      BY <2>5, <3>1, StoredKeepsRows DEF Insert
  <2>6. ASSUME NEW l \in Loops, DbError(l) PROVE RowsInv'
    <3>1. CASE UNCHANGED users
      BY <2>3, <2>6, <3>1 DEF DbError
    <3>2. CASE step[l] = "insert" /\ users' = Stored(l)
      BY <2>2, <2>6, <3>2, StoredKeepsRows DEF DbError
    <3> QED
      BY <2>6, <3>1, <3>2 DEF DbError
  <2>7. CASE UNCHANGED registrationVars
    <3>1. \A c \in Clients, n \in Names :
                    /\ Handling(c, n)' \subseteq Handling(c, n)
                    /\ Inserting(c, n)' \subseteq Inserting(c, n)
      BY <2>7 DEF registrationVars, loopVars, Handling, Inserting
    <3> QED
      BY <2>7, <3>1, FewerKeepRows DEF registrationVars
  <2> QED
    BY <2>1, <2>3, <2>4, <2>5, <2>6, <2>7
       DEF RegistrationNext, RegistrationFinished, BadBody, NameTaken, InsertRefused, SelectId
<1>3. RegistrationTypeOK /\ RowsInv => CopiesNeedOverlap
  <2> SUFFICES ASSUME RegistrationTypeOK, RowsInv, NEW c \in Clients, NEW n \in Names
               PROVE  Cardinality(Own(c, n)) <= peak[c][n]
    BY DEF CopiesNeedOverlap, Own
  <2>1. Cardinality(Own(c, n)) + Cardinality(Inserting(c, n)) <= peak[c][n]
    BY DEF RowsInv, CopiesInv
  <2> QED
    BY <2>1, CountsAreNumbers
<1> QED
  BY <1>1, <1>2, <1>3, RegistrationTypeCorrect, PTL DEF RegistrationSpec
===============================================================================
