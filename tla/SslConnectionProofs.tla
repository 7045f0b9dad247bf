------------------------- MODULE SslConnectionProofs -------------------------
(***************************************************************************)
(* Proofs that no request is lost between the network and the router, that *)
(* the connection implements RequestService, and that a server set up in   *)
(* the right order serves TLS or nothing, and only in a version that was   *)
(* configured: for every list of calls made before start(), every          *)
(* configuration, every client and every number of requests.               *)
(***************************************************************************)
EXTENDS SslConnection, FiniteSetTheorems, SequenceTheorems, TLAPS

(***************************************************************************)
(* Induction, and what OfKinds() selects                                   *)
(***************************************************************************)
(* A set of naturals with 0 and every successor of its elements is all of  *)
(* them: else the naturals up to one that is missing would map into one    *)
(* fewer by the predecessor.  (The library's induction takes an operator,  *)
(* which the provers cannot give it.)                                      *)
LEMMA Induction ==
    ASSUME NEW T \in SUBSET Nat, 0 \in T, \A n \in T : n + 1 \in T
    PROVE  T = Nat
  <1> SUFFICES ASSUME NEW m \in Nat, m \notin T
               PROVE  FALSE
    OBVIOUS
  <1> DEFINE V == (0..m) \ T
             W == V \ {m}
             f == [x \in V |-> x - 1]
  <1>1. m \in V /\ 0 \notin V /\ V \subseteq 0..m
    OBVIOUS
  <1>2. ASSUME NEW x \in V
        PROVE  x - 1 \in W
    <2>1. x \in Nat /\ x # 0 /\ x \notin T /\ x <= m
      OBVIOUS
    <2>2. x - 1 \in Nat /\ (x - 1) + 1 = x
      BY <2>1
    <2>3. x - 1 \notin T
      BY <2>1, <2>2
    <2> QED BY <2>1, <2>2, <2>3
  <1>3. f \in Injection(V, W)
    <2>1. f \in [V -> W]
      BY <1>2
    <2>2. \A x, y \in V : x - 1 = y - 1 => x = y
      BY <1>1
    <2> QED BY <2>1, <2>2 DEF Injection, IsInjective
  <1>4. IsFiniteSet(V) /\ IsFiniteSet(W) /\ Cardinality(W) = Cardinality(V) - 1
    <2>1. IsFiniteSet(0..m)
      BY FS_Interval
    <2>2. IsFiniteSet(V)
      BY <1>1, <2>1, FS_Subset
    <2> QED BY <1>1, <2>2, FS_RemoveElement
  <1>5. Cardinality(V) <= Cardinality(W) /\ Cardinality(V) \in Nat
    BY <1>3, <1>4, FS_Injection, FS_CardinalityType
  <1> QED BY <1>4, <1>5

(* One step of the recursion of OfKinds(), and its partial results. *)
Step(K, s, g, i) ==
    IF i = 0 THEN <<>>
    ELSE IF s[i].kind \in K THEN Append(g[i - 1], s[i])
    ELSE g[i - 1]

Selects(K, s, g, m) == g = [i \in 0..m |-> Step(K, s, g, i)]

(* The recursion has a solution, of which OfKinds() is the last value. *)
LEMMA OfKindsRecurs ==
    ASSUME NEW K, NEW S, NEW s \in Seq(S)
    PROVE  \E g : Selects(K, s, g, Len(s)) /\ OfKinds(K, s) = g[Len(s)]
  <1> DEFINE T == {m \in Nat : \E g : Selects(K, s, g, m)}
  <1>1. 0 \in T
    <2> DEFINE g == [i \in 0..0 |-> <<>>]
    <2>1. Selects(K, s, g, 0)
      BY DEF Selects, Step
    <2> QED BY <2>1
  <1>2. ASSUME NEW m \in T
        PROVE  m + 1 \in T
    <2>1. /\ m \in Nat /\ m + 1 \in Nat /\ 0..m \subseteq 0..(m + 1)
          /\ \A i \in 0..(m + 1) : i # 0 => i - 1 \in 0..m
      OBVIOUS
    <2>2. PICK g : Selects(K, s, g, m)
      OBVIOUS
    <2> DEFINE h == [i \in 0..(m + 1) |-> Step(K, s, g, i)]
    <2>3. \A i \in 0..m : h[i] = g[i]
      <3>1. \A i \in 0..m : g[i] = Step(K, s, g, i)
        BY <2>2 DEF Selects
      <3> QED BY <2>1, <3>1
    <2>4. \A i \in 0..(m + 1) : Step(K, s, h, i) = Step(K, s, g, i)
      <3> HIDE DEF h
      <3> QED BY <2>1, <2>3 DEF Step
    <2>5. Selects(K, s, h, m + 1)
      <3>1. h = [i \in 0..(m + 1) |-> Step(K, s, g, i)]
        OBVIOUS
      <3> HIDE DEF h
      <3> QED BY <2>4, <3>1 DEF Selects
    <2> HIDE DEF h
    <2> QED BY <2>1, <2>5
  <1>3. PICK g : Selects(K, s, g, Len(s))
    <2>1. T \in SUBSET Nat
      OBVIOUS
    <2> HIDE DEF T
    <2>2. T = Nat
      BY <1>1, <1>2, <2>1, Induction
    <2>3. Len(s) \in T
      BY <2>2
    <2> QED BY <2>3 DEF T
  <1> DEFINE kept == CHOOSE h : Selects(K, s, h, Len(s))
  <1>4. Selects(K, s, kept, Len(s))
    BY <1>3, Zenon
  <1>5. OfKinds(K, s) = kept[Len(s)]
    BY DEF OfKinds, Selects, Step
  <1> QED BY <1>4, <1>5

(* Of nothing it keeps nothing; one item more is kept or it is not. *)
LEMMA OfKindsAppend ==
    ASSUME NEW K, NEW S, NEW s \in Seq(S), NEW x \in S
    PROVE  /\ OfKinds(K, <<>>) = <<>>
           /\ OfKinds(K, Append(s, x)) = IF x.kind \in K THEN Append(OfKinds(K, s), x)
                                         ELSE OfKinds(K, s)
  <1>1. OfKinds(K, <<>>) = <<>>
    <2>1. <<>> \in Seq(S) /\ Len(<<>>) = 0
      OBVIOUS
    <2>2. PICK g : Selects(K, <<>>, g, 0) /\ OfKinds(K, <<>>) = g[0]
      BY <2>1, OfKindsRecurs
    <2> QED BY <2>2 DEF Selects, Step
  <1> DEFINE n == Len(s)
             u == Append(s, x)
  <1>2. /\ n \in Nat /\ u \in Seq(S) /\ Len(u) = n + 1 /\ u[n + 1] = x
        /\ \A i \in 1..n : u[i] = s[i]
    OBVIOUS
  <1> HIDE DEF n, u
  <1>3. PICK g : Selects(K, s, g, n) /\ OfKinds(K, s) = g[n]
    BY OfKindsRecurs DEF n
  <1>4. PICK h : Selects(K, u, h, n + 1) /\ OfKinds(K, u) = h[n + 1]
    BY <1>2, OfKindsRecurs
  <1>5. /\ \A i \in 0..n : g[i] = Step(K, s, g, i)
        /\ \A i \in 0..(n + 1) : h[i] = Step(K, u, h, i)
    BY <1>3, <1>4 DEF Selects
  <1> DEFINE T == {i \in Nat : i <= n => g[i] = h[i]}
  <1>6. 0 \in T
    BY <1>2, <1>5 DEF Step
  <1>7. ASSUME NEW i \in T
        PROVE  i + 1 \in T
    <2>1. i \in Nat /\ i + 1 \in Nat /\ (i + 1) - 1 = i /\ i + 1 # 0
      OBVIOUS
    <2>2. SUFFICES ASSUME i + 1 <= n
                   PROVE  g[i + 1] = h[i + 1]
      BY <2>1
    <2>3. i + 1 \in 0..n /\ i + 1 \in 0..(n + 1) /\ i + 1 \in 1..n /\ i <= n
      BY <1>2, <2>1, <2>2
    <2>4. g[i] = h[i] /\ u[i + 1] = s[i + 1]
      BY <1>2, <2>3
    <2>5. g[i + 1] = Step(K, s, g, i + 1) /\ h[i + 1] = Step(K, u, h, i + 1)
      BY <1>5, <2>3
    <2> QED BY <2>1, <2>4, <2>5 DEF Step
  <1>8. g[n] = h[n]
    <2>1. T \in SUBSET Nat
      OBVIOUS
    <2> HIDE DEF T
    <2>2. T = Nat
      BY <1>6, <1>7, <2>1, Induction
    <2> QED BY <1>2, <2>2 DEF T
  <1>9. h[n + 1] = IF x.kind \in K THEN Append(h[n], x) ELSE h[n]
    <2>1. n + 1 \in 0..(n + 1) /\ n + 1 # 0 /\ (n + 1) - 1 = n
      BY <1>2
    <2> QED BY <1>2, <1>5, <2>1 DEF Step
  <1> QED BY <1>1, <1>3, <1>4, <1>8, <1>9 DEF u

(* What is kept is of these kinds. *)
LEMMA OfKindsTyped ==
    ASSUME NEW K, NEW S, NEW s \in Seq(S)
    PROVE  OfKinds(K, s) \in Seq({x \in S : x.kind \in K})
  <1> DEFINE R == {x \in S : x.kind \in K}
             n == Len(s)
             T == {i \in Nat : \A u \in Seq(S) : Len(u) = i => OfKinds(K, u) \in Seq(R)}
  <1>1. 0 \in T
    <2>1. ASSUME NEW u \in Seq(S), Len(u) = 0
          PROVE  OfKinds(K, u) \in Seq(R)
      <3>1. u = <<>>
        BY <2>1
      <3>2. <<>> \in Seq(R)
        OBVIOUS
      <3>3. PICK g : Selects(K, u, g, 0) /\ OfKinds(K, u) = g[0]
        BY <2>1, OfKindsRecurs
      <3>4. OfKinds(K, u) = <<>>
        BY <3>3 DEF Selects, Step
      <3> QED BY <3>2, <3>4
    <2> QED BY <2>1
  <1>2. ASSUME NEW i \in T
        PROVE  i + 1 \in T
    <2>1. ASSUME NEW u \in Seq(S), Len(u) = i + 1
          PROVE  OfKinds(K, u) \in Seq(R)
      <3> DEFINE t == SubSeq(u, 1, i)
                 x == u[i + 1]
      <3>1. i \in Nat /\ t \in Seq(S) /\ Len(t) = i /\ x \in S /\ u = Append(t, x)
        <4>1. i \in Nat /\ i + 1 \in 1..Len(u) /\ x \in S
          BY <2>1
        <4>2. t \in Seq(S) /\ Len(t) = i
          BY <2>1, <4>1, SubSeqProperties
        <4>3. u = Append(t, x)
          BY <2>1, <4>1, <4>2
        <4> QED BY <4>1, <4>2, <4>3
      <3>2. OfKinds(K, t) \in Seq(R)
        BY <3>1
      <3> HIDE DEF t, x
      <3>3. OfKinds(K, u) = IF x.kind \in K THEN Append(OfKinds(K, t), x) ELSE OfKinds(K, t)
        BY <3>1, OfKindsAppend
      <3>4. x.kind \in K => x \in R
        BY <3>1
      <3> HIDE DEF R
      <3> QED BY <3>2, <3>3, <3>4, AppendProperties
    <2> QED BY <2>1
  <1>3. T \in SUBSET Nat
    OBVIOUS
  <1> HIDE DEF T
  <1>4. T = Nat
    BY <1>1, <1>2, <1>3, Induction
  <1> QED BY <1>4 DEF T

(* What is kept of two sequences is kept of each. *)
LEMMA OfKindsConcat ==
    ASSUME NEW K, NEW S, NEW s \in Seq(S), NEW t \in Seq(S)
    PROVE  OfKinds(K, s \o t) = OfKinds(K, s) \o OfKinds(K, t)
  <1> DEFINE P(u) == OfKinds(K, s \o u) = OfKinds(K, s) \o OfKinds(K, u)
             T == {i \in Nat : \A u \in Seq(S) : Len(u) = i => P(u)}
             R == {x \in S : x.kind \in K}
  <1>1. 0 \in T
    <2>1. ASSUME NEW u \in Seq(S), Len(u) = 0
          PROVE  P(u)
      <3>1. u = <<>> /\ s \o u = s
        BY <2>1
      <3>2. PICK g : Selects(K, u, g, 0) /\ OfKinds(K, u) = g[0]
        BY <2>1, OfKindsRecurs
      <3>3. OfKinds(K, u) = <<>>
        BY <3>2 DEF Selects, Step
      <3>4. OfKinds(K, s) \o <<>> = OfKinds(K, s)
        BY OfKindsTyped, ConcatEmptySeq
      <3> QED BY <3>1, <3>3, <3>4
    <2> QED BY <2>1
  <1>2. ASSUME NEW i \in T
        PROVE  i + 1 \in T
    <2>1. ASSUME NEW u \in Seq(S), Len(u) = i + 1
          PROVE  P(u)
      <3> DEFINE v == SubSeq(u, 1, i)
                 x == u[i + 1]
      <3>1. i \in Nat /\ v \in Seq(S) /\ Len(v) = i /\ x \in S /\ u = Append(v, x)
        <4>1. i \in Nat /\ i + 1 \in 1..Len(u) /\ x \in S
          BY <2>1
        <4>2. v \in Seq(S) /\ Len(v) = i
          BY <2>1, <4>1, SubSeqProperties
        <4>3. u = Append(v, x)
          BY <2>1, <4>1, <4>2
        <4> QED BY <4>1, <4>2, <4>3
      <3>2. P(v)
        BY <3>1
      <3> HIDE DEF v, x
      <3>3. s \o u = Append(s \o v, x) /\ s \o v \in Seq(S)
        BY <3>1
      <3>4. /\ OfKinds(K, u) = IF x.kind \in K THEN Append(OfKinds(K, v), x) ELSE OfKinds(K, v)
            /\ OfKinds(K, s \o u) = IF x.kind \in K THEN Append(OfKinds(K, s \o v), x)
                                    ELSE OfKinds(K, s \o v)
        <4> DEFINE w == s \o v
        <4>1. w \in Seq(S)
          BY <3>3
        <4> HIDE DEF w
        <4>2. OfKinds(K, Append(w, x)) = IF x.kind \in K THEN Append(OfKinds(K, w), x)
                                         ELSE OfKinds(K, w)
          BY <3>1, <4>1, OfKindsAppend
        <4>3. OfKinds(K, u) = IF x.kind \in K THEN Append(OfKinds(K, v), x) ELSE OfKinds(K, v)
          BY <3>1, OfKindsAppend
        <4> QED BY <3>3, <4>2, <4>3 DEF w
      <3> DEFINE a == OfKinds(K, s)
                 b == OfKinds(K, v)
      <3>5. a \in Seq(S) /\ b \in Seq(S)
        <4>1. a \in Seq(R) /\ b \in Seq(R) /\ R \subseteq S
          BY <3>1, OfKindsTyped
        <4> HIDE DEF a, b, R
        <4> QED BY <4>1, SeqMonotonic
      <3>6. a \o Append(b, x) = Append(a \o b, x)
        <4> HIDE DEF a, b
        <4> QED BY <3>1, <3>5
      <3> QED BY <3>2, <3>4, <3>6
    <2> QED BY <2>1
  <1>3. T \in SUBSET Nat
    OBVIOUS
  <1> HIDE DEF T
  <1>4. T = Nat
    BY <1>1, <1>2, <1>3, Induction
  <1> QED BY <1>4 DEF T

(* What is kept of the first item comes first. *)
LEMMA OfKindsHead ==
    ASSUME NEW K, NEW S, NEW s \in Seq(S), s # <<>>
    PROVE  OfKinds(K, s) = IF Head(s).kind \in K THEN <<Head(s)>> \o OfKinds(K, Tail(s))
                           ELSE OfKinds(K, Tail(s))
  <1> DEFINE x == Head(s)
             t == Tail(s)
  <1>1. x \in S /\ t \in Seq(S) /\ s = <<x>> \o t /\ <<x>> \in Seq(S) /\ <<>> \in Seq(S)
        /\ <<x>> = Append(<<>>, x)
    OBVIOUS
  <1> HIDE DEF x, t
  <1>2. OfKinds(K, <<x>>) = IF x.kind \in K THEN <<x>> ELSE <<>>
    <2> DEFINE e == <<>>
    <2>1. e \in Seq(S) /\ <<x>> = Append(e, x)
      BY <1>1
    <2>2. OfKinds(K, e) = e
      BY <1>1, OfKindsAppend
    <2> HIDE DEF e
    <2>3. OfKinds(K, Append(e, x)) = IF x.kind \in K THEN Append(e, x) ELSE e
      BY <1>1, <2>1, <2>2, OfKindsAppend
    <2> QED BY <2>1, <2>3 DEF e
  <1>3. OfKinds(K, s) = OfKinds(K, <<x>>) \o OfKinds(K, t)
    BY <1>1, OfKindsConcat
  <1>4. <<>> \o OfKinds(K, t) = OfKinds(K, t)
    BY <1>1, OfKindsTyped, ConcatEmptySeq
  <1> QED BY <1>2, <1>3, <1>4 DEF x, t

(* Concatenation is associative, and the head of the second sequence may   *)
(* as well end the first.                                                  *)
LEMMA ConcatThree ==
    ASSUME NEW S, NEW a \in Seq(S), NEW b \in Seq(S), NEW c \in Seq(S)
    PROVE  a \o b \o c = a \o (b \o c)
  BY ConcatAssociative

LEMMA ConcatHead ==
    ASSUME NEW S, NEW a \in Seq(S), NEW b \in Seq(S), b # <<>>
    PROVE  Append(a, Head(b)) \o Tail(b) = a \o b
  <1> DEFINE x == Head(b)
             t == Tail(b)
             y == <<x>>
  <1>1. x \in S /\ t \in Seq(S) /\ y \in Seq(S) /\ b = y \o t /\ Append(a, x) = a \o y
    OBVIOUS
  <1> HIDE DEF x, t, y
  <1>2. a \o y \o t = a \o (y \o t)
    BY <1>1, ConcatThree
  <1> QED BY <1>1, <1>2 DEF x, t

(***************************************************************************)
(* Types                                                                   *)
(***************************************************************************)
(* What the items are. *)
LEMMA ItemsTyped ==
    /\ \A k \in {"hello", "finished", "garbage", "bye"} :
          Item(k) \in ClientItems /\ Item(k).kind = k
    /\ \A k \in {"flight", "done", "ticket", "plain400"} :
          Item(k) \in ServerItems /\ Item(k).kind = k
    /\ \A k \in {"good", "malformed"}, i \in 1..MaxRequests :
          Message(k, i) \in Requests /\ Message(k, i).kind = k /\ Message(k, i).n = i
    /\ \A r \in Requests :
          /\ r \in ClientItems /\ r.kind \in {"good", "malformed"} /\ r.n \in 1..MaxRequests
          /\ Answer(r) \in ServerItems /\ Answer(r).kind = "answer" /\ Answer(r).n = r.n
    /\ \A x \in ClientItems : x.kind \in {"good", "malformed"} => x \in Requests
    /\ \A x \in ServerItems : x.kind = "answer" => x.n \in 1..MaxRequests
  <1>1. /\ \A k \in {"hello", "finished", "garbage", "bye"} :
              Item(k) \in ClientItems /\ Item(k).kind = k
        /\ \A k \in {"flight", "done", "ticket", "plain400"} :
              Item(k) \in ServerItems /\ Item(k).kind = k
    BY DEF Item, ClientItems, ServerItems
  <1>2. \A k \in {"good", "malformed"}, i \in 1..MaxRequests :
           Message(k, i) \in Requests /\ Message(k, i).kind = k /\ Message(k, i).n = i
    BY DEF Message, Requests
  <1>3. ASSUME NEW r \in Requests
        PROVE  /\ r \in ClientItems /\ r.kind \in {"good", "malformed"} /\ r.n \in 1..MaxRequests
               /\ Answer(r) \in ServerItems /\ Answer(r).kind = "answer" /\ Answer(r).n = r.n
    <2>1. r \in ClientItems
      BY DEF ClientItems
    <2>2. r.kind \in {"good", "malformed"} /\ r.n \in 1..MaxRequests
      BY DEF Requests, Message
    <2>3. Answer(r) \in ServerItems
      BY <2>2 DEF Answer, ServerItems
    <2>4. Answer(r).kind = "answer" /\ Answer(r).n = r.n
      BY DEF Answer, Message
    <2> QED BY <2>1, <2>2, <2>3, <2>4
  <1>4. ASSUME NEW x \in ClientItems, x.kind \in {"good", "malformed"}
        PROVE  x \in Requests
    BY <1>1, <1>4 DEF ClientItems
  <1>5. ASSUME NEW x \in ServerItems, x.kind = "answer"
        PROVE  x.n \in 1..MaxRequests
    <2>1. x \notin {Item(k) : k \in {"flight", "done", "ticket", "plain400"}}
      BY <1>1, <1>5
    <2>2. PICK i \in 1..MaxRequests : x = Message("answer", i)
      BY <2>1 DEF ServerItems
    <2> QED BY <2>2 DEF Message
  <1> QED BY <1>1, <1>2, <1>3, <1>4, <1>5

(* The requests among records are requests. *)
LEMMA RequestsInTyped ==
    ASSUME NEW s \in Seq(ClientItems)
    PROVE  RequestsIn(s) \in Seq(Requests)
  <1> DEFINE K == {"good", "malformed"}
             R == {x \in ClientItems : x.kind \in K}
  <1>1. OfKinds(K, s) \in Seq(R)
    BY OfKindsTyped
  <1>2. R \subseteq Requests
    BY ItemsTyped
  <1> HIDE DEF R
  <1> QED BY <1>1, <1>2, SeqMonotonic DEF RequestsIn

(* The types of everything but the calls that set the server up. *)
ConnectionTyped ==
    /\ setup \in Setups
    /\ protocol \in Protocols
    /\ coalescing \in Coalescing /\ pipelining \in Pipelining
    /\ conn \in {"setup", "none", "plain", "tls", "crashed", "aborted", "over"}
    /\ state \in {"HANDSHAKE", "ESTABLISHED", "ERROR"}
    /\ handshake \in {"hello", "finished", "over", "failed"}
    /\ state = "HANDSHAKE" <=> handshake # "over"
    /\ readBio \in Seq(ClientItems)
    /\ decrypted \in Seq(Requests)
    /\ writeBio \in Seq(ServerItems)
    /\ served \in Seq(Requests)
    /\ closed \in BOOLEAN
    /\ version \in {"none"} \cup Versions
    /\ client \in {"start", "helloSent", "finishedSent", "open", "gone"}
    /\ sent \in Seq(Requests)
    /\ received \in Seq(ServerItems)
    /\ toServer \in Seq(ClientItems)
    /\ toClient \in Seq(ServerItems)

(* What a read moves into the BIO, and what it leaves. *)
LEMMA FedTyped ==
    ASSUME ConnectionTyped, NEW n \in Segments
    PROVE  /\ n \in Nat \ {0} /\ n <= Len(toServer)
           /\ SubSeq(toServer, 1, n) \in Seq(ClientItems)
           /\ SubSeq(toServer, n + 1, Len(toServer)) \in Seq(ClientItems)
           /\ toServer = SubSeq(toServer, 1, n) \o SubSeq(toServer, n + 1, Len(toServer))
           /\ Fed(n) \in Seq(ClientItems) /\ Fed(n) # <<>>
           /\ Head(Fed(n)) \in ClientItems /\ Tail(Fed(n)) \in Seq(ClientItems)
           /\ Plain(n) \in Seq(Requests)
  <1> DEFINE a == SubSeq(toServer, 1, n)
             b == SubSeq(toServer, n + 1, Len(toServer))
  <1>1. n \in Nat \ {0} /\ n <= Len(toServer) /\ Len(toServer) \in Nat
    BY DEF Segments, ConnectionTyped
  <1>2. a \in Seq(ClientItems) /\ Len(a) = n /\ b \in Seq(ClientItems)
    BY <1>1 DEF ConnectionTyped
  <1>3. toServer = a \o b
    <2>1. toServer \in Seq(ClientItems) /\ 1 \in 1..(Len(toServer) + 1)
          /\ n \in (1 - 1)..Len(toServer) /\ Len(toServer) \in n..Len(toServer)
      BY <1>1 DEF ConnectionTyped
    <2>2. \A m \in 1..(Len(toServer) + 1) : \A k \in (m - 1)..Len(toServer) :
          \A j \in k..Len(toServer) :
             SubSeq(toServer, m, k) \o SubSeq(toServer, k + 1, j) = SubSeq(toServer, m, j)
      BY <2>1, ConcatAdjacentSubSeq
    <2>3. a \o b = SubSeq(toServer, 1, Len(toServer))
      BY <2>1, <2>2
    <2> QED BY <2>1, <2>3, SubSeqFull
  <1>4. Fed(n) = readBio \o a
    BY DEF Fed
  <1> HIDE DEF a, b
  <1>5. Fed(n) \in Seq(ClientItems) /\ Len(Fed(n)) = Len(readBio) + n /\ Len(readBio) \in Nat
    <2>1. readBio \in Seq(ClientItems)
      BY DEF ConnectionTyped
    <2>2. readBio \o a \in Seq(ClientItems) /\ Len(readBio \o a) = Len(readBio) + Len(a)
      BY <1>2, <2>1, ConcatProperties
    <2> QED BY <1>2, <1>4, <2>1, <2>2
  <1>6. Fed(n) # <<>>
    BY <1>1, <1>5
  <1>7. RequestsIn(Fed(n)) \in Seq(Requests)
    BY <1>5, RequestsInTyped
  <1>8. Plain(n) \in Seq(Requests)
    BY <1>7 DEF Plain, ConnectionTyped
  <1> QED BY <1>1, <1>2, <1>3, <1>5, <1>6, <1>8, HeadTailProperties DEF a, b

(* onRead() keeps the types. *)
LEMMA ReadsAreTyped ==
    ASSUME ConnectionTyped, NEW n \in Segments, OnRead(n)
    PROVE  ConnectionTyped'
  <1>1. Read(n)
    BY DEF OnRead, HandshakeContinues, HandshakeCompletes, HandshakeFails, Decrypt,
           NothingToServe, ServeRequest, RefuseRequest, ReadAfterError
  <1>2. SUFFICES /\ state' \in {"HANDSHAKE", "ESTABLISHED", "ERROR"}
                 /\ handshake' \in {"hello", "finished", "over", "failed"}
                 /\ state' = "HANDSHAKE" <=> handshake' # "over"
                 /\ readBio' \in Seq(ClientItems)
                 /\ decrypted' \in Seq(Requests)
                 /\ writeBio' \in Seq(ServerItems)
                 /\ served' \in Seq(Requests)
                 /\ closed' \in BOOLEAN
                 /\ toClient' \in Seq(ServerItems)
    BY <1>1, FedTyped DEF Read, ConnectionTyped, modeVars, setupVars, clientVars
  <1>3. /\ Fed(n) \in Seq(ClientItems) /\ Tail(Fed(n)) \in Seq(ClientItems)
        /\ Plain(n) \in Seq(Requests)
    BY FedTyped
  <1>4. \A k \in {"flight", "done", "ticket", "plain400"} : Item(k) \in ServerItems
    BY ItemsTyped
  <1>5. \A q \in Seq(ServerItems), x \in ServerItems : Append(q, x) \in Seq(ServerItems)
    BY AppendProperties
  <1>6. \A q, r \in Seq(ServerItems) : q \o r \in Seq(ServerItems)
    BY ConcatProperties
  <1>7. CASE HandshakeContinues(n)
    <2>1. Append(writeBio, Item("flight")) \in Seq(ServerItems)
      BY <1>4, <1>5 DEF ConnectionTyped
    <2>2. toClient' \in Seq(ServerItems)
      BY <1>6, <1>7, <2>1 DEF HandshakeContinues, ToNetwork, ConnectionTyped
    <2> QED BY <1>3, <1>7, <2>2 DEF HandshakeContinues, ConnectionTyped
  <1>8. CASE HandshakeCompletes(n)
    <2>1. writeBio' \in Seq(ServerItems)
      BY <1>4, <1>5, <1>8 DEF HandshakeCompletes, ConnectionTyped
    <2> QED BY <1>3, <1>8, <2>1 DEF HandshakeCompletes, ConnectionTyped
  <1>9. CASE HandshakeFails(n)
    BY <1>3, <1>9 DEF HandshakeFails, ConnectionTyped
  <1>10. CASE ReadAfterError(n)
    BY <1>3, <1>10 DEF ReadAfterError, ConnectionTyped
  <1>11. ASSUME Decrypt(n)
         PROVE  /\ state' \in {"HANDSHAKE", "ESTABLISHED", "ERROR"}
                /\ handshake' \in {"hello", "finished", "over", "failed"}
                /\ state' = "HANDSHAKE" <=> handshake' # "over"
                /\ readBio' \in Seq(ClientItems)
    <2>1. <<>> \in Seq(ClientItems)
      OBVIOUS
    <2> QED BY <1>11, <2>1 DEF Decrypt, ConnectionTyped
  <1>12. CASE NothingToServe(n)
    <2>1. <<>> \in Seq(Requests)
      OBVIOUS
    <2> QED BY <1>11, <1>12, <2>1 DEF NothingToServe, ConnectionTyped
  <1>13. ASSUME NEW close \in BOOLEAN, ServeRequest(n, close)
         PROVE  /\ readBio' \in Seq(ClientItems) /\ decrypted' \in Seq(Requests)
                /\ writeBio' \in Seq(ServerItems) /\ served' \in Seq(Requests)
                /\ closed' \in BOOLEAN /\ toClient' \in Seq(ServerItems)
    <2>1. Head(Plain(n)) \in Requests /\ Tail(Plain(n)) \in Seq(Requests)
      BY <1>3, <1>13, HeadTailProperties DEF ServeRequest
    <2>2. served' \in Seq(Requests) /\ decrypted' \in Seq(Requests)
      BY <1>13, <2>1, AppendProperties DEF ServeRequest, Kept, ConnectionTyped
    <2>3. Append(writeBio, Answer(Head(Plain(n)))) \in Seq(ServerItems) /\ <<>> \in Seq(ServerItems)
      BY <1>5, <2>1, ItemsTyped DEF ConnectionTyped
    <2>4. toClient' \in Seq(ServerItems) /\ writeBio' \in Seq(ServerItems)
      BY <1>6, <1>13, <2>3 DEF ServeRequest, ConnectionTyped
    <2> QED BY <1>11, <1>13, <2>2, <2>4 DEF ServeRequest, ConnectionTyped
  <1>14. CASE RefuseRequest(n)
    <2>1. toClient' \in Seq(ServerItems)
      BY <1>4, <1>5, <1>14 DEF RefuseRequest, ConnectionTyped
    <2> QED BY <1>3, <1>11, <1>14, <2>1 DEF RefuseRequest, ConnectionTyped
  <1>15. CASE \E close \in BOOLEAN : ServeRequest(n, close)
    BY <1>11, <1>13, <1>15 DEF ServeRequest
  <1> QED BY <1>7, <1>8, <1>9, <1>10, <1>12, <1>14, <1>15 DEF OnRead

(* The client keeps them, too. *)
LEMMA ClientsAreTyped ==
    ASSUME ConnectionTyped,
           \/ \E v \in Versions : ClientHello(v)
           \/ ClientFinished
           \/ ClientReceives
           \/ \E k \in {"good", "malformed"} : ClientRequest(k)
           \/ \E k \in {"garbage", "bye"} : ClientEnds(k)
    PROVE  ConnectionTyped'
  <1>1. UNCHANGED <<modeVars, conn, sslVars, served, closed>>
    BY DEF ClientHello, ClientFinished, ClientReceives, ClientRequest, ClientEnds, ServerUnchanged
  <1>2. SUFFICES /\ version' \in {"none"} \cup Versions
                 /\ client' \in {"start", "helloSent", "finishedSent", "open", "gone"}
                 /\ sent' \in Seq(Requests)
                 /\ received' \in Seq(ServerItems)
                 /\ toServer' \in Seq(ClientItems)
                 /\ toClient' \in Seq(ServerItems)
    BY <1>1 DEF ConnectionTyped, modeVars, setupVars, sslVars
  <1>3. \A x \in ClientItems : Append(toServer, x) \in Seq(ClientItems)
    BY AppendProperties DEF ConnectionTyped
  <1>4. \A k \in {"hello", "finished", "garbage", "bye"} : Item(k) \in ClientItems
    BY ItemsTyped
  <1>5. toClient # <<>> => Head(toClient) \in ServerItems /\ Tail(toClient) \in Seq(ServerItems)
    BY HeadTailProperties DEF ConnectionTyped
  <1>6. CASE \E v \in Versions : ClientHello(v)
    BY <1>3, <1>4, <1>6 DEF ClientHello, Transmit, ConnectionTyped
  <1>7. CASE ClientFinished
    BY <1>3, <1>4, <1>5, <1>7 DEF ClientFinished, Transmit, ConnectionTyped
  <1>8. CASE ClientReceives
    <2>1. received' \in Seq(ServerItems)
      BY <1>5, <1>8, AppendProperties DEF ClientReceives, ConnectionTyped
    <2> QED BY <1>5, <1>8, <2>1 DEF ClientReceives, ConnectionTyped
  <1>9. ASSUME NEW k \in {"good", "malformed"}, ClientRequest(k)
        PROVE  /\ sent' \in Seq(Requests) /\ toServer' \in Seq(ClientItems)
               /\ UNCHANGED <<version, client, received, toClient>>
    <2> DEFINE r == Message(k, Len(sent) + 1)
    <2>1. Len(sent) + 1 \in 1..MaxRequests
      BY <1>9, ConstantsAssumption DEF ClientRequest, ConnectionTyped
    <2>2. r \in Requests /\ r \in ClientItems
      BY <2>1, ItemsTyped
    <2>3. sent' = Append(sent, r) /\ toServer' = Append(toServer, r)
      BY <1>9 DEF ClientRequest, Transmit
    <2> HIDE DEF r
    <2>4. sent' \in Seq(Requests)
      BY <2>2, <2>3, AppendProperties DEF ConnectionTyped
    <2> QED BY <1>3, <1>9, <2>2, <2>3, <2>4 DEF ClientRequest
  <1>10. CASE \E k \in {"good", "malformed"} : ClientRequest(k)
    BY <1>9, <1>10 DEF ConnectionTyped
  <1>11. CASE \E k \in {"garbage", "bye"} : ClientEnds(k)
    BY <1>3, <1>4, <1>11 DEF ClientEnds, Transmit, ConnectionTyped
  <1> QED BY <1>6, <1>7, <1>8, <1>10, <1>11

(***************************************************************************)
(* Setting the server up                                                   *)
(***************************************************************************)
(* The part of the state that the calls before start() work on. *)
SetupTyped ==
    /\ setup \in Seq(SetupCalls)
    /\ calls \in 0..Len(setup)
    /\ useSSL \in BOOLEAN
    /\ context \in BOOLEAN

(* What the calls made so far have brought about: enableSSL() has set      *)
(* useSSL_m, and a setSslConfig() that came after it has left a context or *)
(* ended the process.  A connection is accepted after the last of them.    *)
SetupInv ==
    /\ \A i \in 1..calls : setup[i] = "enableSSL" => useSSL
    /\ \A i, j \in 1..calls :
           (i < j /\ setup[i] = "enableSSL" /\ setup[j] = "setSslConfig")
               => context \/ conn = "aborted"
    /\ conn \notin {"setup", "aborted"} => calls = Len(setup)
    /\ SetUp => conn \notin {"plain", "crashed"}

(* The calls before start() keep their types: of these variables only      *)
(* EnableSSL and SetSslConfig change any.                                  *)
THEOREM SetupCorrect == Spec => []SetupTyped
  <1> USE ConstantsAssumption DEF SetupTyped
  <1>1. Init => SetupTyped
    <2> SUFFICES ASSUME Init
                 PROVE  SetupTyped
      OBVIOUS
    <2>1. setup \in Seq(SetupCalls)
      BY DEF Init
    <2>2. calls \in 0..Len(setup)
      BY <2>1 DEF Init
    <2>3. useSSL \in BOOLEAN /\ context \in BOOLEAN
      BY DEF Init
    <2> QED BY <2>1, <2>2, <2>3
  <1>2. SetupTyped /\ [Next]_vars => SetupTyped'
    <2> SUFFICES ASSUME SetupTyped, [Next]_vars
                 PROVE  SetupTyped'
      OBVIOUS
    <2>1. CASE EnableSSL
      BY <2>1 DEF EnableSSL, Calling, Unconnected
    <2>2. CASE SetSslConfig
      <3>1. context' \in BOOLEAN /\ UNCHANGED <<setup, useSSL>>
        BY <2>2 DEF SetSslConfig, Unconnected
      <3>2. calls' \in 0..Len(setup)
        BY <2>2 DEF SetSslConfig, Calling
      <3> QED BY <3>1, <3>2
    <2>3. CASE UNCHANGED setupVars
      BY <2>3 DEF setupVars
    <2>4. CASE Start \/ OnConnection
      BY <2>4 DEF Start, OnConnection, Unconnected
    <2>5. CASE OnDisconnection
      BY <2>5, <2>3 DEF OnDisconnection, modeVars
    <2>6. CASE \/ \E v \in Versions : ClientHello(v)
               \/ ClientFinished
               \/ ClientReceives
               \/ \E k \in {"good", "malformed"} : ClientRequest(k)
               \/ \E k \in {"garbage", "bye"} : ClientEnds(k)
      BY <2>6, <2>3 DEF ClientHello, ClientFinished, ClientReceives, ClientRequest,
                        ClientEnds, ServerUnchanged, modeVars
    <2>7. CASE \E n \in Segments : OnRead(n)
      <3> PICK n \in Segments : OnRead(n)
        BY <2>7
      <3>1. Read(n)
        BY DEF OnRead, HandshakeContinues, HandshakeCompletes, HandshakeFails, Decrypt,
               NothingToServe, ServeRequest, RefuseRequest, ReadAfterError
      <3> QED BY <3>1, <2>3 DEF Read, modeVars
    <2>8. CASE Quiet \/ UNCHANGED vars
      BY <2>8, <2>3 DEF Quiet, vars, modeVars
    <2> QED BY <2>1, <2>2, <2>4, <2>5, <2>6, <2>7, <2>8 DEF Next
  <1> QED BY <1>1, <1>2, PTL DEF Spec

(* A server on which enableSSL() and then setSslConfig() were called,      *)
(* whatever else was called in between, before or after, and whatever      *)
(* useSSL_m held at first, takes no plain connection and dereferences no   *)
(* missing context.                                                        *)
LEMMA SetupsAreKept == Spec => []SetupInv
  <1> USE DEF SetupTyped, SetupInv
  <1>1. Init => SetupInv
    BY DEF Init
  <1>2. SetupTyped /\ SetupInv /\ [Next]_vars => SetupInv'
    <2> SUFFICES ASSUME SetupTyped, SetupInv, [Next]_vars
                 PROVE  SetupInv'
      OBVIOUS
    <2>1. CASE EnableSSL
      <3>1. /\ setup' = setup /\ calls' = calls + 1 /\ useSSL' = TRUE
            /\ UNCHANGED <<context, conn>> /\ conn = "setup"
            /\ setup[calls + 1] = "enableSSL"
        BY <2>1 DEF EnableSSL, Calling, Unconnected
      <3>2. \A j \in 1..(calls + 1) : j \in 1..calls \/ j = calls + 1
        OBVIOUS
      <3>3. \A i, j \in 1..(calls + 1) : i < j => i \in 1..calls
        OBVIOUS
      <3> QED BY <3>1, <3>2, <3>3 DEF SetUp
    <2>2. CASE SetSslConfig
      <3>1. /\ setup' = setup /\ calls' = calls + 1 /\ useSSL' = useSSL
            /\ setup[calls + 1] = "setSslConfig" /\ conn = "setup"
            /\ conn' \in {"setup", "aborted"}
            /\ useSSL => context' \/ conn' = "aborted"
        BY <2>2 DEF SetSslConfig, Calling, Unconnected
      <3>2. \A j \in 1..(calls + 1) : j \in 1..calls \/ j = calls + 1
        OBVIOUS
      <3>3. \A i, j \in 1..(calls + 1) : i < j => i \in 1..calls
        OBVIOUS
      <3> QED BY <3>1, <3>2, <3>3 DEF SetUp
    <2>3. CASE Start
      BY <2>3 DEF Start, Unconnected, SetUp
    <2>4. CASE OnConnection
      BY <2>4 DEF OnConnection, Unconnected, SetUp
    <2>5. CASE OnDisconnection
      BY <2>5 DEF OnDisconnection, modeVars, setupVars, SetUp
    <2>6. CASE UNCHANGED <<setupVars, conn>>
      BY <2>6 DEF setupVars, SetUp
    <2>7. CASE \/ \E v \in Versions : ClientHello(v)
               \/ ClientFinished
               \/ ClientReceives
               \/ \E k \in {"good", "malformed"} : ClientRequest(k)
               \/ \E k \in {"garbage", "bye"} : ClientEnds(k)
      BY <2>7, <2>6 DEF ClientHello, ClientFinished, ClientReceives, ClientRequest,
                        ClientEnds, ServerUnchanged, modeVars
    <2>8. CASE \E n \in Segments : OnRead(n)
      <3> PICK n \in Segments : OnRead(n)
        BY <2>8
      <3>1. Read(n)
        BY DEF OnRead, HandshakeContinues, HandshakeCompletes, HandshakeFails, Decrypt,
               NothingToServe, ServeRequest, RefuseRequest, ReadAfterError
      <3> QED BY <3>1, <2>6 DEF Read, modeVars
    <2>9. CASE Quiet \/ UNCHANGED vars
      BY <2>9, <2>6 DEF Quiet, vars, modeVars
    <2> QED BY <2>1, <2>2, <2>3, <2>4, <2>5, <2>7, <2>8, <2>9 DEF Next
  <1> QED BY <1>1, <1>2, SetupCorrect, PTL DEF Spec

(* Every variable has its type: the items in every queue are those that    *)
(* belong there, only requests reach HttpServer, and SslConnection and     *)
(* OpenSSL agree on whether the handshake is over.                         *)
THEOREM TypeCorrect == Spec => []TypeOK
  <1>1. Init => ConnectionTyped
    <2> SUFFICES ASSUME Init
                 PROVE  ConnectionTyped
      OBVIOUS
    <2>1. /\ <<>> \in Seq(ClientItems) /\ <<>> \in Seq(Requests) /\ <<>> \in Seq(ServerItems)
      OBVIOUS
    <2>2. /\ setup \in Setups /\ protocol \in Protocols
          /\ coalescing \in Coalescing /\ pipelining \in Pipelining
          /\ conn = "setup" /\ state = "HANDSHAKE" /\ handshake = "hello"
          /\ closed = FALSE /\ version = "none" /\ client = "start"
      BY DEF Init
    <2>3. /\ readBio \in Seq(ClientItems) /\ decrypted \in Seq(Requests)
          /\ writeBio \in Seq(ServerItems) /\ served \in Seq(Requests)
          /\ sent \in Seq(Requests) /\ received \in Seq(ServerItems)
          /\ toServer \in Seq(ClientItems) /\ toClient \in Seq(ServerItems)
      BY <2>1 DEF Init
    <2> QED BY <2>2, <2>3 DEF ConnectionTyped
  <1>2. SetupTyped /\ ConnectionTyped /\ [Next]_vars => ConnectionTyped'
    <2> SUFFICES ASSUME SetupTyped, ConnectionTyped, [Next]_vars
                 PROVE  ConnectionTyped'
      OBVIOUS
    <2>1. CASE EnableSSL \/ SetSslConfig \/ Start \/ OnConnection
      BY <2>1 DEF EnableSSL, SetSslConfig, Start, OnConnection, Unconnected, ConnectionTyped,
                  sslVars, clientVars
    <2>2. CASE OnDisconnection
      BY <2>2 DEF OnDisconnection, modeVars, setupVars, sslVars, clientVars, ConnectionTyped
    <2>3. CASE \/ \E v \in Versions : ClientHello(v)
               \/ ClientFinished
               \/ ClientReceives
               \/ \E k \in {"good", "malformed"} : ClientRequest(k)
               \/ \E k \in {"garbage", "bye"} : ClientEnds(k)
      BY <2>3, ClientsAreTyped
    <2>4. CASE \E n \in Segments : OnRead(n)
      BY <2>4, ReadsAreTyped
    <2>5. CASE Quiet \/ UNCHANGED vars
      BY <2>5 DEF Quiet, vars, modeVars, setupVars, sslVars, clientVars, ConnectionTyped
    <2> QED BY <2>1, <2>2, <2>3, <2>4, <2>5 DEF Next
  <1>3. Spec => []ConnectionTyped
    BY <1>1, <1>2, SetupCorrect, PTL DEF Spec
  <1>4. SetupTyped /\ ConnectionTyped => TypeOK
    BY DEF SetupTyped, ConnectionTyped, TypeOK
  <1> QED BY <1>3, <1>4, SetupCorrect, PTL

(***************************************************************************)
(* Nothing is lost                                                         *)
(***************************************************************************)
(* A read moves requests from the network to OpenSSL and leaves the rest.  *)
LEMMA ReadsMoveRequests ==
    ASSUME ConnectionTyped, NEW n \in Segments, Read(n)
    PROVE  /\ toServer' \in Seq(ClientItems)
           /\ RequestsIn(readBio) \o RequestsIn(toServer)
                 = RequestsIn(Fed(n)) \o RequestsIn(toServer')
  <1> DEFINE a == SubSeq(toServer, 1, n)
             b == SubSeq(toServer, n + 1, Len(toServer))
  <1>1. /\ a \in Seq(ClientItems) /\ b \in Seq(ClientItems) /\ toServer = a \o b
        /\ readBio \in Seq(ClientItems)
    BY FedTyped DEF ConnectionTyped
  <1>2. Fed(n) = readBio \o a /\ toServer' = b
    BY DEF Fed, Read
  <1> HIDE DEF a, b
  <1>3. RequestsIn(Fed(n)) = RequestsIn(readBio) \o RequestsIn(a)
    BY <1>1, <1>2, OfKindsConcat DEF RequestsIn
  <1>4. RequestsIn(toServer) = RequestsIn(a) \o RequestsIn(b)
    BY <1>1, OfKindsConcat DEF RequestsIn
  <1>5. /\ RequestsIn(a) \in Seq(Requests) /\ RequestsIn(b) \in Seq(Requests)
        /\ RequestsIn(readBio) \in Seq(Requests)
    BY <1>1, RequestsInTyped
  <1>6. (RequestsIn(readBio) \o RequestsIn(a)) \o RequestsIn(b)
            = RequestsIn(readBio) \o (RequestsIn(a) \o RequestsIn(b))
    BY <1>5, ConcatThree
  <1> QED BY <1>1, <1>2, <1>3, <1>4, <1>6

(* What the client has sent, as onRead() finds it: with the router, with   *)
(* what can be decrypted now, or left on the network.                      *)
LEMMA ReadsSplitSent ==
    ASSUME ConnectionTyped, NothingLostInside, NEW n \in Segments, Read(n)
    PROVE  /\ sent' = sent
           /\ sent = served \o (decrypted \o RequestsIn(Fed(n))) \o RequestsIn(toServer')
           /\ RequestsIn(Fed(n)) \in Seq(Requests) /\ RequestsIn(toServer') \in Seq(Requests)
  <1> DEFINE f == RequestsIn(Fed(n))
             r == RequestsIn(readBio)
             t == RequestsIn(toServer)
             u == RequestsIn(toServer')
  <1>1. toServer' \in Seq(ClientItems)
    BY ReadsMoveRequests
  <1>2. /\ f \in Seq(Requests) /\ r \in Seq(Requests) /\ t \in Seq(Requests)
        /\ u \in Seq(Requests)
        /\ served \in Seq(Requests) /\ decrypted \in Seq(Requests)
    BY <1>1, FedTyped, RequestsInTyped DEF ConnectionTyped
  <1>3. r \o t = f \o u
    BY ReadsMoveRequests
  <1>4. sent' = sent /\ sent = served \o decrypted \o r \o t
    BY DEF Read, clientVars, NothingLostInside
  <1> HIDE DEF f, r, t, u
  <1>5. sent = served \o (decrypted \o f) \o u
    <2> DEFINE d == served \o decrypted
    <2>1. /\ served \in Seq(Requests) /\ decrypted \in Seq(Requests) /\ f \in Seq(Requests)
          /\ r \in Seq(Requests) /\ t \in Seq(Requests) /\ u \in Seq(Requests)
      BY <1>2
    <2>2. d \in Seq(Requests)
      BY <2>1, ConcatProperties
    <2>3. d \o f = served \o (decrypted \o f)
      <3>1. /\ served \in Seq(Requests) /\ decrypted \in Seq(Requests)
            /\ f \in Seq(Requests)
        BY <2>1
      <3> QED BY <3>1, ConcatThree
    <2>4. sent = d \o r \o t
      BY <1>4
    <2> HIDE DEF d
    <2>5. d \o r \o t = d \o (r \o t)
      <3>1. r \in Seq(Requests) /\ t \in Seq(Requests)
        BY <2>1
      <3> QED BY <2>2, <3>1, ConcatThree
    <2>6. d \o f \o u = d \o (f \o u)
      <3>1. f \in Seq(Requests) /\ u \in Seq(Requests)
        BY <2>1
      <3> QED BY <2>2, <3>1, ConcatThree
    <2> QED BY <1>3, <2>3, <2>4, <2>5, <2>6
  <1> QED BY <1>2, <1>4, <1>5 DEF f, u

(* onRead() moves them on, from OpenSSL to the buffer and from its front   *)
(* to the router, and puts none of them elsewhere.                         *)
LEMMA ReadsLoseNothing ==
    ASSUME ConnectionTyped, NothingLostInside, NEW n \in Segments, OnRead(n)
    PROVE  NothingLostInside'
  <1>1. Read(n)
    BY DEF OnRead, HandshakeContinues, HandshakeCompletes, HandshakeFails, Decrypt,
           NothingToServe, ServeRequest, RefuseRequest, ReadAfterError
  <1> DEFINE f == RequestsIn(Fed(n))
             u == RequestsIn(toServer')
             q == RequestsIn(readBio')
  <1>2. ConnectionTyped'
    BY ReadsAreTyped
  <1>3. /\ f \in Seq(Requests) /\ u \in Seq(Requests) /\ q \in Seq(Requests)
        /\ served \in Seq(Requests) /\ decrypted \in Seq(Requests)
        /\ served' \in Seq(Requests) /\ decrypted' \in Seq(Requests)
    BY <1>2, FedTyped, RequestsInTyped DEF ConnectionTyped
  <1>5. sent' = sent
    BY <1>1 DEF Read, clientVars
  <1>6. NothingLostInside' <=> served' \o decrypted' \o q \o u = sent
    BY <1>5 DEF NothingLostInside
  <1>7. /\ Fed(n) \in Seq(ClientItems) /\ Fed(n) # <<>> /\ Plain(n) \in Seq(Requests)
        /\ Plain(n) = decrypted \o f
    BY FedTyped DEF Plain
  <1>8. sent = served \o (decrypted \o f) \o u
    BY <1>1, ReadsSplitSent
  <1> HIDE DEF f, u, q
  <1>9. ASSUME served' \o decrypted' \o q = served \o (decrypted \o f)
        PROVE  NothingLostInside'
    BY <1>6, <1>8, <1>9
  <1>10. ASSUME q = f, UNCHANGED <<served, decrypted>>
         PROVE  NothingLostInside'
    <2>1. served \o decrypted \o f = served \o (decrypted \o f)
      <3>1. served \in Seq(Requests) /\ decrypted \in Seq(Requests) /\ f \in Seq(Requests)
        BY <1>3
      <3> QED BY <3>1, ConcatThree
    <2> QED BY <1>9, <1>10, <2>1
  <1>11. ASSUME Head(Fed(n)).kind \notin {"good", "malformed"}, readBio' = Tail(Fed(n)),
                UNCHANGED <<served, decrypted>>
         PROVE  NothingLostInside'
    <2>1. q = f
      BY <1>7, <1>11, OfKindsHead DEF q, f, RequestsIn
    <2> QED BY <1>10, <1>11, <2>1
  <1>12. CASE HandshakeContinues(n)
    BY <1>11, <1>12, ItemsTyped DEF HandshakeContinues
  <1>13. CASE HandshakeCompletes(n)
    BY <1>11, <1>13, ItemsTyped DEF HandshakeCompletes
  <1>14. CASE HandshakeFails(n)
    BY <1>10, <1>14 DEF HandshakeFails, q, f
  <1>15. CASE ReadAfterError(n)
    BY <1>10, <1>15 DEF ReadAfterError, q, f
  <1>16. ASSUME Decrypt(n), served' \o decrypted' = served \o Plain(n)
         PROVE  NothingLostInside'
    <2>1. q = <<>>
      <3> DEFINE e == <<>>
      <3>1. RequestsIn(e) = e
        BY OfKindsAppend, ItemsTyped, EmptySeq DEF RequestsIn
      <3> HIDE DEF e
      <3>2. readBio' = e
        BY <1>16 DEF Decrypt, e
      <3> QED BY <3>1, <3>2 DEF q, e
    <2>2. served' \o decrypted' \in Seq(Requests)
      BY <1>3, ConcatProperties
    <2>3. served' \o decrypted' \o <<>> = served' \o decrypted'
      BY <2>2, ConcatEmptySeq
    <2> QED BY <1>7, <1>9, <1>16, <2>1, <2>3
  <1>17. CASE NothingToServe(n)
    BY <1>16, <1>17 DEF NothingToServe
  <1>18. CASE \E close \in BOOLEAN : ServeRequest(n, close)
    <2> DEFINE p == Plain(n)
    <2>1. Decrypt(n) /\ p # <<>> /\ served' = Append(served, Head(p)) /\ decrypted' = Tail(p)
      BY <1>18 DEF ServeRequest, Kept
    <2>2. p \in Seq(Requests)
      BY <1>7
    <2> HIDE DEF p
    <2>3. Append(served, Head(p)) \o Tail(p) = served \o p
      BY <1>3, <2>1, <2>2, ConcatHead
    <2> QED BY <1>16, <2>1, <2>3 DEF p
  <1>19. CASE RefuseRequest(n)
    BY <1>16, <1>19 DEF RefuseRequest
  <1> QED BY <1>12, <1>13, <1>14, <1>15, <1>17, <1>18, <1>19 DEF OnRead

(* The client puts a request on the network, and nothing else that could   *)
(* be taken for one.                                                       *)
LEMMA ClientsLoseNothing ==
    ASSUME ConnectionTyped, NothingLostInside,
           \/ \E v \in Versions : ClientHello(v)
           \/ ClientFinished
           \/ ClientReceives
           \/ \E k \in {"good", "malformed"} : ClientRequest(k)
           \/ \E k \in {"garbage", "bye"} : ClientEnds(k)
    PROVE  NothingLostInside'
  <1>1. UNCHANGED <<served, decrypted, readBio>>
    BY DEF ClientHello, ClientFinished, ClientReceives, ClientRequest, ClientEnds,
           ServerUnchanged, sslVars
  <1> DEFINE d == served \o decrypted \o RequestsIn(readBio)
             t == RequestsIn(toServer)
  <1>2. d' = d
    BY <1>1
  <1>3. d \in Seq(Requests) /\ t \in Seq(Requests)
    <2>1. RequestsIn(readBio) \in Seq(Requests) /\ t \in Seq(Requests)
      BY RequestsInTyped DEF ConnectionTyped
    <2>2. served \o decrypted \in Seq(Requests)
      BY ConcatProperties DEF ConnectionTyped
    <2> QED BY <2>1, <2>2, ConcatProperties
  <1>4. (NothingLostInside <=> d \o t = sent) /\ (NothingLostInside' <=> d' \o t' = sent')
    BY DEF NothingLostInside
  <1>5. toServer \in Seq(ClientItems)
    BY DEF ConnectionTyped
  <1>6. ASSUME NEW k \in {"hello", "finished", "garbage", "bye"}, Transmit(Item(k)), sent' = sent
        PROVE  NothingLostInside'
    <2>1. Item(k) \in ClientItems /\ Item(k).kind \notin {"good", "malformed"}
      BY ItemsTyped
    <2>2. t' = t
      BY <1>5, <1>6, <2>1, OfKindsAppend DEF Transmit, RequestsIn
    <2> QED BY <1>2, <1>4, <1>6, <2>2
  <1>7. CASE \/ \E v \in Versions : ClientHello(v)
             \/ ClientFinished
             \/ \E k \in {"garbage", "bye"} : ClientEnds(k)
    BY <1>6, <1>7 DEF ClientHello, ClientFinished, ClientEnds
  <1>8. CASE ClientReceives
    BY <1>2, <1>4, <1>8 DEF ClientReceives
  <1>9. ASSUME NEW k \in {"good", "malformed"}, ClientRequest(k)
        PROVE  NothingLostInside'
    <2> DEFINE x == Message(k, Len(sent) + 1)
    <2>1. Len(sent) + 1 \in 1..MaxRequests
      BY <1>9, ConstantsAssumption DEF ClientRequest, ConnectionTyped
    <2>2. x \in Requests /\ x \in ClientItems /\ x.kind \in {"good", "malformed"}
      BY <2>1, ItemsTyped
    <2>3. sent' = Append(sent, x) /\ toServer' = Append(toServer, x)
      BY <1>9 DEF ClientRequest, Transmit
    <2> HIDE DEF x
    <2>4. t' = Append(t, x)
      BY <1>5, <2>2, <2>3, OfKindsAppend DEF RequestsIn
    <2>5. d \o Append(t, x) = Append(d \o t, x)
      <3> HIDE DEF d, t
      <3> QED BY <1>3, <2>2
    <2> QED BY <1>2, <1>4, <2>3, <2>4, <2>5
  <1> QED BY <1>7, <1>8, <1>9

(* NothingLostInside: whatever the client sends, however its records are   *)
(* cut into segments and whichever errors they meet, its requests are, in  *)
(* their order and each once, at the router, in decryptedBuffer_m, in the  *)
(* read BIO or still on their way.                                         *)
THEOREM NothingIsLost == Spec => []NothingLostInside
  <1>1. Init => NothingLostInside
    <2> SUFFICES ASSUME Init
                 PROVE  NothingLostInside
      OBVIOUS
    <2> DEFINE e == <<>>
    <2>1. RequestsIn(e) = e
      BY OfKindsAppend, EmptySeq DEF RequestsIn
    <2>2. e \o e = e
      OBVIOUS
    <2>3. served = e /\ decrypted = e /\ readBio = e /\ toServer = e /\ sent = e
      BY DEF Init
    <2> HIDE DEF e
    <2> QED BY <2>1, <2>2, <2>3 DEF NothingLostInside
  <1>2. ConnectionTyped /\ NothingLostInside /\ [Next]_vars => NothingLostInside'
    <2> SUFFICES ASSUME ConnectionTyped, NothingLostInside, [Next]_vars
                 PROVE  NothingLostInside'
      OBVIOUS
    <2>1. ASSUME UNCHANGED <<served, decrypted, readBio, toServer, sent>>
          PROVE  NothingLostInside'
      BY <2>1 DEF NothingLostInside
    <2>2. CASE EnableSSL \/ SetSslConfig \/ Start \/ OnConnection
      BY <2>1, <2>2 DEF EnableSSL, SetSslConfig, Start, OnConnection, Unconnected,
                        sslVars, clientVars
    <2>3. CASE OnDisconnection \/ Quiet \/ UNCHANGED vars
      BY <2>1, <2>3 DEF OnDisconnection, Quiet, vars, sslVars, clientVars
    <2>4. CASE \/ \E v \in Versions : ClientHello(v)
               \/ ClientFinished
               \/ ClientReceives
               \/ \E k \in {"good", "malformed"} : ClientRequest(k)
               \/ \E k \in {"garbage", "bye"} : ClientEnds(k)
      BY <2>4, ClientsLoseNothing
    <2>5. CASE \E n \in Segments : OnRead(n)
      BY <2>5, ReadsLoseNothing
    <2> QED BY <2>2, <2>3, <2>4, <2>5 DEF Next
  <1>3. TypeOK => ConnectionTyped
    BY DEF TypeOK, ConnectionTyped
  <1> QED BY <1>1, <1>2, <1>3, TypeCorrect, PTL DEF Spec

(***************************************************************************)
(* The answers                                                             *)
(***************************************************************************)
(* Requests are numbered as they are sent and answers as the requests they *)
(* answer, without a gap; none waits in the write BIO; and as long as the  *)
(* connection is open every request served has its answer.  (Once it has   *)
(* been shut down requests are still served, but nothing goes out.)        *)
AnswersInv ==
    /\ \A i \in 1..Len(sent) : sent[i].n = i
    /\ AnswersIn(writeBio) = <<>>
    /\ \A i \in 1..Len(Answers) : Answers[i].n = i
    /\ Len(Answers) <= Len(served)
    /\ ~closed => Len(Answers) = Len(served)

(* What AnswersIn() keeps. *)
LEMMA AnswersInFacts ==
    /\ AnswersIn(<<>>) = <<>>
    /\ \A s \in Seq(ServerItems), x \in ServerItems :
          AnswersIn(Append(s, x)) = IF x.kind = "answer" THEN Append(AnswersIn(s), x)
                                    ELSE AnswersIn(s)
    /\ \A s, w \in Seq(ServerItems) : AnswersIn(s \o w) = AnswersIn(s) \o AnswersIn(w)
    /\ \A s \in Seq(ServerItems) : s # <<>> =>
          AnswersIn(s) = IF Head(s).kind = "answer" THEN <<Head(s)>> \o AnswersIn(Tail(s))
                         ELSE AnswersIn(Tail(s))
    /\ \A s \in Seq(ServerItems) : AnswersIn(s) \in Seq(ServerItems)
  <1> DEFINE K == {"answer"}
  <1>1. AnswersIn(<<>>) = <<>>
    <2>1. Item("flight") \in ServerItems /\ <<>> \in Seq(ServerItems)
      BY ItemsTyped
    <2> QED BY <2>1, OfKindsAppend DEF AnswersIn
  <1>2. ASSUME NEW s \in Seq(ServerItems), NEW x \in ServerItems
        PROVE  AnswersIn(Append(s, x)) = IF x.kind = "answer" THEN Append(AnswersIn(s), x)
                                         ELSE AnswersIn(s)
    <2>1. OfKinds(K, Append(s, x)) = IF x.kind \in K THEN Append(OfKinds(K, s), x)
                                     ELSE OfKinds(K, s)
      BY OfKindsAppend
    <2> QED BY <2>1 DEF AnswersIn
  <1>3. ASSUME NEW s \in Seq(ServerItems), NEW w \in Seq(ServerItems)
        PROVE  AnswersIn(s \o w) = AnswersIn(s) \o AnswersIn(w)
    BY OfKindsConcat DEF AnswersIn
  <1>4. ASSUME NEW s \in Seq(ServerItems), s # <<>>
        PROVE  AnswersIn(s) = IF Head(s).kind = "answer" THEN <<Head(s)>> \o AnswersIn(Tail(s))
                              ELSE AnswersIn(Tail(s))
    <2>1. OfKinds(K, s) = IF Head(s).kind \in K THEN <<Head(s)>> \o OfKinds(K, Tail(s))
                          ELSE OfKinds(K, Tail(s))
      BY <1>4, OfKindsHead
    <2> QED BY <2>1 DEF AnswersIn
  <1>5. ASSUME NEW s \in Seq(ServerItems)
        PROVE  AnswersIn(s) \in Seq(ServerItems)
    <2> DEFINE R == {x \in ServerItems : x.kind \in K}
    <2>1. OfKinds(K, s) \in Seq(R) /\ R \subseteq ServerItems
      BY OfKindsTyped
    <2> HIDE DEF R
    <2> QED BY <2>1, SeqMonotonic DEF AnswersIn
  <1> QED BY <1>1, <1>2, <1>3, <1>4, <1>5

(* A read serves at most one request, the first that nobody has served: as *)
(* long as the connection is open and no record is garbage its answer goes *)
(* out, and if not nothing follows.                                        *)
LEMMA ReadsAnswer ==
    ASSUME ConnectionTyped, NothingLostInside, AnswersIn(writeBio) = <<>>,
           NEW n \in Segments, OnRead(n)
    PROVE  /\ sent' = sent /\ AnswersIn(writeBio') = <<>> /\ (closed => closed')
           /\ \/ Answers' = Answers /\ served' = served
              \/ Answers' = Answers /\ closed' /\ \E r \in Requests : served' = Append(served, r)
              \/ \E r \in Requests :
                    /\ ~closed /\ r.kind = "good"
                    /\ Len(served) + 1 \in 1..Len(sent) /\ sent[Len(served) + 1] = r
                    /\ served' = Append(served, r)
                    /\ Answers' = Append(Answers, Answer(r))
  <1>1. Read(n)
    BY DEF OnRead, HandshakeContinues, HandshakeCompletes, HandshakeFails, Decrypt,
           NothingToServe, ServeRequest, RefuseRequest, ReadAfterError
  <1>2. sent' = sent /\ received' = received
    BY <1>1 DEF Read, clientVars
  <1>3. /\ writeBio \in Seq(ServerItems) /\ toClient \in Seq(ServerItems)
        /\ received \in Seq(ServerItems) /\ AnswersIn(toClient) \in Seq(ServerItems)
        /\ closed \in BOOLEAN
    BY AnswersInFacts DEF ConnectionTyped
  <1>4. ASSUME AnswersIn(toClient') = AnswersIn(toClient)
        PROVE  Answers' = Answers
    BY <1>2, <1>4 DEF Answers
  <1>5. ASSUME NEW k \in {"flight", "done", "ticket", "plain400"}, NEW s \in Seq(ServerItems)
        PROVE  AnswersIn(Append(s, Item(k))) = AnswersIn(s) /\ Append(s, Item(k)) \in Seq(ServerItems)
    <2>1. Item(k) \in ServerItems /\ Item(k).kind # "answer"
      BY ItemsTyped
    <2> QED BY <2>1, AnswersInFacts, AppendProperties
  <1>6. CASE HandshakeContinues(n)
    <2> DEFINE w == Append(writeBio, Item("flight"))
    <2>1. AnswersIn(w) = <<>> /\ w \in Seq(ServerItems)
      BY <1>3, <1>5
    <2>2. /\ UNCHANGED <<writeBio, served, closed>>
          /\ toClient' = toClient \/ toClient' = toClient \o w
      BY <1>6 DEF HandshakeContinues, ToNetwork
    <2> HIDE DEF w
    <2>3. AnswersIn(toClient \o w) = AnswersIn(toClient) \o AnswersIn(w)
      BY <1>3, <2>1, AnswersInFacts
    <2>4. AnswersIn(toClient) \o <<>> = AnswersIn(toClient)
      BY <1>3, ConcatEmptySeq
    <2> QED BY <1>2, <1>4, <2>1, <2>2, <2>3, <2>4
  <1>7. CASE HandshakeCompletes(n)
    <2>1. UNCHANGED <<toClient, served, closed>> /\ AnswersIn(writeBio') = <<>>
      BY <1>3, <1>5, <1>7 DEF HandshakeCompletes
    <2> QED BY <1>2, <1>4, <2>1
  <1>8. CASE HandshakeFails(n) \/ ReadAfterError(n)
    BY <1>2, <1>4, <1>8 DEF HandshakeFails, ReadAfterError
  <1>9. CASE NothingToServe(n)
    BY <1>2, <1>4, <1>9 DEF NothingToServe
  <1>10. CASE RefuseRequest(n)
    <2>1. /\ UNCHANGED <<writeBio, served>> /\ closed'
          /\ toClient' = toClient \/ toClient' = Append(toClient, Item("plain400"))
      BY <1>10 DEF RefuseRequest
    <2>2. AnswersIn(toClient') = AnswersIn(toClient)
      BY <1>3, <1>5, <2>1
    <2> QED BY <1>2, <1>4, <2>1, <2>2
  <1>11. ASSUME NEW close \in BOOLEAN, ServeRequest(n, close)
         PROVE  /\ AnswersIn(writeBio') = <<>> /\ (closed => closed')
                /\ \/ Answers' = Answers /\ closed' /\ \E r \in Requests : served' = Append(served, r)
                   \/ \E r \in Requests :
                         /\ ~closed /\ r.kind = "good"
                         /\ Len(served) + 1 \in 1..Len(sent) /\ sent[Len(served) + 1] = r
                         /\ served' = Append(served, r)
                         /\ Answers' = Append(Answers, Answer(r))
    <2> DEFINE p == Plain(n)
               r == Head(p)
               w == Append(writeBio, Answer(r))
    <2>1. /\ p # <<>> /\ r.kind = "good" /\ served' = Append(served, r)
          /\ closed' = (closed \/ close \/ state' = "ERROR")
          /\ IF state' = "ERROR" THEN UNCHANGED <<writeBio, toClient>>
             ELSE /\ writeBio' = <<>>
                  /\ toClient' = IF closed THEN toClient ELSE toClient \o w
      BY <1>11 DEF ServeRequest
    <2>2. p \in Seq(Requests) /\ served \in Seq(Requests)
      BY FedTyped DEF ConnectionTyped
    <2>3. r \in Requests
      BY <2>1, <2>2
    <2>4. Len(served) + 1 \in 1..Len(sent) /\ sent[Len(served) + 1] = r
      <3> DEFINE u == RequestsIn(toServer')
      <3>1. sent = served \o p \o u /\ u \in Seq(Requests)
        BY <1>1, ReadsSplitSent DEF Plain
      <3> HIDE DEF p, u
      <3>2. Len(p) \in Nat /\ Len(p) > 0 /\ Len(served) \in Nat /\ Len(u) \in Nat
        BY <2>1, <2>2, <3>1
      <3>3. served \o p \in Seq(Requests) /\ Len(served \o p) = Len(served) + Len(p)
        BY <2>2, ConcatProperties
      <3>4. (served \o p)[Len(served) + 1] = p[1]
        BY <2>2, <3>2, ConcatProperties
      <3> DEFINE v == served \o p
      <3>5. /\ v \in Seq(Requests) /\ Len(v) = Len(served) + Len(p)
            /\ v[Len(served) + 1] = p[1] /\ sent = v \o u
        BY <3>1, <3>3, <3>4
      <3> HIDE DEF v
      <3>6. Len(v \o u) = Len(v) + Len(u) /\ (v \o u)[Len(served) + 1] = v[Len(served) + 1]
        BY <3>1, <3>2, <3>5, ConcatProperties
      <3> QED BY <2>1, <2>2, <3>2, <3>5, <3>6
    <2> HIDE DEF p, r
    <2>5. CASE closed \/ state' = "ERROR"
      <3>1. toClient' = toClient /\ closed' /\ AnswersIn(writeBio') = <<>>
        BY <2>1, <2>5, AnswersInFacts
      <3> QED BY <1>4, <2>1, <2>3, <3>1
    <2>6. CASE ~closed /\ state' # "ERROR"
      <3> DEFINE a == Answer(r)
      <3>1. a \in ServerItems /\ a.kind = "answer"
        BY <2>3, ItemsTyped
      <3>2. AnswersIn(w) = <<a>> /\ w \in Seq(ServerItems)
        <4>1. w = Append(writeBio, a) /\ w \in Seq(ServerItems)
          BY <1>3, <3>1, AppendProperties
        <4> HIDE DEF a, w
        <4>2. AnswersIn(w) = Append(AnswersIn(writeBio), a)
          BY <1>3, <3>1, <4>1, AnswersInFacts
        <4>3. Append(<<>>, a) = <<a>>
          OBVIOUS
        <4> QED BY <4>1, <4>2, <4>3
      <3>3. toClient' = toClient \o w /\ writeBio' = <<>>
        BY <2>1, <2>6
      <3> HIDE DEF a, w
      <3>4. AnswersIn(toClient') = AnswersIn(toClient) \o <<a>>
        <4>1. AnswersIn(toClient \o w) = AnswersIn(toClient) \o AnswersIn(w)
          BY <1>3, <3>2, AnswersInFacts
        <4> QED BY <3>2, <3>3, <4>1
      <3> DEFINE b == AnswersIn(toClient)
      <3>5. b \in Seq(ServerItems)
        BY <1>3
      <3>6. Answers' = received \o (b \o <<a>>) /\ Answers = received \o b
        BY <1>2, <3>4 DEF Answers
      <3> HIDE DEF b
      <3>7. received \o (b \o <<a>>) = Append(received \o b, a)
        BY <1>3, <3>1, <3>5
      <3>8. Answers' = Append(Answers, Answer(r))
        BY <3>6, <3>7 DEF a
      <3>9. AnswersIn(writeBio') = <<>>
        BY <3>3, AnswersInFacts
      <3> QED BY <2>1, <2>3, <2>4, <2>6, <3>8, <3>9
    <2> QED BY <1>3, <2>5, <2>6
  <1> QED BY <1>2, <1>6, <1>7, <1>8, <1>9, <1>10, <1>11 DEF OnRead

(* The client sends the next request, or takes an answer off the network.  *)
LEMMA ClientsAsk ==
    ASSUME ConnectionTyped,
           \/ \E v \in Versions : ClientHello(v)
           \/ ClientFinished
           \/ ClientReceives
           \/ \E k \in {"good", "malformed"} : ClientRequest(k)
           \/ \E k \in {"garbage", "bye"} : ClientEnds(k)
    PROVE  /\ UNCHANGED <<served, closed, writeBio>> /\ Answers' = Answers
           /\ \/ sent' = sent
              \/ \E r \in Requests : sent' = Append(sent, r) /\ r.n = Len(sent) + 1
  <1>1. UNCHANGED <<served, closed, writeBio>>
    BY DEF ClientHello, ClientFinished, ClientReceives, ClientRequest, ClientEnds,
           ServerUnchanged, sslVars
  <1>2. /\ toClient \in Seq(ServerItems) /\ received \in Seq(ServerItems)
        /\ toClient # <<>> => Head(toClient) \in ServerItems /\ Tail(toClient) \in Seq(ServerItems)
    BY HeadTailProperties DEF ConnectionTyped
  <1>3. CASE (\E v \in Versions : ClientHello(v)) \/ \E k \in {"garbage", "bye"} : ClientEnds(k)
    BY <1>1, <1>3 DEF ClientHello, ClientEnds, Answers
  <1>4. CASE ClientFinished
    <2>1. /\ toClient # <<>> /\ Head(toClient).kind # "answer" /\ toClient' = Tail(toClient)
          /\ sent' = sent /\ received' = received
      BY <1>4 DEF ClientFinished
    <2>2. AnswersIn(toClient') = AnswersIn(toClient)
      BY <1>2, <2>1, AnswersInFacts
    <2> QED BY <1>1, <2>1, <2>2 DEF Answers
  <1>5. CASE ClientReceives
    <2> DEFINE x == Head(toClient)
               t == AnswersIn(Tail(toClient))
    <2>1. /\ toClient # <<>> /\ toClient' = Tail(toClient) /\ sent' = sent
          /\ received' = IF x.kind = "answer" THEN Append(received, x) ELSE received
      BY <1>5 DEF ClientReceives
    <2>2. x \in ServerItems /\ t \in Seq(ServerItems) /\ AnswersIn(toClient') = t
      BY <1>2, <2>1, AnswersInFacts
    <2>3. AnswersIn(toClient) = IF x.kind = "answer" THEN <<x>> \o t ELSE t
      BY <1>2, <2>1, AnswersInFacts
    <2> HIDE DEF x, t
    <2>4. Append(received, x) \o t = received \o (<<x>> \o t)
      BY <1>2, <2>2
    <2> QED BY <1>1, <2>1, <2>2, <2>3, <2>4 DEF Answers
  <1>6. ASSUME NEW k \in {"good", "malformed"}, ClientRequest(k)
        PROVE  /\ Answers' = Answers
               /\ \E r \in Requests : sent' = Append(sent, r) /\ r.n = Len(sent) + 1
    <2>1. Len(sent) + 1 \in 1..MaxRequests
      BY <1>6, ConstantsAssumption DEF ClientRequest, ConnectionTyped
    <2>2. Message(k, Len(sent) + 1) \in Requests /\ Message(k, Len(sent) + 1).n = Len(sent) + 1
      BY <2>1, ItemsTyped
    <2>3. sent' = Append(sent, Message(k, Len(sent) + 1)) /\ UNCHANGED <<received, toClient>>
      BY <1>6 DEF ClientRequest
    <2> QED BY <2>2, <2>3 DEF Answers
  <1> QED BY <1>1, <1>3, <1>4, <1>5, <1>6

(* The answers as RequestService sees them, by their requests. *)
Given == [i \in 1..Len(Answers) |-> sent[Answers[i].n]]

(* They are those to the first requests, hence a beginning of sent. *)
LEMMA GivenIsSent ==
    ASSUME ConnectionTyped, NothingLostInside, AnswersInv
    PROVE  /\ Len(Answers) \in Nat /\ Len(served) \in Nat /\ Len(sent) \in Nat
           /\ Len(served) <= Len(sent)
           /\ Answers \in Seq(ServerItems)
           /\ Given = [i \in 1..Len(Answers) |-> sent[i]]
           /\ Given \in Seq(Requests) /\ Len(Given) = Len(Answers)
  <1>1. Answers \in Seq(ServerItems)
    <2>1. received \in Seq(ServerItems) /\ AnswersIn(toClient) \in Seq(ServerItems)
      BY AnswersInFacts DEF ConnectionTyped
    <2> QED BY <2>1, ConcatProperties DEF Answers
  <1>2. Len(Answers) \in Nat /\ Len(served) \in Nat /\ Len(sent) \in Nat
    BY <1>1 DEF ConnectionTyped
  <1>3. Len(served) <= Len(sent)
    <2> DEFINE a == served \o decrypted
               b == RequestsIn(readBio)
               c == RequestsIn(toServer)
    <2>1. a \in Seq(Requests) /\ Len(a) = Len(served) + Len(decrypted) /\ Len(decrypted) \in Nat
      BY ConcatProperties DEF ConnectionTyped
    <2>2. b \in Seq(Requests) /\ c \in Seq(Requests) /\ sent = a \o b \o c
      BY RequestsInTyped DEF ConnectionTyped, NothingLostInside
    <2> HIDE DEF a, b, c
    <2>3. Len(b) \in Nat /\ Len(c) \in Nat
      BY <2>2
    <2>4. a \o b \in Seq(Requests) /\ Len(a \o b) = Len(a) + Len(b)
      BY <2>1, <2>2, ConcatProperties
    <2>5. Len(a \o b \o c) = Len(a \o b) + Len(c)
      BY <2>2, <2>4, ConcatProperties
    <2> QED BY <1>2, <2>1, <2>2, <2>3, <2>4, <2>5
  <1>4. Given = [i \in 1..Len(Answers) |-> sent[i]]
    BY DEF Given, AnswersInv
  <1>5. \A i \in 1..Len(Answers) : sent[i] \in Requests
    BY <1>2, <1>3 DEF AnswersInv, ConnectionTyped
  <1>6. Given \in Seq(Requests) /\ Len(Given) = Len(Answers)
    BY <1>2, <1>4, <1>5
  <1> QED BY <1>1, <1>2, <1>3, <1>4, <1>6

(* What a step may do to the client's requests and answers: nothing; it    *)
(* asks; the connection closes; its oldest request is answered.            *)
Silent == UNCHANGED <<sent, Answers, closed>>

Asks == /\ \E r \in Requests : sent' = Append(sent, r) /\ r.n = Len(sent) + 1
        /\ UNCHANGED <<Answers, closed>>

Closes == ~closed /\ closed' /\ UNCHANGED <<sent, Answers>>

Answering ==
    /\ ~closed /\ Len(Answers) + 1 \in 1..Len(sent)
    /\ \E r \in Requests :
          /\ r = sent[Len(Answers) + 1] /\ r.kind = "good"
          /\ Answers' = Append(Answers, Answer(r))
    /\ UNCHANGED sent

(* Every step is one of these, and keeps AnswersInv.                       *)
LEMMA StepsAnswer ==
    ASSUME ConnectionTyped, ConnectionTyped', NothingLostInside, AnswersInv, [Next]_vars
    PROVE  AnswersInv' /\ (Silent \/ Asks \/ Closes \/ Answering)
  <1>0. /\ Len(Answers) \in Nat /\ Len(served) \in Nat /\ Len(sent) \in Nat
        /\ Answers \in Seq(ServerItems) /\ sent \in Seq(Requests) /\ served \in Seq(Requests)
        /\ closed \in BOOLEAN /\ closed' \in BOOLEAN
    BY GivenIsSent DEF ConnectionTyped
  <1>1. ASSUME UNCHANGED <<sent, served, closed, writeBio>>, Answers' = Answers
        PROVE  AnswersInv' /\ Silent
    BY <1>1 DEF AnswersInv, Silent
  <1>2. CASE EnableSSL \/ SetSslConfig \/ Start \/ OnConnection
    BY <1>1, <1>2 DEF EnableSSL, SetSslConfig, Start, OnConnection, Unconnected, sslVars,
                      clientVars, Answers
  <1>3. CASE OnDisconnection \/ Quiet \/ UNCHANGED vars
    BY <1>1, <1>3 DEF OnDisconnection, Quiet, vars, sslVars, clientVars, Answers
  <1>4. CASE \/ \E v \in Versions : ClientHello(v)
             \/ ClientFinished
             \/ ClientReceives
             \/ \E k \in {"good", "malformed"} : ClientRequest(k)
             \/ \E k \in {"garbage", "bye"} : ClientEnds(k)
    <2>1. /\ UNCHANGED <<served, closed, writeBio>> /\ Answers' = Answers
          /\ \/ sent' = sent
             \/ \E r \in Requests : sent' = Append(sent, r) /\ r.n = Len(sent) + 1
      BY <1>4, ClientsAsk
    <2>2. ASSUME NEW r \in Requests, sent' = Append(sent, r), r.n = Len(sent) + 1
          PROVE  AnswersInv' /\ Asks
      <3>1. \A i \in 1..Len(sent') : sent'[i].n = i
        BY <1>0, <2>2 DEF AnswersInv
      <3> QED BY <2>1, <2>2, <3>1 DEF AnswersInv, Asks
    <2> QED BY <1>1, <2>1, <2>2
  <1>5. CASE \E n \in Segments : OnRead(n)
    <2>1. /\ sent' = sent /\ AnswersIn(writeBio') = <<>> /\ (closed => closed')
          /\ \/ Answers' = Answers /\ served' = served
             \/ Answers' = Answers /\ closed' /\ \E r \in Requests : served' = Append(served, r)
             \/ \E r \in Requests :
                   /\ ~closed /\ r.kind = "good"
                   /\ Len(served) + 1 \in 1..Len(sent) /\ sent[Len(served) + 1] = r
                   /\ served' = Append(served, r)
                   /\ Answers' = Append(Answers, Answer(r))
      BY <1>5, ReadsAnswer DEF AnswersInv
    <2>2. CASE Answers' = Answers /\ served' = served
      <3>1. AnswersInv'
        BY <2>1, <2>2 DEF AnswersInv
      <3> QED BY <1>0, <2>1, <2>2, <3>1 DEF Silent, Closes
    <2>3. CASE Answers' = Answers /\ closed' /\ \E r \in Requests : served' = Append(served, r)
      <3>1. Len(served') = Len(served) + 1
        BY <1>0, <2>3
      <3>2. AnswersInv'
        BY <1>0, <2>1, <2>3, <3>1 DEF AnswersInv
      <3> QED BY <1>0, <2>1, <2>3, <3>2 DEF Silent, Closes
    <2>4. ASSUME NEW r \in Requests, ~closed, r.kind = "good",
                 Len(served) + 1 \in 1..Len(sent), sent[Len(served) + 1] = r,
                 served' = Append(served, r), Answers' = Append(Answers, Answer(r))
          PROVE  AnswersInv' /\ Answering
      <3> DEFINE a == Answer(r)
      <3>1. Len(Answers) = Len(served) /\ r.n = Len(Answers) + 1
        BY <2>4 DEF AnswersInv
      <3>2. a \in ServerItems /\ a.n = Len(Answers) + 1
        BY <3>1, ItemsTyped
      <3>3. Answers' = Append(Answers, a)
        BY <2>4
      <3>4. Answering
        BY <2>1, <2>4, <3>1 DEF Answering
      <3> HIDE DEF a
      <3>5. Len(Answers') = Len(Answers) + 1 /\ Len(served') = Len(served) + 1
        BY <1>0, <2>4, <3>2, <3>3
      <3>6. \A i \in 1..Len(Answers') : Answers'[i].n = i
        BY <1>0, <3>2, <3>3 DEF AnswersInv
      <3>7. AnswersInv'
        BY <1>0, <2>1, <3>1, <3>5, <3>6 DEF AnswersInv
      <3> QED BY <3>4, <3>7
    <2> QED BY <2>1, <2>2, <2>3, <2>4
  <1> QED BY <1>2, <1>3, <1>4, <1>5 DEF Next

(* Answers are numbered like the requests, without a gap.                  *)
LEMMA AnswersAreNumbered == Spec => [](ConnectionTyped /\ NothingLostInside /\ AnswersInv)
  <1>1. Init => AnswersInv
    <2> SUFFICES ASSUME Init
                 PROVE  AnswersInv
      OBVIOUS
    <2> DEFINE e == <<>>
    <2>1. AnswersIn(e) = e /\ e \o e = e /\ Len(e) = 0
      BY AnswersInFacts
    <2>2. sent = e /\ writeBio = e /\ served = e /\ received = e /\ toClient = e
      BY DEF Init
    <2> HIDE DEF e
    <2>3. Answers = e
      BY <2>1, <2>2 DEF Answers
    <2> QED BY <2>1, <2>2, <2>3 DEF AnswersInv, e
  <1>2. /\ ConnectionTyped /\ ConnectionTyped' /\ NothingLostInside /\ AnswersInv /\ [Next]_vars
        => AnswersInv'
    BY StepsAnswer
  <1>3. TypeOK => ConnectionTyped
    BY DEF TypeOK, ConnectionTyped
  <1> QED BY <1>1, <1>2, <1>3, TypeCorrect, NothingIsLost, PTL DEF Spec

(* ServiceSpec: whatever the client sends and however it is cut, it gets   *)
(* the answers to its requests, in their order, each at most once and none *)
(* skipped; a malformed request gets none; and nothing follows the end.    *)
THEOREM RequestsAreServed == Spec => ServiceSpec
  <1>1. Init => Service!Init
    <2> SUFFICES ASSUME Init
                 PROVE  Service!Init
      OBVIOUS
    <2> DEFINE e == <<>>
    <2>1. AnswersIn(e) = e /\ e \o e = e /\ Len(e) = 0
      BY AnswersInFacts
    <2>2. sent = e /\ received = e /\ toClient = e /\ closed = FALSE
      BY DEF Init
    <2> HIDE DEF e
    <2>3. Answers = e
      BY <2>1, <2>2 DEF Answers
    <2>4. [i \in 1..Len(Answers) |-> sent[Answers[i].n]] = <<>>
      BY <2>1, <2>3
    <2> QED BY <2>2, <2>4 DEF Service!Init, e
  <1>2. ASSUME ConnectionTyped, ConnectionTyped', NothingLostInside, NothingLostInside',
               AnswersInv, AnswersInv', [Next]_vars
        PROVE  [Service!Next]_(Service!vars)
    <2>1. /\ Len(Answers) \in Nat /\ Len(sent) \in Nat /\ Len(Answers) <= Len(sent)
          /\ Answers \in Seq(ServerItems) /\ sent \in Seq(Requests)
          /\ Given = [i \in 1..Len(Answers) |-> sent[i]]
          /\ Given \in Seq(Requests) /\ Len(Given) = Len(Answers)
      BY <1>2, GivenIsSent DEF AnswersInv, ConnectionTyped
    <2>2. Given' = [i \in 1..Len(Answers') |-> sent'[i]]
      BY <1>2 DEF Given, AnswersInv
    <2>3. CASE Silent
      BY <2>3 DEF Silent, Service!vars
    <2>4. CASE Asks
      <3>1. PICK r \in Requests : sent' = Append(sent, r)
        BY <2>4 DEF Asks
      <3>2. Answers' = Answers /\ closed' = closed
        BY <2>4 DEF Asks
      <3>3. \A i \in 1..Len(Answers) : sent'[i] = sent[i]
        BY <2>1, <3>1
      <3>4. Given' = Given
        BY <2>1, <2>2, <3>2, <3>3
      <3>5. Service!Ask(r)
        BY <3>1, <3>2, <3>4 DEF Service!Ask, Given
      <3> QED BY <3>5 DEF Service!Next
    <2>5. CASE Closes
      BY <2>5 DEF Closes, Service!Next, Service!Close
    <2>6. CASE Answering
      <3>1. PICK r \in Requests : /\ r = sent[Len(Answers) + 1] /\ r.kind = "good"
                                  /\ Answers' = Append(Answers, Answer(r))
        BY <2>6 DEF Answering
      <3>2. ~closed /\ Len(Answers) + 1 <= Len(sent) /\ sent' = sent
        BY <2>1, <2>6 DEF Answering
      <3>3. Len(Answers') = Len(Answers) + 1
        BY <2>1, <3>1
      <3>4. Given' = Append(Given, r)
        BY <2>1, <2>2, <3>1, <3>2, <3>3
      <3>5. Service!Oldest = r /\ Service!Waiting
        BY <2>1, <3>1, <3>2 DEF Service!Oldest, Service!Waiting, Given
      <3>6. r \notin {q \in Requests : q.kind = "malformed"}
        BY <3>1
      <3>7. Service!Answer
        BY <3>2, <3>4, <3>5, <3>6 DEF Service!Answer, Given
      <3> QED BY <3>7 DEF Service!Next
    <2> QED BY <1>2, <2>3, <2>4, <2>5, <2>6, StepsAnswer
  <1> QED BY <1>1, <1>2, AnswersAreNumbered, PTL DEF Spec, ServiceSpec, Service!Spec

(***************************************************************************)
(* The version                                                             *)
(***************************************************************************)
(* A client that has not begun has sent nothing, and OpenSSL waits for its *)
(* ClientHello; past that the version is one that was configured.  Needed  *)
(* because the client names its version once, when it begins, and OpenSSL  *)
(* compares it once, when it answers.                                      *)
VersionInv ==
    /\ client = "start" => toServer = <<>> /\ handshake = "hello"
    /\ state = "HANDSHAKE" <=> handshake # "over"
    /\ handshake \in {"finished", "over"} => version \in Accepted
    /\ served # <<>> => handshake = "over"

(* A step of onRead() keeps VersionInv: the handshake goes past the        *)
(* ClientHello only with a version that is accepted, and requests reach    *)
(* HttpServer only when it is over.                                        *)
LEMMA ReadsKeepTheVersion ==
    ASSUME VersionInv, NEW n \in Segments, OnRead(n)
    PROVE  VersionInv'
  <1> USE DEF VersionInv
  <1>1. client # "start"
    BY DEF Segments
  <1>2. Read(n)
    BY DEF OnRead, HandshakeContinues, HandshakeCompletes, HandshakeFails, Decrypt,
           NothingToServe, ServeRequest, RefuseRequest, ReadAfterError
  <1>3. UNCHANGED <<version, protocol, client>>
    BY <1>2 DEF Read, modeVars, setupVars, clientVars
  <1>4. Accepted' = Accepted
    BY <1>3 DEF Accepted
  <1>5. CASE HandshakeContinues(n)
    BY <1>1, <1>3, <1>4, <1>5 DEF HandshakeContinues
  <1>6. CASE HandshakeCompletes(n)
    BY <1>1, <1>3, <1>4, <1>6 DEF HandshakeCompletes
  <1>7. CASE HandshakeFails(n)
    BY <1>1, <1>3, <1>4, <1>7 DEF HandshakeFails
  <1>8. ASSUME Decrypt(n)
        PROVE  VersionInv'
    BY <1>1, <1>3, <1>4, <1>8 DEF Decrypt
  <1>9. CASE ReadAfterError(n)
    BY <1>1, <1>3, <1>4, <1>9 DEF ReadAfterError
  <1> QED BY <1>5, <1>6, <1>7, <1>8, <1>9
          DEF OnRead, NothingToServe, ServeRequest, RefuseRequest

(* Whoever has a request served speaks a version that was configured.      *)
LEMMA VersionsAreAccepted == Spec => []VersionInv
  <1>1. Init => VersionInv
    BY DEF Init, VersionInv
  <1>2. VersionInv /\ [Next]_vars => VersionInv'
    <2> SUFFICES ASSUME VersionInv, [Next]_vars
                 PROVE  VersionInv'
      OBVIOUS
    <2>1. ASSUME UNCHANGED <<protocol, state, handshake, served>>,
                 \/ UNCHANGED <<version, client, toServer>>
                 \/ client' # "start" /\ (version' = version \/ client = "start")
          PROVE  VersionInv'
      <3>1. Accepted' = Accepted
        BY <2>1 DEF Accepted
      <3> QED BY <2>1, <3>1 DEF VersionInv
    <2>2. CASE EnableSSL \/ SetSslConfig \/ Start \/ OnConnection
      BY <2>2, <2>1 DEF EnableSSL, SetSslConfig, Start, OnConnection, Unconnected,
                        sslVars, clientVars
    <2>3. CASE OnDisconnection
      BY <2>3, <2>1 DEF OnDisconnection, modeVars, setupVars, sslVars, clientVars
    <2>4. CASE \E v \in Versions : ClientHello(v)
      BY <2>4, <2>1 DEF ClientHello, ServerUnchanged, modeVars, setupVars, sslVars
    <2>5. CASE ClientFinished
      BY <2>5, <2>1 DEF ClientFinished, ServerUnchanged, modeVars, setupVars, sslVars
    <2>6. CASE ClientReceives
      BY <2>6, <2>1 DEF ClientReceives, ServerUnchanged, modeVars, setupVars, sslVars
    <2>7. CASE \E k \in {"good", "malformed"} : ClientRequest(k)
      BY <2>7, <2>1 DEF ClientRequest, ServerUnchanged, modeVars, setupVars, sslVars
    <2>8. CASE \E k \in {"garbage", "bye"} : ClientEnds(k)
      BY <2>8, <2>1 DEF ClientEnds, ServerUnchanged, modeVars, setupVars, sslVars
    <2>9. CASE \E n \in Segments : OnRead(n)
      BY <2>9, ReadsKeepTheVersion
    <2>10. CASE Quiet \/ UNCHANGED vars
      BY <2>10, <2>1 DEF Quiet, vars, modeVars, setupVars, sslVars, clientVars
    <2> QED BY <2>2, <2>3, <2>4, <2>5, <2>6, <2>7, <2>8, <2>9, <2>10 DEF Next
  <1> QED BY <1>1, <1>2, PTL DEF Spec

(* EnabledMeansTls: a server set up in the right order, enableSSL() before *)
(* setSslConfig(), serves TLS or does not run at all, whatever useSSL_m    *)
(* was at first; and who gets as far as a request speaks a version that    *)
(* was configured.                                                         *)
THEOREM TlsIsServed == Spec => []EnabledMeansTls
  <1>1. SetupInv /\ VersionInv => EnabledMeansTls
    BY DEF SetupInv, VersionInv, EnabledMeansTls
  <1> QED BY <1>1, SetupsAreKept, VersionsAreAccepted, PTL
=============================================================================
