------------------------ MODULE ChatPersistenceProofs ------------------------
(***************************************************************************)
(* Theorems about ChatPersistence for every finite set of workers and of   *)
(* channels, any set of rows that cannot be stored, and any number of      *)
(* messages, crashes, database errors and restarts of the broker.          *)
(***************************************************************************)
EXTENDS ChatPersistence, FiniteSetTheorems, SequenceTheorems, TLAPS

(***************************************************************************)
(* Sequences without repetition                                            *)
(***************************************************************************)
LEMMA AppendSet ==
    ASSUME NEW S, NEW s \in Seq(S), NEW x \in S
    PROVE  /\ Append(s, x) \in Seq(S)
           /\ ToSet(Append(s, x)) = ToSet(s) \cup {x}
           /\ IsInjective(s) /\ x \notin ToSet(s) => IsInjective(Append(s, x))
<1>1. /\ Append(s, x) \in Seq(S) /\ Len(s) \in Nat
      /\ DOMAIN s = 1..Len(s) /\ DOMAIN Append(s, x) = 1..(Len(s) + 1)
      /\ \A i \in 1..Len(s) : Append(s, x)[i] = s[i]
      /\ Append(s, x)[Len(s) + 1] = x
  OBVIOUS
<1>2. \A i : i \in 1..(Len(s) + 1) <=> i \in 1..Len(s) \/ i = Len(s) + 1
  BY <1>1
<1>3. ToSet(Append(s, x)) = ToSet(s) \cup {x}
  <2>1. \A y : y \in ToSet(Append(s, x)) <=> y \in ToSet(s) \/ y = x
    BY <1>1, <1>2 DEF ToSet
  <2> QED
    BY <2>1
<1>4. ASSUME IsInjective(s), x \notin ToSet(s) PROVE IsInjective(Append(s, x))
  BY <1>1, <1>2, <1>4 DEF ToSet, IsInjective
<1> QED
  BY <1>1, <1>3, <1>4

(* The elements of a sequence over S are in S. *)
LEMMA ElementsOfSeq == ASSUME NEW S, NEW s \in Seq(S) PROVE ToSet(s) \subseteq S
<1>1. DOMAIN s = 1..Len(s) /\ \A i \in 1..Len(s) : s[i] \in S
  OBVIOUS
<1> QED
  BY <1>1 DEF ToSet

(* The elements of a sequence, by their positions. *)
LEMMA DomainIsLength ==
    ASSUME NEW S, NEW s \in Seq(S) PROVE ToSet(s) = {s[i] : i \in 1..Len(s)}
<1>1. DOMAIN s = 1..Len(s)
  OBVIOUS
<1> QED
  BY <1>1 DEF ToSet

(* The first element is taken off; it was there once if every element was. *)
LEMMA TailSet ==
    ASSUME NEW S, NEW s \in Seq(S), s # <<>>
    PROVE  /\ Head(s) \in S /\ Tail(s) \in Seq(S)
           /\ ToSet(s) = ToSet(Tail(s)) \cup {Head(s)}
           /\ IsInjective(s) => IsInjective(Tail(s)) /\ Head(s) \notin ToSet(Tail(s))
<1>1. /\ Head(s) \in S /\ Tail(s) \in Seq(S)
      /\ Len(Tail(s)) = Len(s) - 1 /\ Len(s) \in Nat \ {0} /\ Head(s) = s[1]
      /\ \A i \in 1..(Len(s) - 1) : Tail(s)[i] = s[i + 1]
      /\ DOMAIN s = 1..Len(s) /\ DOMAIN Tail(s) = 1..(Len(s) - 1)
  OBVIOUS
<1>2. ToSet(s) = ToSet(Tail(s)) \cup {Head(s)}
  <2>1. ASSUME NEW i \in 1..Len(s), i # 1 PROVE s[i] \in ToSet(Tail(s))
    <3>1. i - 1 \in 1..(Len(s) - 1) /\ Tail(s)[i - 1] = s[i]
      BY <1>1, <2>1
    <3> QED
      BY <1>1, <3>1 DEF ToSet
  <2> QED
    BY <1>1, <2>1 DEF ToSet
<1>3. ASSUME IsInjective(s)
      PROVE  IsInjective(Tail(s)) /\ Head(s) \notin ToSet(Tail(s))
  BY <1>1, <1>3 DEF ToSet, IsInjective
<1> QED
  BY <1>1, <1>2, <1>3

(* Two sequences put together have the elements of both, once each if they *)
(* share none.                                                             *)
LEMMA ConcatSet ==
    ASSUME NEW S, NEW s \in Seq(S), NEW t \in Seq(S)
    PROVE  /\ s \o t \in Seq(S)
           /\ ToSet(s \o t) = ToSet(s) \cup ToSet(t)
           /\ IsInjective(s) /\ IsInjective(t) /\ ToSet(s) \cap ToSet(t) = {} =>
                IsInjective(s \o t)
<1>1. /\ s \o t \in Seq(S) /\ Len(s) \in Nat /\ Len(t) \in Nat
      /\ DOMAIN s = 1..Len(s) /\ DOMAIN t = 1..Len(t) /\ DOMAIN (s \o t) = 1..(Len(s) + Len(t))
      /\ \A i \in 1..Len(s) : (s \o t)[i] = s[i]
      /\ \A i \in 1..Len(t) : (s \o t)[Len(s) + i] = t[i]
  OBVIOUS
<1>2. ASSUME NEW i \in 1..(Len(s) + Len(t))
      PROVE  \/ i \in 1..Len(s)
             \/ \E j \in 1..Len(t) : i = Len(s) + j
  <2>1. i \notin 1..Len(s) => i - Len(s) \in 1..Len(t) /\ i = Len(s) + (i - Len(s))
    BY <1>1
  <2> QED
    BY <2>1
<1>3. ToSet(s \o t) = ToSet(s) \cup ToSet(t)
  <2>1. \A i \in 1..Len(t) : Len(s) + i \in 1..(Len(s) + Len(t))
    BY <1>1
  <2>2. \A i \in 1..Len(s) : i \in 1..(Len(s) + Len(t))
    BY <1>1
  <2>3. ASSUME NEW y, y \in ToSet(s \o t) PROVE y \in ToSet(s) \cup ToSet(t)
    <3>1. PICK i \in 1..(Len(s) + Len(t)) : (s \o t)[i] = y
      BY <1>1, <2>3 DEF ToSet
    <3> QED
      BY <1>1, <1>2, <3>1 DEF ToSet
  <2>4. ASSUME NEW y, y \in ToSet(s) \cup ToSet(t) PROVE y \in ToSet(s \o t)
    BY <1>1, <2>1, <2>2, <2>4 DEF ToSet
  <2> QED
    BY <2>3, <2>4
<1>4. ASSUME IsInjective(s), IsInjective(t), ToSet(s) \cap ToSet(t) = {}
      PROVE  IsInjective(s \o t)
  <2>1. \A i \in 1..Len(s), j \in 1..Len(t) : s[i] # t[j]
    BY <1>1, <1>4 DEF ToSet
  <2>2. ASSUME NEW a \in 1..(Len(s) + Len(t)), NEW b \in 1..(Len(s) + Len(t)),
               (s \o t)[a] = (s \o t)[b]
        PROVE  a = b
    <3>1. CASE a \in 1..Len(s) /\ b \in 1..Len(s)
      BY <1>1, <1>4, <2>2, <3>1 DEF IsInjective
    <3>2. ASSUME NEW j \in 1..Len(t), a = Len(s) + j, NEW i \in 1..Len(t), b = Len(s) + i
          PROVE  a = b
      <4>1. t[i] = t[j]
        BY <1>1, <2>2, <3>2
      <4> QED
        BY <1>1, <1>4, <3>2, <4>1 DEF IsInjective
    <3>3. ASSUME NEW j \in 1..Len(t),
                 \/ a = Len(s) + j /\ b \in 1..Len(s)
                 \/ b = Len(s) + j /\ a \in 1..Len(s)
          PROVE  FALSE
      BY <1>1, <2>1, <2>2, <3>3
    <3> QED
      BY <1>2, <3>1, <3>2, <3>3
  <2> QED
    BY <1>1, <2>2 DEF IsInjective
<1> QED
  BY <1>1, <1>3, <1>4

(* SetToSeqs() of a finite set: every element, once. *)
LEMMA SetToSeqsSet ==
    ASSUME NEW S, IsFiniteSet(S), NEW f \in SetToSeqs(S)
    PROVE  f \in Seq(S) /\ ToSet(f) = S /\ IsInjective(f) /\ DOMAIN f = 1..Cardinality(S)
<1> DEFINE n == Cardinality(S)
<1>1. n \in Nat /\ f \in [1..n -> S] /\ \A i, j \in 1..n : i # j => f[i] # f[j]
  BY FS_CardinalityType DEF SetToSeqs
<1>2. f \in Injection(1..n, S)
  BY <1>1 DEF Injection, IsInjective
<1>3. IsFiniteSet(1..n) /\ Cardinality(1..n) = n
  BY <1>1, FS_Interval
<1>4. f \in Surjection(1..n, S)
  BY <1>2, <1>3, FS_Injection
<1>5. \A x \in S : \E i \in 1..n : f[i] = x
  BY <1>4 DEF Surjection
<1> QED
  BY <1>1, <1>5, SeqDef DEF ToSet, IsInjective

(* One more row in the table. *)
LEMMA OccurrencesOfAppend ==
    ASSUME NEW S, NEW s \in Seq(S), NEW x \in S, NEW k
    PROVE  /\ Occurrences(k, s) \in Nat
           /\ Occurrences(k, Append(s, x)) = IF k = x THEN Occurrences(k, s) + 1
                                                      ELSE Occurrences(k, s)
           /\ Occurrences(k, s) > 0 <=> k \in ToSet(s)
<1> DEFINE O(t) == {i \in 1..Len(t) : t[i] = k}
<1>1. Len(s) \in Nat /\ DOMAIN s = 1..Len(s)
  OBVIOUS
<1>2. IsFiniteSet(O(s))
  <2>1. IsFiniteSet(1..Len(s))
    BY <1>1, FS_Interval
  <2>2. O(s) \in SUBSET (1..Len(s))
    OBVIOUS
  <2> HIDE DEF O
  <2> QED
    BY <2>1, <2>2, FS_Subset
<1>3. Cardinality(O(s)) \in Nat /\ (Cardinality(O(s)) > 0 <=> O(s) # {})
  <2> HIDE DEF O
  <2> QED
    BY <1>2, FS_CardinalityType, FS_EmptySet
<1>4. O(Append(s, x)) = IF k = x THEN O(s) \cup {Len(s) + 1} ELSE O(s)
  <2>1. /\ Len(Append(s, x)) = Len(s) + 1
        /\ \A i \in 1..Len(s) : Append(s, x)[i] = s[i]
        /\ Append(s, x)[Len(s) + 1] = x
    OBVIOUS
  <2> QED
    BY <1>1, <2>1
<1>5. Len(s) + 1 \notin O(s)
  BY <1>1
<1>6. Cardinality(O(s) \cup {Len(s) + 1}) = Cardinality(O(s)) + 1
  BY <1>2, <1>5, FS_AddElement
<1>7. O(s) # {} <=> k \in ToSet(s)
  BY <1>1 DEF ToSet
<1> QED
  BY <1>3, <1>4, <1>6, <1>7 DEF Occurrences

(***************************************************************************)
(* Where a row is                                                          *)
(***************************************************************************)
(* At the broker every row is in one place, and there once. *)
OnePlace ==
    /\ IsInjective(queue)
    /\ \A c \in Channels : IsInjective(inflight[c])
    /\ \A c, d \in Channels : c # d => ToSet(inflight[c]) \cap ToSet(inflight[d]) = {}
    /\ \A c \in Channels : ToSet(queue) \cap ToSet(inflight[c]) = {}
    /\ \A w \in Held : unacked[w] \notin ToSet(queue)
    /\ \A w \in Held, c \in Channels : unacked[w] \notin ToSet(inflight[c])
    /\ \A v, w \in Held : unacked[v] = unacked[w] => v = w

InBroker(k) ==
    \/ k \in ToSet(queue)
    \/ \E w \in Workers : unacked[w] = k
    \/ \E c \in Channels : k \in ToSet(inflight[c])

(* What is acknowledged next is in the table. *)
AckedIsStored == \A w \in Workers : worker[w] = "acking" => unacked[w] \in ToSet(table)

KeptInv ==
    /\ AckedIsStored
    /\ \A k \in 1..Count : k \in lost \/ InBroker(k) \/ k \in ToSet(table)

Failures == dbErrors + crashes + brokerRestarts

Stored(k) == \E w \in Workers : unacked[w] = k /\ worker[w] = "acking"

Pending(k) == k \in orphans \/ (InBroker(k) /\ ~Stored(k))

(* A row that is still to be inserted has been inserted at most once per   *)
(* failure.                                                                *)
CopiesInv ==
    \A k \in 1..Count :
        /\ Occurrences(k, table) <= 1 + Failures
        /\ Pending(k) => Occurrences(k, table) <= Failures

(* What a handler without a broker still inserts nobody else will insert. *)
OrphansAreGone == \A k \in orphans : ~InBroker(k)

(* What the workers have when the process dies, in the order in which it   *)
(* is put back.                                                            *)
LEMMA HeldRows ==
    ASSUME TypeOK, NEW s \in SetToSeqs({unacked[w] : w \in Held})
    PROVE  /\ s \in Seq(1..Count)
           /\ ToSet(s) = {unacked[w] : w \in Held}
           /\ IsInjective(s)
<1> DEFINE H == {unacked[w] : w \in Held}
<1>1. Count \in Nat
  BY DEF TypeOK, Count
<1>2. IsFiniteSet(1..Count)
  BY <1>1, FS_Interval
<1>3. H \in SUBSET (1..Count)
  BY DEF TypeOK, Held
<1> HIDE DEF H
<1>4. IsFiniteSet(H)
  BY <1>2, <1>3, FS_Subset
<1>5. s \in Seq(H) /\ ToSet(s) = H /\ IsInjective(s)
  BY <1>4, SetToSeqsSet DEF H
<1>6. s \in Seq(1..Count)
  BY <1>3, <1>5, SeqMonotonic
<1> QED
  BY <1>5, <1>6 DEF H

(* Rows read from the table are rows of the table, whichever of them could *)
(* be read.                                                                *)
LEMMA ReadRowsAreRows ==
    ASSUME TypeOK, NEW rows \in SUBSET (1..Len(table)), NEW m \in ReadRows(rows)
    PROVE  /\ m \in Seq(1..Count)
           /\ ToSet(m) = {table[i] : i \in rows}
<1> DEFINE n == Cardinality(rows)
<1>1. /\ Len(table) \in Nat /\ DOMAIN table = 1..Len(table)
      /\ \A i \in 1..Len(table) : table[i] \in 1..Count
  <2>1. table \in Seq(1..Count)
    BY DEF TypeOK
  <2> QED
    BY <2>1, LenProperties
<1>2. IsFiniteSet(rows)
  <2>1. IsFiniteSet(1..Len(table))
    BY <1>1, FS_Interval
  <2> QED
    BY <2>1, FS_Subset
<1>3. PICK p \in SetToSeqs(rows) : m = [i \in 1..n |-> table[p[i]]]
  BY DEF ReadRows
<1>4. n \in Nat /\ ToSet(p) = rows /\ DOMAIN p = 1..n
  BY <1>2, SetToSeqsSet, FS_CardinalityType
<1> HIDE DEF n
<1>5. \A i \in 1..n : p[i] \in rows
  BY <1>4 DEF ToSet
<1>6. m \in [1..n -> 1..Count]
  BY <1>1, <1>3, <1>5
<1>7. m \in Seq(1..Count)
  <2> DEFINE S == 1..Count
  <2>1. m \in [1..n -> S] /\ n \in Nat
    BY <1>4, <1>6
  <2> HIDE DEF S
  <2>2. m \in Seq(S)
    BY ONLY <2>1, SeqDef
  <2> QED
    BY <2>2 DEF S
<1>8. \A j \in rows : \E i \in 1..n : p[i] = j
  BY <1>4 DEF ToSet
<1>9. DOMAIN m = 1..n /\ \A i \in 1..n : m[i] = table[p[i]]
  BY <1>3
<1>10. ToSet(m) = {table[i] : i \in rows}
  <2>1. \A k : k \in ToSet(m) <=> \E i \in 1..n : k = table[p[i]]
    BY <1>9 DEF ToSet
  <2>2. \A k : (\E i \in 1..n : k = table[p[i]]) <=> \E j \in rows : k = table[j]
    BY <1>5, <1>8
  <2> QED
    BY <2>1, <2>2
<1> QED
  BY <1>7, <1>10

(* The table as readDataFromMySQL() reads it when every row is readable.   *)
LEMMA RestoredIsTable ==
    ASSUME TypeOK, NEW m \in Restored
    PROVE  m \in Seq(1..Count) /\ ToSet(m) = ToSet(table)
<1>1. m \in ReadRows(1..Len(table))
  BY DEF Restored
<1>2. m \in Seq(1..Count) /\ ToSet(m) = {table[i] : i \in 1..Len(table)}
  BY <1>1, ReadRowsAreRows
<1>3. table \in Seq(1..Count)
  BY DEF TypeOK
<1> QED
  BY <1>2, <1>3, DomainIsLength

(* Nothing runs while the server is down. *)
DownIsIdle == ~running => \A w \in Workers : worker[w] = "dead"

(* Type correctness; exactly a worker between delivery and acknowledgement *)
(* has a message.                                                          *)
THEOREM TypeCorrect == Spec => [](TypeOK /\ DownIsIdle)
<1>0. MaxRows \in Nat /\ NoRow \notin 1..MaxRows
  BY ConstantsAssumption
<1> USE <1>0 DEF serverVars, brokerVars, workerVars, bounds
<1>1. Init => TypeOK /\ DownIsIdle
  <2> SUFFICES ASSUME Init PROVE TypeOK /\ DownIsIdle
    OBVIOUS
  <2>1. Count = 0 /\ ts \in Seq(Nat)
    BY DEF Init, Count
  <2>2. <<>> \in Seq(1..Count)
    BY EmptySeq
  <2>3. memory \in Seq(1..Count) /\ queue \in Seq(1..Count) /\ table \in Seq(1..Count)
    BY <2>2 DEF Init
  <2>4. inflight \in [Channels -> Seq(1..Count)] /\ unacked \in [Workers -> 1..Count \cup {NoRow}]
    BY <2>2 DEF Init
  <2>5. running /\ Count <= MaxRows
    BY <2>1 DEF Init
  <2> QED
    BY <2>1, <2>3, <2>4, <2>5 DEF Init, TypeOK, DownIsIdle
<1>2. TypeOK /\ DownIsIdle /\ [Next]_vars => TypeOK' /\ DownIsIdle'
  <2> SUFFICES ASSUME TypeOK, DownIsIdle, [Next]_vars PROVE TypeOK' /\ DownIsIdle'
    OBVIOUS
  <2>0. Count \in Nat /\ <<>> \in Seq(1..Count)
    BY EmptySeq DEF TypeOK, Count
  <2>13. ASSUME UNCHANGED ts PROVE Count' = Count
    BY <2>13 DEF Count
  <2>1. CASE Publish
    <3>1. PICK t \in Stamp(Count + 1) : ts' = Append(ts, t)
      BY <2>1 DEF Publish
    <3>2. t \in Nat
      BY <2>0, <3>1 DEF Stamp, TypeOK, Count
    <3>3. ts' \in Seq(Nat) /\ Count' = Count + 1
      BY <3>1, <3>2 DEF TypeOK, Count
    <3>4. \A q \in Seq(1..Count) : q \in Seq(1..Count')
      BY <2>0, <3>3, SeqMonotonic
    <3>5. Count + 1 \in 1..Count' /\ Count + 1 # NoRow /\ Count + 1 <= MaxRows
      BY <2>0, <2>1, <3>3 DEF Publish
    <3>6. memory' \in Seq(1..Count') /\ table' \in Seq(1..Count') /\ queue' \in Seq(1..Count')
      BY <2>1, <3>4, <3>5 DEF Publish, TypeOK, DownIsIdle
    <3>7. inflight' \in [Channels -> Seq(1..Count')] /\ lost' \subseteq 1..Count'
      <4>1. lost' \subseteq 1..Count'
        <5>1. lost' \subseteq lost \cup {Count + 1} /\ lost \subseteq 1..Count
          BY <2>1 DEF Publish, TypeOK
        <5> QED
          BY <2>0, <3>3, <5>1
      <4>2. \A c \in Channels : /\ inflight[c] \in Seq(1..Count')
                                /\ Append(inflight[c], Count + 1) \in Seq(1..Count')
        BY <3>4, <3>5, AppendProperties DEF TypeOK
      <4>3. CASE connected
        <5> DEFINE d == Count % Cardinality(Channels)
        <5>1. inflight' = [inflight EXCEPT ![d] = Append(@, Count + 1)]
          BY <2>1, <4>3 DEF Publish
        <5> HIDE DEF d
        <5>2. DOMAIN inflight = Channels
          BY DEF TypeOK
        <5>3. inflight' = [c \in Channels |->
                             IF c = d THEN Append(inflight[c], Count + 1) ELSE inflight[c]]
          BY <5>1, <5>2
        <5> QED
          BY <4>1, <4>2, <5>3
      <4>4. CASE ~connected
        <5>1. inflight' = inflight /\ inflight = [c \in Channels |-> inflight[c]]
          BY <2>1, <4>4 DEF Publish, TypeOK
        <5> QED
          BY <4>1, <4>2, <5>1
      <4> QED
        BY <4>3, <4>4
    <3>8. unacked' \in [Workers -> 1..Count' \cup {NoRow}]
      BY <2>0, <2>1, <3>3 DEF Publish, TypeOK, DownIsIdle
    <3> QED
      BY <2>1, <3>3, <3>5, <3>6, <3>7, <3>8 DEF Publish, TypeOK, DownIsIdle
  <2>2. ASSUME NEW c \in Channels, Enqueue(c) PROVE TypeOK' /\ DownIsIdle'
    <3>1. Head(inflight[c]) \in 1..Count /\ Tail(inflight[c]) \in Seq(1..Count)
      BY <2>2, TailSet DEF Enqueue, TypeOK, DownIsIdle
    <3>2. Count' = Count /\ queue' \in Seq(1..Count) /\ lost' \subseteq 1..Count
      <4>1. Append(queue, Head(inflight[c])) \in Seq(1..Count) /\ lost \subseteq 1..Count
        BY <3>1, AppendProperties DEF TypeOK
      <4> QED
        BY <2>2, <2>13, <3>1, <4>1 DEF Enqueue, TypeOK
    <3>3. inflight' \in [Channels -> Seq(1..Count)]
      BY <2>2, <3>1 DEF Enqueue, TypeOK
    <3> QED
      BY <2>2, <3>2, <3>3 DEF Enqueue, TypeOK, DownIsIdle
  <2>3. ASSUME NEW w \in Workers, Declare(w) PROVE TypeOK' /\ DownIsIdle'
    BY <2>0, <2>3, <2>13 DEF Declare, TypeOK, DownIsIdle
  <2>4. ASSUME NEW w \in Workers, Deliver(w) PROVE TypeOK' /\ DownIsIdle'
    <3>1. Head(queue) \in 1..Count /\ Tail(queue) \in Seq(1..Count) /\ Head(queue) # NoRow
      BY <2>0, <2>4, TailSet DEF Deliver, TypeOK, DownIsIdle
    <3> QED
      BY <2>0, <2>4, <2>13, <3>1 DEF Deliver, TypeOK, DownIsIdle
  <2>5. ASSUME NEW w \in Workers, Insert(w) PROVE TypeOK' /\ DownIsIdle'
    <3>1. unacked[w] \in 1..Count
      BY <2>0, <2>5, <2>13 DEF Insert, TypeOK, DownIsIdle
    <3> QED
      BY <2>0, <2>5, <2>13, <3>1 DEF Insert, TypeOK, DownIsIdle
  <2>6. ASSUME NEW w \in Workers, PoisonKills(w) \/ DbError(w) PROVE TypeOK' /\ DownIsIdle'
    <3>1. unacked[w] \in 1..Count
      BY <2>6 DEF PoisonKills, DbError, TypeOK, DownIsIdle
    <3>2. <<unacked[w]>> \o queue \in Seq(1..Count) /\ Append(table, unacked[w]) \in Seq(1..Count)
      BY <3>1 DEF TypeOK
    <3> QED
      BY <2>6, <2>13, <3>2 DEF PoisonKills, DbError, Die, TypeOK, DownIsIdle
  <2>7. ASSUME NEW w \in Workers, Ack(w) PROVE TypeOK' /\ DownIsIdle'
    BY <2>0, <2>7, <2>13 DEF Ack, TypeOK, DownIsIdle
  <2>8. CASE Crash
    <3>1. queue' \in Seq(1..Count)
      <4>1. PICK s \in SetToSeqs({unacked[w] : w \in Held}) : queue' = s \o queue
        BY <2>8 DEF Crash
      <4> QED
        BY <4>1, HeldRows, ConcatProperties DEF TypeOK
    <3> QED
      BY <2>0, <2>8, <2>13, <3>1 DEF Crash, TypeOK, DownIsIdle
  <2>9. CASE Restart
    <3>1. memory' \in Seq(1..Count)
      BY <2>9, RestoredIsTable DEF Restart
    <3> QED
      BY <2>0, <2>9, <2>13, <3>1 DEF Restart, TypeOK, DownIsIdle
  <2>10. CASE RestartUnread
    <3>1. PICK rows \in SUBSET (1..Len(table)) : memory' \in ReadRows(rows)
      BY <2>10 DEF RestartUnread
    <3>2. memory' \in Seq(1..Count)
      BY <3>1, ReadRowsAreRows
    <3> QED
      BY <2>0, <2>10, <2>13, <3>2 DEF RestartUnread, TypeOK, DownIsIdle
  <2>11. CASE BrokerRestart
    <3>1. lost' \subseteq 1..Count
      <4>1. \A q \in Seq(1..Count) : \A i \in 1..Len(q) : q[i] \in 1..Count
        BY ElementOfSeq
      <4>2. {queue[i] : i \in 1..Len(queue)} \subseteq 1..Count
        BY <4>1 DEF TypeOK
      <4>3. \A c \in Channels : {inflight[c][i] : i \in 1..Len(inflight[c])} \subseteq 1..Count
        BY <4>1 DEF TypeOK
      <4>4. lost \cup {unacked[w] : w \in Held} \subseteq 1..Count
        BY DEF TypeOK, Held
      <4> QED
        BY <2>11, <2>13, <4>2, <4>3, <4>4 DEF BrokerRestart
    <3>2. orphans' \subseteq lost'
      <4>1. \A w \in Workers : worker[w] = "handling" => w \in Held
        BY DEF TypeOK, Held
      <4>2. lost \cup {unacked[w] : w \in Held} \subseteq lost'
        BY <2>11 DEF BrokerRestart
      <4>3. ASSUME NEW k \in orphans' PROVE k \in lost'
        <5>1. k \in orphans \/ \E w \in Held : k = unacked[w]
          BY <2>11, <4>1, <4>3 DEF BrokerRestart
        <5> QED
          BY <4>2, <5>1 DEF TypeOK
      <4> QED
        BY <4>3
    <3>3. \A w \in Workers : /\ worker'[w] \in {"starting", "dead"} /\ unacked'[w] = NoRow
                             /\ worker[w] = "dead" => worker'[w] = "dead"
      BY <2>11 DEF BrokerRestart
    <3>4. /\ worker' \in [Workers -> {"starting", "waiting", "handling", "acking", "dead"}]
          /\ unacked' \in [Workers -> 1..Count \cup {NoRow}]
          /\ inflight' \in [Channels -> Seq(1..Count)] /\ queue' \in Seq(1..Count)
          /\ UNCHANGED <<running, memory, ts, declared, table>> /\ connected' = FALSE
      BY <2>0, <2>11 DEF BrokerRestart
    <3> QED
      BY <2>13, <3>1, <3>2, <3>3, <3>4 DEF TypeOK, DownIsIdle
  <2>14. ASSUME NEW k \in orphans, FinishOrphan(k) PROVE TypeOK' /\ DownIsIdle'
    <3>1. k \in 1..Count /\ table \in Seq(1..Count)
      BY DEF TypeOK
    <3>2. Append(table, k) \in Seq(1..Count)
      BY <3>1, AppendProperties
    <3>3. /\ table' \in Seq(1..Count) /\ orphans' \subseteq orphans
          /\ UNCHANGED <<serverVars, brokerVars, worker, unacked, lost>>
      BY <2>14, <3>1, <3>2 DEF FinishOrphan
    <3> QED
      BY <2>13, <3>3 DEF TypeOK, DownIsIdle
  <2>12. CASE UNCHANGED vars
    BY <2>0, <2>12, <2>13 DEF vars, TypeOK, DownIsIdle
  <2> QED
    BY <2>1, <2>2, <2>3, <2>4, <2>5, <2>6, <2>7, <2>8, <2>9, <2>10, <2>11, <2>12, <2>14
       DEF Next, Consume, Finished
<1> QED
  BY <1>1, <1>2, PTL DEF Spec

(* Wherever rows are, they are rows that were written. *)
LEMMA RowsInRange ==
    ASSUME TypeOK
    PROVE  /\ Count \in Nat /\ Count <= MaxRows /\ NoRow \notin 1..Count
           /\ ToSet(queue) \subseteq 1..Count /\ ToSet(table) \subseteq 1..Count
           /\ \A c \in Channels : ToSet(inflight[c]) \subseteq 1..Count
           /\ \A w \in Held : unacked[w] \in 1..Count
<1>1. MaxRows \in Nat /\ NoRow \notin 1..MaxRows
  BY ConstantsAssumption
<1>2. Count \in Nat /\ Count <= MaxRows
  BY DEF TypeOK, Count
<1>3. \A q \in Seq(1..Count) : ToSet(q) \subseteq 1..Count
  BY ElementsOfSeq
<1>4. \A w \in Held : unacked[w] \in 1..Count
  BY DEF TypeOK, Held
<1> QED
  BY <1>1, <1>2, <1>3, <1>4 DEF TypeOK

(* An INSERT adds one copy of its row. *)
LEMMA TableGrows ==
    ASSUME TypeOK, NEW k \in 1..Count
    PROVE  /\ ToSet(Append(table, k)) = ToSet(table) \cup {k}
           /\ \A j \in 1..Count : /\ Occurrences(j, table) \in Nat
                                  /\ Occurrences(j, Append(table, k)) =
                                       Occurrences(j, table) + (IF j = k THEN 1 ELSE 0)
                                  /\ Occurrences(j, table) > 0 <=> j \in ToSet(table)
<1> DEFINE S == 1..Count
<1>1. table \in Seq(S) /\ k \in S
  BY DEF TypeOK
<1> HIDE DEF S
<1>2. ToSet(Append(table, k)) = ToSet(table) \cup {k}
  BY <1>1, AppendSet
<1>3. ASSUME NEW j
      PROVE  /\ Occurrences(j, table) \in Nat
             /\ Occurrences(j, Append(table, k)) = IF j = k THEN Occurrences(j, table) + 1
                                                            ELSE Occurrences(j, table)
             /\ Occurrences(j, table) > 0 <=> j \in ToSet(table)
  BY <1>1, OccurrencesOfAppend
<1> QED
  BY <1>2, <1>3

(* publish() always finds a channel, however often counter_ has gone       *)
(* round.                                                                  *)
LEMMA ChannelInTurn == ASSUME NEW n \in Nat PROVE n % Cardinality(Channels) \in Channels
<1>1. Cardinality(Channels) \in Nat \ {0} /\ Channels = 0..(Cardinality(Channels) - 1)
  BY ConstantsAssumption, FS_CardinalityType, FS_EmptySet
<1> DEFINE m == Cardinality(Channels)
<1>2. m \in Nat \ {0} /\ Channels = 0..(m - 1)
  BY <1>1
<1> HIDE DEF m
<1>3. n % m \in 0..(m - 1)
  BY <1>2
<1> QED
  BY <1>2, <1>3 DEF m

(* The counters of failures count. *)
Counted == crashes \in Nat /\ dbErrors \in Nat /\ brokerRestarts \in Nat

(* The counters of failures are numbers. *)
LEMMA FailuresAreCounted == Spec => []Counted
<1> USE DEF bounds
<1>1. Init => Counted
  BY DEF Init, Counted
<1>2. Counted /\ [Next]_vars => Counted'
  <2> SUFFICES ASSUME Counted, Next PROVE Counted'
    BY DEF vars, Counted
  <2>1. ASSUME UNCHANGED bounds PROVE Counted'
    BY <2>1 DEF Counted
  <2>2. ASSUME NEW c \in Channels, Enqueue(c) PROVE Counted'
    BY <2>1, <2>2 DEF Enqueue
  <2>3. ASSUME NEW w \in Workers, Consume(w) PROVE Counted'
    BY <2>3 DEF Counted, Consume, Declare, Deliver, Insert, PoisonKills, DbError, Ack
  <2>4. CASE Crash \/ BrokerRestart \/ RestartUnread
    BY <2>4 DEF Counted, Crash, BrokerRestart, RestartUnread
  <2>5. CASE Publish \/ Restart \/ Finished \/ \E k \in orphans : FinishOrphan(k)
    BY <2>1, <2>5 DEF Publish, Restart, Finished, FinishOrphan, vars
  <2> QED
    BY <2>2, <2>3, <2>4, <2>5 DEF Next
<1> QED
  BY <1>1, <1>2, PTL DEF Spec

(***************************************************************************)
(* What each step does to the places of rows                               *)
(***************************************************************************)
LEMMA PublishMoves ==
    ASSUME TypeOK, Publish
    PROVE  /\ Count' = Count + 1
           /\ UNCHANGED <<queue, worker, unacked, orphans, table, bounds>>
           /\ \E c \in Channels :
                /\ \A d \in Channels \ {c} : inflight'[d] = inflight[d]
                /\ \/ /\ ToSet(inflight'[c]) = ToSet(inflight[c]) \cup {Count + 1}
                      /\ IsInjective(inflight[c]) => IsInjective(inflight'[c])
                      /\ lost' = lost
                   \/ inflight' = inflight /\ lost' = lost \cup {Count + 1}
<1>1. Count' = Count + 1
  BY DEF Publish, Count, TypeOK
<1> DEFINE c == Count % Cardinality(Channels)
<1>2. c \in Channels
  BY RowsInRange, ChannelInTurn
<1>3. \/ inflight' = [inflight EXCEPT ![c] = Append(@, Count + 1)] /\ UNCHANGED lost
      \/ inflight' = inflight /\ lost' = lost \cup {Count + 1}
  BY DEF Publish
<1> HIDE DEF c
<1>4. /\ inflight[c] \in Seq(Nat) /\ Count + 1 \in Nat /\ Count + 1 \notin ToSet(inflight[c])
      /\ inflight \in [Channels -> Seq(1..Count)]
  <2>1. inflight[c] \in Seq(1..Count)
    BY <1>2 DEF TypeOK
  <2>2. 1..Count \subseteq Nat
    BY RowsInRange
  <2> QED
    BY <1>2, <2>1, <2>2, SeqMonotonic, RowsInRange DEF TypeOK
<1>5. /\ ToSet(Append(inflight[c], Count + 1)) = ToSet(inflight[c]) \cup {Count + 1}
      /\ IsInjective(inflight[c]) => IsInjective(Append(inflight[c], Count + 1))
  BY <1>4, AppendSet
<1>6. UNCHANGED <<queue, worker, unacked, orphans, table, bounds>>
  BY DEF Publish, workerVars
<1> QED
  BY <1>1, <1>2, <1>3, <1>4, <1>5, <1>6

(* The broker takes the first row of a channel into the queue, or loses    *)
(* it.                                                                     *)
LEMMA EnqueueMoves ==
    ASSUME TypeOK, NEW c \in Channels, Enqueue(c)
    PROVE  /\ UNCHANGED <<ts, worker, unacked, orphans, table, bounds>>
           /\ \A d \in Channels \ {c} : inflight'[d] = inflight[d]
           /\ \E k \in 1..Count :
                /\ ToSet(inflight[c]) = ToSet(inflight'[c]) \cup {k}
                /\ IsInjective(inflight[c]) => IsInjective(inflight'[c]) /\ k \notin ToSet(inflight'[c])
                /\ \/ /\ ToSet(queue') = ToSet(queue) \cup {k}
                      /\ IsInjective(queue) /\ k \notin ToSet(queue) => IsInjective(queue')
                      /\ lost' = lost
                   \/ queue' = queue /\ lost' = lost \cup {k}
<1> DEFINE k == Head(inflight[c])
<1>1. inflight[c] \in Seq(1..Count) /\ inflight[c] # <<>> /\ queue \in Seq(1..Count)
  BY DEF Enqueue, TypeOK
<1>2. /\ k \in 1..Count
      /\ ToSet(inflight[c]) = ToSet(Tail(inflight[c])) \cup {k}
      /\ IsInjective(inflight[c]) => IsInjective(Tail(inflight[c])) /\ k \notin ToSet(Tail(inflight[c]))
  BY <1>1, TailSet
<1>3. /\ ToSet(Append(queue, k)) = ToSet(queue) \cup {k}
      /\ IsInjective(queue) /\ k \notin ToSet(queue) => IsInjective(Append(queue, k))
  BY <1>1, <1>2, AppendSet
<1>4. /\ inflight'[c] = Tail(inflight[c])
      /\ \A d \in Channels \ {c} : inflight'[d] = inflight[d]
      /\ \/ queue' = Append(queue, k) /\ UNCHANGED lost
         \/ UNCHANGED queue /\ lost' = lost \cup {k}
  BY DEF Enqueue, TypeOK
<1>5. UNCHANGED <<ts, worker, unacked, orphans, table, bounds>>
  BY DEF Enqueue, workerVars, serverVars
<1> HIDE DEF k
<1> QED
  BY <1>2, <1>3, <1>4, <1>5

(* A delivery moves a row from the queue to one worker. *)
LEMMA DeliverMoves ==
    ASSUME TypeOK, NEW w \in Workers, Deliver(w)
    PROVE  /\ UNCHANGED <<ts, inflight, orphans, table, lost, bounds>>
           /\ worker[w] = "waiting" /\ unacked[w] = NoRow
           /\ worker' = [worker EXCEPT ![w] = "handling"]
           /\ \E k \in 1..Count :
                /\ unacked' = [unacked EXCEPT ![w] = k]
                /\ ToSet(queue) = ToSet(queue') \cup {k}
                /\ IsInjective(queue) => IsInjective(queue') /\ k \notin ToSet(queue')
<1>1. queue \in Seq(1..Count) /\ queue # <<>> /\ queue' = Tail(queue)
      /\ unacked' = [unacked EXCEPT ![w] = Head(queue)]
  BY DEF Deliver, TypeOK
<1>2. UNCHANGED <<ts, inflight, orphans, table, lost, bounds>>
      /\ worker[w] = "waiting" /\ unacked[w] = NoRow
      /\ worker' = [worker EXCEPT ![w] = "handling"]
  BY DEF Deliver, TypeOK, serverVars
<1> QED
  BY <1>1, <1>2, TailSet

(* A message goes back to the queue. *)
LEMMA DieMoves ==
    ASSUME TypeOK, NEW w \in Workers, worker[w] = "handling", Die(w)
    PROVE  /\ unacked[w] \in 1..Count
           /\ worker' = [worker EXCEPT ![w] = "dead"]
           /\ unacked' = [unacked EXCEPT ![w] = NoRow]
           /\ ToSet(queue') = ToSet(queue) \cup {unacked[w]}
           /\ IsInjective(queue) /\ unacked[w] \notin ToSet(queue) => IsInjective(queue')
<1>1. /\ unacked[w] \in 1..Count
      /\ worker' = [worker EXCEPT ![w] = "dead"]
      /\ unacked' = [unacked EXCEPT ![w] = NoRow]
      /\ queue' = <<unacked[w]>> \o queue
  BY DEF Die, TypeOK
<1>2. /\ <<unacked[w]>> \in Seq(1..Count) /\ queue \in Seq(1..Count)
      /\ ToSet(<<unacked[w]>>) = {unacked[w]} /\ IsInjective(<<unacked[w]>>)
  BY <1>1 DEF TypeOK, ToSet, IsInjective
<1> DEFINE t == <<unacked[w]>>
<1>3. /\ t \in Seq(1..Count) /\ ToSet(t) = {unacked[w]} /\ IsInjective(t)
      /\ queue' = t \o queue
  BY <1>1, <1>2
<1> HIDE DEF t
<1>4. /\ ToSet(t \o queue) = ToSet(t) \cup ToSet(queue)
      /\ IsInjective(queue) /\ ToSet(t) \cap ToSet(queue) = {} => IsInjective(t \o queue)
  BY <1>2, <1>3, ConcatSet
<1> QED
  BY <1>1, <1>3, <1>4

(* A crash puts back what the workers have. *)
LEMMA CrashMoves ==
    ASSUME TypeOK, Crash
    PROVE  /\ UNCHANGED <<ts, inflight, table, lost, dbErrors, brokerRestarts>>
           /\ crashes' = crashes + 1 /\ orphans' = {}
           /\ worker' = [w \in Workers |-> "dead"]
           /\ unacked' = [w \in Workers |-> NoRow]
           /\ ToSet(queue') = ToSet(queue) \cup {unacked[w] : w \in Held}
           /\ IsInjective(queue) /\ (\A w \in Held : unacked[w] \notin ToSet(queue)) =>
                IsInjective(queue')
<1>1. PICK s \in SetToSeqs({unacked[w] : w \in Held}) : queue' = s \o queue
  BY DEF Crash
<1>2. queue \in Seq(1..Count)
  BY DEF TypeOK
<1>3. s \in Seq(1..Count) /\ ToSet(s) = {unacked[w] : w \in Held} /\ IsInjective(s)
  BY HeldRows
<1>4. /\ ToSet(s \o queue) = ToSet(s) \cup ToSet(queue)
      /\ IsInjective(queue) /\ ToSet(s) \cap ToSet(queue) = {} => IsInjective(s \o queue)
  BY <1>2, <1>3, ConcatSet
<1>5. (\A w \in Held : unacked[w] \notin ToSet(queue)) => ToSet(s) \cap ToSet(queue) = {}
  BY <1>3
<1> QED
  BY <1>1, <1>3, <1>4, <1>5 DEF Crash

(* A restart of the broker empties queue and channels; what was there is   *)
(* lost.                                                                   *)
LEMMA BrokerRestartMoves ==
    ASSUME TypeOK, BrokerRestart
    PROVE  /\ UNCHANGED <<ts, table, crashes, dbErrors>>
           /\ brokerRestarts' = brokerRestarts + 1
           /\ ToSet(queue') = {} /\ IsInjective(queue')
           /\ inflight' = [c \in Channels |-> <<>>] /\ ToSet(<<>>) = {} /\ IsInjective(<<>>)
           /\ unacked' = [w \in Workers |-> NoRow]
           /\ \A w \in Workers : worker'[w] \in {"starting", "dead"}
           /\ \A k \in orphans' : k \in orphans \/ \E w \in Workers :
                                    worker[w] = "handling" /\ unacked[w] = k
           /\ lost \subseteq lost'
           /\ \A k \in 1..Count : InBroker(k) => k \in lost'
<1>1. ToSet(<<>>) = {} /\ IsInjective(<<>>)
  BY DEF ToSet, IsInjective
<1>2. /\ UNCHANGED <<ts, table, crashes, dbErrors>>
      /\ brokerRestarts' = brokerRestarts + 1
      /\ queue' = <<>>
      /\ inflight' = [c \in Channels |-> <<>>]
      /\ unacked' = [w \in Workers |-> NoRow]
      /\ lost' = lost \cup {queue[i] : i \in 1..Len(queue)} \cup {unacked[w] : w \in Held}
                    \cup UNION {{inflight[c][i] : i \in 1..Len(inflight[c])} : c \in Channels}
  BY DEF BrokerRestart, serverVars
<1>3. \A q \in Seq(1..Count) : ToSet(q) = {q[i] : i \in 1..Len(q)}
  BY DomainIsLength
<1>4. /\ ToSet(queue) = {queue[i] : i \in 1..Len(queue)}
      /\ \A c \in Channels : ToSet(inflight[c]) = {inflight[c][i] : i \in 1..Len(inflight[c])}
  BY <1>3 DEF TypeOK
<1>5. ASSUME NEW w \in Held PROVE unacked[w] \in lost'
  <2> DEFINE H == {unacked[v] : v \in Held}
  <2>1. unacked[w] \in H
    OBVIOUS
  <2>2. H \subseteq lost'
    <3> HIDE DEF H
    <3> QED
      BY <1>2 DEF H
  <2> QED
    BY <2>1, <2>2
<1>6. ASSUME NEW k \in 1..Count, InBroker(k) PROVE k \in lost'
  <2>1. CASE k \in ToSet(queue)
    BY <1>2, <1>4, <2>1
  <2>2. CASE \E w \in Workers : unacked[w] = k
    <3>1. k # NoRow
      BY RowsInRange
    <3> QED
      BY <1>5, <2>2, <3>1 DEF Held
  <2>3. ASSUME NEW c \in Channels, k \in ToSet(inflight[c]) PROVE k \in lost'
    <3> DEFINE U == {{inflight[d][i] : i \in 1..Len(inflight[d])} : d \in Channels}
    <3>1. ToSet(inflight[c]) \in U
      BY <1>4
    <3>2. UNION U \subseteq lost'
      <4> HIDE DEF U
      <4> QED
        BY <1>2 DEF U
    <3> HIDE DEF U
    <3> QED
      BY <2>3, <3>1, <3>2
  <2> QED
    BY <1>6, <2>1, <2>2, <2>3 DEF InBroker
<1>7. \A w \in Workers : worker'[w] \in {"starting", "dead"}
  BY DEF BrokerRestart
<1>8. \A k \in orphans' : k \in orphans \/ \E w \in Workers :
                          worker[w] = "handling" /\ unacked[w] = k
  BY DEF BrokerRestart
<1> QED
  BY <1>1, <1>2, <1>6, <1>7, <1>8

(* A handler without a broker touches the table alone. *)
LEMMA OrphanMoves ==
    ASSUME TypeOK, NEW k \in orphans, FinishOrphan(k)
    PROVE  /\ UNCHANGED <<ts, inflight, queue, worker, unacked, lost, bounds>>
           /\ k \in 1..Count /\ orphans' = orphans \ {k}
           /\ table' = table \/ table' = Append(table, k)
  BY DEF FinishOrphan, TypeOK, serverVars, brokerVars

(***************************************************************************)
(* A row the broker has is there once                                      *)
(***************************************************************************)
(* Whatever crashes, dies or restarts, a message is put back where it came *)
(* from and nowhere else: no row is in the queue, with a worker or on a    *)
(* channel twice.                                                          *)
THEOREM RowsAreInOnePlace == Spec => []OnePlace
<1> USE DEF bounds
<1>1. Init => OnePlace
  BY DEF Init, OnePlace, Held, ToSet, IsInjective
<1>2. TypeOK /\ OnePlace /\ [Next]_vars => OnePlace'
  <2> SUFFICES ASSUME TypeOK, OnePlace, [Next]_vars PROVE OnePlace'
    OBVIOUS
  <2>0. /\ ToSet(queue) \subseteq 1..Count
        /\ \A c \in Channels : ToSet(inflight[c]) \subseteq 1..Count
        /\ \A w \in Held : unacked[w] \in 1..Count
        /\ Count \in Nat /\ Count + 1 \notin 1..Count /\ NoRow \notin 1..Count
        /\ unacked \in [Workers -> 1..Count \cup {NoRow}]
    BY RowsInRange DEF TypeOK
  <2>1. CASE Publish
    <3>1. PICK c \in Channels :
             /\ \A d \in Channels \ {c} : inflight'[d] = inflight[d]
             /\ \/ /\ ToSet(inflight'[c]) = ToSet(inflight[c]) \cup {Count + 1}
                   /\ IsInjective(inflight[c]) => IsInjective(inflight'[c])
                \/ inflight' = inflight
      BY <2>1, PublishMoves
    <3>2. queue' = queue /\ unacked' = unacked
      BY <2>1, PublishMoves
    <3> QED
      BY <2>0, <3>1, <3>2 DEF OnePlace, Held
  <2>2. ASSUME NEW c \in Channels, Enqueue(c) PROVE OnePlace'
    <3>1. /\ unacked' = unacked
          /\ \A d \in Channels \ {c} : inflight'[d] = inflight[d]
      BY <2>2, EnqueueMoves
    <3>2. PICK k \in 1..Count :
             /\ ToSet(inflight[c]) = ToSet(inflight'[c]) \cup {k}
             /\ IsInjective(inflight[c]) => IsInjective(inflight'[c]) /\ k \notin ToSet(inflight'[c])
             /\ \/ /\ ToSet(queue') = ToSet(queue) \cup {k}
                   /\ IsInjective(queue) /\ k \notin ToSet(queue) => IsInjective(queue')
                \/ queue' = queue
      BY <2>2, EnqueueMoves
    <3>3. /\ k \notin ToSet(queue) /\ \A w \in Held : unacked[w] # k
          /\ \A d \in Channels : ToSet(inflight'[d]) \subseteq ToSet(inflight[d])
          /\ \A d \in Channels : k \notin ToSet(inflight'[d]) /\ IsInjective(inflight'[d])
      BY <3>1, <3>2 DEF OnePlace
    <3>4. /\ ToSet(queue) \subseteq ToSet(queue') /\ ToSet(queue') \subseteq ToSet(queue) \cup {k}
          /\ IsInjective(queue')
      BY <3>2, <3>3 DEF OnePlace
    <3> QED
      BY <3>1, <3>3, <3>4 DEF OnePlace, Held
  <2>3. ASSUME NEW w \in Workers, Deliver(w) PROVE OnePlace'
    <3>1. inflight' = inflight /\ unacked[w] = NoRow
      BY <2>3, DeliverMoves
    <3>2. PICK k \in 1..Count :
             /\ unacked' = [unacked EXCEPT ![w] = k]
             /\ ToSet(queue) = ToSet(queue') \cup {k}
             /\ IsInjective(queue) => IsInjective(queue') /\ k \notin ToSet(queue')
      BY <2>3, DeliverMoves
    <3> QED
      BY <2>0, <3>1, <3>2 DEF OnePlace, Held
  <2>4. ASSUME NEW w \in Workers, PoisonKills(w) \/ DbError(w) PROVE OnePlace'
    <3>1. inflight' = inflight /\ worker[w] = "handling" /\ Die(w)
      BY <2>4 DEF PoisonKills, DbError
    <3>2. /\ unacked[w] \in 1..Count
          /\ unacked' = [unacked EXCEPT ![w] = NoRow]
          /\ ToSet(queue') = ToSet(queue) \cup {unacked[w]}
          /\ IsInjective(queue) /\ unacked[w] \notin ToSet(queue) => IsInjective(queue')
      BY <3>1, DieMoves
    <3> QED
      BY <2>0, <3>1, <3>2 DEF OnePlace, Held
  <2>5. ASSUME NEW w \in Workers, Ack(w) PROVE OnePlace'
    <3>1. /\ queue' = queue /\ inflight' = inflight
          /\ unacked' = [unacked EXCEPT ![w] = NoRow]
      BY <2>5 DEF Ack, brokerVars
    <3> QED
      BY <2>0, <3>1 DEF OnePlace, Held
  <2>6. CASE Crash
    <3>1. /\ inflight' = inflight
          /\ unacked' = [w \in Workers |-> NoRow]
          /\ ToSet(queue') = ToSet(queue) \cup {unacked[w] : w \in Held}
          /\ IsInjective(queue) /\ (\A w \in Held : unacked[w] \notin ToSet(queue)) =>
               IsInjective(queue')
      BY <2>6, CrashMoves
    <3> QED
      BY <3>1 DEF OnePlace, Held
  <2>7. CASE BrokerRestart
    BY <2>7, BrokerRestartMoves DEF OnePlace, Held
  <2>8. ASSUME UNCHANGED <<queue, inflight, unacked>> PROVE OnePlace'
    BY <2>8 DEF OnePlace, Held
  <2>9. ASSUME NEW w \in Workers, Declare(w) \/ Insert(w) PROVE OnePlace'
    BY <2>8, <2>9 DEF Declare, Insert, brokerVars
  <2>10. CASE Restart \/ RestartUnread \/ UNCHANGED vars
    BY <2>8, <2>10 DEF Restart, RestartUnread, vars, brokerVars, workerVars
  <2>11. ASSUME NEW k \in orphans, FinishOrphan(k) PROVE OnePlace'
    BY <2>8, <2>11, OrphanMoves
  <2> QED
    BY <2>1, <2>2, <2>3, <2>4, <2>5, <2>6, <2>7, <2>9, <2>10, <2>11 DEF Next, Consume, Finished
<1> QED
  BY <1>1, <1>2, TypeCorrect, PTL DEF Spec

(***************************************************************************)
(* No accepted row is forgotten                                            *)
(***************************************************************************)
LEMMA BrokerCount == ASSUME TypeOK, NEW k, k # NoRow PROVE AtTheBroker(k) > 0 <=> InBroker(k)
<1> DEFINE V == {w \in Workers : unacked[w] = k}
           C == {c \in Channels : k \in ToSet(inflight[c])}
<1>1. Occurrences(k, queue) \in Nat /\ (Occurrences(k, queue) > 0 <=> k \in ToSet(queue))
  <2>1. queue \in Seq(1..Count)
    BY DEF TypeOK
  <2>2. queue \in Seq(1..Count \cup {k}) /\ k \in 1..Count \cup {k}
    BY <2>1, SeqMonotonic
  <2> QED
    BY <2>2, OccurrencesOfAppend
<1>2. IsFiniteSet(Workers) /\ IsFiniteSet(Channels)
  BY ConstantsAssumption
<1>3. V \in SUBSET Workers /\ C \in SUBSET Channels
  OBVIOUS
<1> HIDE DEF V, C
<1>4. /\ Cardinality(V) \in Nat /\ (Cardinality(V) > 0 <=> V # {})
      /\ Cardinality(C) \in Nat /\ (Cardinality(C) > 0 <=> C # {})
  <2>1. IsFiniteSet(V) /\ IsFiniteSet(C)
    BY <1>2, <1>3, FS_Subset
  <2> QED
    BY <2>1, FS_CardinalityType, FS_EmptySet
<1>5. AtTheBroker(k) = Occurrences(k, queue) + Cardinality(V) + Cardinality(C)
  BY DEF AtTheBroker, V, C
<1>6. InBroker(k) <=> k \in ToSet(queue) \/ V # {} \/ C # {}
  BY DEF InBroker, V, C
<1> QED
  BY <1>1, <1>4, <1>5, <1>6

(* A row leaves the broker only into the table or when the broker forgets  *)
(* it: the acknowledgement comes after the INSERT, and a worker that fails *)
(* or a process that dies gives the row back.                              *)
LEMMA RowsAreKept == Spec => []KeptInv
<1> USE DEF bounds
<1>1. Init => KeptInv
  <2> SUFFICES ASSUME Init PROVE KeptInv
    OBVIOUS
  <2>1. Count = 0
    BY DEF Init, Count
  <2> QED
    BY <2>1 DEF Init, KeptInv, AckedIsStored
<1>2. TypeOK /\ KeptInv /\ [Next]_vars => KeptInv'
  <2> SUFFICES ASSUME TypeOK, KeptInv, [Next]_vars PROVE KeptInv'
    OBVIOUS
  <2>0. /\ Count \in Nat
        /\ unacked \in [Workers -> 1..Count \cup {NoRow}] /\ NoRow \notin 1..Count
        /\ worker \in [Workers -> {"starting", "waiting", "handling", "acking", "dead"}]
        /\ \A w \in Workers : unacked[w] # NoRow <=> worker[w] \in {"handling", "acking"}
    BY RowsInRange DEF TypeOK
  <2>13. ASSUME UNCHANGED ts PROVE Count' = Count
    BY <2>13 DEF Count
  <2>1. CASE Publish
    <3>1. PICK c \in Channels :
             /\ \A d \in Channels \ {c} : inflight'[d] = inflight[d]
             /\ \/ /\ ToSet(inflight'[c]) = ToSet(inflight[c]) \cup {Count + 1}
                   /\ lost' = lost
                \/ inflight' = inflight /\ lost' = lost \cup {Count + 1}
      BY <2>1, PublishMoves
    <3>2. Count' = Count + 1 /\ UNCHANGED <<queue, worker, unacked, table>>
      BY <2>1, PublishMoves
    <3>3. \A k \in 1..Count' : k \in 1..Count \/ k = Count + 1
      BY <2>0, <3>2
    <3>4. /\ lost \subseteq lost'
          /\ \A d \in Channels : ToSet(inflight[d]) \subseteq ToSet(inflight'[d])
          /\ Count + 1 \in lost' \/ Count + 1 \in ToSet(inflight'[c])
      BY <3>1
    <3>5. ASSUME NEW k \in 1..Count'
          PROVE  k \in lost' \/ InBroker(k)' \/ k \in ToSet(table')
      BY <3>2, <3>3, <3>4 DEF KeptInv, InBroker
    <3> QED
      BY <3>2, <3>5 DEF KeptInv, AckedIsStored
  <2>2. ASSUME NEW c \in Channels, Enqueue(c) PROVE KeptInv'
    <3>1. /\ UNCHANGED <<worker, unacked, table>> /\ Count' = Count
          /\ \A d \in Channels \ {c} : inflight'[d] = inflight[d]
      BY <2>2, <2>13, EnqueueMoves
    <3>2. PICK k \in 1..Count :
             /\ ToSet(inflight[c]) = ToSet(inflight'[c]) \cup {k}
             /\ \/ ToSet(queue') = ToSet(queue) \cup {k} /\ lost' = lost
                \/ queue' = queue /\ lost' = lost \cup {k}
      BY <2>2, EnqueueMoves
    <3>3. ASSUME NEW l \in 1..Count'
          PROVE  l \in lost' \/ InBroker(l)' \/ l \in ToSet(table')
      BY <3>1, <3>2 DEF KeptInv, InBroker
    <3> QED
      BY <3>1, <3>3 DEF KeptInv, AckedIsStored
  <2>3. ASSUME NEW w \in Workers, Deliver(w) PROVE KeptInv'
    <3>1. /\ UNCHANGED <<inflight, table, lost>> /\ Count' = Count
          /\ unacked[w] = NoRow /\ worker' = [worker EXCEPT ![w] = "handling"]
      BY <2>3, <2>13, DeliverMoves
    <3>2. PICK k \in 1..Count :
             /\ unacked' = [unacked EXCEPT ![w] = k]
             /\ ToSet(queue) = ToSet(queue') \cup {k}
      BY <2>3, DeliverMoves
    <3>3. ASSUME NEW l \in 1..Count'
          PROVE  l \in lost' \/ InBroker(l)' \/ l \in ToSet(table')
      BY <2>0, <3>1, <3>2 DEF KeptInv, InBroker
    <3> QED
      BY <2>0, <3>1, <3>2, <3>3 DEF KeptInv, AckedIsStored
  <2>4. ASSUME NEW w \in Workers, Insert(w) PROVE KeptInv'
    <3>1. /\ UNCHANGED <<inflight, queue, unacked, lost>> /\ Count' = Count
          /\ worker' = [worker EXCEPT ![w] = "acking"] /\ worker[w] = "handling"
          /\ table' = Append(table, unacked[w])
      BY <2>4, <2>13 DEF Insert, serverVars, brokerVars
    <3>2. unacked[w] \in 1..Count /\ table \in Seq(1..Count)
      BY <2>0, <3>1 DEF TypeOK
    <3>3. ToSet(table') = ToSet(table) \cup {unacked[w]}
      BY <3>1, <3>2, TableGrows
    <3> QED
      BY <2>0, <3>1, <3>3 DEF KeptInv, AckedIsStored, InBroker
  <2>5. ASSUME NEW w \in Workers, PoisonKills(w) \/ DbError(w) PROVE KeptInv'
    <3>1. /\ UNCHANGED <<inflight, lost>> /\ Count' = Count
          /\ worker[w] = "handling" /\ Die(w)
          /\ table' = table \/ table' = Append(table, unacked[w])
      BY <2>5, <2>13 DEF PoisonKills, DbError, serverVars
    <3>2. /\ unacked[w] \in 1..Count
          /\ worker' = [worker EXCEPT ![w] = "dead"]
          /\ unacked' = [unacked EXCEPT ![w] = NoRow]
          /\ ToSet(queue') = ToSet(queue) \cup {unacked[w]}
      BY <3>1, DieMoves
    <3>3. ToSet(table) \subseteq ToSet(table')
      BY <3>1, <3>2, TableGrows
    <3>4. ASSUME NEW l \in 1..Count'
          PROVE  l \in lost' \/ InBroker(l)' \/ l \in ToSet(table')
      BY <2>0, <3>1, <3>2, <3>3 DEF KeptInv, InBroker
    <3> QED
      BY <2>0, <3>2, <3>3, <3>4 DEF KeptInv, AckedIsStored
  <2>6. ASSUME NEW w \in Workers, Ack(w) PROVE KeptInv'
    <3>1. /\ UNCHANGED <<inflight, queue, lost, table>> /\ Count' = Count
          /\ unacked' = [unacked EXCEPT ![w] = NoRow]
          /\ worker' = [worker EXCEPT ![w] = "waiting"] /\ worker[w] = "acking"
      BY <2>6, <2>13 DEF Ack, serverVars, brokerVars
    <3>2. unacked[w] \in ToSet(table)
      BY <3>1 DEF KeptInv, AckedIsStored
    <3>3. ASSUME NEW l \in 1..Count'
          PROVE  l \in lost' \/ InBroker(l)' \/ l \in ToSet(table')
      BY <2>0, <3>1, <3>2 DEF KeptInv, InBroker
    <3> QED
      BY <2>0, <3>1, <3>3 DEF KeptInv, AckedIsStored
  <2>7. CASE Crash
    <3>1. /\ UNCHANGED <<inflight, lost, table>> /\ Count' = Count
          /\ worker' = [w \in Workers |-> "dead"]
          /\ unacked' = [w \in Workers |-> NoRow]
          /\ ToSet(queue') = ToSet(queue) \cup {unacked[w] : w \in Held}
      BY <2>7, <2>13, CrashMoves
    <3>2. \A w \in Workers : unacked[w] = NoRow \/ unacked[w] \in ToSet(queue')
      BY <3>1 DEF Held
    <3>3. ToSet(queue) \subseteq ToSet(queue')
      BY <3>1
    <3>4. ASSUME NEW l \in 1..Count'
          PROVE  l \in lost' \/ InBroker(l)' \/ l \in ToSet(table')
      BY <2>0, <3>1, <3>2, <3>3 DEF KeptInv, InBroker
    <3> QED
      BY <3>1, <3>4 DEF KeptInv, AckedIsStored
  <2>8. CASE BrokerRestart
    <3>1. /\ table' = table /\ Count' = Count
          /\ \A w \in Workers : worker'[w] \in {"starting", "dead"}
          /\ lost \subseteq lost' /\ \A k \in 1..Count : InBroker(k) => k \in lost'
      BY <2>8, <2>13, BrokerRestartMoves
    <3> QED
      BY <3>1 DEF KeptInv, AckedIsStored
  <2>9. ASSUME NEW w \in Workers, Declare(w) PROVE KeptInv'
    BY <2>0, <2>9, <2>13 DEF Declare, KeptInv, AckedIsStored, InBroker, serverVars
  <2>10. CASE Restart \/ RestartUnread
    BY <2>10, <2>13 DEF Restart, RestartUnread, KeptInv, AckedIsStored, InBroker
  <2>11. CASE UNCHANGED vars
    BY <2>11, <2>13 DEF vars, serverVars, brokerVars, workerVars, KeptInv, AckedIsStored, InBroker
  <2>12. ASSUME NEW k \in orphans, FinishOrphan(k) PROVE KeptInv'
    <3>1. /\ UNCHANGED <<inflight, queue, worker, unacked, lost>> /\ Count' = Count
          /\ k \in 1..Count /\ (table' = table \/ table' = Append(table, k))
      BY <2>12, <2>13, OrphanMoves
    <3>2. ToSet(table) \subseteq ToSet(table')
      BY <3>1, TableGrows
    <3> QED
      BY <3>1, <3>2 DEF KeptInv, AckedIsStored, InBroker
  <2> QED
    BY <2>1, <2>2, <2>3, <2>4, <2>5, <2>6, <2>7, <2>8, <2>9, <2>10, <2>11, <2>12
       DEF Next, Consume, Finished
<1> QED
  BY <1>1, <1>2, TypeCorrect, PTL DEF Spec

(* "Handle it first, then acknowledge": a row is at the broker, with a     *)
(* worker or in the table unless the broker itself forgot it.              *)
THEOREM NothingIsForgotten == Spec => []NothingForgotten
<1>1. TypeOK /\ KeptInv => NothingForgotten
  <2> SUFFICES ASSUME TypeOK, KeptInv, NEW k \in 1..Count
               PROVE  k \in lost \/ AtTheBroker(k) > 0 \/ k \in ToSet(table)
    BY DEF NothingForgotten
  <2>1. k # NoRow
    BY RowsInRange
  <2> QED
    BY <2>1, BrokerCount DEF KeptInv
<1> QED
  BY <1>1, TypeCorrect, RowsAreKept, PTL

(* A restart that reads the table: what the new context lacks is still at  *)
(* the broker or was forgotten by it.                                      *)
THEOREM RestartsMissOnlyQueued == Spec => RestartMissesOnlyQueued
<1>1. ASSUME TypeOK, KeptInv, Counted, [Next]_vars,
             ~running, running', dbErrors' = dbErrors, NEW k \in 1..Count
      PROVE  k \in ToSet(memory') \cup lost \/ AtTheBroker(k) > 0
  <2>1. Restart
    <3>1. ~RestartUnread
      BY <1>1 DEF RestartUnread, Counted
    <3> QED
      BY <1>1, <3>1 DEF Next, Consume, Finished, vars, serverVars, Publish, Enqueue, Declare,
         Deliver, Insert, PoisonKills, DbError, Ack, FinishOrphan, Crash, BrokerRestart
  <2>2. ToSet(memory') = ToSet(table)
    BY <1>1, <2>1, RestoredIsTable DEF Restart
  <2>3. k # NoRow
    BY <1>1, RowsInRange
  <2>4. k \in lost \/ InBroker(k) \/ k \in ToSet(table)
    BY <1>1 DEF KeptInv
  <2> QED
    BY <1>1, <2>2, <2>3, <2>4, BrokerCount
<1>2. TypeOK /\ KeptInv /\ Counted /\ [Next]_vars =>
        [(~running /\ running' /\ dbErrors' = dbErrors) =>
           \A k \in 1..Count : k \in ToSet(memory') \cup lost \/ AtTheBroker(k) > 0]_vars
  BY <1>1
<1> QED
  BY <1>2, TypeCorrect, RowsAreKept, FailuresAreCounted, PTL DEF Spec, RestartMissesOnlyQueued

(***************************************************************************)
(* A second copy needs a failure                                           *)
(***************************************************************************)
(* No step brings a row back to the broker that the broker does not have.  *)
LEMMA BrokerOnlyLoses ==
    ASSUME TypeOK, [Next]_vars, NEW k \in 1..Count, InBroker(k)'
    PROVE  InBroker(k)
<1>0. /\ Count \in Nat /\ k # Count + 1 /\ k # NoRow
      /\ unacked \in [Workers -> 1..Count \cup {NoRow}]
  BY RowsInRange DEF TypeOK
<1>1. CASE Publish
  <2>1. PICK c \in Channels :
           /\ \A d \in Channels \ {c} : inflight'[d] = inflight[d]
           /\ \/ ToSet(inflight'[c]) = ToSet(inflight[c]) \cup {Count + 1}
              \/ inflight' = inflight
    BY <1>1, PublishMoves
  <2>2. UNCHANGED <<queue, unacked>>
    BY <1>1, PublishMoves
  <2>3. \A d \in Channels : k \in ToSet(inflight'[d]) => k \in ToSet(inflight[d])
    BY <1>0, <2>1
  <2> QED
    BY <2>2, <2>3 DEF InBroker
<1>2. ASSUME NEW c \in Channels, Enqueue(c) PROVE InBroker(k)
  <2>1. unacked' = unacked /\ \A d \in Channels \ {c} : inflight'[d] = inflight[d]
    BY <1>2, EnqueueMoves
  <2>2. PICK l \in 1..Count :
           /\ ToSet(inflight[c]) = ToSet(inflight'[c]) \cup {l}
           /\ ToSet(queue') = ToSet(queue) \cup {l} \/ queue' = queue
    BY <1>2, EnqueueMoves
  <2> QED
    BY <2>1, <2>2 DEF InBroker
<1>3. ASSUME NEW w \in Workers, Deliver(w) PROVE InBroker(k)
  <2>1. inflight' = inflight
    BY <1>3, DeliverMoves
  <2>2. PICK l \in 1..Count :
           /\ unacked' = [unacked EXCEPT ![w] = l]
           /\ ToSet(queue) = ToSet(queue') \cup {l}
    BY <1>3, DeliverMoves
  <2> QED
    BY <1>0, <2>1, <2>2 DEF InBroker
<1>4. ASSUME NEW w \in Workers, PoisonKills(w) \/ DbError(w) PROVE InBroker(k)
  <2>1. inflight' = inflight /\ worker[w] = "handling" /\ Die(w)
    BY <1>4 DEF PoisonKills, DbError
  <2>2. /\ unacked' = [unacked EXCEPT ![w] = NoRow]
        /\ ToSet(queue') = ToSet(queue) \cup {unacked[w]}
    BY <2>1, DieMoves
  <2> QED
    BY <1>0, <2>1, <2>2 DEF InBroker
<1>5. ASSUME NEW w \in Workers, Ack(w) PROVE InBroker(k)
  <2>1. UNCHANGED <<queue, inflight>> /\ unacked' = [unacked EXCEPT ![w] = NoRow]
    BY <1>5 DEF Ack, brokerVars
  <2> QED
    BY <1>0, <2>1 DEF InBroker
<1>6. CASE Crash
  <2>1. /\ inflight' = inflight /\ unacked' = [w \in Workers |-> NoRow]
        /\ ToSet(queue') = ToSet(queue) \cup {unacked[w] : w \in Held}
    BY <1>6, CrashMoves
  <2> QED
    BY <1>0, <2>1 DEF InBroker, Held
<1>7. CASE BrokerRestart
  BY <1>0, <1>7, BrokerRestartMoves DEF InBroker
<1>8. ASSUME UNCHANGED <<queue, inflight, unacked>> PROVE InBroker(k)
  BY <1>8 DEF InBroker
<1>9. ASSUME NEW w \in Workers, Declare(w) \/ Insert(w) PROVE InBroker(k)
  BY <1>8, <1>9 DEF Declare, Insert, brokerVars
<1>10. CASE Restart \/ RestartUnread \/ UNCHANGED vars
  BY <1>8, <1>10 DEF Restart, RestartUnread, vars, brokerVars, workerVars
<1>11. ASSUME NEW l \in orphans, FinishOrphan(l) PROVE InBroker(k)
  BY <1>8, <1>11, OrphanMoves
<1> QED
  BY <1>1, <1>2, <1>3, <1>4, <1>5, <1>6, <1>7, <1>9, <1>10, <1>11 DEF Next, Consume, Finished

(* A row whose handler has no broker any more is not at the broker.        *)
LEMMA OrphansStayGone == Spec => []OrphansAreGone
<1>1. Init => OrphansAreGone
  BY DEF Init, OrphansAreGone
<1>2. TypeOK /\ OrphansAreGone /\ [Next]_vars => OrphansAreGone'
  <2> SUFFICES ASSUME TypeOK, OrphansAreGone, [Next]_vars, NEW k \in orphans', InBroker(k)'
               PROVE  FALSE
    BY DEF OrphansAreGone
  <2>1. CASE BrokerRestart
    <3>1. /\ ToSet(queue') = {} /\ ToSet(<<>>) = {}
          /\ inflight' = [c \in Channels |-> <<>>]
          /\ unacked' = [w \in Workers |-> NoRow]
          /\ \A l \in orphans' : l \in orphans \/ \E w \in Workers :
                                   worker[w] = "handling" /\ unacked[w] = l
      BY <2>1, BrokerRestartMoves
    <3>2. k # NoRow
      BY <3>1, RowsInRange DEF TypeOK
    <3> QED
      BY <3>1, <3>2 DEF InBroker
  <2>2. CASE k \in orphans
    <3>1. k \in 1..Count
      BY <2>2 DEF TypeOK
    <3> QED
      BY <2>2, <3>1, BrokerOnlyLoses DEF OrphansAreGone
  <2>3. CASE ~BrokerRestart /\ k \notin orphans
    BY <2>3 DEF Next, Consume, Finished, vars, workerVars, Publish, Enqueue, Declare, Deliver, Insert,
       PoisonKills, DbError, Ack, FinishOrphan, Crash, Restart, RestartUnread
  <2> QED
    BY <2>1, <2>2, <2>3
<1> QED
  BY <1>1, <1>2, TypeCorrect, PTL DEF Spec

(* A row is inserted while it is with a worker, and is then with no other: *)
(* only a failure between the INSERT and the acknowledgement puts a stored *)
(* row back to be inserted again.                                          *)
LEMMA CopiesAreCounted == Spec => []CopiesInv
<1> USE DEF bounds
<1>1. Init => CopiesInv
  <2> SUFFICES ASSUME Init PROVE CopiesInv
    OBVIOUS
  <2>1. Count = 0
    BY DEF Init, Count
  <2> QED
    BY <2>1 DEF CopiesInv
<1>2. TypeOK /\ DownIsIdle /\ Counted /\ OnePlace /\ OrphansAreGone /\ CopiesInv /\ [Next]_vars => CopiesInv'
  <2> SUFFICES ASSUME TypeOK, DownIsIdle, Counted, OnePlace, OrphansAreGone, CopiesInv,
                      [Next]_vars
               PROVE  CopiesInv'
    OBVIOUS
  <2>0. /\ Count \in Nat /\ Failures \in Nat /\ table \in Seq(1..Count)
        /\ unacked \in [Workers -> 1..Count \cup {NoRow}] /\ NoRow \notin 1..Count
        /\ worker \in [Workers -> {"starting", "waiting", "handling", "acking", "dead"}]
        /\ \A w \in Workers : unacked[w] # NoRow <=> worker[w] \in {"handling", "acking"}
    BY RowsInRange DEF TypeOK, Counted, Failures
  <2>01. \A k : k \in 1..Count => Occurrences(k, table) \in Nat
    <3> SUFFICES ASSUME NEW k \in 1..Count PROVE Occurrences(k, table) \in Nat
      OBVIOUS
    <3> QED
      BY TableGrows
  <2>02. ASSUME UNCHANGED ts PROVE Count' = Count
    BY <2>02 DEF Count
  <2>03. ASSUME UNCHANGED bounds PROVE Failures' = Failures
    BY <2>03 DEF Failures
  <2>04. ASSUME table' = table, Failures' = Failures, Count' = Count,
                \A k \in 1..Count : Pending(k)' => Pending(k)
         PROVE  CopiesInv'
    BY <2>04 DEF CopiesInv, Occurrences
  <2>05. ASSUME table' = table, Failures' = Failures + 1, Count' = Count PROVE CopiesInv'
    <3>3. ASSUME NEW k \in 1..Count
          PROVE  Occurrences(k, table') <= Failures' /\ Occurrences(k, table') <= 1 + Failures'
      <4> DEFINE o == Occurrences(k, table)
      <4>1. o \in Nat /\ o <= 1 + Failures
        BY <2>01 DEF CopiesInv
      <4>2. Occurrences(k, table') = o
        BY <2>05
      <4> HIDE DEF o
      <4> QED
        BY <2>0, <2>05, <4>1, <4>2
    <3> QED
      BY <2>05, <3>3 DEF CopiesInv
  <2>06. ASSUME NEW w \in Workers, worker[w] = "handling"
         PROVE  /\ unacked[w] \in 1..Count
                /\ InBroker(unacked[w]) /\ Pending(unacked[w])
                /\ Occurrences(unacked[w], table) <= Failures
    <3>1. unacked[w] \in 1..Count /\ w \in Held
      BY <2>0, <2>06 DEF Held
    <3>2. InBroker(unacked[w])
      BY DEF InBroker
    <3>3. ~Stored(unacked[w])
      BY <2>06, <2>0, <3>1 DEF OnePlace, Stored, Held
    <3>4. Pending(unacked[w])
      BY <3>2, <3>3 DEF Pending
    <3> QED
      BY <3>1, <3>2, <3>4 DEF CopiesInv
  <2>1. CASE Publish
    <3>1. PICK c \in Channels :
             /\ \A d \in Channels \ {c} : inflight'[d] = inflight[d]
             /\ \/ ToSet(inflight'[c]) = ToSet(inflight[c]) \cup {Count + 1}
                \/ inflight' = inflight
      BY <2>1, PublishMoves
    <3>2. Count' = Count + 1 /\ UNCHANGED <<queue, worker, unacked, orphans, table>> /\ Failures' = Failures
      BY <2>1, <2>03, PublishMoves
    <3>3. ASSUME NEW k \in 1..Count
          PROVE  /\ Pending(k)' => Pending(k)
                 /\ Occurrences(k, table') = Occurrences(k, table)
      <4>1. k # Count + 1
        BY <2>0
      <4>2. \A d \in Channels : k \in ToSet(inflight'[d]) => k \in ToSet(inflight[d])
        BY <3>1, <4>1
      <4> QED
        BY <3>2, <4>2 DEF Pending, InBroker, Stored
    <3>4. Occurrences(Count + 1, table') = 0
      <4>1. \A i \in 1..Len(table) : table[i] \in 1..Count
        BY <2>0, ElementOfSeq
      <4>2. {i \in 1..Len(table) : table[i] = Count + 1} = {}
        BY <2>0, <4>1
      <4> QED
        BY <3>2, <4>2, FS_EmptySet DEF Occurrences
    <3>5. \A k \in 1..Count' : k \in 1..Count \/ k = Count + 1
      BY <2>0, <3>2
    <3> QED
      BY <2>0, <3>2, <3>3, <3>4, <3>5 DEF CopiesInv
  <2>2. ASSUME NEW c \in Channels, Enqueue(c) PROVE CopiesInv'
    <3>1. /\ UNCHANGED <<worker, unacked, orphans, table>> /\ Count' = Count /\ Failures' = Failures
          /\ \A d \in Channels \ {c} : inflight'[d] = inflight[d]
      BY <2>2, <2>02, <2>03, EnqueueMoves
    <3>2. PICK k \in 1..Count :
             /\ ToSet(inflight[c]) = ToSet(inflight'[c]) \cup {k}
             /\ ToSet(queue') = ToSet(queue) \cup {k} \/ queue' = queue
      BY <2>2, EnqueueMoves
    <3>3. ASSUME NEW l \in 1..Count
          PROVE  Pending(l)' => Pending(l)
      BY <3>1, <3>2 DEF Pending, InBroker, Stored
    <3> QED
      BY <2>04, <3>1, <3>3
  <2>3. ASSUME NEW w \in Workers, Deliver(w) PROVE CopiesInv'
    <3>1. /\ UNCHANGED <<inflight, orphans, table>> /\ Count' = Count /\ Failures' = Failures
          /\ worker[w] = "waiting" /\ worker' = [worker EXCEPT ![w] = "handling"]
      BY <2>3, <2>02, <2>03, DeliverMoves
    <3>2. PICK k \in 1..Count :
             /\ unacked' = [unacked EXCEPT ![w] = k]
             /\ ToSet(queue) = ToSet(queue') \cup {k}
      BY <2>3, DeliverMoves
    <3>3. ASSUME NEW l \in 1..Count
          PROVE  Pending(l)' => Pending(l)
      BY <2>0, <3>1, <3>2 DEF Pending, InBroker, Stored
    <3> QED
      BY <2>04, <3>1, <3>3
  <2>4. ASSUME NEW w \in Workers, Insert(w) PROVE CopiesInv'
    <3>1. /\ UNCHANGED <<inflight, queue, unacked, orphans>> /\ Count' = Count /\ Failures' = Failures
          /\ worker' = [worker EXCEPT ![w] = "acking"] /\ worker[w] = "handling"
          /\ table' = Append(table, unacked[w])
      BY <2>4, <2>02, <2>03 DEF Insert, serverVars, brokerVars
    <3>2. /\ unacked[w] \in 1..Count /\ Occurrences(unacked[w], table) <= Failures
      BY <2>06, <3>1
    <3>3. \A k \in 1..Count : Occurrences(k, table') =
                                Occurrences(k, table) + (IF k = unacked[w] THEN 1 ELSE 0)
      BY <3>1, <3>2, TableGrows
    <3>4. ASSUME NEW k \in 1..Count
          PROVE  /\ Occurrences(k, table') <= 1 + Failures
                 /\ Pending(k)' => Occurrences(k, table') <= Failures
      <4>1. CASE k = unacked[w]
        <5>1. ~Pending(k)'
          <6>1. Stored(k)'
            BY <2>0, <3>1, <4>1 DEF Stored
          <6>2. k \notin orphans'
            BY <2>06, <3>1, <4>1 DEF OrphansAreGone
          <6> QED
            BY <6>1, <6>2 DEF Pending
        <5>2. Occurrences(k, table') = Occurrences(k, table) + 1
          BY <3>3, <4>1
        <5>3. Occurrences(k, table) <= Failures
          BY <3>2, <4>1
        <5> QED
          BY <2>0, <2>01, <5>1, <5>2, <5>3
      <4>2. CASE k # unacked[w]
        <5>1. Pending(k)' => Pending(k)
          BY <2>0, <3>1, <4>2 DEF Pending, InBroker, Stored
        <5>2. Occurrences(k, table') = Occurrences(k, table)
          BY <2>01, <3>3, <4>2
        <5> QED
          BY <5>1, <5>2 DEF CopiesInv
      <4> QED
        BY <4>1, <4>2
    <3> QED
      BY <3>1, <3>4 DEF CopiesInv
  <2>5. ASSUME NEW w \in Workers, PoisonKills(w) PROVE CopiesInv'
    <3>1. /\ UNCHANGED <<inflight, orphans, table>> /\ Count' = Count /\ Failures' = Failures
          /\ worker[w] = "handling" /\ Die(w)
      BY <2>5, <2>02, <2>03 DEF PoisonKills, serverVars
    <3>2. /\ worker' = [worker EXCEPT ![w] = "dead"]
          /\ unacked' = [unacked EXCEPT ![w] = NoRow]
          /\ ToSet(queue') = ToSet(queue) \cup {unacked[w]}
      BY <3>1, DieMoves
    <3>3. ASSUME NEW l \in 1..Count
          PROVE  Pending(l)' => Pending(l)
      BY <2>0, <3>1, <3>2 DEF Pending, InBroker, Stored
    <3> QED
      BY <2>04, <3>1, <3>3
  <2>6. ASSUME NEW w \in Workers, DbError(w) PROVE CopiesInv'
    <3>1. /\ Count' = Count /\ Failures' = Failures + 1 /\ worker[w] = "handling"
          /\ table' = table \/ table' = Append(table, unacked[w])
      BY <2>6, <2>02 DEF DbError, serverVars, Failures, Counted
    <3>2. unacked[w] \in 1..Count /\ Occurrences(unacked[w], table) <= Failures
      BY <2>06, <3>1
    <3>3. CASE table' = table
      BY <2>05, <3>1, <3>3
    <3>4. CASE table' = Append(table, unacked[w])
      <4>1. \A k \in 1..Count : Occurrences(k, table') =
                                  Occurrences(k, table) + (IF k = unacked[w] THEN 1 ELSE 0)
        BY <3>2, <3>4, TableGrows
      <4>2. ASSUME NEW k \in 1..Count PROVE Occurrences(k, table') <= Failures'
        <5>1. CASE k = unacked[w]
          BY <2>0, <2>01, <3>1, <3>2, <4>1, <5>1
        <5>2. CASE k # unacked[w]
          <6>1. Occurrences(k, table') = Occurrences(k, table)
            BY <2>01, <4>1, <5>2
          <6>2. Occurrences(k, table) <= 1 + Failures
            BY DEF CopiesInv
          <6> QED
            BY <2>0, <2>01, <3>1, <6>1, <6>2
        <5> QED
          BY <5>1, <5>2
      <4>3. \A k \in 1..Count : Occurrences(k, table') \in Nat
        BY <2>01, <4>1
      <4> QED
        BY <2>0, <3>1, <4>2, <4>3 DEF CopiesInv
    <3> QED
      BY <3>1, <3>3, <3>4
  <2>7. ASSUME NEW w \in Workers, Ack(w) PROVE CopiesInv'
    <3>1. /\ UNCHANGED <<inflight, queue, orphans, table>> /\ Count' = Count /\ Failures' = Failures
          /\ unacked' = [unacked EXCEPT ![w] = NoRow]
          /\ worker' = [worker EXCEPT ![w] = "waiting"] /\ worker[w] = "acking"
      BY <2>7, <2>02, <2>03 DEF Ack, serverVars, brokerVars
    <3>2. unacked[w] \in 1..Count /\ w \in Held
      BY <2>0, <3>1 DEF Held
    <3>3. ASSUME NEW l \in 1..Count
          PROVE  Pending(l)' => Pending(l)
      <4>1. CASE l = unacked[w]
        <5>1. ~InBroker(l)'
          BY <2>0, <3>1, <3>2, <4>1 DEF InBroker, OnePlace, Held
        <5>2. orphans' = orphans
          BY <3>1
        <5> QED
          BY <5>1, <5>2 DEF Pending
      <4>2. CASE l # unacked[w]
        BY <2>0, <3>1, <4>2 DEF Pending, InBroker, Stored
      <4> QED
        BY <4>1, <4>2
    <3> QED
      BY <2>04, <3>1, <3>3
  <2>8. CASE Crash
    <3>1. table' = table /\ Count' = Count /\ Failures' = Failures + 1
      BY <2>8, <2>02, CrashMoves DEF Failures, Counted
    <3> QED
      BY <2>05, <3>1
  <2>9. CASE BrokerRestart
    <3>1. table' = table /\ Count' = Count /\ Failures' = Failures + 1
      BY <2>9, <2>02, BrokerRestartMoves DEF Failures, Counted
    <3> QED
      BY <2>05, <3>1
  <2>10. CASE RestartUnread
    <3>1. table' = table /\ Count' = Count /\ Failures' = Failures + 1
      BY <2>10, <2>02 DEF RestartUnread, Failures, Counted
    <3> QED
      BY <2>05, <3>1
  <2>11. ASSUME NEW w \in Workers, Declare(w) PROVE CopiesInv'
    <3>1. /\ UNCHANGED <<inflight, queue, unacked, orphans, table>> /\ Count' = Count /\ Failures' = Failures
          /\ worker' = [worker EXCEPT ![w] = "waiting"] /\ worker[w] = "starting"
      BY <2>11, <2>02, <2>03 DEF Declare, serverVars
    <3>2. \A l \in 1..Count : Pending(l)' => Pending(l)
      BY <2>0, <3>1 DEF Pending, InBroker, Stored
    <3> QED
      BY <2>04, <3>1, <3>2
  <2>12. CASE Restart
    <3>1. /\ UNCHANGED <<inflight, queue, unacked, orphans, table>> /\ Count' = Count /\ Failures' = Failures
          /\ worker' = [w \in Workers |-> "starting"]
      BY <2>12, <2>02, <2>03 DEF Restart
    <3>2. \A w \in Workers : worker[w] = "dead"
      BY <2>12 DEF Restart, DownIsIdle
    <3>3. \A l \in 1..Count : Pending(l)' => Pending(l)
      BY <3>1, <3>2 DEF Pending, InBroker, Stored
    <3> QED
      BY <2>04, <3>1, <3>3
  <2>13. CASE UNCHANGED vars
    BY <2>13, <2>02, <2>03, <2>04
       DEF vars, serverVars, brokerVars, workerVars, Pending, InBroker, Stored
  <2>14. ASSUME NEW l \in orphans, FinishOrphan(l) PROVE CopiesInv'
    <3>1. /\ UNCHANGED <<inflight, queue, worker, unacked>> /\ Count' = Count
          /\ Failures' = Failures /\ l \in 1..Count /\ orphans' = orphans \ {l}
          /\ table' = table \/ table' = Append(table, l)
      BY <2>14, <2>02, <2>03, OrphanMoves
    <3>2. \A k \in 1..Count : Pending(k)' => Pending(k) /\ k # l
      BY <3>1 DEF Pending, InBroker, Stored, OrphansAreGone
    <3>3. CASE table' = table
      BY <2>04, <3>1, <3>2, <3>3
    <3>4. CASE table' = Append(table, l)
      <4>1. \A k \in 1..Count : Occurrences(k, table') =
                                  Occurrences(k, table) + (IF k = l THEN 1 ELSE 0)
        BY <3>1, <3>4, TableGrows
      <4>2. Occurrences(l, table) <= Failures
        <5>1. Pending(l)
          BY DEF Pending
        <5> QED
          BY <3>1, <5>1 DEF CopiesInv
      <4>3. ASSUME NEW k \in 1..Count
            PROVE  /\ Occurrences(k, table') <= 1 + Failures
                   /\ Pending(k)' => Occurrences(k, table') <= Failures
        <5>1. CASE k = l
          BY <2>0, <2>01, <3>2, <4>1, <4>2, <5>1
        <5>2. CASE k # l
          <6>1. Occurrences(k, table') = Occurrences(k, table)
            BY <2>01, <4>1, <5>2
          <6> QED
            BY <3>2, <6>1 DEF CopiesInv
        <5> QED
          BY <5>1, <5>2
      <4> QED
        BY <3>1, <4>3 DEF CopiesInv
    <3> QED
      BY <3>1, <3>3, <3>4
  <2> QED
    BY <2>1, <2>2, <2>3, <2>4, <2>5, <2>6, <2>7, <2>8, <2>9, <2>10, <2>11, <2>12, <2>13, <2>14
       DEF Next, Consume, Finished
<1> QED
  BY <1>1, <1>2, TypeCorrect, FailuresAreCounted, RowsAreInOnePlace, OrphansStayGone, PTL DEF Spec

(* A row is stored once, and once more at most for every crash, database   *)
(* error and restart of the broker.                                        *)
THEOREM CopiesNeedFailures == Spec => []DuplicatesNeedFailures
<1>1. TypeOK /\ Counted /\ CopiesInv => DuplicatesNeedFailures
  BY DEF CopiesInv, Failures, DuplicatesNeedFailures, Counted
<1> QED
  BY <1>1, TypeCorrect, FailuresAreCounted, CopiesAreCounted, PTL
=============================================================================
