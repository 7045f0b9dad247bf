-------------------------- MODULE EventLoopsProofs --------------------------
(***************************************************************************)
(* Theorems about EventLoops for any number of loops, workers, clients,    *)
(* connections of the pool and channels, and any number of requests and    *)
(* failures: who holds which mutex, what is done under it, and what nobody *)
(* holds while waiting.                                                    *)
(***************************************************************************)
EXTENDS EventLoops, SequenceTheorems, TLAPS

(***************************************************************************)
(* What the rest of a program looks like                                   *)
(***************************************************************************)
Locks == Mutexes \cup Range(Channels)

Steps == [op : {"lock", "unlock", "read", "write", "statement", "publish", "send", "ack",
                "find", "load", "insert", "model", "token", "create", "poll"},
          on : Locks \cup Objects \cup {"pool", "broker", "outside", "model"}]

Syncs(x) == x.op \in {"lock", "unlock"}

(* The steps that are done without a mutex. *)
Alone == {Statement, Publish, Model, Step("ack", "broker"), Step("token", "outside"),
          Step("create", "outside"), Step("poll", "outside"), Writes("onlineUsers_"),
          Writes("sessions_m"), Writes("rng_m"), Reads("AIHelper"), Writes("AIHelper"),
          Reads("sslConns_m"), Writes("sslConns_m")}

(* The steps that a request of this kind does under mutex m.  The list of  *)
(* conversations is guarded by a mutex that depends on the request.        *)
DoneUnder(m, x, kind) ==
    \/ m = "mutexForOnlineUsers_" /\ x = Writes("onlineUsers_")
    \/ m = "mutexForChatInformation" /\ x \in {Writes("chatInformation"), Reads("AIHelper")}
    \/ m = "mutexForChatInformation" /\ kind = "create" /\ x = Writes("sessionsIdsMap")
    \/ m = "mutexForSessionsId" /\ kind = "sessions" /\ x = Writes("sessionsIdsMap")
    \/ m = "mutexForImageRecognizerMap" /\ kind = "upload"
         /\ x \in {Step("find", "ImageRecognizerMap"), Step("load", "model"),
                   Step("insert", "ImageRecognizerMap")}
    \/ m \in Range(Channels) /\ x = Step("send", m)

(* Whoever still has to take s from its i-th step on has mutex m: the next *)
(* step on a mutex unlocks m.                                              *)
Under(s, i, m) ==
    \E j \in i..Len(s) : s[j] = Step("unlock", m) /\ \A k \in i..(j - 1) : ~Syncs(s[k])

(* A mutex is locked by who has none, and what is done under it is what    *)
(* DoneUnder says; a recognizer that is looked for is constructed and      *)
(* inserted next; polling comes last.                                      *)
TidyAt(s, i, kind) ==
    /\ \/ s[i].op = "lock" /\ s[i].on \in Locks /\ Under(s, i + 1, s[i].on)
       \/ s[i].op = "unlock" /\ s[i].on \in Locks /\ \A m \in Locks : ~Under(s, i + 1, m)
       \/ s[i] \in Alone /\ \A m \in Locks : ~Under(s, i, m)
       \/ \E m \in Locks : Under(s, i, m) /\ DoneUnder(m, s[i], kind)
    /\ s[i].op = "find" => i < Len(s) /\ s[i + 1].op = "load"
    /\ s[i].op = "load" => i < Len(s) /\ s[i + 1].op = "insert"
    /\ s[i].op = "poll" => i = Len(s)

Tidy(s, kind) == s \in Seq(Steps) /\ \A i \in 1..Len(s) : TidyAt(s, i, kind)

(* What a handler begins with, and what is left when it has no mutex. *)
Complete(s) == \A m \in Locks : ~Under(s, 1, m)

(***************************************************************************)
(* Lemmas about such sequences                                             *)
(***************************************************************************)
LEMMA UnderOnce ==
    ASSUME NEW s \in Seq(Steps), NEW i \in Nat, NEW m \in Locks, NEW n \in Locks,
           Under(s, i, m), Under(s, i, n)
    PROVE  m = n
  <1>1. PICK j \in i..Len(s) : s[j] = Step("unlock", m) /\ \A k \in i..(j - 1) : ~Syncs(s[k])
    BY DEF Under
  <1>2. PICK l \in i..Len(s) : s[l] = Step("unlock", n) /\ \A k \in i..(l - 1) : ~Syncs(s[k])
    BY DEF Under
  <1>3. Len(s) \in Nat /\ j \in Nat /\ l \in Nat
    OBVIOUS
  <1>4. Syncs(s[j]) /\ Syncs(s[l])
    BY <1>1, <1>2 DEF Syncs, Step
  <1>5. ~(j < l) /\ ~(l < j)
    BY <1>1, <1>2, <1>3, <1>4
  <1>6. j = l
    BY <1>3, <1>5
  <1> QED BY <1>1, <1>2, <1>6 DEF Step

(* A step that is not on a mutex changes nothing about who has which. *)
LEMMA UnderNext ==
    ASSUME NEW s \in Seq(Steps), NEW i \in 1..Len(s), NEW m \in Locks, ~Syncs(s[i])
    PROVE  Under(s, i, m) <=> Under(s, i + 1, m)
  <1>1. Len(s) \in Nat /\ i \in Nat
    OBVIOUS
  <1>2. ASSUME Under(s, i, m)
        PROVE  Under(s, i + 1, m)
    <2>1. PICK j \in i..Len(s) : s[j] = Step("unlock", m) /\ \A k \in i..(j - 1) : ~Syncs(s[k])
      BY <1>2 DEF Under
    <2>2. j # i
      BY <2>1 DEF Syncs, Step
    <2> QED BY <1>1, <2>1, <2>2 DEF Under
  <1>3. ASSUME Under(s, i + 1, m)
        PROVE  Under(s, i, m)
    <2>1. PICK j \in (i + 1)..Len(s) :
             s[j] = Step("unlock", m) /\ \A k \in (i + 1)..(j - 1) : ~Syncs(s[k])
      BY <1>3 DEF Under
    <2>2. \A k \in i..(j - 1) : ~Syncs(s[k])
      BY <1>1, <2>1
    <2> QED BY <1>1, <2>1, <2>2 DEF Under
  <1> QED BY <1>2, <1>3

(* The rest of a tidy program is tidy. *)
LEMMA RestUnder ==
    ASSUME NEW s \in Seq(Steps), NEW r \in Seq(Steps), NEW d \in Nat,
           Len(r) = Len(s) - d, \A i \in 1..Len(r) : r[i] = s[i + d],
           NEW i \in Nat \ {0}, NEW m \in Locks
    PROVE  Under(r, i, m) <=> Under(s, i + d, m)
  <1>1. Len(s) \in Nat /\ Len(r) \in Nat /\ i \in Nat /\ i > 0
    OBVIOUS
  <1>2. ASSUME Under(r, i, m)
        PROVE  Under(s, i + d, m)
    <2>1. PICK j \in i..Len(r) : r[j] = Step("unlock", m) /\ \A k \in i..(j - 1) : ~Syncs(r[k])
      BY <1>2 DEF Under
    <2>2. j + d \in (i + d)..Len(s) /\ s[j + d] = Step("unlock", m)
      BY <1>1, <2>1
    <2>3. ASSUME NEW k \in (i + d)..(j + d - 1)
          PROVE  ~Syncs(s[k])
      <3>1. k - d \in i..(j - 1) /\ k - d \in 1..Len(r) /\ (k - d) + d = k
        BY <1>1, <2>1, <2>3
      <3>2. r[k - d] = s[k]
        BY <3>1
      <3> QED BY <2>1, <3>1, <3>2
    <2> QED BY <2>2, <2>3 DEF Under
  <1>3. ASSUME Under(s, i + d, m)
        PROVE  Under(r, i, m)
    <2>1. PICK j \in (i + d)..Len(s) :
             s[j] = Step("unlock", m) /\ \A k \in (i + d)..(j - 1) : ~Syncs(s[k])
      BY <1>3 DEF Under
    <2>2. j - d \in i..Len(r) /\ j - d \in 1..Len(r) /\ (j - d) + d = j
      BY <1>1, <2>1
    <2>3. r[j - d] = Step("unlock", m)
      BY <2>1, <2>2
    <2>4. ASSUME NEW k \in i..(j - d - 1)
          PROVE  ~Syncs(r[k])
      <3>1. k + d \in (i + d)..(j - 1) /\ k \in 1..Len(r)
        BY <1>1, <2>1, <2>4
      <3> QED BY <2>1, <3>1
    <2> QED BY <2>2, <2>3, <2>4 DEF Under
  <1> QED BY <1>2, <1>3

(* What is left of a tidy program is tidy. *)
LEMMA RestTidy ==
    ASSUME NEW s \in Seq(Steps), NEW r \in Seq(Steps), NEW d \in Nat, NEW kind,
           Len(r) = Len(s) - d, \A i \in 1..Len(r) : r[i] = s[i + d],
           Tidy(s, kind)
    PROVE  Tidy(r, kind)
  <1> SUFFICES ASSUME NEW i \in 1..Len(r)
               PROVE  TidyAt(r, i, kind)
    BY DEF Tidy
  <1>1. /\ Len(s) \in Nat /\ Len(r) \in Nat /\ i \in Nat \ {0} /\ i + 1 \in Nat \ {0}
        /\ i + d \in 1..Len(s) /\ (i + 1) + d = (i + d) + 1
    OBVIOUS
  <1>2. r[i] = s[i + d] /\ (i < Len(r) => i + 1 \in 1..Len(r))
    BY <1>1
  <1>3. i < Len(r) => r[i + 1] = s[(i + d) + 1]
    BY <1>1, <1>2
  <1>4. /\ i + d < Len(s) <=> i < Len(r)
        /\ i + d = Len(s) <=> i = Len(r)
    BY <1>1
  <1>5. \A m \in Locks : Under(r, i, m) <=> Under(s, i + d, m)
    BY <1>1, RestUnder
  <1>6. \A m \in Locks : Under(r, i + 1, m) <=> Under(s, (i + d) + 1, m)
    <2> DEFINE n == i + 1
    <2>1. \A m \in Locks : Under(r, n, m) <=> Under(s, n + d, m)
      <3>1. n \in Nat \ {0}
        BY <1>1
      <3> HIDE DEF n
      <3> QED BY <3>1, RestUnder
    <2> QED BY <1>1, <2>1
  <1>7. TidyAt(s, i + d, kind)
    BY <1>1 DEF Tidy
  <1> QED BY <1>2, <1>3, <1>4, <1>5, <1>6, <1>7 DEF TidyAt

(* The first step of a tidy program and what is left after it. *)
LEMMA AfterHead ==
    ASSUME NEW s \in Seq(Steps), s # <<>>, NEW kind, Tidy(s, kind)
    PROVE  /\ s[1] = Head(s) /\ s[1] \in Steps /\ Len(s) \in Nat \ {0} /\ 1 \in 1..Len(s)
           /\ Tail(s) \in Seq(Steps) /\ Tidy(Tail(s), kind)
           /\ \A m \in Locks : Under(Tail(s), 1, m) <=> Under(s, 2, m)
           /\ TidyAt(s, 1, kind)
  <1> DEFINE d == 1
  <1>1. /\ s[1] = Head(s) /\ s[1] \in Steps /\ Len(s) \in Nat \ {0} /\ 1 \in 1..Len(s)
        /\ Tail(s) \in Seq(Steps) /\ Len(Tail(s)) = Len(s) - d
        /\ \A i \in 1..Len(Tail(s)) : Tail(s)[i] = s[i + d]
        /\ d \in Nat /\ 1 \in Nat \ {0} /\ 1 + d = 2
    OBVIOUS
  <1>2. TidyAt(s, 1, kind)
    BY <1>1 DEF Tidy
  <1> HIDE DEF d
  <1>3. Tidy(Tail(s), kind)
    BY <1>1, RestTidy
  <1> DEFINE one == 1
  <1>4. \A m \in Locks : Under(Tail(s), one, m) <=> Under(s, one + d, m)
    <2>1. one \in Nat \ {0}
      OBVIOUS
    <2> HIDE DEF one
    <2> QED BY <1>1, <2>1, RestUnder
  <1> QED BY <1>1, <1>2, <1>3, <1>4

(* A program put together of two. *)
LEMMA ConcatUnder ==
    ASSUME NEW a \in Seq(Steps), NEW b \in Seq(Steps), Complete(b),
           NEW i \in 1..(Len(a) + 1), NEW m \in Locks
    PROVE  Under(a \o b, i, m) <=> Under(a, i, m)
  <1> DEFINE s == a \o b
  <1>1. /\ Len(a) \in Nat /\ Len(b) \in Nat /\ s \in Seq(Steps) /\ Len(s) = Len(a) + Len(b)
        /\ \A j \in 1..Len(a) : s[j] = a[j]
        /\ \A j \in (Len(a) + 1)..Len(s) : s[j] = b[j - Len(a)]
    OBVIOUS
  <1> HIDE DEF s
  <1>2. ASSUME Under(a, i, m)
        PROVE  Under(s, i, m)
    <2>1. PICK j \in i..Len(a) : a[j] = Step("unlock", m) /\ \A k \in i..(j - 1) : ~Syncs(a[k])
      BY <1>2 DEF Under
    <2>2. j \in i..Len(s) /\ s[j] = Step("unlock", m)
      BY <1>1, <2>1
    <2>3. \A k \in i..(j - 1) : ~Syncs(s[k])
      BY SMTT(30), <1>1, <2>1
    <2> QED BY <2>2, <2>3 DEF Under
  <1>3. ASSUME Under(s, i, m)
        PROVE  Under(a, i, m)
    <2>1. PICK j \in i..Len(s) : s[j] = Step("unlock", m) /\ \A k \in i..(j - 1) : ~Syncs(s[k])
      BY <1>3 DEF Under
    <2>2. CASE j \in 1..Len(a)
      <3>1. j \in i..Len(a) /\ a[j] = Step("unlock", m)
        BY <1>1, <2>1, <2>2
      <3>2. \A k \in i..(j - 1) : ~Syncs(a[k])
        BY <1>1, <2>1, <2>2
      <3> QED BY <3>1, <3>2 DEF Under
    <2>3. CASE j \notin 1..Len(a)
      <3>1. j \in (Len(a) + 1)..Len(s)
        BY <1>1, <2>1, <2>3
      <3>2. j - Len(a) \in 1..Len(b) /\ b[j - Len(a)] = Step("unlock", m)
        BY <1>1, <2>1, <3>1
      <3>3. ASSUME NEW k \in 1..(j - Len(a) - 1)
            PROVE  ~Syncs(b[k])
        <4>1. k + Len(a) \in i..(j - 1) /\ k + Len(a) \in (Len(a) + 1)..Len(s)
              /\ (k + Len(a)) - Len(a) = k
          BY <1>1, <3>1, <3>3
        <4>2. s[k + Len(a)] = b[k]
          BY <1>1, <4>1
        <4> QED BY <2>1, <4>1, <4>2
      <3>4. Under(b, 1, m)
        BY <3>2, <3>3 DEF Under
      <3> QED BY <3>4 DEF Complete
    <2> QED BY <2>2, <2>3
  <1> QED BY <1>2, <1>3 DEF s

(* Tidy programs put together are tidy. *)
LEMMA ConcatTidy ==
    ASSUME NEW a, NEW b, NEW kind, Tidy(a, kind), Tidy(b, kind), Complete(b),
           \A i \in 1..Len(a) : a[i].op # "poll"
    PROVE  Tidy(a \o b, kind) /\ (Complete(a) => Complete(a \o b))
  <1> DEFINE s == a \o b
  <1>1. a \in Seq(Steps) /\ b \in Seq(Steps)
    BY DEF Tidy
  <1>2. /\ Len(a) \in Nat /\ Len(b) \in Nat /\ s \in Seq(Steps) /\ Len(s) = Len(a) + Len(b)
        /\ \A j \in 1..Len(a) : s[j] = a[j]
        /\ \A j \in (Len(a) + 1)..Len(s) : s[j] = b[j - Len(a)]
    BY <1>1
  <1>3. \A i \in 1..(Len(a) + 1), m \in Locks : Under(s, i, m) <=> Under(a, i, m)
    BY <1>1, ConcatUnder
  <1>4. (\A i \in 1..Len(b) : b[i] = s[i + Len(a)]) /\ Len(b) = Len(s) - Len(a)
    BY <1>2
  <1> HIDE DEF s
  <1>5. \A i \in Nat \ {0}, m \in Locks : Under(b, i, m) <=> Under(s, i + Len(a), m)
    <2> SUFFICES ASSUME NEW i \in Nat \ {0}, NEW m \in Locks
                 PROVE  Under(b, i, m) <=> Under(s, i + Len(a), m)
      OBVIOUS
    <2> QED BY <1>1, <1>2, <1>4, RestUnder
  <1>6. ASSUME NEW i \in 1..Len(s)
        PROVE  TidyAt(s, i, kind)
    <2>1. CASE i \in 1..Len(a)
      <3>1. /\ TidyAt(a, i, kind) /\ s[i] = a[i] /\ a[i].op # "poll"
            /\ i < Len(a) => s[i + 1] = a[i + 1] /\ i < Len(s)
            /\ i \in 1..(Len(a) + 1) /\ i + 1 \in 1..(Len(a) + 1)
        BY SMTT(30), <1>2, <2>1 DEF Tidy
      <3>2. /\ \A m \in Locks : Under(s, i, m) <=> Under(a, i, m)
            /\ \A m \in Locks : Under(s, i + 1, m) <=> Under(a, i + 1, m)
        BY <1>3, <3>1
      <3> QED BY <3>1, <3>2 DEF TidyAt
    <2>2. CASE i \notin 1..Len(a)
      <3> DEFINE j == i - Len(a)
      <3>1. /\ j \in 1..Len(b) /\ j + Len(a) = i /\ (j + 1) + Len(a) = i + 1
            /\ j \in Nat \ {0} /\ j + 1 \in Nat \ {0}
            /\ (j < Len(b) <=> i < Len(s)) /\ (j = Len(b) <=> i = Len(s))
        BY <1>2, <2>2
      <3>5. s[i] = b[j]
        BY <1>4, <3>1
      <3>6. j < Len(b) => s[i + 1] = b[j + 1]
        <4>1. j < Len(b) => j + 1 \in 1..Len(b)
          BY <1>2, <3>1
        <4> QED BY <1>4, <3>1, <4>1
      <3>2. TidyAt(b, j, kind)
        BY <3>1 DEF Tidy
      <3> HIDE DEF j
      <3>3. \A m \in Locks : Under(b, j, m) <=> Under(s, i, m)
        BY <1>5, <3>1
      <3>4. \A m \in Locks : Under(b, j + 1, m) <=> Under(s, i + 1, m)
        <4> DEFINE n == j + 1
        <4>1. n \in Nat \ {0} /\ n + Len(a) = i + 1
          BY <3>1
        <4> HIDE DEF n
        <4>2. \A m \in Locks : Under(b, n, m) <=> Under(s, i + 1, m)
          BY <1>5, <4>1
        <4> QED BY <4>2 DEF n
      <3> QED BY <3>1, <3>2, <3>3, <3>4, <3>5, <3>6 DEF TidyAt
    <2> QED BY <2>1, <2>2
  <1>7. Complete(a) => Complete(s)
    <2>1. 1 \in 1..(Len(a) + 1)
      BY <1>2
    <2> QED BY <1>3, <2>1 DEF Complete
  <1>8. Tidy(s, kind)
    BY <1>2, <1>6 DEF Tidy
  <1> QED BY <1>7, <1>8 DEF s

(***************************************************************************)
(* The programs                                                            *)
(***************************************************************************)
Plain == Alone \ {Step("poll", "outside")}

(* The steps done without a mutex do not touch one. *)
LEMMA AloneSteps == \A x \in Alone : x \in Steps /\ ~Syncs(x) /\ x.op \notin {"find", "load", "insert", "send"}
  BY DEF Alone, Steps, Syncs, Statement, Publish, Model, Reads, Writes, Step, Objects

(* The steps done under a mutex do not touch one. *)
LEMMA UnderSteps ==
    ASSUME NEW m \in Locks, NEW x, NEW kind, DoneUnder(m, x, kind)
    PROVE  x \in Steps /\ ~Syncs(x)
           /\ x.op \in {"read", "write", "find", "load", "insert", "send"}
  <1>1. x.op \in {"read", "write", "find", "load", "insert", "send"}
    BY DEF DoneUnder, Reads, Writes, Step
  <1>2. x.on \in Locks \cup Objects \cup {"model"} /\ x = [op |-> x.op, on |-> x.on]
    BY DEF DoneUnder, Reads, Writes, Step, Locks, Objects
  <1>3. x \in Steps
    BY <1>1, <1>2 DEF Steps
  <1> QED BY <1>1, <1>3 DEF Syncs

(* A program without a mutex is tidy. *)
LEMMA PlainTidy ==
    ASSUME NEW s \in Seq(Plain), NEW kind
    PROVE  Tidy(s, kind) /\ Complete(s) /\ \A i \in 1..Len(s) : s[i].op # "poll"
  <1>1. \A i \in 1..Len(s) : s[i] \in Alone /\ s[i].op # "poll"
    <2>1. \A x \in Plain : x \in Alone /\ x.op # "poll"
      BY DEF Plain, Alone, Statement, Publish, Model, Reads, Writes, Step
    <2> QED BY <2>1
  <1>2. s \in Seq(Steps)
    BY <1>1, AloneSteps
  <1>3. \A i \in Nat \ {0}, m \in Locks : ~Under(s, i, m)
    <2> SUFFICES ASSUME NEW i \in Nat \ {0}, NEW m \in Locks, Under(s, i, m)
                 PROVE  FALSE
      OBVIOUS
    <2>1. PICK j \in i..Len(s) : s[j] = Step("unlock", m)
      BY DEF Under
    <2>2. j \in 1..Len(s)
      OBVIOUS
    <2> QED BY <1>1, <2>1, <2>2, AloneSteps DEF Syncs, Step
  <1>4. \A i \in 1..Len(s) : TidyAt(s, i, kind)
    BY <1>1, <1>3, AloneSteps DEF TidyAt
  <1> QED BY <1>1, <1>2, <1>3, <1>4 DEF Tidy, Complete

(* A section guarded by a mutex. *)
LEMMA GuardedTidy ==
    ASSUME NEW m \in Locks, NEW kind, NEW s \in Seq(Steps),
           \A i \in 1..Len(s) : DoneUnder(m, s[i], kind),
           \A i \in 1..Len(s) :
               /\ s[i].op = "find" => i < Len(s) /\ s[i + 1].op = "load"
               /\ s[i].op = "load" => i < Len(s) /\ s[i + 1].op = "insert"
    PROVE  /\ Tidy(Guarded(m, s), kind) /\ Complete(Guarded(m, s))
           /\ \A i \in 1..Len(Guarded(m, s)) : Guarded(m, s)[i].op # "poll"
  <1> DEFINE g == Guarded(m, s)
             l == Step("lock", m)
             u == Step("unlock", m)
  <1>1. l \in Steps /\ u \in Steps /\ Syncs(l) /\ Syncs(u) /\ l.op = "lock" /\ u.op = "unlock"
        /\ l.on = m /\ u.on = m
    BY DEF Step, Steps, Syncs, Locks
  <1>2. g = <<l>> \o s \o <<u>>
    BY DEF Guarded
  <1>3. \A i \in 1..Len(s) : ~Syncs(s[i]) /\ s[i].op # "poll"
    <2> SUFFICES ASSUME NEW i \in 1..Len(s)
                 PROVE  ~Syncs(s[i]) /\ s[i].op # "poll"
      OBVIOUS
    <2> QED BY UnderSteps
  <1>4. \A n \in Locks : Step("unlock", n) # l /\ (Step("unlock", n) = u => n = m)
    BY DEF Step
  <1> HIDE DEF l, u, g
  <1>5. /\ g \in Seq(Steps) /\ Len(s) \in Nat /\ Len(g) = Len(s) + 2
        /\ g[1] = l /\ g[Len(s) + 2] = u
        /\ \A i \in 2..(Len(s) + 1) : g[i] = s[i - 1]
    BY <1>1, <1>2
  <1>6. \A i \in 2..(Len(s) + 2) : Under(g, i, m)
    <2> SUFFICES ASSUME NEW i \in 2..(Len(s) + 2)
                 PROVE  Under(g, i, m)
      OBVIOUS
    <2>1. ASSUME NEW k \in i..(Len(s) + 2 - 1)
          PROVE  ~Syncs(g[k])
      <3>1. k - 1 \in 1..Len(s) /\ k \in 2..(Len(s) + 1)
        BY <1>5
      <3>2. g[k] = s[k - 1]
        BY <1>5, <3>1
      <3> QED BY <1>3, <3>1, <3>2
    <2>2. Len(s) + 2 \in i..Len(g)
      BY <1>5
    <2> QED BY <1>5, <2>1, <2>2 DEF Under, u
  <1>7. \A n \in Locks : ~Under(g, 1, n)
    <2> SUFFICES ASSUME NEW n \in Locks, Under(g, 1, n)
                 PROVE  FALSE
      OBVIOUS
    <2>1. PICK j \in 1..Len(g) :
             g[j] = Step("unlock", n) /\ \A k \in 1..(j - 1) : ~Syncs(g[k])
      BY DEF Under
    <2>2. j # 1
      BY <1>4, <1>5, <2>1
    <2>3. 1 \in 1..(j - 1)
      BY <1>5, <2>2
    <2> QED BY <1>1, <1>5, <2>1, <2>3
  <1>8. \A n \in Locks : ~Under(g, Len(g) + 1, n)
    BY <1>5 DEF Under
  <1>9. ASSUME NEW i \in 1..Len(g)
        PROVE  TidyAt(g, i, kind) /\ g[i].op # "poll"
    <2>1. CASE i = 1
      <3>1. i + 1 \in 2..(Len(s) + 2) /\ i + 1 = 2
        BY <1>5, <2>1
      <3> QED BY <1>1, <1>5, <1>6, <2>1, <3>1 DEF TidyAt
    <2>2. CASE i = Len(s) + 2
      BY <1>1, <1>5, <1>8, <2>2 DEF TidyAt
    <2>3. CASE i \in 2..(Len(s) + 1)
      <3> DEFINE p == i - 1
      <3>1. /\ p \in 1..Len(s) /\ g[i] = s[p] /\ (p < Len(s) => g[i + 1] = s[p + 1])
            /\ i < Len(g) /\ i \in 2..(Len(s) + 2)
        <4>1. PICK n \in Nat : n = Len(s)
          BY <1>5
        <4>2. p \in 1..n /\ p + 1 = i /\ i < n + 2 /\ i \in 2..(n + 2) /\ i \in 2..(n + 1)
          BY <2>3, <4>1
        <4>3. p < n => i + 1 \in 2..(n + 1) /\ (i + 1) - 1 = p + 1
          BY <2>3, <4>1
        <4> HIDE DEF p
        <4>4. (i - 1) = p
          BY <4>2
        <4> QED BY <1>5, <4>1, <4>2, <4>3, <4>4
      <3> HIDE DEF p
      <3>2. Under(g, i, m) /\ DoneUnder(m, g[i], kind) /\ g[i].op # "poll"
        BY <1>3, <1>6, <3>1
      <3> QED BY <3>1, <3>2 DEF TidyAt
    <2> QED BY <1>5, <2>1, <2>2, <2>3
  <1> QED BY <1>5, <1>7, <1>9 DEF Tidy, Complete, g

(* One step under a lock_guard is tidy. *)
LEMMA SectionOfOne ==
    ASSUME NEW m \in Locks, NEW kind, NEW x, DoneUnder(m, x, kind), x.op \notin {"find", "load"}
    PROVE  /\ Tidy(Guarded(m, <<x>>), kind) /\ Complete(Guarded(m, <<x>>))
           /\ \A i \in 1..Len(Guarded(m, <<x>>)) : Guarded(m, <<x>>)[i].op # "poll"
  <1> DEFINE s == <<x>>
  <1>1. x \in Steps
    BY UnderSteps
  <1>2. s \in Seq(Steps) /\ \A i \in 1..Len(s) : s[i] = x
    BY <1>1
  <1> HIDE DEF s
  <1>3. /\ Tidy(Guarded(m, s), kind) /\ Complete(Guarded(m, s))
        /\ \A i \in 1..Len(Guarded(m, s)) : Guarded(m, s)[i].op # "poll"
    BY <1>2, GuardedTidy
  <1> QED BY <1>3 DEF s

(* Two steps under a lock_guard are tidy. *)
LEMMA SectionOfTwo ==
    ASSUME NEW m \in Locks, NEW kind, NEW x, DoneUnder(m, x, kind), x.op \notin {"find", "load"},
           NEW y, DoneUnder(m, y, kind), y.op \notin {"find", "load"}
    PROVE  /\ Tidy(Guarded(m, <<x, y>>), kind) /\ Complete(Guarded(m, <<x, y>>))
           /\ \A i \in 1..Len(Guarded(m, <<x, y>>)) : Guarded(m, <<x, y>>)[i].op # "poll"
  <1> DEFINE s == <<x, y>>
  <1>1. x \in Steps /\ y \in Steps
    BY UnderSteps
  <1>2. s \in Seq(Steps) /\ \A i \in 1..Len(s) : s[i] \in {x, y}
    BY <1>1
  <1> HIDE DEF s
  <1>3. /\ Tidy(Guarded(m, s), kind) /\ Complete(Guarded(m, s))
        /\ \A i \in 1..Len(Guarded(m, s)) : Guarded(m, s)[i].op # "poll"
    BY <1>2, GuardedTidy
  <1> QED BY <1>3 DEF s

(* AIHelper::chat() takes no mutex of ChatServer. *)
LEMMA ChatIsPlain == ChatPrograms \subseteq Seq(Plain)
  <1>1. {Reads("AIHelper"), Writes("AIHelper"), Publish, Model} \subseteq Plain
    BY DEF Plain, Alone, Publish, Model, Reads, Writes, Step
  <1>2. AddMessage \in Seq(Plain) /\ <<Writes("AIHelper")>> \in Seq(Plain)
    BY <1>1 DEF AddMessage
  <1>3. AskWithPrompt \in Seq(Plain) /\ <<Reads("AIHelper"), Model>> \in Seq(Plain)
    BY <1>1 DEF AskWithPrompt
  <1>4. \A a, b \in Seq(Plain) : a \o b \in Seq(Plain)
    OBVIOUS
  <1>5. AddMessage \o <<Reads("AIHelper"), Model>> \o AddMessage \in Seq(Plain)
    BY <1>2, <1>3, <1>4
  <1>6. AskWithPrompt \o AddMessage \o AddMessage \in Seq(Plain)
    BY <1>2, <1>3, <1>4
  <1>7. AskWithPrompt \o AskWithPrompt \o AddMessage \o AddMessage \in Seq(Plain)
    BY <1>2, <1>3, <1>4
  <1> DEFINE set == <<Writes("AIHelper")>>
  <1>8. set \in Seq(Plain)
    BY <1>2
  <1> HIDE DEF set
  <1>9. ChatPrograms = {set \o chat :
            chat \in {AddMessage \o <<Reads("AIHelper"), Model>> \o AddMessage,
                      AskWithPrompt \o AddMessage \o AddMessage,
                      AskWithPrompt \o AskWithPrompt \o AddMessage \o AddMessage}}
    BY DEF ChatPrograms, set
  <1> QED BY <1>4, <1>5, <1>6, <1>7, <1>8, <1>9

(* A section and then a chat. *)
LEMMA SectionThenChat ==
    ASSUME NEW g, NEW kind, Tidy(g, kind), Complete(g), \A i \in 1..Len(g) : g[i].op # "poll",
           NEW chat \in ChatPrograms
    PROVE  Tidy(g \o chat, kind) /\ Complete(g \o chat)
  <1>1. chat \in Seq(Plain)
    BY ChatIsPlain
  <1>2. Tidy(chat, kind) /\ Complete(chat)
    BY <1>1, PlainTidy
  <1> QED BY <1>2, ConcatTidy

(* The program of a speech is tidy: no mutex, and polling last. *)
LEMMA SynthesisTidy ==
    ASSUME NEW p \in SpeechProgram, NEW kind
    PROVE  Tidy(p, kind) /\ Complete(p)
  <1>1. /\ p = <<Step("token", "outside"), Step("create", "outside"), Step("poll", "outside")>>
        /\ \A i \in 1..3 : p[i] \in Alone /\ (p[i].op = "poll" => i = 3)
        /\ Len(p) = 3
    BY DEF SpeechProgram, Alone, Step
  <1>2. p \in Seq(Steps)
    <2>1. {Step("token", "outside"), Step("create", "outside"), Step("poll", "outside")} \subseteq Steps
      BY DEF Steps, Step
    <2> QED BY <1>1, <2>1
  <1>3. \A i \in Nat \ {0}, m \in Locks : ~Under(p, i, m)
    <2> SUFFICES ASSUME NEW i \in Nat \ {0}, NEW m \in Locks, Under(p, i, m)
                 PROVE  FALSE
      OBVIOUS
    <2>1. PICK j \in i..Len(p) : p[j] = Step("unlock", m)
      BY DEF Under
    <2>2. j \in 1..3
      BY <1>1
    <2> QED BY <1>1, <2>1, <2>2, AloneSteps DEF Syncs, Step
  <1>4. \A i \in 1..Len(p) : TidyAt(p, i, kind)
    BY <1>1, <1>3, AloneSteps DEF TidyAt
  <1> QED BY <1>2, <1>3, <1>4 DEF Tidy, Complete

(* The program of an upload is tidy: find, load and insert in one section. *)
LEMMA UploadTidy ==
    ASSUME NEW p \in UploadProgram, NEW kind, kind = "upload"
    PROVE  Tidy(p, kind) /\ Complete(p)
  <1> DEFINE m == "mutexForImageRecognizerMap"
             s == <<Step("find", "ImageRecognizerMap"), Step("load", "model"),
                    Step("insert", "ImageRecognizerMap")>>
  <1>1. m \in Locks
    BY ConstantsAssumption DEF Locks
  <1>2. /\ Len(s) = 3
        /\ \A i \in 1..3 : DoneUnder(m, s[i], kind)
        /\ s[1].op = "find" /\ s[2].op = "load" /\ s[3].op = "insert"
    BY DEF DoneUnder, Step
  <1>3. \A i \in 1..3 : s[i] \in Steps
    <2> HIDE DEF s
    <2> QED BY <1>1, <1>2, UnderSteps
  <1>4. s \in Seq(Steps)
    BY <1>3
  <1>5. p = Guarded(m, s)
    BY DEF UploadProgram
  <1> HIDE DEF s, m
  <1>6. \A i \in 1..Len(s) :
            /\ s[i].op = "find" => i < Len(s) /\ s[i + 1].op = "load"
            /\ s[i].op = "load" => i < Len(s) /\ s[i + 1].op = "insert"
    BY <1>2
  <1> QED BY <1>1, <1>2, <1>4, <1>5, <1>6, GuardedTidy

(* A program without a mutex and then a tidy one. *)
LEMMA PlainThenTidy ==
    ASSUME NEW a \in Seq(Plain), NEW b, NEW kind, Tidy(b, kind), Complete(b)
    PROVE  Tidy(a \o b, kind) /\ Complete(a \o b)
  BY PlainTidy, ConcatTidy

(* The handlers' looks at the session take no mutex. *)
LEMMA SessionsArePlain ==
    /\ KnownSession \in Seq(Plain) /\ NewSession \in Seq(Plain)
    /\ <<Writes("sessions_m")>> \in Seq(Plain)
    /\ <<Statement>> \in Seq(Plain)
    /\ <<Writes("sessions_m"), Writes("onlineUsers_")>> \in Seq(Plain)
  <1>1. {Statement, Writes("sessions_m"), Writes("rng_m"), Writes("onlineUsers_")} \subseteq Plain
    BY DEF Plain, Alone, Statement, Writes, Step
  <1> QED BY <1>1 DEF KnownSession, NewSession

(* A login is tidy: the assignment is its only step under a mutex. *)
LEMMA LoginTidy ==
    ASSUME NEW p \in LoginProgram, NEW kind
    PROVE  Tidy(p, kind) /\ Complete(p)
  <1> DEFINE q == <<Statement>>
             d == <<Writes("sessions_m"), Writes("onlineUsers_")>>
             g == Guarded("mutexForOnlineUsers_", <<Writes("onlineUsers_")>>)
  <1>1. "mutexForOnlineUsers_" \in Locks
    BY ConstantsAssumption DEF Locks
  <1>2. Tidy(g, kind) /\ Complete(g)
    BY <1>1, SectionOfOne DEF DoneUnder, Writes, Step
  <1>3. q \in Seq(Plain) /\ d \in Seq(Plain) /\ <<>> \in Seq(Plain)
    BY SessionsArePlain
  <1>4. LoginProgram = {q} \cup {q \o s \o d \o x : s \in GetSession, x \in {<<>>, g}}
    BY DEF LoginProgram
  <1> HIDE DEF q, d, g
  <1>7. p = q \/ \E s \in GetSession, x \in {<<>>, g} : p = q \o s \o d \o x
    BY <1>4
  <1>5. CASE p = q
    BY <1>3, <1>5, PlainTidy
  <1>6. CASE \E s \in GetSession, x \in {<<>>, g} : p = q \o s \o d \o x
    <2> PICK s \in GetSession, x \in {<<>>, g} : p = q \o s \o d \o x
      BY <1>6
    <2>1. s \in Seq(Plain)
      BY SessionsArePlain DEF GetSession
    <2>2. q \o s \in Seq(Plain)
      BY <1>3, <2>1
    <2>3. (q \o s) \o d \in Seq(Plain)
      BY <1>3, <2>2
    <2>4. Tidy(x, kind) /\ Complete(x)
      BY <1>2, <1>3, PlainTidy
    <2> QED BY <2>3, <2>4, PlainThenTidy
  <1> QED BY <1>5, <1>6, <1>7

(* What a handler does for a user who is logged in is tidy. *)
LEMMA UserProgramsTidy ==
    ASSUME NEW kind \in Kinds, NEW p \in UserPrograms(kind)
    PROVE  Tidy(p, kind) /\ Complete(p)
  <1>1. {"mutexForOnlineUsers_", "mutexForChatInformation", "mutexForSessionsId"} \subseteq Locks
    BY ConstantsAssumption DEF Locks
  <1>2. ASSUME p \in LogoutProgram
        PROVE  Tidy(p, kind) /\ Complete(p)
    <2> DEFINE a == <<Writes("sessions_m")>>
               g == Guarded("mutexForOnlineUsers_", <<Writes("onlineUsers_")>>)
    <2>1. Tidy(g, kind) /\ Complete(g)
      BY <1>1, SectionOfOne DEF DoneUnder, Writes, Step
    <2>2. a \in Seq(Plain) /\ (p = a \/ p = a \o g)
      BY <1>2, SessionsArePlain DEF LogoutProgram
    <2> HIDE DEF a, g
    <2> QED BY <2>1, <2>2, PlainTidy, PlainThenTidy
  <1>3. ASSUME p \in SendProgram
        PROVE  Tidy(p, kind) /\ Complete(p)
    <2> DEFINE g == Guarded("mutexForChatInformation", <<Writes("chatInformation")>>)
    <2>1. /\ Tidy(g, kind) /\ Complete(g)
          /\ \A i \in 1..Len(g) : g[i].op # "poll"
      BY <1>1, SectionOfOne DEF DoneUnder, Writes, Step
    <2>2. PICK chat \in ChatPrograms : p = g \o chat
      BY <1>3 DEF SendProgram
    <2> HIDE DEF g
    <2> QED BY <2>1, <2>2, SectionThenChat
  <1>4. ASSUME kind = "create", p \in CreateProgram
        PROVE  Tidy(p, kind) /\ Complete(p)
    <2> DEFINE g == Guarded("mutexForChatInformation",
                            <<Writes("chatInformation"), Writes("sessionsIdsMap")>>)
    <2>1. /\ Tidy(g, kind) /\ Complete(g)
          /\ \A i \in 1..Len(g) : g[i].op # "poll"
      BY <1>1, <1>4, SectionOfTwo DEF DoneUnder, Writes, Step
    <2>2. PICK chat \in ChatPrograms : p = g \o chat
      BY <1>4 DEF CreateProgram
    <2> HIDE DEF g
    <2> QED BY <2>1, <2>2, SectionThenChat
  <1>5. ASSUME p \in HistoryProgram
        PROVE  Tidy(p, kind) /\ Complete(p)
    BY <1>1, <1>5, SectionOfTwo DEF HistoryProgram, DoneUnder, Writes, Reads, Step
  <1>6. ASSUME kind = "sessions", p \in SessionsProgram
        PROVE  Tidy(p, kind) /\ Complete(p)
    BY <1>1, <1>6, SectionOfOne DEF SessionsProgram, DoneUnder, Writes, Step
  <1>7. \/ p \in LogoutProgram \/ p \in SendProgram \/ p \in HistoryProgram
        \/ kind = "create" /\ p \in CreateProgram
        \/ kind = "sessions" /\ p \in SessionsProgram
        \/ kind = "upload" /\ p \in UploadProgram
        \/ p \in SpeechProgram
    BY ZenonT(60) DEF UserPrograms
  <1> QED BY <1>2, <1>3, <1>4, <1>5, <1>6, <1>7, UploadTidy, SynthesisTidy

(* Every program of every handler is tidy. *)
LEMMA ProgramsTidy ==
    ASSUME NEW kind \in Kinds, NEW p \in Programs(kind)
    PROVE  Tidy(p, kind) /\ Complete(p)
  <1>1. ASSUME p \in Seq(Plain)
        PROVE  Tidy(p, kind) /\ Complete(p)
    BY <1>1, PlainTidy
  <1>2. {Statement, Reads("sslConns_m"), Writes("sslConns_m")} \subseteq Plain
    BY DEF Plain, Alone, Statement, Reads, Writes, Step
  <1>3. RegisterProgram \subseteq Seq(Plain) /\ TlsProgram \subseteq Seq(Plain)
    <2>1. <<Statement>> \in Seq(Plain) /\ <<Statement, Statement, Statement>> \in Seq(Plain)
      BY <1>2
    <2>2. /\ <<Reads("sslConns_m")>> \in Seq(Plain) /\ <<Writes("sslConns_m")>> \in Seq(Plain)
          /\ <<Writes("sslConns_m"), Reads("sslConns_m")>> \in Seq(Plain)
      BY <1>2
    <2> QED BY <2>1, <2>2 DEF RegisterProgram, TlsProgram
  <1>4. GetSession \subseteq Seq(Plain) /\ <<>> \in Seq(Plain)
    BY SessionsArePlain DEF GetSession
  <1>5. ASSUME NEW q \in UserPrograms(kind), p = KnownSession \o q
        PROVE  Tidy(p, kind) /\ Complete(p)
    BY <1>5, UserProgramsTidy, SessionsArePlain, PlainThenTidy
  <1>6. \/ p = <<>> \/ p \in LoginProgram \/ p \in RegisterProgram \/ p \in TlsProgram
        \/ p \in GetSession \/ \E q \in UserPrograms(kind) : p = KnownSession \o q
    BY ZenonT(60) DEF Programs
  <1> QED BY <1>1, <1>3, <1>4, <1>5, <1>6, LoginTidy

(***************************************************************************)
(* Types                                                                   *)
(***************************************************************************)
(* Every variable has its type, programs included; how often a speech is   *)
(* polled is bounded below.                                                *)
Typed ==
    /\ asked \in [Clients -> Kinds \cup {Nothing}]
    /\ requests \in 0..MaxRequests
    /\ serving \in [Loops -> Clients \cup {Nobody}]
    /\ todo \in [Threads -> Seq(Steps)]
    /\ hung \subseteq Loops
    /\ lock \in [Locks -> Threads \cup {Nobody}]
    /\ open
    /\ want \subseteq Threads
    /\ owner \in [Conns -> Threads \cup {Nobody}]
    /\ counter \in 0..Len(Channels) - 1
    /\ rows \in Nat
    /\ dead \subseteq Workers
    /\ dbErrors \in 0..MaxDbErrors
    /\ known \in BOOLEAN
    /\ built \in Nat
    /\ polls \in [Loops -> Nat]

(* The programs that are left after one step, or after three. *)
LEMMA ShorterTyped ==
    ASSUME NEW s \in Seq(Steps)
    PROVE  /\ s # <<>> => Head(s) \in Steps /\ Tail(s) \in Seq(Steps)
           /\ SubSeq(s, 4, Len(s)) \in Seq(Steps)
           /\ 3 <= Len(s) => Len(SubSeq(s, 4, Len(s))) = Len(s) - 3
           /\ \A i \in 1..(Len(s) - 3) : SubSeq(s, 4, Len(s))[i] = s[i + 3]
  <1> DEFINE m == 4
             n == Len(s)
  <1>1. m \in Int /\ n \in Int /\ (\A i \in m..n : s[i] \in Steps) /\ m = 4 /\ n = Len(s)
    OBVIOUS
  <1> HIDE DEF m, n
  <1>2. /\ SubSeq(s, m, n) \in Seq(Steps)
        /\ Len(SubSeq(s, m, n)) = IF m <= n THEN n - m + 1 ELSE 0
        /\ \A i \in 1..(n - m + 1) : SubSeq(s, m, n)[i] = s[m + i - 1]
    BY <1>1, SubSeqProperties
  <1>3. \A i \in 1..(n - m + 1) : m + i - 1 = i + 3
    BY <1>1
  <1>4. n - m + 1 = n - 3 /\ (3 <= n => m <= n \/ n - 3 = 0)
    BY <1>1
  <1>5. n \in Nat
    BY <1>1
  <1> QED BY <1>1, <1>2, <1>3, <1>4, <1>5

(* counter_ always names a channel. *)
LEMMA NextChannel ==
    ASSUME Typed
    PROVE  /\ Channels[counter + 1] \in Range(Channels)
           /\ (counter + 1) % Len(Channels) \in 0..Len(Channels) - 1
  <1>1. Len(Channels) \in Nat \ {0} /\ DOMAIN Channels = 1..Len(Channels)
    BY ConstantsAssumption
  <1>2. counter + 1 \in 1..Len(Channels)
    BY <1>1 DEF Typed
  <1> QED BY <1>1, <1>2 DEF Range

(* What PublishRow puts in front of the rest. *)
LEMMA ChannelSection ==
    ASSUME NEW ch \in Range(Channels), NEW kind
    PROVE  LET g == Guarded(ch, <<Step("send", ch)>>)
           IN  Tidy(g, kind) /\ Complete(g) /\ \A i \in 1..Len(g) : g[i].op # "poll"
  <1>1. ch \in Locks
    BY DEF Locks
  <1> QED BY <1>1, SectionOfOne DEF DoneUnder, Step

(* The program of a worker is tidy: it takes no mutex. *)
LEMMA WorkerTidy ==
    ASSUME NEW kind
    PROVE  Tidy(WorkerProgram, kind) /\ Complete(WorkerProgram)
           /\ \A i \in 1..Len(WorkerProgram) : WorkerProgram[i].op # "poll"
  <1>1. WorkerProgram \in Seq(Plain)
    BY DEF WorkerProgram, Plain, Alone, Statement, Step
  <1> QED BY <1>1, PlainTidy

(* The types of EventLoops: needed by everything below. *)
THEOREM TypesKept == Spec => []Typed
  <1>0. Threads = Loops \cup Workers /\ Loops \subseteq Threads /\ Workers \subseteq Threads
    BY DEF Threads
  <1>1. Init => Typed
    <2>1. 0 \in 0..Len(Channels) - 1
      BY ConstantsAssumption
    <2>3. MaxRequests \in Nat /\ MaxDbErrors \in Nat
      BY ConstantsAssumption
    <2> SUFFICES ASSUME Init
                 PROVE  Typed
      OBVIOUS
    <2>4. /\ todo \in [Threads -> Seq(Steps)]
          /\ lock \in [Locks -> Threads \cup {Nobody}]
      BY DEF Init, Locks
    <2>5. open /\ known \in BOOLEAN /\ hung \subseteq Loops /\ want \subseteq Threads /\ dead \subseteq Workers
      BY DEF Init
    <2>6. /\ asked \in [Clients -> Kinds \cup {Nothing}]
          /\ serving \in [Loops -> Clients \cup {Nobody}]
          /\ owner \in [Conns -> Threads \cup {Nobody}]
          /\ polls \in [Loops -> Nat]
      BY DEF Init
    <2>7. /\ counter \in 0..Len(Channels) - 1
          /\ requests \in 0..MaxRequests /\ dbErrors \in 0..MaxDbErrors
          /\ rows \in Nat /\ built \in Nat
      BY <2>1, <2>3 DEF Init
    <2> QED BY <2>4, <2>5, <2>6, <2>7 DEF Typed
  <1>2. Typed /\ [Next]_vars => Typed'
    <2> SUFFICES ASSUME Typed, [Next]_vars
                 PROVE  Typed'
      OBVIOUS
    <2> USE <1>0 DEF Typed
    <2> USE DEF loopVars, mqVars, poolVars, imageVars
    <2>1. ASSUME NEW c \in Clients, NEW k \in Kinds, Ask(c, k)
          PROVE  Typed'
      BY <2>1, ConstantsAssumption DEF Ask
    <2>2. ASSUME NEW l \in Loops, NEW c \in Clients, Begin(l, c)
          PROVE  Typed'
      <3>1. asked[c] \in Kinds
        BY <2>2 DEF Begin
      <3>2. \A p \in Programs(asked[c]) : p \in Seq(Steps)
        BY <3>1, ProgramsTidy DEF Tidy
      <3>3. todo' \in [Threads -> Seq(Steps)]
        BY <2>2, <3>2 DEF Begin
      <3> QED BY <2>2, <3>3 DEF Begin
    <2>3. ASSUME NEW l \in Loops, AnswerClient(l)
          PROVE  Typed'
      BY <2>3 DEF AnswerClient
    <2>5. ASSUME NEW l \in Loops, Hang(l)
          PROVE  Typed'
      BY <2>5 DEF Hang
    <2>6. ASSUME NEW t \in Threads, Continue(t), todo[t] # <<>>
          PROVE  todo' \in [Threads -> Seq(Steps)]
      BY <2>6, ShorterTyped DEF Continue
    <2>7. ASSUME NEW t \in Threads, Unwind(t)
          PROVE  /\ todo' \in [Threads -> Seq(Steps)]
                 /\ lock' \in [Locks -> Threads \cup {Nobody}]
      BY <2>7 DEF Unwind
    <2>8. ASSUME NEW l \in Loops, Synthesize(l)
          PROVE  Typed'
      <3>1. CASE SpeechAnswers(l)
        BY <2>6, <3>1 DEF SpeechAnswers, AtStep
      <3>2. CASE CreateFails(l)
        BY <3>2 DEF CreateFails
      <3>3. CASE \E url \in BOOLEAN : Poll(l, url)
        <4>1. todo' \in [Threads -> Seq(Steps)]
          BY <3>3, ShorterTyped DEF Poll, AtStep
        <4> QED BY <3>3, <4>1 DEF Poll
      <3>4. CASE PollFails(l)
        <4>1. todo' \in [Threads -> Seq(Steps)]
          BY <2>6, <3>4 DEF PollFails, AtStep
        <4>2. polls' \in [Loops -> Nat]
          BY <3>4 DEF PollFails
        <4> QED BY <3>4, <4>1, <4>2 DEF PollFails
      <3> QED BY <2>8, <3>1, <3>2, <3>3, <3>4 DEF Synthesize
    <2>9. ASSUME NEW t \in Threads, Run(t)
          PROVE  Typed'
      <3>1. CASE Lock(t)
        BY <2>6, <3>1 DEF Lock, AtStep
      <3>2. CASE Unlock(t)
        BY <2>6, <3>2 DEF Unlock, AtStep
      <3>3. CASE Access(t)
        BY <2>6, <3>3 DEF Access, AtStep
      <3>4. CASE PublishRow(t)
        <4> DEFINE ch == Channels[counter + 1]
                   g == Guarded(ch, <<Step("send", ch)>>)
        <4>1. g \in Seq(Steps)
          BY NextChannel, ChannelSection DEF Tidy
        <4>2. todo' = [todo EXCEPT ![t] = g \o Tail(@)] /\ todo[t] # <<>>
          BY <3>4 DEF PublishRow, AtStep
        <4> HIDE DEF g
        <4>3. todo' \in [Threads -> Seq(Steps)]
          BY <4>1, <4>2, ShorterTyped
        <4> QED BY <3>4, <4>3, NextChannel DEF PublishRow
      <3>5. CASE \E sent \in BOOLEAN : SendRow(t, sent)
        <4> PICK sent \in BOOLEAN : SendRow(t, sent)
          BY <3>5
        <4>1. todo' \in [Threads -> Seq(Steps)]
          BY <2>6 DEF SendRow, AtStep
        <4>2. rows' \in Nat
          BY DEF SendRow
        <4> QED BY <4>1, <4>2 DEF SendRow
      <3>6. CASE GetConnection(t)
        BY <3>6 DEF GetConnection, Pool!Request
      <3>7. CASE StatementDone(t)
        BY <2>6, <3>7 DEF StatementDone, AtStep, Pool!Release
      <3>8. CASE StatementFails(t)
        <4>1. /\ todo' \in [Threads -> Seq(Steps)]
              /\ lock' \in [Locks -> Threads \cup {Nobody}]
          BY <2>7, <3>8 DEF StatementFails
        <4>2. owner' \in [Conns -> Threads \cup {Nobody}] /\ UNCHANGED <<open, want>>
          BY <3>8 DEF StatementFails, Pool!Release
        <4>3. rows' \in Nat /\ dbErrors' \in 0..MaxDbErrors
          BY <3>8, ConstantsAssumption DEF StatementFails
        <4>4. dead' \subseteq Workers
          BY <3>8 DEF StatementFails
        <4> QED BY <3>8, <4>1, <4>2, <4>3, <4>4 DEF StatementFails
      <3>9. CASE FindRecognizer(t)
        <4>1. todo' \in [Threads -> Seq(Steps)]
          BY <3>9, ShorterTyped DEF FindRecognizer, AtStep
        <4> QED BY <3>9, <4>1 DEF FindRecognizer
      <3>10. CASE LoadRecognizer(t)
        BY <2>6, <3>10 DEF LoadRecognizer, AtStep
      <3>11. CASE LoadFails(t)
        BY <2>7, <3>11 DEF LoadFails
      <3>12. CASE InsertRecognizer(t)
        BY <2>6, <3>12 DEF InsertRecognizer, AtStep
      <3>13. CASE ModelAnswers(t)
        BY <2>6, <3>13 DEF ModelAnswers, AtStep
      <3>14. CASE ModelFails(t)
        BY <2>7, <3>14 DEF ModelFails
      <3> QED BY <2>9, <3>1, <3>2, <3>3, <3>4, <3>5, <3>6, <3>7, <3>8, <3>9, <3>10, <3>11,
                 <3>12, <3>13, <3>14 DEF Run
    <2>10. ASSUME NEW t \in Threads, Granted(t)
           PROVE  Typed'
      BY <2>10 DEF Granted, Pool!Acquire
    <2>11. ASSUME NEW w \in Workers, WorkerTakes(w)
           PROVE  Typed'
      <3>1. todo' \in [Threads -> Seq(Steps)]
        BY <2>11, WorkerTidy DEF WorkerTakes, Tidy
      <3>2. rows' \in Nat
        BY <2>11 DEF WorkerTakes
      <3> QED BY <2>11, <3>1, <3>2 DEF WorkerTakes
    <2>12. ASSUME NEW w \in Workers, Acknowledge(w)
           PROVE  Typed'
      BY <2>6, <2>12 DEF Acknowledge, AtStep
    <2>13. CASE Quiet \/ UNCHANGED vars
      BY <2>13 DEF Quiet, vars
    <2> QED BY <2>1, <2>2, <2>3, <2>5, <2>8, <2>9, <2>10, <2>11, <2>12, <2>13 DEF Next
  <1> QED BY <1>1, <1>2, PTL DEF Spec

(***************************************************************************)
(* The steps, by what they do to programs                                  *)
(***************************************************************************)
Next1(t) == Head(todo[t]).op

Polled(l) == \E url \in BOOLEAN : Poll(l, url)

KeepsPolls(t) ==
    \A l \in Loops :
        polls'[l] = IF l = t /\ Next1(t) = "poll" THEN polls[l] + 1 ELSE polls[l]

(* Thread t goes on: what happens to the rest of its program, and to what  *)
(* else depends on the step it was at.                                     *)
Goes(t) ==
    /\ t \notin hung /\ todo[t] # <<>>
    /\ UNCHANGED <<loopVars, hung>>
    /\ \/ /\ Continue(t) /\ UNCHANGED lock
          /\ Next1(t) \notin {"lock", "unlock", "publish", "find"}
       \/ Lock(t) \/ Unlock(t) \/ PublishRow(t) \/ FindRecognizer(t)
       \/ Unwind(t) /\ Next1(t) \in {"statement", "load", "model"}
       \/ CreateFails(t)
    /\ IF Next1(t) = "statement" THEN Pool!Release(t) ELSE UNCHANGED poolVars
    /\ \/ UNCHANGED imageVars /\ Next1(t) \notin {"load", "insert"}
       \/ UNCHANGED imageVars /\ Unwind(t) /\ Next1(t) # "insert"
       \/ LoadRecognizer(t) \/ InsertRecognizer(t)
    /\ KeepsPolls(t)

(* Nothing happens that programs depend on. *)
Rests ==
    UNCHANGED <<loopVars, todo, hung, lock, poolVars, imageVars, polls>>

(* A step belongs to a client, to the pool or to one thread. *)
LEMMA StepsOfThreads ==
    ASSUME Typed, [Next]_vars
    PROVE  \/ \E c \in Clients, k \in Kinds : Ask(c, k)
           \/ \E l \in Loops, c \in Clients : Begin(l, c)
           \/ \E l \in Loops : AnswerClient(l) \/ Hang(l) \/ Polled(l)
           \/ \E t \in Threads : GetConnection(t) \/ Granted(t)
           \/ \E w \in Workers : WorkerTakes(w)
           \/ \E t \in Threads : Goes(t)
           \/ Rests
  <1>0. Loops \subseteq Threads /\ Workers \subseteq Threads
    BY DEF Threads
  <1>1. \A t \in Threads : UNCHANGED polls /\ Next1(t) # "poll" => KeepsPolls(t)
    BY DEF KeepsPolls
  <1>2. ASSUME NEW t \in Threads, Run(t)
        PROVE  Goes(t) \/ GetConnection(t)
    <2>1. CASE Lock(t)
      BY <1>1, <2>1 DEF Lock, AtStep, Goes, Next1, poolVars, imageVars
    <2>2. CASE Unlock(t)
      BY <1>1, <2>2 DEF Unlock, AtStep, Goes, Next1, poolVars, imageVars
    <2>3. CASE Access(t)
      BY <1>1, <2>3 DEF Access, AtStep, Goes, Next1, poolVars, imageVars
    <2>4. CASE PublishRow(t)
      BY <1>1, <2>4 DEF PublishRow, AtStep, Goes, Next1, poolVars, imageVars
    <2>5. CASE \E sent \in BOOLEAN : SendRow(t, sent)
      BY <1>1, <2>5 DEF SendRow, AtStep, Goes, Next1, poolVars, imageVars
    <2>6. CASE StatementDone(t)
      BY <1>1, <2>6 DEF StatementDone, AtStep, Goes, Next1, imageVars
    <2>7. CASE StatementFails(t)
      BY <1>1, <2>7 DEF StatementFails, AtStep, Goes, Next1, imageVars
    <2>8. CASE FindRecognizer(t)
      BY <1>1, <2>8 DEF FindRecognizer, AtStep, Goes, Next1, poolVars, imageVars
    <2>9. CASE LoadRecognizer(t)
      BY <1>1, <2>9 DEF LoadRecognizer, AtStep, Goes, Next1, poolVars
    <2>10. CASE LoadFails(t)
      BY <1>1, <2>10 DEF LoadFails, AtStep, Goes, Next1, poolVars
    <2>11. CASE InsertRecognizer(t)
      BY <1>1, <2>11 DEF InsertRecognizer, AtStep, Goes, Next1, poolVars
    <2>12. CASE ModelAnswers(t)
      BY <1>1, <2>12 DEF ModelAnswers, AtStep, Goes, Next1, poolVars, imageVars
    <2>13. CASE ModelFails(t)
      BY <1>1, <2>13 DEF ModelFails, AtStep, Goes, Next1, poolVars, imageVars
    <2> QED BY <1>2, <2>1, <2>2, <2>3, <2>4, <2>5, <2>6, <2>7, <2>8, <2>9, <2>10, <2>11,
               <2>12, <2>13 DEF Run
  <1>3. ASSUME NEW w \in Workers, Acknowledge(w)
        PROVE  Goes(w)
    BY <1>0, <1>1, <1>3 DEF Acknowledge, AtStep, Goes, Next1, poolVars, imageVars
  <1>4. ASSUME NEW l \in Loops, Synthesize(l)
        PROVE  Goes(l) \/ Polled(l)
    <2>0. polls \in [Loops -> Nat]
      BY DEF Typed
    <2>1. CASE SpeechAnswers(l)
      <3>1. KeepsPolls(l) /\ Next1(l) \in {"token", "create"} /\ l \notin hung /\ todo[l] # <<>>
        BY <1>0, <1>1, <2>1 DEF SpeechAnswers, AtStep, Next1
      <3> QED BY <2>1, <3>1 DEF SpeechAnswers, Goes, poolVars, imageVars
    <2>2. CASE CreateFails(l)
      <3>1. KeepsPolls(l) /\ Next1(l) = "create" /\ l \notin hung /\ todo[l] # <<>>
        BY <1>0, <1>1, <2>2 DEF CreateFails, AtStep, Next1
      <3>2. UNCHANGED <<loopVars, hung, poolVars, imageVars>>
        BY <2>2 DEF CreateFails
      <3> QED BY <2>2, <3>1, <3>2 DEF Goes
    <2>3. CASE PollFails(l)
      <3>1. KeepsPolls(l)
        BY <2>0, <2>3 DEF PollFails, KeepsPolls, Next1, AtStep
      <3> QED BY <2>3, <3>1 DEF PollFails, AtStep, Goes, Next1, poolVars, imageVars
    <2> QED BY <1>4, <2>1, <2>2, <2>3 DEF Synthesize, Polled
  <1>6. CASE Quiet \/ UNCHANGED vars
    BY <1>6 DEF Quiet, vars, Rests
  <1> QED BY <1>0, <1>2, <1>3, <1>4, <1>6 DEF Next

(***************************************************************************)
(* Requests                                                                *)
(***************************************************************************)
(* A loop that serves nobody has nothing to do; a client that is served is *)
(* one of the loop's own and has asked for something.                      *)
ServingInv ==
    \A l \in Loops :
        IF serving[l] = Nobody THEN todo[l] = <<>>
        ELSE LoopOf[serving[l]] = l /\ asked[serving[l]] # Nothing

(* A thread's step changes its own program only, and it had one.           *)
LEMMA GoesAlone ==
    ASSUME Typed, NEW t \in Threads, Goes(t)
    PROVE  \E r \in Seq(Steps) : todo' = [todo EXCEPT ![t] = r]
  <1>1. Continue(t) => todo' = [todo EXCEPT ![t] = Tail(todo[t])]
    BY DEF Continue
  <1>2. todo[t] \in Seq(Steps) /\ todo[t] # <<>>
    BY DEF Typed, Goes
  <1>3. Tail(todo[t]) \in Seq(Steps) /\ SubSeq(todo[t], 4, Len(todo[t])) \in Seq(Steps)
    BY <1>2, ShorterTyped
  <1>4. <<>> \in Seq(Steps)
    OBVIOUS
  <1>5. CASE PublishRow(t)
    <2> DEFINE ch == Channels[counter + 1]
               g == Guarded(ch, <<Step("send", ch)>>)
    <2>1. g \in Seq(Steps)
      BY NextChannel, ChannelSection DEF Tidy
    <2>2. todo' = [todo EXCEPT ![t] = g \o Tail(todo[t])]
      BY <1>5 DEF PublishRow
    <2> HIDE DEF g
    <2>3. g \o Tail(todo[t]) \in Seq(Steps)
      BY <1>3, <2>1
    <2> QED BY <2>2, <2>3
  <1>6. CASE FindRecognizer(t)
    BY <1>3, <1>6 DEF FindRecognizer
  <1>7. CASE Continue(t) \/ Lock(t) \/ Unlock(t)
    BY <1>1, <1>3, <1>7 DEF Lock, Unlock
  <1>8. CASE Unwind(t) \/ CreateFails(t)
    BY <1>4, <1>8 DEF Unwind, CreateFails
  <1> QED BY <1>5, <1>6, <1>7, <1>8 DEF Goes

(* A client is served by its own loop only, and by that while it has a     *)
(* request.                                                                *)
LEMMA ClientsAreServed == Spec => []ServingInv
  <1>1. Init => ServingInv
    BY DEF Init, ServingInv, Threads
  <1>2. Typed /\ ServingInv /\ [Next]_vars => ServingInv'
    <2> SUFFICES ASSUME Typed, ServingInv, [Next]_vars
                 PROVE  ServingInv'
      OBVIOUS
    <2> USE DEF ServingInv
    <2>0. /\ Loops \subseteq Threads /\ Workers \cap Loops = {} /\ Workers \subseteq Threads
          /\ LoopOf \in [Clients -> Loops] /\ Nobody \notin Clients /\ Nothing \notin Kinds
          /\ todo \in [Threads -> Seq(Steps)] /\ serving \in [Loops -> Clients \cup {Nobody}]
          /\ asked \in [Clients -> Kinds \cup {Nothing}]
      BY ConstantsAssumption DEF Threads, Typed
    <2>1. CASE \E c \in Clients, k \in Kinds : Ask(c, k)
      BY <2>0, <2>1 DEF Ask
    <2>2. CASE \E l \in Loops, c \in Clients : Begin(l, c)
      <3> PICK l \in Loops, c \in Clients : Begin(l, c)
        BY <2>2
      <3>1. /\ serving' = [serving EXCEPT ![l] = c] /\ asked' = asked
            /\ LoopOf[c] = l /\ asked[c] # Nothing
            /\ \A m \in Loops \ {l} : todo'[m] = todo[m]
        BY <2>0 DEF Begin
      <3> QED BY <2>0, <3>1
    <2>3. CASE \E l \in Loops : AnswerClient(l)
      <3> PICK l \in Loops : AnswerClient(l)
        BY <2>3
      <3>1. /\ serving[l] # Nobody /\ todo[l] = <<>> /\ todo' = todo
            /\ asked' = [asked EXCEPT ![serving[l]] = Nothing]
            /\ serving' = [serving EXCEPT ![l] = Nobody]
        BY DEF AnswerClient
      <3>2. ASSUME NEW m \in Loops, m # l, serving[m] # Nobody
            PROVE  asked'[serving[m]] = asked[serving[m]]
        <4>1. serving[m] \in Clients /\ serving[l] \in Clients /\ serving[m] # serving[l]
          BY <2>0, <3>1, <3>2
        <4> QED BY <2>0, <3>1, <4>1
      <3> QED BY <2>0, <3>1, <3>2
    <2>4. CASE UNCHANGED <<loopVars, todo>>
      BY <2>4 DEF loopVars
    <2>5. CASE \/ \E l \in Loops : Hang(l)
               \/ \E t \in Threads : GetConnection(t) \/ Granted(t)
      BY <2>4, <2>5 DEF Hang, GetConnection, Granted
    <2>6. CASE \E l \in Loops : Polled(l)
      <3> PICK l \in Loops : Polled(l)
        BY <2>6
      <3>1. todo[l] # <<>> /\ UNCHANGED loopVars /\ \A m \in Loops \ {l} : todo'[m] = todo[m]
        BY <2>0 DEF Polled, Poll, AtStep
      <3> QED BY <3>1 DEF loopVars
    <2>7. CASE \E w \in Workers : WorkerTakes(w)
      <3> PICK w \in Workers : WorkerTakes(w)
        BY <2>7
      <3>1. UNCHANGED loopVars /\ \A m \in Loops : todo'[m] = todo[m]
        BY <2>0 DEF WorkerTakes
      <3> QED BY <3>1 DEF loopVars
    <2>8. CASE \E t \in Threads : Goes(t)
      <3> PICK t \in Threads : Goes(t)
        BY <2>8
      <3>1. PICK r \in Seq(Steps) : todo' = [todo EXCEPT ![t] = r]
        BY GoesAlone
      <3>2. todo[t] # <<>> /\ UNCHANGED loopVars
        BY DEF Goes
      <3> QED BY <2>0, <3>1, <3>2 DEF loopVars
    <2>9. CASE Rests
      BY <2>4, <2>9 DEF Rests
    <2> QED BY <2>1, <2>2, <2>3, <2>5, <2>6, <2>7, <2>8, <2>9, StepsOfThreads
  <1> QED BY <1>1, <1>2, TypesKept, PTL DEF Spec

(***************************************************************************)
(* Mutexes                                                                 *)
(***************************************************************************)
(* The kind of request a thread works for. *)
KindOf(t) == IF t \in Loops /\ serving[t] # Nobody THEN asked[serving[t]] ELSE Nothing

(* The rest of every program is tidy, and a thread has the mutexes that it *)
(* still has to unlock, no others.                                         *)
MutexInv ==
    \A t \in Threads :
        \E s \in {todo[t]}, k \in {KindOf(t)} :
            Tidy(s, k) /\ \A m \in Locks : lock[m] = t <=> Under(s, 1, m)

(* A thread that locks, unlocks or goes on as its program says keeps       *)
(* MutexInv, for itself and all others.                                    *)
LEMMA OwnStep ==
    ASSUME Typed, MutexInv, NEW t \in Threads, NEW r, NEW k,
           KindOf(t)' = k, todo' = [todo EXCEPT ![t] = r], Tidy(r, k),
           \A m \in Locks : lock'[m] = t <=> Under(r, 1, m),
           \A u \in Threads \ {t} :
               /\ KindOf(u)' = KindOf(u)
               /\ \A m \in Locks : lock'[m] = u <=> lock[m] = u
    PROVE  MutexInv'
  <1> SUFFICES ASSUME NEW u \in Threads
               PROVE  \E s \in {todo'[u]}, i \in {KindOf(u)'} :
                          Tidy(s, i) /\ \A m \in Locks : lock'[m] = u <=> Under(s, 1, m)
    BY DEF MutexInv
  <1>1. todo \in [Threads -> Seq(Steps)]
    BY DEF Typed
  <1>2. CASE u = t
    BY <1>1, <1>2
  <1>3. CASE u # t
    <2>1. PICK s \in {todo[u]}, i \in {KindOf(u)} :
             Tidy(s, i) /\ \A m \in Locks : lock[m] = u <=> Under(s, 1, m)
      BY DEF MutexInv
    <2>2. todo'[u] = s /\ KindOf(u)' = i
      BY <1>1, <1>3, <2>1
    <2> QED BY <1>3, <2>1, <2>2
  <1> QED BY <1>2, <1>3

(* Where no program and no mutex changes MutexInv is kept. *)
LEMMA SameMutexes ==
    ASSUME MutexInv, UNCHANGED <<todo, lock>>,
           \A t \in Threads : KindOf(t)' = KindOf(t) \/ todo[t] = <<>>
    PROVE  MutexInv'
  <1> SUFFICES ASSUME NEW t \in Threads
               PROVE  \E s \in {todo'[t]}, i \in {KindOf(t)'} :
                          Tidy(s, i) /\ \A m \in Locks : lock'[m] = t <=> Under(s, 1, m)
    BY DEF MutexInv
  <1>1. PICK s \in {todo[t]}, i \in {KindOf(t)} :
           Tidy(s, i) /\ \A m \in Locks : lock[m] = t <=> Under(s, 1, m)
    BY DEF MutexInv
  <1>2. \A k : s = <<>> => Tidy(s, k)
    BY DEF Tidy
  <1> QED BY <1>1, <1>2

(* The step that a thread is at is done without a mutex, or under the one  *)
(* that the thread has, or is one on a mutex.                              *)
LEMMA AtAStep ==
    ASSUME Typed, MutexInv, NEW t \in Threads, todo[t] # <<>>
    PROVE  \E s \in Seq(Steps), k \in {KindOf(t)} :
             /\ s = todo[t] /\ Tidy(s, k) /\ s # <<>>
             /\ s[1] = Head(s) /\ s[1] \in Steps /\ Len(s) \in Nat \ {0} /\ 1 \in 1..Len(s)
             /\ Tail(s) \in Seq(Steps) /\ Tidy(Tail(s), k)
             /\ \A m \in Locks : lock[m] = t <=> Under(s, 1, m)
             /\ \A m \in Locks : Under(Tail(s), 1, m) <=> Under(s, 2, m)
             /\ ~Syncs(s[1]) => \A m \in Locks : Under(s, 1, m) <=> Under(s, 2, m)
             /\ TidyAt(s, 1, k)
  <1>1. PICK s \in {todo[t]}, k \in {KindOf(t)} :
           Tidy(s, k) /\ \A m \in Locks : lock[m] = t <=> Under(s, 1, m)
    BY DEF MutexInv
  <1>2. s \in Seq(Steps) /\ s # <<>> /\ s = todo[t]
    BY <1>1 DEF Typed
  <1>3. /\ s[1] = Head(s) /\ s[1] \in Steps /\ Len(s) \in Nat \ {0} /\ 1 \in 1..Len(s)
        /\ Tail(s) \in Seq(Steps) /\ Tidy(Tail(s), k)
        /\ \A m \in Locks : Under(Tail(s), 1, m) <=> Under(s, 2, m)
        /\ TidyAt(s, 1, k)
    BY <1>1, <1>2, AfterHead
  <1>4. ~Syncs(s[1]) => \A m \in Locks : Under(s, 1, m) <=> Under(s, 2, m)
    <2> DEFINE one == 1
    <2>1. one \in 1..Len(s) /\ one + 1 = 2
      BY <1>3
    <2>2. ~Syncs(s[one]) => \A m \in Locks : Under(s, one, m) <=> Under(s, one + 1, m)
      <3> HIDE DEF one
      <3> QED BY <1>2, <2>1, UnderNext
    <2> QED BY <2>1, <2>2
  <1> QED BY <1>1, <1>2, <1>3, <1>4

(* A step of a thread keeps MutexInv. *)
LEMMA GoesTidily ==
    ASSUME Typed, MutexInv, NEW t \in Threads, Goes(t)
    PROVE  MutexInv'
  <1>0. /\ todo[t] # <<>> /\ t \notin {Nobody}
        /\ \A u \in Threads : KindOf(u)' = KindOf(u)
        /\ lock \in [Locks -> Threads \cup {Nobody}] /\ DOMAIN lock = Locks
    BY ConstantsAssumption DEF Goes, KindOf, loopVars, Threads, Typed
  <1>1. PICK s \in Seq(Steps), k \in {KindOf(t)} :
             /\ s = todo[t] /\ Tidy(s, k) /\ s # <<>>
             /\ s[1] = Head(s) /\ s[1] \in Steps /\ Len(s) \in Nat \ {0} /\ 1 \in 1..Len(s)
             /\ Tail(s) \in Seq(Steps) /\ Tidy(Tail(s), k)
             /\ \A m \in Locks : lock[m] = t <=> Under(s, 1, m)
             /\ \A m \in Locks : Under(Tail(s), 1, m) <=> Under(s, 2, m)
             /\ ~Syncs(s[1]) => \A m \in Locks : Under(s, 1, m) <=> Under(s, 2, m)
             /\ TidyAt(s, 1, k)
    BY <1>0, AtAStep
  <1>2. KindOf(t)' = k
    BY <1>0, <1>1
  <1>11. ASSUME \A m \in Locks, u \in Threads \ {t} : lock'[m] = u <=> lock[m] = u
         PROVE  \A u \in Threads \ {t} :
                   /\ KindOf(u)' = KindOf(u)
                   /\ \A m \in Locks : lock'[m] = u <=> lock[m] = u
    BY <1>0, <1>11
  <1>3. CASE Continue(t) /\ UNCHANGED lock /\ Next1(t) \notin {"lock", "unlock", "publish", "find"}
    <2>1. ~Syncs(s[1])
      BY <1>1, <1>3 DEF Next1, Syncs
    <2>2. todo' = [todo EXCEPT ![t] = Tail(s)]
      BY <1>1, <1>3 DEF Continue
    <2> DEFINE r == Tail(s)
    <2>3. Tidy(r, k) /\ \A m \in Locks : lock'[m] = t <=> Under(r, 1, m)
      BY <1>1, <1>3, <2>1
    <2>4. \A u \in Threads \ {t} :
            /\ KindOf(u)' = KindOf(u)
            /\ \A m \in Locks : lock'[m] = u <=> lock[m] = u
      BY <1>0, <1>3
    <2>5. todo' = [todo EXCEPT ![t] = r]
      BY <2>2
    <2> HIDE DEF r
    <2> QED BY <1>2, <2>5, <2>3, <2>4, OwnStep
  <1>4. CASE Lock(t)
    <2> DEFINE r == Tail(s)
               o == s[1].on
    <2>1. /\ s[1].op = "lock" /\ lock[o] = Nobody /\ lock' = [lock EXCEPT ![o] = t]
          /\ todo' = [todo EXCEPT ![t] = r]
      BY <1>1, <1>4 DEF Lock, AtStep, Object, Continue
    <2>2. /\ s[1] \notin Alone
          /\ \A m \in Locks : ~DoneUnder(m, s[1], k)
      BY <2>1, AloneSteps, UnderSteps DEF Syncs
    <2>3. o \in Locks /\ Under(s, 2, o)
      BY <1>1, <2>1, <2>2 DEF TidyAt
    <2>4. \A m \in Locks : Under(s, 2, m) <=> m = o
      <3> DEFINE two == 2
      <3>1. two \in Nat /\ Under(s, two, o)
        BY <2>3
      <3> HIDE DEF two
      <3>2. \A m \in Locks : Under(s, two, m) => m = o
        BY <2>3, <3>1, UnderOnce
      <3> QED BY <2>3, <3>2 DEF two
    <2>5. \A m \in Locks : ~Under(s, 1, m)
      <3> SUFFICES ASSUME NEW m \in Locks, Under(s, 1, m)
                   PROVE  FALSE
        OBVIOUS
      <3>1. PICK j \in 1..Len(s) : s[j] = Step("unlock", m) /\ \A i \in 1..(j - 1) : ~Syncs(s[i])
        BY DEF Under
      <3>2. j # 1
        BY <2>1, <3>1 DEF Step
      <3> QED BY <1>1, <2>1, <3>1, <3>2 DEF Syncs
    <2>6. Tidy(r, k) /\ \A m \in Locks : lock'[m] = t <=> Under(r, 1, m)
      BY <1>0, <1>1, <2>1, <2>3, <2>4, <2>5
    <2>7. \A u \in Threads \ {t} :
            /\ KindOf(u)' = KindOf(u)
            /\ \A m \in Locks : lock'[m] = u <=> lock[m] = u
      BY <1>0, <2>1, ConstantsAssumption DEF Threads
    <2> HIDE DEF r, o
    <2> QED BY <1>2, <2>1, <2>6, <2>7, OwnStep
  <1>5. CASE Unlock(t)
    <2> DEFINE r == Tail(s)
               o == s[1].on
    <2>1. /\ s[1].op = "unlock" /\ lock' = [lock EXCEPT ![o] = Nobody]
          /\ todo' = [todo EXCEPT ![t] = r]
      BY <1>1, <1>5 DEF Unlock, AtStep, Object, Continue
    <2>2. /\ s[1] \notin Alone
          /\ \A m \in Locks : ~DoneUnder(m, s[1], k)
      BY <2>1, AloneSteps, UnderSteps DEF Syncs
    <2>3. o \in Locks /\ \A m \in Locks : ~Under(s, 2, m)
      BY <1>1, <2>1, <2>2 DEF TidyAt
    <2>4. Under(s, 1, o)
      <3>1. s[1] = Step("unlock", o)
        BY <1>1, <2>1 DEF Steps, Step
      <3> QED BY <1>1, <3>1 DEF Under
    <2>5. \A m \in Locks : Under(s, 1, m) => m = o
      <3> DEFINE one == 1
      <3>1. one \in Nat /\ Under(s, one, o)
        BY <2>4
      <3> HIDE DEF one
      <3>2. \A m \in Locks : Under(s, one, m) => m = o
        BY <2>3, <3>1, UnderOnce
      <3> QED BY <3>2 DEF one
    <2>6. Tidy(r, k) /\ \A m \in Locks : lock'[m] = t <=> Under(r, 1, m)
      BY <1>0, <1>1, <2>1, <2>3, <2>4, <2>5
    <2>7. \A u \in Threads \ {t} :
            /\ KindOf(u)' = KindOf(u)
            /\ \A m \in Locks : lock'[m] = u <=> lock[m] = u
      BY <1>0, <1>1, <2>1, <2>3, <2>4, ConstantsAssumption DEF Threads
    <2> HIDE DEF r, o
    <2> QED BY <1>2, <2>1, <2>6, <2>7, OwnStep
  <1>6. CASE PublishRow(t)
    <2> DEFINE ch == Channels[counter + 1]
               g == Guarded(ch, <<Step("send", ch)>>)
               r == g \o Tail(s)
    <2>1. todo' = [todo EXCEPT ![t] = r] /\ lock' = lock /\ s[1].op = "publish"
      BY <1>1, <1>6 DEF PublishRow, AtStep
    <2>2. Tidy(g, k) /\ Complete(g) /\ \A i \in 1..Len(g) : g[i].op # "poll"
      BY NextChannel, ChannelSection
    <2>3. \A m \in Locks : ~Under(s, 1, m) /\ ~Under(s, 2, m)
      BY <1>1, <2>1, UnderSteps DEF TidyAt, Syncs
    <2>4. Complete(Tail(s))
      BY <1>1, <2>3 DEF Complete
    <2> HIDE DEF g
    <2>5. Tidy(r, k) /\ Complete(r)
      BY <1>1, <2>2, <2>4, ConcatTidy
    <2>6. \A m \in Locks : lock'[m] = t <=> Under(r, 1, m)
      BY <1>1, <2>1, <2>3, <2>5 DEF Complete
    <2>7. \A u \in Threads \ {t} :
            /\ KindOf(u)' = KindOf(u)
            /\ \A m \in Locks : lock'[m] = u <=> lock[m] = u
      BY <1>11, <2>1
    <2> HIDE DEF r
    <2> QED BY <1>2, <2>1, <2>5, <2>6, <2>7, OwnStep
  <1>7. CASE FindRecognizer(t)
    <2>1. s[1].op = "find" /\ lock' = lock
      BY <1>1, <1>7 DEF FindRecognizer, AtStep
    <2>2. CASE ~known
      <3> DEFINE r == Tail(s)
      <3>1. todo' = [todo EXCEPT ![t] = r]
        BY <1>1, <1>7, <2>2 DEF FindRecognizer
      <3>2. Tidy(r, k) /\ \A m \in Locks : lock'[m] = t <=> Under(r, 1, m)
        BY <1>1, <2>1 DEF Syncs
      <3>3. \A u \in Threads \ {t} :
              /\ KindOf(u)' = KindOf(u)
              /\ \A m \in Locks : lock'[m] = u <=> lock[m] = u
        BY <1>11, <2>1
      <3> HIDE DEF r
      <3> QED BY <1>2, <2>1, <3>1, <3>2, <3>3, OwnStep
    <2>3. CASE known
      <3> DEFINE r == SubSeq(s, 4, Len(s))
                 d == 3
      <3>1. todo' = [todo EXCEPT ![t] = r]
        BY <1>1, <1>7, <2>3 DEF FindRecognizer
      <3>2. 2 \in 1..Len(s) /\ s[2].op = "load"
        BY <1>1, <2>1 DEF TidyAt
      <3>3. 3 \in 1..Len(s) /\ s[3].op = "insert"
        <4>1. TidyAt(s, 2, k)
          BY <1>1, <3>2 DEF Tidy
        <4> QED BY <1>1, <3>2, <4>1 DEF TidyAt
      <3>4. /\ r \in Seq(Steps) /\ Len(r) = Len(s) - d /\ d \in Nat
            /\ \A i \in 1..Len(r) : r[i] = s[i + d]
        BY <1>1, <3>3, ShorterTyped
      <3>5. Tidy(r, k)
        <4>1. s \in Seq(Steps) /\ Tidy(s, k)
          BY <1>1
        <4> HIDE DEF r, d
        <4> QED BY <3>4, <4>1, RestTidy
      <3>6. \A m \in Locks : Under(r, 1, m) <=> Under(s, 4, m)
        <4> DEFINE one == 1
        <4>1. one \in Nat \ {0} /\ one + d = 4
          OBVIOUS
        <4> HIDE DEF one, d, r
        <4>2. \A m \in Locks : Under(r, one, m) <=> Under(s, one + d, m)
          BY <1>1, <3>4, <4>1, RestUnder
        <4> QED BY <4>1, <4>2 DEF one
      <3>7. \A m \in Locks : Under(s, 2, m) <=> Under(s, 3, m)
        <4> DEFINE two == 2
        <4>1. two \in 1..Len(s) /\ ~Syncs(s[two]) /\ two + 1 = 3
          BY <3>2 DEF Syncs
        <4> HIDE DEF two
        <4>2. \A m \in Locks : Under(s, two, m) <=> Under(s, two + 1, m)
          BY <1>1, <4>1, UnderNext
        <4> QED BY <4>1, <4>2 DEF two
      <3>8. \A m \in Locks : Under(s, 3, m) <=> Under(s, 4, m)
        <4> DEFINE three == 3
        <4>1. three \in 1..Len(s) /\ ~Syncs(s[three]) /\ three + 1 = 4
          BY <3>3 DEF Syncs
        <4> HIDE DEF three
        <4>2. \A m \in Locks : Under(s, three, m) <=> Under(s, three + 1, m)
          BY <1>1, <4>1, UnderNext
        <4> QED BY <4>1, <4>2 DEF three
      <3>9. \A m \in Locks : lock'[m] = t <=> Under(r, 1, m)
        BY <1>1, <2>1, <3>6, <3>7, <3>8 DEF Syncs
      <3>10. \A u \in Threads \ {t} :
              /\ KindOf(u)' = KindOf(u)
              /\ \A m \in Locks : lock'[m] = u <=> lock[m] = u
        BY <1>11, <2>1
      <3> HIDE DEF r
      <3> QED BY <1>2, <2>1, <3>1, <3>5, <3>9, <3>10, OwnStep
    <2> QED BY <2>2, <2>3
  <1>8. /\ Tidy(<<>>, k)
        /\ \A m \in Locks : ~Under(<<>>, 1, m)
    BY DEF Tidy, Under
  <1>9. CASE Unwind(t)
    <2> DEFINE r == <<>>
    <2>1. /\ todo' = [todo EXCEPT ![t] = r]
          /\ \A m \in Locks : lock'[m] # t
          /\ \A u \in Threads \ {t}, m \in Locks : lock'[m] = u <=> lock[m] = u
      BY <1>0, <1>9, ConstantsAssumption DEF Unwind, Threads
    <2>2. Tidy(r, k) /\ \A m \in Locks : lock'[m] = t <=> Under(r, 1, m)
      BY <1>8, <2>1
    <2>3. \A u \in Threads \ {t} :
            /\ KindOf(u)' = KindOf(u)
            /\ \A m \in Locks : lock'[m] = u <=> lock[m] = u
      BY <1>11, <2>1
    <2> HIDE DEF r
    <2> QED BY <1>2, <2>1, <2>2, <2>3, OwnStep
  <1>10. CASE CreateFails(t)
    <2> DEFINE r == <<>>
    <2>1. todo' = [todo EXCEPT ![t] = r] /\ lock' = lock /\ s[1].op = "create"
      BY <1>1, <1>10 DEF CreateFails, AtStep
    <2>2. \A m \in Locks : ~Under(s, 1, m)
      BY <1>1, <2>1, UnderSteps DEF TidyAt
    <2>3. Tidy(r, k) /\ \A m \in Locks : lock'[m] = t <=> Under(r, 1, m)
      BY <1>1, <1>8, <2>1, <2>2
    <2>4. \A u \in Threads \ {t} :
            /\ KindOf(u)' = KindOf(u)
            /\ \A m \in Locks : lock'[m] = u <=> lock[m] = u
      BY <1>11, <2>1
    <2> HIDE DEF r
    <2> QED BY <1>2, <2>1, <2>3, <2>4, OwnStep
  <1> QED BY <1>3, <1>4, <1>5, <1>6, <1>7, <1>9, <1>10 DEF Goes

(* A thread that asks for a mutex, or is at a step that is done without    *)
(* one, has none; any other step is done under one that it has.            *)
LEMMA WhereItIs ==
    ASSUME Typed, MutexInv, NEW t \in Threads, todo[t] # <<>>
    PROVE  \E h \in {Head(todo[t])}, k \in {KindOf(t)} :
              \/ h.op = "lock" /\ \A m \in Locks : lock[m] # t
              \/ h.op = "unlock"
              \/ h \in Alone /\ \A m \in Locks : lock[m] # t
              \/ \E m \in Locks : lock[m] = t /\ DoneUnder(m, h, k)
  <1>1. PICK s \in Seq(Steps), k \in {KindOf(t)} :
             /\ s = todo[t] /\ s[1] = Head(s) /\ Len(s) \in Nat \ {0}
             /\ \A m \in Locks : lock[m] = t <=> Under(s, 1, m)
             /\ TidyAt(s, 1, k)
    BY AtAStep
  <1>2. s[1].op = "lock" => \A m \in Locks : lock[m] # t
    <2> SUFFICES ASSUME NEW m \in Locks, s[1].op = "lock", Under(s, 1, m)
                 PROVE  FALSE
      BY <1>1
    <2>1. PICK j \in 1..Len(s) : s[j] = Step("unlock", m) /\ \A i \in 1..(j - 1) : ~Syncs(s[i])
      BY DEF Under
    <2>2. j # 1
      BY <2>1 DEF Step
    <2> QED BY <1>1, <2>1, <2>2 DEF Syncs
  <1> QED BY <1>1, <1>2 DEF TidyAt

(* The theorem the others about mutexes rest on.                           *)
LEMMA MutexesAreHeld == Spec => []MutexInv
  <1>1. Init => MutexInv
    <2> SUFFICES ASSUME Init
                 PROVE  MutexInv
      OBVIOUS
    <2>1. \A t \in Threads : todo[t] = <<>> /\ \A m \in Locks : lock[m] # t
      BY ConstantsAssumption DEF Init, Locks, Threads
    <2>3. ASSUME NEW t \in Threads
          PROVE  \E s \in {todo[t]}, k \in {KindOf(t)} :
                     Tidy(s, k) /\ \A m \in Locks : lock[m] = t <=> Under(s, 1, m)
      <3> DEFINE s == <<>>
      <3>1. todo[t] = s
        BY <2>1
      <3>2. \A k : Tidy(s, k)
        BY DEF Tidy
      <3>3. \A m \in Locks : ~Under(s, 1, m)
        BY DEF Under
      <3> HIDE DEF s
      <3> QED BY <2>1, <3>1, <3>2, <3>3
    <2> QED BY <2>3 DEF MutexInv
  <1>2. Typed /\ ServingInv /\ MutexInv /\ [Next]_vars => MutexInv'
    <2> SUFFICES ASSUME Typed, ServingInv, MutexInv, [Next]_vars
                 PROVE  MutexInv'
      OBVIOUS
    <2>0. /\ Loops \subseteq Threads /\ Workers \cap Loops = {} /\ Workers \subseteq Threads
          /\ Nobody \notin Clients /\ todo \in [Threads -> Seq(Steps)]
          /\ serving \in [Loops -> Clients \cup {Nobody}]
          /\ asked \in [Clients -> Kinds \cup {Nothing}]
      BY ConstantsAssumption DEF Threads, Typed
    <2>1. CASE \E c \in Clients, k \in Kinds : Ask(c, k)
      <3>1. \A t \in Threads : KindOf(t)' = KindOf(t)
        BY <2>0, <2>1 DEF Ask, KindOf, ServingInv
      <3> QED BY <2>1, <3>1, SameMutexes DEF Ask
    <2>2. CASE \E l \in Loops, c \in Clients : Begin(l, c)
      <3> PICK l \in Loops, c \in Clients : Begin(l, c)
        BY <2>2
      <3>9. PICK k \in Kinds : k = asked[c]
        BY <2>0 DEF Begin
      <3>1. PICK p \in Programs(k) : todo' = [todo EXCEPT ![l] = p]
        BY <3>9 DEF Begin
      <3>2. Tidy(p, k) /\ Complete(p)
        BY ProgramsTidy
      <3>3. /\ serving' = [serving EXCEPT ![l] = c] /\ asked' = asked /\ lock' = lock
            /\ serving[l] = Nobody /\ todo[l] = <<>>
        BY DEF Begin, ServingInv
      <3>4. \A m \in Locks : lock[m] # l
        <4>1. PICK s \in {todo[l]}, i \in {KindOf(l)} :
                 \A m \in Locks : lock[m] = l <=> Under(s, 1, m)
          BY <2>0 DEF MutexInv
        <4> QED BY <3>3, <4>1 DEF Under
      <3>5. \A m \in Locks : lock'[m] = l <=> Under(p, 1, m)
        BY <3>2, <3>3, <3>4 DEF Complete
      <3>6. \A u \in Threads \ {l} :
                /\ KindOf(u)' = KindOf(u)
                /\ \A m \in Locks : lock'[m] = u <=> lock[m] = u
        BY <2>0, <3>3 DEF KindOf
      <3>7. KindOf(l)' = k
        BY <2>0, <3>9, <3>3 DEF KindOf
      <3>8. l \in Threads
        BY <2>0
      <3> QED BY <3>1, <3>2, <3>5, <3>6, <3>7, <3>8, OwnStep
    <2>3. CASE \E l \in Loops : AnswerClient(l)
      <3> PICK l \in Loops : AnswerClient(l)
        BY <2>3
      <3>1. /\ serving[l] # Nobody /\ todo[l] = <<>> /\ UNCHANGED <<todo, lock>>
            /\ asked' = [asked EXCEPT ![serving[l]] = Nothing]
            /\ serving' = [serving EXCEPT ![l] = Nobody]
        BY DEF AnswerClient
      <3>2. ASSUME NEW t \in Threads, t # l
            PROVE  KindOf(t)' = KindOf(t)
        <4>1. CASE t \in Loops /\ serving[t] # Nobody
          <5>1. serving[t] \in Clients /\ serving[t] # serving[l]
            BY <2>0, <3>1, <3>2, <4>1 DEF ServingInv
          <5> QED BY <2>0, <3>1, <3>2, <4>1, <5>1 DEF KindOf
        <4>2. CASE ~(t \in Loops /\ serving[t] # Nobody)
          BY <2>0, <3>1, <3>2, <4>2 DEF KindOf
        <4> QED BY <4>1, <4>2
      <3> QED BY <3>1, <3>2, SameMutexes
    <2>4. CASE UNCHANGED <<loopVars, todo, lock>>
      <3>1. \A t \in Threads : KindOf(t)' = KindOf(t)
        BY <2>4 DEF KindOf, loopVars
      <3> QED BY <2>4, <3>1, SameMutexes
    <2>5. CASE \/ \E l \in Loops : Hang(l)
               \/ \E t \in Threads : GetConnection(t) \/ Granted(t)
      BY <2>4, <2>5 DEF Hang, GetConnection, Granted
    <2>6. CASE \E l \in Loops : Polled(l)
      <3> PICK l \in Loops : Polled(l)
        BY <2>6
      <3>1. PICK s \in Seq(Steps), k \in {KindOf(l)} :
             /\ s = todo[l] /\ s[1] = Head(s) /\ Tidy(s, k)
             /\ Tail(s) \in Seq(Steps) /\ Tidy(Tail(s), k)
             /\ \A m \in Locks : lock[m] = l <=> Under(s, 1, m)
             /\ \A m \in Locks : Under(Tail(s), 1, m) <=> Under(s, 2, m)
             /\ ~Syncs(s[1]) => \A m \in Locks : Under(s, 1, m) <=> Under(s, 2, m)
        BY SMTT(30), <2>0, AtAStep DEF Polled, Poll, AtStep
      <3>2. s[1].op = "poll" /\ lock' = lock /\ UNCHANGED loopVars
        BY <3>1 DEF Polled, Poll, AtStep
      <3>3. PICK r \in {s, Tail(s)} : todo' = [todo EXCEPT ![l] = r]
        BY <3>1 DEF Polled, Poll
      <3>4. Tidy(r, k) /\ \A m \in Locks : lock'[m] = l <=> Under(r, 1, m)
        BY <3>1, <3>2, <3>3 DEF Syncs
      <3>5. \A u \in Threads \ {l} :
                /\ KindOf(u)' = KindOf(u)
                /\ \A m \in Locks : lock'[m] = u <=> lock[m] = u
        BY <3>2 DEF KindOf, loopVars
      <3>6. KindOf(l)' = k /\ l \in Threads
        BY <2>0, <3>1, <3>2 DEF KindOf, loopVars
      <3> QED BY <3>3, <3>4, <3>5, <3>6, OwnStep
    <2>7. CASE \E w \in Workers : WorkerTakes(w)
      <3> PICK w \in Workers : WorkerTakes(w)
        BY <2>7
      <3> DEFINE p == WorkerProgram
                 k == Nothing
      <3>1. todo' = [todo EXCEPT ![w] = p] /\ UNCHANGED <<loopVars, lock>> /\ todo[w] = <<>>
        BY DEF WorkerTakes
      <3>2. Tidy(p, k) /\ Complete(p)
        BY WorkerTidy
      <3>3. \A m \in Locks : lock[m] # w
        <4>1. PICK s \in {todo[w]}, i \in {KindOf(w)} :
                 \A m \in Locks : lock[m] = w <=> Under(s, 1, m)
          BY <2>0 DEF MutexInv
        <4> QED BY <3>1, <4>1 DEF Under
      <3> HIDE DEF p
      <3>4. \A m \in Locks : lock'[m] = w <=> Under(p, 1, m)
        BY <3>1, <3>2, <3>3 DEF Complete
      <3>5. \A u \in Threads \ {w} :
                /\ KindOf(u)' = KindOf(u)
                /\ \A m \in Locks : lock'[m] = u <=> lock[m] = u
        BY <3>1 DEF KindOf, loopVars
      <3>6. KindOf(w)' = k /\ w \in Threads
        BY <2>0, <3>1 DEF KindOf, loopVars
      <3> HIDE DEF k
      <3> QED BY <3>1, <3>2, <3>4, <3>5, <3>6, OwnStep
    <2>8. CASE \E t \in Threads : Goes(t)
      BY <2>8, GoesTidily
    <2>9. CASE Rests
      BY <2>4, <2>9 DEF Rests
    <2>10. \/ \E c \in Clients, k \in Kinds : Ask(c, k)
           \/ \E l \in Loops, c \in Clients : Begin(l, c)
           \/ \E l \in Loops : AnswerClient(l) \/ Hang(l) \/ Polled(l)
           \/ \E t \in Threads : GetConnection(t) \/ Granted(t)
           \/ \E w \in Workers : WorkerTakes(w)
           \/ \E t \in Threads : Goes(t)
           \/ Rests
      BY StepsOfThreads
    <2> QED BY <2>1, <2>2, <2>3, <2>5, <2>6, <2>7, <2>8, <2>9, <2>10
  <1> QED BY <1>1, <1>2, TypesKept, ClientsAreServed, PTL DEF Spec

(***************************************************************************)
(* Races                                                                   *)
(***************************************************************************)
(* GuardedAreRaceFree: whatever handlers run and fail at the same moment,  *)
(* no two threads are in chatInformation, ImageRecognizerMap or a channel  *)
(* while one changes it: every step on one of these is done under the      *)
(* mutex that belongs to it, on every way through a handler.               *)
THEOREM GuardedStayRaceFree == Spec => []GuardedAreRaceFree
  <1>1. Typed /\ MutexInv => GuardedAreRaceFree
    <2> DEFINE Safe == {"chatInformation", "ImageRecognizerMap"} \cup Range(Channels)
    <2> SUFFICES ASSUME Typed, MutexInv, NEW t \in Threads, NEW u \in Threads, Racing(t, u),
                        Object(t) \in Safe
                 PROVE  FALSE
      BY DEF GuardedAreRaceFree, RacesOn
    <2>1. todo[t] # <<>> /\ todo[u] # <<>> /\ t # u
      BY DEF Racing, Using
    <2>2. PICK h \in {Head(todo[t])}, i \in {KindOf(t)} :
              \/ h.op = "lock" \/ h.op = "unlock" \/ h \in Alone
              \/ \E m \in Locks : lock[m] = t /\ DoneUnder(m, h, i)
      BY <2>1, WhereItIs
    <2>3. PICK g \in {Head(todo[u])}, j \in {KindOf(u)} :
              \/ g.op = "lock" \/ g.op = "unlock" \/ g \in Alone
              \/ \E m \in Locks : lock[m] = u /\ DoneUnder(m, g, j)
      BY <2>1, WhereItIs
    <2>4. /\ h.op \in {"write", "insert", "send"} /\ h.on = g.on
          /\ g.op \in {"read", "write", "find", "insert", "send"}
          /\ h.on \in Safe
      BY <2>2, <2>3 DEF Racing, Using, Object
    <2>5. \A ch \in Range(Channels) : ch \notin Objects
      BY ConstantsAssumption
    <2>6. ASSUME NEW x \in Alone, x.op \in {"read", "write", "find", "insert", "send"}
          PROVE  x.on \notin Safe
      <3>1. x \in {Writes("onlineUsers_"), Writes("sessions_m"), Writes("rng_m"), Reads("AIHelper"),
                   Writes("AIHelper"), Reads("sslConns_m"), Writes("sslConns_m")}
        BY <2>6 DEF Alone, Statement, Publish, Model, Step
      <3>2. x.on \in {"onlineUsers_", "sessions_m", "rng_m", "AIHelper", "sslConns_m"}
        BY <3>1 DEF Reads, Writes, Step
      <3> QED BY <2>5, <3>2 DEF Objects
    <2>7. PICK m \in Locks : lock[m] = t /\ DoneUnder(m, h, i)
      BY <2>2, <2>4, <2>6
    <2>8. PICK n \in Locks : lock[n] = u /\ DoneUnder(n, g, j)
      BY <2>3, <2>4, <2>6
    <2>9. ASSUME NEW l, NEW x, NEW k, DoneUnder(l, x, k)
          PROVE  \/ l = "mutexForChatInformation" /\ x.on = "chatInformation"
                 \/ l = "mutexForImageRecognizerMap" /\ x.on = "ImageRecognizerMap"
                 \/ l = "mutexForImageRecognizerMap" /\ x.op = "load"
                 \/ l \in Range(Channels) /\ x.on = l
                 \/ x.on \in {"onlineUsers_", "AIHelper", "sessionsIdsMap"}
      BY <2>9 DEF DoneUnder, Reads, Writes, Step
    <2>10. m = n
      <3>1. h.on \notin {"onlineUsers_", "AIHelper", "sessionsIdsMap"}
        BY <2>4, <2>5 DEF Objects
      <3>2. \/ m = "mutexForChatInformation" /\ h.on = "chatInformation"
            \/ m = "mutexForImageRecognizerMap" /\ h.on = "ImageRecognizerMap"
            \/ m \in Range(Channels) /\ h.on = m
        BY <2>4, <2>7, <2>9, <3>1
      <3>3. \/ n = "mutexForChatInformation" /\ g.on = "chatInformation"
            \/ n = "mutexForImageRecognizerMap" /\ g.on = "ImageRecognizerMap"
            \/ n \in Range(Channels) /\ g.on = n
        BY <2>4, <2>8, <2>9, <3>1
      <3> QED BY <2>4, <2>5, <3>2, <3>3 DEF Objects
    <2> QED BY <2>1, <2>7, <2>8, <2>10
  <1> QED BY <1>1, TypesKept, MutexesAreHeld, PTL

(***************************************************************************)
(* Connections and calls to the outside                                    *)
(***************************************************************************)
(* A thread that asks for a connection or has one is at a statement, it    *)
(* has at most one and then asks for none; a loop that hangs is in a call  *)
(* to the outside.                                                         *)
CallsInv ==
    /\ \A t \in Threads : t \in want \/ HasConn(t) => todo[t] # <<>> /\ Next1(t) = "statement"
    /\ \A t \in want : ~HasConn(t)
    /\ \A c, d \in Conns : owner[c] = owner[d] /\ owner[c] # Nobody => c = d
    /\ \A l \in hung : todo[l] # <<>> /\ Next1(l) \in {"model", "token", "create", "poll"}

(* Who has or wants a connection is at a statement, and who hangs is at a  *)
(* call of the outside.                                                    *)
LEMMA CallsAreInPlace == Spec => []CallsInv
  <1>1. Init => CallsInv
    BY ConstantsAssumption DEF Init, CallsInv, HasConn, Threads
  <1>2. Typed /\ ServingInv /\ CallsInv /\ [Next]_vars => CallsInv'
    <2> SUFFICES ASSUME Typed, ServingInv, CallsInv, [Next]_vars
                 PROVE  CallsInv'
      OBVIOUS
    <2>0. /\ Loops \subseteq Threads /\ Workers \cap Loops = {} /\ Workers \subseteq Threads
          /\ Nobody \notin Threads /\ todo \in [Threads -> Seq(Steps)]
          /\ want \subseteq Threads /\ hung \subseteq Loops
          /\ owner \in [Conns -> Threads \cup {Nobody}]
      BY ConstantsAssumption DEF Threads, Typed
    <2>1. CASE UNCHANGED <<todo, hung, want, owner>>
      BY <2>1 DEF CallsInv, HasConn, Next1
    <2>2. ASSUME NEW t \in Threads, todo[t] = <<>>,
                 NEW p, todo' = [todo EXCEPT ![t] = p], UNCHANGED <<hung, want, owner>>
          PROVE  CallsInv'
      <3>1. t \notin want /\ ~HasConn(t) /\ t \notin hung
        BY <2>2 DEF CallsInv
      <3>2. \A u \in Threads \ {t} : todo'[u] = todo[u]
        BY <2>0, <2>2
      <3> QED BY <2>0, <2>2, <3>1, <3>2 DEF CallsInv, HasConn, Next1
    <2>3. CASE \E c \in Clients, k \in Kinds : Ask(c, k)
      BY <2>1, <2>3 DEF Ask, poolVars
    <2>4. CASE \E l \in Loops, c \in Clients : Begin(l, c)
      <3> PICK l \in Loops, c \in Clients : Begin(l, c)
        BY <2>4
      <3>1. PICK p \in Programs(asked[c]) : todo' = [todo EXCEPT ![l] = p]
        BY DEF Begin
      <3>2. todo[l] = <<>> /\ UNCHANGED <<hung, want, owner>> /\ l \in Threads
        BY <2>0 DEF Begin, ServingInv, poolVars
      <3> QED BY <2>2, <3>1, <3>2
    <2>5. CASE \E l \in Loops : AnswerClient(l)
      BY <2>1, <2>5 DEF AnswerClient, poolVars
    <2>6. CASE \E l \in Loops : Hang(l)
      <3> PICK l \in Loops : Hang(l)
        BY <2>6
      <3>1. /\ todo[l] # <<>> /\ Next1(l) \in {"model", "token", "create", "poll"}
            /\ hung' = hung \cup {l} /\ UNCHANGED <<todo, want, owner>>
        BY DEF Hang, Outside, AtStep, Next1, poolVars
      <3> QED BY <3>1 DEF CallsInv, HasConn, Next1
    <2>7. CASE \E l \in Loops : Polled(l)
      <3> PICK l \in Loops : Polled(l)
        BY <2>7
      <3>1. PICK r \in {todo[l], Tail(todo[l])} : todo' = [todo EXCEPT ![l] = r]
        BY DEF Polled, Poll
      <3>2. l \notin hung /\ Next1(l) = "poll" /\ UNCHANGED <<hung, want, owner>> /\ l \in Threads
        BY <2>0 DEF Polled, Poll, AtStep, Next1, poolVars
      <3>3. l \notin want /\ ~HasConn(l)
        BY <3>2 DEF CallsInv
      <3>4. \A u \in Threads \ {l} : todo'[u] = todo[u]
        BY <2>0, <3>1
      <3> QED BY <2>0, <3>2, <3>3, <3>4 DEF CallsInv, HasConn, Next1
    <2>8. CASE \E t \in Threads : GetConnection(t)
      <3> PICK t \in Threads : GetConnection(t)
        BY <2>8
      <3>1. /\ todo[t] # <<>> /\ Next1(t) = "statement" /\ ~HasConn(t)
            /\ want' = want \cup {t} /\ UNCHANGED <<todo, hung, owner>>
        BY DEF GetConnection, AtStep, Next1, Pool!Request, HasConn
      <3> QED BY <3>1 DEF CallsInv, HasConn, Next1
    <2>9. CASE \E t \in Threads : Granted(t)
      <3> PICK t \in Threads : Granted(t)
        BY <2>9
      <3>1. /\ t \in want /\ want' = want \ {t} /\ UNCHANGED <<todo, hung>>
        BY DEF Granted, Pool!Acquire
      <3>2. PICK r \in Conns : owner[r] = Nobody /\ owner' = [owner EXCEPT ![r] = t]
        BY DEF Granted, Pool!Acquire, Pool!free
      <3>3. todo[t] # <<>> /\ Next1(t) = "statement" /\ \A c \in Conns : owner[c] # t
        BY <2>0, <3>1 DEF CallsInv, HasConn
      <3>4. \A c \in Conns : owner'[c] = IF c = r THEN t ELSE owner[c]
        BY <2>0, <3>2
      <3>5. \A u \in Threads : HasConn(u)' => HasConn(u) \/ u = t
        BY <3>4 DEF HasConn
      <3>6. \A u \in want' : ~HasConn(u)'
        BY <2>0, <3>1, <3>5 DEF CallsInv
      <3>7. \A c, d \in Conns : owner'[c] = owner'[d] /\ owner'[c] # Nobody => c = d
        BY <3>2, <3>3, <3>4 DEF CallsInv
      <3>8. \A u \in Threads : u \in want' \/ HasConn(u)' => todo'[u] # <<>> /\ Next1(u)' = "statement"
        BY <3>1, <3>3, <3>5 DEF CallsInv, Next1
      <3>9. \A l \in hung' : todo'[l] # <<>> /\ Next1(l)' \in {"model", "token", "create", "poll"}
        BY <3>1 DEF CallsInv, Next1
      <3> QED BY <3>6, <3>7, <3>8, <3>9 DEF CallsInv
    <2>10. CASE \E w \in Workers : WorkerTakes(w)
      <3> PICK w \in Workers : WorkerTakes(w)
        BY <2>10
      <3> DEFINE p == WorkerProgram
      <3>1. /\ todo[w] = <<>> /\ todo' = [todo EXCEPT ![w] = p]
            /\ UNCHANGED <<hung, want, owner>> /\ w \in Threads
        BY <2>0 DEF WorkerTakes, poolVars
      <3> HIDE DEF p
      <3> QED BY <2>2, <3>1
    <2>11. CASE \E t \in Threads : Goes(t)
      <3> PICK t \in Threads : Goes(t)
        BY <2>11
      <3>1. PICK r \in Seq(Steps) : todo' = [todo EXCEPT ![t] = r]
        BY GoesAlone
      <3>2. t \notin hung /\ hung' = hung /\ \A u \in Threads \ {t} : todo'[u] = todo[u]
        BY <2>0, <3>1 DEF Goes
      <3>3. /\ want' = want /\ t \notin want'
            /\ \A c \in Conns : owner'[c] # t /\ owner'[c] \in {owner[c], Nobody}
        <4>1. CASE Next1(t) = "statement"
          <5>1. PICK c \in Conns : owner[c] = t /\ owner' = [owner EXCEPT ![c] = Nobody]
            BY <4>1 DEF Goes, Pool!Release
          <5>2. want' = want
            BY <4>1 DEF Goes, Pool!Release
          <5>3. t \notin want
            BY <5>1 DEF CallsInv, HasConn
          <5>4. \A d \in Conns : owner[d] = t => d = c
            BY <2>0, <5>1 DEF CallsInv
          <5> QED BY <2>0, <5>1, <5>2, <5>3, <5>4
        <4>2. CASE Next1(t) # "statement"
          BY <4>2 DEF Goes, CallsInv, HasConn, poolVars
        <4> QED BY <4>1, <4>2
      <3>4. \A u \in Threads : HasConn(u)' => HasConn(u) /\ u # t
        BY <2>0, <3>3 DEF HasConn
      <3>5. \A u \in Threads : u # t => Next1(u)' = Next1(u)
        BY <3>2 DEF Next1
      <3>6. \A u \in Threads : u \in want' \/ HasConn(u)' => todo'[u] # <<>> /\ Next1(u)' = "statement"
        BY <3>2, <3>3, <3>4, <3>5 DEF CallsInv
      <3>7. \A u \in want' : ~HasConn(u)'
        BY <2>0, <3>3, <3>4 DEF CallsInv
      <3>8. \A c, d \in Conns : owner'[c] = owner'[d] /\ owner'[c] # Nobody => c = d
        BY <3>3 DEF CallsInv
      <3>9. \A l \in hung' : todo'[l] # <<>> /\ Next1(l)' \in {"model", "token", "create", "poll"}
        BY <2>0, <3>2, <3>5 DEF CallsInv
      <3> QED BY <3>6, <3>7, <3>8, <3>9 DEF CallsInv
    <2>12. CASE Rests
      BY <2>1, <2>12 DEF Rests, poolVars
    <2>13. \/ \E c \in Clients, k \in Kinds : Ask(c, k)
           \/ \E l \in Loops, c \in Clients : Begin(l, c)
           \/ \E l \in Loops : AnswerClient(l) \/ Hang(l) \/ Polled(l)
           \/ \E t \in Threads : GetConnection(t) \/ Granted(t)
           \/ \E w \in Workers : WorkerTakes(w)
           \/ \E t \in Threads : Goes(t)
           \/ Rests
      BY StepsOfThreads
    <2> QED BY <2>3, <2>4, <2>5, <2>6, <2>7, <2>8, <2>9, <2>10, <2>11, <2>12, <2>13
  <1> QED BY <1>1, <1>2, TypesKept, ClientsAreServed, PTL DEF Spec

(* NothingHeldWhileWaiting: a thread that calls the outside or asks for a  *)
(* connection has no mutex and no connection, and nobody who has a mutex   *)
(* waits for another, so what one request waits for keeps nobody else      *)
(* waiting.                                                                *)
THEOREM NothingIsHeld == Spec => []NothingHeldWhileWaiting
  <1>1. Typed /\ MutexInv /\ CallsInv => NothingHeldWhileWaiting
    <2> SUFFICES ASSUME Typed, MutexInv, CallsInv, NEW t \in Threads
                 PROVE  /\ t \in want \/ t \in hung \/ Outside(t) => Holds(t) = {} /\ ~HasConn(t)
                        /\ AtStep(t, "lock") => Holds(t) = {}
      BY DEF NothingHeldWhileWaiting
    <2>0. DOMAIN lock = Locks
      BY DEF Typed
    <2>1. ASSUME todo[t] # <<>>,
                 Next1(t) \in {"statement", "model", "token", "create", "poll", "lock"}
          PROVE  Holds(t) = {}
      <3>1. PICK h \in {Head(todo[t])}, k \in {KindOf(t)} :
              \/ h.op = "lock" /\ \A m \in Locks : lock[m] # t
              \/ h.op = "unlock"
              \/ h \in Alone /\ \A m \in Locks : lock[m] # t
              \/ \E m \in Locks : lock[m] = t /\ DoneUnder(m, h, k)
        BY <2>1, WhereItIs
      <3>2. \A m \in Locks : DoneUnder(m, h, k)
                => h.op \in {"read", "write", "find", "load", "insert", "send"}
        BY UnderSteps
      <3>3. \A m \in Locks : lock[m] # t
        BY <2>1, <3>1, <3>2 DEF Next1
      <3> QED BY <2>0, <3>3 DEF Holds
    <2>2. t \in want => Holds(t) = {} /\ ~HasConn(t)
      BY <2>1 DEF CallsInv
    <2>3. t \in hung => Holds(t) = {} /\ ~HasConn(t)
      BY <2>1 DEF CallsInv
    <2>4. Outside(t) => Holds(t) = {} /\ ~HasConn(t)
      BY <2>1 DEF CallsInv, Outside, AtStep, Next1
    <2>5. AtStep(t, "lock") => Holds(t) = {}
      BY <2>1 DEF AtStep, Next1
    <2> QED BY <2>2, <2>3, <2>4, <2>5
  <1> QED BY <1>1, TypesKept, MutexesAreHeld, CallsAreInPlace, PTL
(***************************************************************************)
(* Rounds of polling                                                       *)
(***************************************************************************)
Polls(s) == \E i \in 1..Len(s) : s[i].op = "poll"

(* A speech that is still to be polled has rounds left. *)
PollInv ==
    \A l \in Loops :
        /\ polls[l] <= MaxPolls
        /\ Polls(todo[l]) => polls[l] < MaxPolls

(* A step that is not the polling leaves the polling to be done. *)
LEMMA TailPolls ==
    ASSUME NEW s \in Seq(Steps), s # <<>>, NEW k, TidyAt(s, 1, k)
    PROVE  Polls(Tail(s)) => Polls(s) /\ Head(s).op # "poll"
  <1>1. Len(Tail(s)) = Len(s) - 1 /\ \A i \in 1..Len(Tail(s)) : Tail(s)[i] = s[i + 1]
    OBVIOUS
  <1>2. Head(s) = s[1] /\ Len(s) \in Nat
    OBVIOUS
  <1> QED BY <1>1, <1>2 DEF Polls, TidyAt

(* A step other than polling adds no polling to a program. *)
LEMMA GoesOnce ==
    ASSUME Typed, MutexInv, NEW t \in Threads, Goes(t)
    PROVE  \E r \in Seq(Steps) :
              /\ todo' = [todo EXCEPT ![t] = r]
              /\ Polls(r) => Polls(todo[t]) /\ Next1(t) # "poll"
  <1>1. PICK s \in Seq(Steps), k \in {KindOf(t)} :
             /\ s = todo[t] /\ s # <<>> /\ s[1] = Head(s) /\ Len(s) \in Nat \ {0}
             /\ Tail(s) \in Seq(Steps) /\ TidyAt(s, 1, k)
    BY AtAStep DEF Goes
  <1>2. Polls(Tail(s)) => Polls(s) /\ Head(s).op # "poll"
    BY <1>1, TailPolls
  <1>3. <<>> \in Seq(Steps) /\ ~Polls(<<>>)
    BY DEF Polls
  <1>4. CASE Continue(t) \/ Lock(t) \/ Unlock(t)
    <2>1. todo' = [todo EXCEPT ![t] = Tail(s)]
      BY <1>1, <1>4 DEF Continue, Lock, Unlock
    <2> QED BY <1>1, <1>2, <2>1 DEF Next1
  <1>5. CASE Unwind(t) \/ CreateFails(t)
    BY <1>3, <1>5 DEF Unwind, CreateFails
  <1>6. CASE PublishRow(t)
    <2> DEFINE ch == Channels[counter + 1]
               g == Guarded(ch, <<Step("send", ch)>>)
    <2>1. todo' = [todo EXCEPT ![t] = g \o Tail(s)]
      BY <1>1, <1>6 DEF PublishRow
    <2>2. g \in Seq(Steps) /\ ~Polls(g)
      BY NextChannel, ChannelSection DEF Tidy, Polls
    <2> HIDE DEF g
    <2>3. g \o Tail(s) \in Seq(Steps)
      BY <1>1, <2>2
    <2>4. Polls(g \o Tail(s)) => Polls(Tail(s))
      <3> SUFFICES ASSUME NEW i \in 1..Len(g \o Tail(s)), (g \o Tail(s))[i].op = "poll"
                   PROVE  Polls(Tail(s))
        BY DEF Polls
      <3>1. /\ Len(g) \in Nat /\ Len(Tail(s)) \in Nat
            /\ Len(g \o Tail(s)) = Len(g) + Len(Tail(s))
            /\ i <= Len(g) => (g \o Tail(s))[i] = g[i]
            /\ i > Len(g) => (g \o Tail(s))[i] = Tail(s)[i - Len(g)]
        BY <1>1, <2>2
      <3>2. i > Len(g)
        BY <2>2, <3>1 DEF Polls
      <3>3. (i - Len(g)) \in 1..Len(Tail(s)) /\ Tail(s)[i - Len(g)].op = "poll"
        BY <3>1, <3>2
      <3> QED BY <3>3 DEF Polls
    <2>5. Next1(t) = "publish"
      BY <1>6 DEF PublishRow, AtStep, Next1
    <2> QED BY <1>1, <1>2, <2>1, <2>3, <2>4, <2>5
  <1>7. CASE FindRecognizer(t)
    <2> DEFINE r == SubSeq(s, 4, Len(s))
    <2>1. todo' = [todo EXCEPT ![t] = IF known THEN r ELSE Tail(s)] /\ Next1(t) = "find"
      BY <1>1, <1>7 DEF FindRecognizer, AtStep, Next1
    <2>2. r \in Seq(Steps) /\ (3 <= Len(s) => Len(r) = Len(s) - 3)
           /\ \A i \in 1..(Len(s) - 3) : r[i] = s[i + 3]
      BY ShorterTyped
    <2>3. Len(s) < 3 => Len(r) = 0
      BY <1>1
    <2> HIDE DEF r
    <2>4. Polls(r) => Polls(s)
      BY <1>1, <2>2, <2>3 DEF Polls
    <2> QED BY <1>1, <1>2, <2>1, <2>2, <2>4
  <1> QED BY <1>4, <1>5, <1>6, <1>7 DEF Goes

(* Who is still to poll has rounds left. *)
LEMMA PollsAreCounted == Spec => []PollInv
  <1>1. Init => PollInv
    BY ConstantsAssumption DEF Init, PollInv, Polls, Threads
  <1>2. Typed /\ MutexInv /\ PollInv /\ [Next]_vars => PollInv'
    <2> SUFFICES ASSUME Typed, MutexInv, PollInv, [Next]_vars
                 PROVE  PollInv'
      OBVIOUS
    <2>0. /\ Loops \subseteq Threads /\ Workers \cap Loops = {}
          /\ todo \in [Threads -> Seq(Steps)] /\ polls \in [Loops -> Nat]
          /\ MaxPolls \in Nat \ {0} /\ \A l \in Loops : polls[l] \in Nat
      BY ConstantsAssumption DEF Threads, Typed
    <2>1. CASE UNCHANGED <<todo, polls>>
      BY <2>1 DEF PollInv
    <2>2. CASE \/ \E c \in Clients, k \in Kinds : Ask(c, k)
               \/ \E l \in Loops : AnswerClient(l) \/ Hang(l)
               \/ \E t \in Threads : GetConnection(t) \/ Granted(t)
               \/ Rests
      BY <2>1, <2>2 DEF Ask, AnswerClient, Hang, GetConnection, Granted, Rests
    <2>3. CASE \E l \in Loops, c \in Clients : Begin(l, c)
      <3> PICK l \in Loops, c \in Clients : Begin(l, c)
        BY <2>3
      <3>1. polls' = [polls EXCEPT ![l] = 0] /\ \A u \in Loops \ {l} : todo'[u] = todo[u]
        BY <2>0 DEF Begin
      <3>2. polls'[l] = 0
        BY <2>0, <3>1
      <3> QED BY <2>0, <3>1, <3>2 DEF PollInv
    <2>4. CASE \E l \in Loops : Polled(l)
      <3> PICK l \in Loops : Polled(l)
        BY <2>4
      <3> DEFINE n == polls[l]
      <3>1. PICK s \in Seq(Steps), k \in {KindOf(l)} :
             /\ s = todo[l] /\ s # <<>> /\ TidyAt(s, 1, k) /\ s[1] = Head(s)
             /\ Tail(s) \in Seq(Steps) /\ 1 \in 1..Len(s)
        BY <2>0, AtAStep DEF Polled, Poll, AtStep
      <3>2. Head(s).op = "poll"
        BY <3>1 DEF Polled, Poll, AtStep
      <3>3. ~Polls(Tail(s)) /\ n < MaxPolls
        BY <3>1, <3>2, TailPolls DEF PollInv, Polls
      <3>4. \A u \in Loops \ {l} : todo'[u] = todo[u] /\ polls'[u] = polls[u]
        BY <2>0 DEF Polled, Poll
      <3>5. polls'[l] = n + 1
        BY <2>0 DEF Polled, Poll
      <3>6. PICK r \in {s, Tail(s)} : todo'[l] = r /\ (r = Tail(s) \/ n + 1 < MaxPolls)
        BY <2>0, <3>1 DEF Polled, Poll
      <3>7. n + 1 <= MaxPolls
        BY <2>0, <3>3
      <3>9. Polls(r) => n + 1 < MaxPolls
        BY <3>3, <3>6, Zenon
      <3>8. Polls(todo[l])' <=> Polls(r)
        BY <3>6 DEF Polls
      <3> QED BY <3>4, <3>5, <3>7, <3>8, <3>9 DEF PollInv, Polls
    <2>5. CASE \E w \in Workers : WorkerTakes(w)
      <3>1. \A l \in Loops : todo'[l] = todo[l] /\ polls'[l] = polls[l]
        BY <2>0, <2>5 DEF WorkerTakes
      <3> QED BY <3>1 DEF PollInv
    <2>6. CASE \E t \in Threads : Goes(t)
      <3> PICK t \in Threads : Goes(t)
        BY <2>6
      <3>1. PICK r \in Seq(Steps) :
              /\ todo' = [todo EXCEPT ![t] = r]
              /\ Polls(r) => Polls(todo[t]) /\ Next1(t) # "poll"
        BY GoesOnce
      <3>2. KeepsPolls(t) /\ todo[t] # <<>>
        BY DEF Goes
      <3>3. ASSUME NEW l \in Loops, l # t
            PROVE  todo'[l] = todo[l] /\ polls'[l] = polls[l]
        BY <2>0, <3>1, <3>2, <3>3 DEF KeepsPolls
      <3>4. ASSUME t \in Loops
            PROVE  /\ polls'[t] <= MaxPolls
                   /\ Polls(todo'[t]) => polls'[t] < MaxPolls
        <4>1. todo'[t] = r
          BY <2>0, <3>1
        <4>2. Next1(t) = "poll" => Polls(todo[t])
          BY <2>0, <3>2 DEF Next1, Polls
        <4>3. polls'[t] = IF Next1(t) = "poll" THEN polls[t] + 1 ELSE polls[t]
          BY <3>2, <3>4 DEF KeepsPolls
        <4> QED BY <2>0, <3>1, <3>4, <4>1, <4>2, <4>3 DEF PollInv
      <3> QED BY <3>3, <3>4 DEF PollInv
    <2>7. \/ \E c \in Clients, k \in Kinds : Ask(c, k)
          \/ \E l \in Loops, c \in Clients : Begin(l, c)
          \/ \E l \in Loops : AnswerClient(l) \/ Hang(l) \/ Polled(l)
          \/ \E t \in Threads : GetConnection(t) \/ Granted(t)
          \/ \E w \in Workers : WorkerTakes(w)
          \/ \E t \in Threads : Goes(t)
          \/ Rests
      BY StepsOfThreads
    <2> QED BY <2>2, <2>3, <2>4, <2>5, <2>6, <2>7
  <1> QED BY <1>1, <1>2, TypesKept, MutexesAreHeld, PTL DEF Spec

(* TypeOK: every variable has its type, a synthesis is polled no more than *)
(* MaxPolls times, a connection is held by a thread at a statement, and    *)
(* whoever has a mutex is still to unlock it, on every way through a       *)
(* handler and out of it.                                                  *)
THEOREM TypeCorrect == Spec => []TypeOK
  <1>1. Typed /\ MutexInv /\ CallsInv /\ PollInv => TypeOK
    <2> SUFFICES ASSUME Typed, MutexInv, CallsInv, PollInv
                 PROVE  TypeOK
      OBVIOUS
    <2>1. polls \in [Loops -> 0..MaxPolls]
      BY ConstantsAssumption DEF Typed, PollInv
    <2>2. \A t \in Threads : HasConn(t) => todo[t] # <<>> /\ Head(todo[t]).op = "statement"
      BY DEF CallsInv, Next1
    <2>3. ASSUME NEW m \in DOMAIN lock, lock[m] # Nobody
          PROVE  Step("unlock", m) \in Range(todo[lock[m]])
      <3>1. m \in Locks /\ lock[m] \in Threads
        BY <2>3 DEF Typed
      <3>2. PICK t \in Threads : t = lock[m]
        BY <3>1
      <3>3. PICK s \in {todo[t]} : Under(s, 1, m)
        BY <3>1, <3>2 DEF MutexInv
      <3>4. s \in Seq(Steps) /\ s = todo[lock[m]]
        BY <3>2, <3>3 DEF Typed
      <3>5. PICK j \in 1..Len(s) : s[j] = Step("unlock", m)
        BY <3>3 DEF Under
      <3>6. j \in DOMAIN s
        BY <3>4, <3>5
      <3> QED BY <3>4, <3>5, <3>6 DEF Range
    <2>4. DOMAIN todo = Threads /\ lock \in [Mutexes \cup Range(Channels) -> Threads \cup {Nobody}]
      BY DEF Typed, Locks
    <2> QED BY <2>1, <2>2, <2>3, <2>4 DEF Typed, TypeOK
  <1> QED BY <1>1, TypesKept, MutexesAreHeld, CallsAreInPlace, PollsAreCounted, PTL

(***************************************************************************)
(* Recognizers                                                             *)
(***************************************************************************)
UploadOps == <<"lock", "find", "load", "insert", "unlock">>

(* What is left of the section under the mutex: its last steps. *)
LeftOfUpload(s) ==
    /\ Len(s) <= 5
    /\ \A i \in 1..Len(s) : s[i].op = UploadOps[5 - Len(s) + i]

(* Before it there is the look at the session, after which an upload may   *)
(* also be refused.                                                        *)
Looks(s)        == \A i \in 1..Len(s) : s[i].op = "write"
UploadBefore(s) ==
    \E r \in Seq(Steps) :
        /\ r = Tail(s) /\ LeftOfUpload(r) /\ Len(r) = 5
        /\ s # <<>> /\ Head(s).op = "write"
UploadRest(s)   == Looks(s) \/ UploadBefore(s) \/ LeftOfUpload(s)

UploadInv ==
    \A t \in Threads : KindOf(t) = "upload" => \E s \in {todo[t]} : UploadRest(s)

Constructs(t) == todo[t] # <<>> /\ Next1(t) = "load"
Inserts(t)    == todo[t] # <<>> /\ Next1(t) = "insert"

(* A recognizer that is not in the map has been constructed by the thread  *)
(* that is about to insert it; nobody constructs another one meanwhile.    *)
BuildInv ==
    /\ built \in {0, 1}
    /\ built = 1 <=> known \/ \E t \in Threads : Inserts(t)
    /\ \A t \in Threads : Constructs(t) \/ Inserts(t) => ~known

(* How much can be left of an upload. *)
LEMMA UploadLengths ==
    ASSUME NEW s \in Seq(Steps), s # <<>>, LeftOfUpload(s)
    PROVE  Len(s) \in 1..5 /\ Len(s) \in {1, 2, 3, 4, 5} /\ Head(s) = s[1]
  <1> DEFINE n == Len(s)
  <1>1. n \in Nat /\ n # 0 /\ Head(s) = s[1]
    BY EmptySeq
  <1>2. n <= 5
    BY Zenon DEF LeftOfUpload
  <1> HIDE DEF n
  <1>3. n \in 1..5 /\ n \in {1, 2, 3, 4, 5}
    BY <1>1, <1>2
  <1> QED BY <1>1, <1>3 DEF n

(* How much is left of an upload tells its next step. *)
LEMMA UploadHeads ==
    ASSUME NEW s \in Seq(Steps), s # <<>>, LeftOfUpload(s)
    PROVE  /\ Len(s) \in 1..5
           /\ Head(s).op = "lock"   <=> Len(s) = 5
           /\ Head(s).op = "find"   <=> Len(s) = 4
           /\ Head(s).op = "load"   <=> Len(s) = 3
           /\ Head(s).op = "insert" <=> Len(s) = 2
           /\ Head(s).op = "unlock" <=> Len(s) = 1
  <1>1. Len(s) \in 1..5 /\ Head(s) = s[1]
    BY UploadLengths
  <1>2. s[1].op = UploadOps[6 - Len(s)]
    <2>1. 1 \in 1..Len(s) /\ 5 - Len(s) + 1 = 6 - Len(s)
      BY <1>1
    <2> QED BY <2>1 DEF LeftOfUpload
  <1>3. /\ UploadOps[1] = "lock" /\ UploadOps[2] = "find" /\ UploadOps[3] = "load"
        /\ UploadOps[4] = "insert" /\ UploadOps[5] = "unlock"
    BY DEF UploadOps
  <1>4. /\ Len(s) = 5 => 6 - Len(s) = 1
        /\ Len(s) = 4 => 6 - Len(s) = 2
        /\ Len(s) = 3 => 6 - Len(s) = 3
        /\ Len(s) = 2 => 6 - Len(s) = 4
        /\ Len(s) = 1 => 6 - Len(s) = 5
        /\ Len(s) \in {1, 2, 3, 4, 5}
    <2>1. Len(s) \in {1, 2, 3, 4, 5}
      BY UploadLengths
    <2>2. 6 - 5 = 1 /\ 6 - 4 = 2 /\ 6 - 3 = 3 /\ 6 - 2 = 4 /\ 6 - 1 = 5
      OBVIOUS
    <2> QED BY <2>1, <2>2
  <1>5. /\ Len(s) = 5 => s[1].op = "lock"
        /\ Len(s) = 4 => s[1].op = "find"
        /\ Len(s) = 3 => s[1].op = "load"
        /\ Len(s) = 2 => s[1].op = "insert"
        /\ Len(s) = 1 => s[1].op = "unlock"
    BY <1>2, <1>3, <1>4
  <1> QED BY <1>1, <1>4, <1>5

(* After its next step, or after the three that a recognizer makes         *)
(* superfluous, an upload is still one.                                    *)
LEMMA UploadGoesOn ==
    ASSUME NEW s \in Seq(Steps), s # <<>>, LeftOfUpload(s)
    PROVE  /\ LeftOfUpload(Tail(s)) /\ Len(Tail(s)) = Len(s) - 1
           /\ Len(s) = 4 => LeftOfUpload(SubSeq(s, 4, Len(s))) /\ Len(SubSeq(s, 4, Len(s))) = 1
           /\ LeftOfUpload(<<>>)
  <1>1. Len(s) \in 1..5
    BY UploadLengths
  <1>2. LeftOfUpload(Tail(s)) /\ Len(Tail(s)) = Len(s) - 1
    <2> DEFINE r == Tail(s)
    <2>1. Len(r) = Len(s) - 1 /\ \A i \in 1..Len(r) : r[i] = s[i + 1]
      OBVIOUS
    <2> HIDE DEF r
    <2>2. \A i \in 1..Len(r) : i + 1 \in 1..Len(s) /\ 5 - Len(r) + i = 5 - Len(s) + (i + 1)
      BY <1>1, <2>1
    <2>3. LeftOfUpload(r)
      BY <1>1, <2>1, <2>2 DEF LeftOfUpload
    <2> QED BY <2>1, <2>3 DEF r
  <1>3. ASSUME Len(s) = 4
        PROVE  LeftOfUpload(SubSeq(s, 4, Len(s))) /\ Len(SubSeq(s, 4, Len(s))) = 1
    <2> DEFINE r == SubSeq(s, 4, Len(s))
    <2>1. Len(r) = 1 /\ r[1] = s[4]
      BY <1>3, ShorterTyped
    <2> HIDE DEF r
    <2>2. s[4].op = UploadOps[5]
      <3>1. 4 \in 1..Len(s) /\ 5 - Len(s) + 4 = 5
        BY <1>3
      <3> QED BY <3>1 DEF LeftOfUpload
    <2>3. \A i \in 1..Len(r) : i = 1 /\ 5 - Len(r) + i = 5
      BY <2>1
    <2>4. LeftOfUpload(r)
      BY <2>1, <2>2, <2>3 DEF LeftOfUpload
    <2> QED BY <2>1, <2>4 DEF r
  <1>4. LeftOfUpload(<<>>)
    BY DEF LeftOfUpload
  <1> QED BY <1>2, <1>3, <1>4

(* Only an upload looks for, constructs or inserts a recognizer, and only  *)
(* one does at a time.                                                     *)
LEMMA UploadsAlone ==
    ASSUME Typed, MutexInv, NEW t \in Threads, todo[t] # <<>>,
           Next1(t) \in {"find", "load", "insert"}
    PROVE  /\ KindOf(t) = "upload"
           /\ "mutexForImageRecognizerMap" \in Locks
           /\ lock["mutexForImageRecognizerMap"] = t
  <1>1. PICK h \in {Head(todo[t])}, k \in {KindOf(t)} :
              \/ h.op = "lock" /\ \A m \in Locks : lock[m] # t
              \/ h.op = "unlock"
              \/ h \in Alone /\ \A m \in Locks : lock[m] # t
              \/ \E m \in Locks : lock[m] = t /\ DoneUnder(m, h, k)
    BY WhereItIs
  <1>2. h.op \in {"find", "load", "insert"}
    BY <1>1 DEF Next1
  <1>3. h \notin Alone
    BY <1>2, AloneSteps
  <1>4. PICK m \in Locks : lock[m] = t /\ DoneUnder(m, h, k)
    BY <1>1, <1>2, <1>3
  <1> QED BY <1>1, <1>2, <1>4 DEF DoneUnder, Reads, Writes, Step

(* What a step of the section leaves. *)
LEMMA SectionSteps ==
    ASSUME Typed, MutexInv, NEW t \in Threads, Goes(t), \E s \in {todo[t]} : LeftOfUpload(s)
    PROVE  \E r \in Seq(Steps) :
              /\ todo' = [todo EXCEPT ![t] = r] /\ LeftOfUpload(r)
              /\ r # <<>> /\ Head(r).op = "load" => Next1(t) = "find" /\ ~known
              /\ r # <<>> /\ Head(r).op = "insert" => Next1(t) = "load"
              /\ LoadRecognizer(t) => r # <<>> /\ Head(r).op = "insert"
  <1>1. PICK s \in {todo[t]} : LeftOfUpload(s)
    OBVIOUS
  <1>2. s \in Seq(Steps) /\ s # <<>> /\ s = todo[t] /\ Next1(t) = Head(s).op
    BY <1>1 DEF Typed, Goes, Next1
  <1>3. /\ Len(s) \in 1..5
        /\ Head(s).op = "lock"   <=> Len(s) = 5
        /\ Head(s).op = "find"   <=> Len(s) = 4
        /\ Head(s).op = "load"   <=> Len(s) = 3
        /\ Head(s).op = "insert" <=> Len(s) = 2
        /\ Head(s).op = "unlock" <=> Len(s) = 1
    BY <1>1, <1>2, UploadHeads
  <1>4. /\ LeftOfUpload(Tail(s)) /\ Len(Tail(s)) = Len(s) - 1
        /\ Len(s) = 4 => LeftOfUpload(SubSeq(s, 4, Len(s))) /\ Len(SubSeq(s, 4, Len(s))) = 1
        /\ LeftOfUpload(<<>>)
    BY <1>1, <1>2, UploadGoesOn
  <1>5. Tail(s) \in Seq(Steps) /\ SubSeq(s, 4, Len(s)) \in Seq(Steps) /\ <<>> \in Seq(Steps)
    BY <1>2, ShorterTyped
  <1>6. /\ Tail(s) # <<>> /\ Head(Tail(s)).op = "load" => Head(s).op = "find"
        /\ Tail(s) # <<>> /\ Head(Tail(s)).op = "insert" => Head(s).op = "load"
        /\ Head(s).op = "load" => Tail(s) # <<>> /\ Head(Tail(s)).op = "insert"
    <2> DEFINE r == Tail(s)
               n == Len(s)
    <2>1. r \in Seq(Steps) /\ LeftOfUpload(r) /\ Len(r) = n - 1 /\ n \in 1..5
      BY <1>3, <1>4, <1>5
    <2>2. r = <<>> => Len(r) = 0
      BY EmptySeq
    <2> HIDE DEF r
    <2>3. r # <<>> => (Head(r).op = "load" <=> Len(r) = 3) /\ (Head(r).op = "insert" <=> Len(r) = 2)
      BY <2>1, UploadHeads
    <2>4. (Head(s).op = "find" <=> n = 4) /\ (Head(s).op = "load" <=> n = 3)
      BY <1>3
    <2> HIDE DEF n
    <2>5. /\ r # <<>> /\ Head(r).op = "load" => n = 4
          /\ r # <<>> /\ Head(r).op = "insert" => n = 3
          /\ n = 3 => r # <<>> /\ Head(r).op = "insert"
      BY <2>1, <2>2, <2>3
    <2> QED BY <2>4, <2>5 DEF r
  <1>7. LoadRecognizer(t) => Head(s).op = "load" /\ todo' = [todo EXCEPT ![t] = Tail(s)]
    BY <1>2 DEF LoadRecognizer, AtStep, Continue
  <1>8. todo \in [Threads -> Seq(Steps)]
    BY DEF Typed
  <1>9. ASSUME todo' = [todo EXCEPT ![t] = Tail(s)], Head(s).op = "find" => ~known
        PROVE  \E r \in Seq(Steps) :
              /\ todo' = [todo EXCEPT ![t] = r] /\ LeftOfUpload(r)
              /\ r # <<>> /\ Head(r).op = "load" => Next1(t) = "find" /\ ~known
              /\ r # <<>> /\ Head(r).op = "insert" => Next1(t) = "load"
              /\ LoadRecognizer(t) => r # <<>> /\ Head(r).op = "insert"
    <2> DEFINE r == Tail(s)
    <2>1. /\ r \in Seq(Steps) /\ todo' = [todo EXCEPT ![t] = r] /\ LeftOfUpload(r)
          /\ r # <<>> /\ Head(r).op = "load" => Next1(t) = "find" /\ ~known
          /\ r # <<>> /\ Head(r).op = "insert" => Next1(t) = "load"
          /\ LoadRecognizer(t) => r # <<>> /\ Head(r).op = "insert"
      BY <1>2, <1>4, <1>5, <1>6, <1>7, <1>9
    <2> QED BY <2>1
  <1>10. CASE Continue(t) /\ Next1(t) # "find"
    BY <1>2, <1>9, <1>10 DEF Continue
  <1>11. CASE Lock(t) \/ Unlock(t)
    BY <1>2, <1>9, <1>11 DEF Lock, Unlock, Continue, AtStep
  <1>12. CASE PublishRow(t)
    <2>1. Head(s).op = "publish"
      BY <1>2, <1>12 DEF PublishRow, AtStep
    <2> QED BY <1>3, <2>1
  <1>13. CASE FindRecognizer(t)
    <2>1. Head(s).op = "find" /\ ~LoadRecognizer(t)
      BY <1>2, <1>13 DEF FindRecognizer, AtStep, LoadRecognizer
    <2>2. CASE known
      <3> DEFINE r == SubSeq(s, 4, Len(s))
      <3>1. r \in Seq(Steps) /\ LeftOfUpload(r) /\ Len(r) = 1
        BY <1>3, <1>4, <1>5, <2>1
      <3>2. todo' = [todo EXCEPT ![t] = r]
        BY <1>2, <1>13, <2>2 DEF FindRecognizer
      <3> HIDE DEF r
      <3>3. r # <<>> => Head(r).op # "load" /\ Head(r).op # "insert"
        BY <3>1, UploadHeads
      <3> QED BY <2>1, <3>1, <3>2, <3>3
    <2>3. CASE ~known
      <3>1. todo' = [todo EXCEPT ![t] = Tail(s)]
        BY <1>2, <1>13, <2>3 DEF FindRecognizer
      <3> QED BY <1>9, <2>3, <3>1
    <2> QED BY <2>2, <2>3
  <1>14. CASE Unwind(t) \/ CreateFails(t)
    <2>1. todo' = [todo EXCEPT ![t] = <<>>]
      BY <1>14 DEF Unwind, CreateFails
    <2>2. ~LoadRecognizer(t)
      BY <1>6, <1>7, <1>8, <2>1
    <2> QED BY <1>4, <1>5, <2>1, <2>2
  <1> QED BY <1>10, <1>11, <1>12, <1>13, <1>14 DEF Goes

(* What a step of an upload leaves. *)
LEMMA UploadSteps ==
    ASSUME Typed, MutexInv, UploadInv, NEW t \in Threads, Goes(t), KindOf(t) = "upload"
    PROVE  \E r \in Seq(Steps) :
              /\ todo' = [todo EXCEPT ![t] = r] /\ UploadRest(r)
              /\ r # <<>> /\ Head(r).op = "load" => Next1(t) = "find" /\ ~known
              /\ r # <<>> /\ Head(r).op = "insert" => Next1(t) = "load"
              /\ LoadRecognizer(t) => r # <<>> /\ Head(r).op = "insert"
  <1>1. PICK s \in {todo[t]} : UploadRest(s)
    BY DEF UploadInv
  <1>2. s \in Seq(Steps) /\ s # <<>> /\ s = todo[t] /\ Next1(t) = Head(s).op
    BY <1>1 DEF Typed, Goes, Next1
  <1>3. CASE LeftOfUpload(s)
    BY <1>2, <1>3, SectionSteps DEF UploadRest
  <1>4. CASE ~LeftOfUpload(s)
    <2> DEFINE r == Tail(s)
    <2>1. Head(s).op = "write"
      <3>1. Looks(s) => Head(s).op = "write"
        <4>1. 1 \in 1..Len(s) /\ Head(s) = s[1]
          BY <1>2
        <4> QED BY <4>1 DEF Looks
      <3> QED BY <1>1, <1>4, <3>1 DEF UploadRest, UploadBefore
    <2>2. r \in Seq(Steps) /\ ~LoadRecognizer(t) /\ todo' = [todo EXCEPT ![t] = r]
      <3>1. /\ ~Lock(t) /\ ~Unlock(t) /\ ~PublishRow(t) /\ ~FindRecognizer(t) /\ ~CreateFails(t)
            /\ ~LoadRecognizer(t)
        BY <1>2, <2>1 DEF Lock, Unlock, PublishRow, FindRecognizer, CreateFails, LoadRecognizer, AtStep
      <3>2. Continue(t)
        BY <1>2, <2>1, <3>1 DEF Goes
      <3> QED BY <1>2, <3>1, <3>2, ShorterTyped DEF Continue
    <2>3. ASSUME Looks(s)
          PROVE  Looks(r) /\ (r # <<>> => Head(r).op = "write")
      <3>1. /\ Len(r) \in Nat /\ Len(r) = Len(s) - 1 /\ \A i \in 1..Len(r) : r[i] = s[i + 1]
            /\ r # <<>> => 1 \in 1..Len(r) /\ Head(r) = r[1]
        BY <1>2
      <3> HIDE DEF r
      <3>2. Looks(r)
        BY <1>2, <2>3, <3>1 DEF Looks
      <3> QED BY <3>1, <3>2 DEF Looks
    <2>4. ASSUME UploadBefore(s)
          PROVE  LeftOfUpload(r) /\ (r # <<>> => Head(r).op = "lock")
      <3>1. LeftOfUpload(r) /\ Len(r) = 5
        BY <2>4 DEF UploadBefore
      <3> HIDE DEF r
      <3> QED BY <2>2, <3>1, UploadHeads
    <2>5. UploadRest(r) /\ (r # <<>> => Head(r).op \in {"write", "lock"})
      BY <1>1, <1>4, <2>3, <2>4 DEF UploadRest
    <2> HIDE DEF r
    <2> QED BY <2>2, <2>5
  <1> QED BY <1>3, <1>4

(* An upload has the last steps of its program left. *)
LEMMA UploadsAreOrdered == Spec => []UploadInv
  <1>1. Init => UploadInv
    <2>1. Nothing # "upload"
      BY ConstantsAssumption
    <2> QED BY <2>1 DEF Init, UploadInv, KindOf
  <1>2. Typed /\ ServingInv /\ MutexInv /\ UploadInv /\ [Next]_vars => UploadInv'
    <2> SUFFICES ASSUME Typed, ServingInv, MutexInv, UploadInv, [Next]_vars
                 PROVE  UploadInv'
      OBVIOUS
    <2>0. /\ Loops \subseteq Threads /\ Workers \cap Loops = {} /\ Workers \subseteq Threads
          /\ todo \in [Threads -> Seq(Steps)] /\ asked \in [Clients -> Kinds \cup {Nothing}]
          /\ serving \in [Loops -> Clients \cup {Nobody}] /\ Nobody \notin Clients
          /\ UploadRest(<<>>)
      BY ConstantsAssumption DEF Threads, Typed, UploadRest, Looks
    <2>1. ASSUME \A t \in Threads : todo'[t] = todo[t] /\ (KindOf(t)' = KindOf(t) \/ todo[t] = <<>>)
          PROVE  UploadInv'
      BY <2>0, <2>1 DEF UploadInv
    <2>2. CASE \E c \in Clients, k \in Kinds : Ask(c, k)
      <3>1. \A t \in Threads : KindOf(t)' = KindOf(t)
        BY <2>0, <2>2 DEF Ask, KindOf, ServingInv
      <3> QED BY <2>1, <2>2, <3>1 DEF Ask
    <2>3. CASE \E l \in Loops, c \in Clients : Begin(l, c)
      <3> PICK l \in Loops, c \in Clients : Begin(l, c)
        BY <2>3
      <3>1. PICK p \in Programs(asked[c]) : todo' = [todo EXCEPT ![l] = p]
        BY DEF Begin
      <3>2. KindOf(l)' = asked[c] /\ \A t \in Threads \ {l} : KindOf(t)' = KindOf(t) /\ todo'[t] = todo[t]
        BY <2>0, <3>1 DEF Begin, KindOf
      <3>3. asked[c] = "upload" => UploadRest(p)
        <4> DEFINE w == Writes("sessions_m")
                   b == <<Step("lock", "mutexForImageRecognizerMap"), Step("find", "ImageRecognizerMap"),
                          Step("load", "model"), Step("insert", "ImageRecognizerMap"),
                          Step("unlock", "mutexForImageRecognizerMap")>>
        <4>1. ASSUME asked[c] = "upload"
              PROVE  \/ p = <<>> \/ p = <<w>> \/ p = <<w, Writes("rng_m"), w>> \/ p = <<w>> \o b
          <5>1. p = <<>> \/ p \in GetSession \/ \E q \in UploadProgram : p = KnownSession \o q
            BY <3>1, <4>1 DEF Programs, UserPrograms
          <5>2. \A q \in UploadProgram : q = b
            BY DEF UploadProgram, Guarded
          <5> QED BY <5>1, <5>2 DEF GetSession, KnownSession, NewSession
        <4>2. w.op = "write" /\ Writes("rng_m").op = "write" /\ w \in Steps
          BY DEF Writes, Step, Steps, Objects
        <4>3. b \in Seq(Steps) /\ LeftOfUpload(b) /\ Len(b) = 5
          <5>1. /\ Len(b) = 5 /\ b[1].op = "lock" /\ b[2].op = "find" /\ b[3].op = "load"
                /\ b[4].op = "insert" /\ b[5].op = "unlock"
            BY DEF Step
          <5>2. \A i \in 1..5 : i \in {1, 2, 3, 4, 5} /\ 5 - 5 + i = i
            OBVIOUS
          <5>3. \A i \in 1..5 : b[i].op = UploadOps[i]
            BY <5>1, <5>2 DEF UploadOps
          <5>4. b \in Seq(Steps)
            <6>1. "mutexForImageRecognizerMap" \in Locks
              BY ConstantsAssumption DEF Locks
            <6>2. \A x \in {Step("lock", "mutexForImageRecognizerMap"), Step("find", "ImageRecognizerMap"),
                             Step("load", "model"), Step("insert", "ImageRecognizerMap"),
                             Step("unlock", "mutexForImageRecognizerMap")} : x \in Steps
              BY <6>1 DEF Step, Steps, Objects
            <6> QED BY <6>2
          <5> HIDE DEF b
          <5> QED BY <5>1, <5>2, <5>3, <5>4 DEF LeftOfUpload
        <4> HIDE DEF b, w
        <4>4. Looks(<<>>) /\ Looks(<<w>>) /\ Looks(<<w, Writes("rng_m"), w>>)
          BY <4>2 DEF Looks
        <4>5. UploadBefore(<<w>> \o b)
          <5> DEFINE a == <<w>>
                     x == a \o b
                     y == Tail(x)
          <5>1. a \in Seq(Steps) /\ Len(a) = 1 /\ a[1] = w /\ Len(b) = 5 /\ b \in Seq(Steps)
            BY <4>2, <4>3
          <5> HIDE DEF a
          <5>2. /\ x \in Seq(Steps) /\ Len(x) = 6 /\ x[1] = w
                /\ \A i \in 1..5 : x[i + 1] = b[i]
            <6>4. /\ x \in Seq(Steps) /\ Len(x) = Len(a) + Len(b)
                  /\ \A i \in 1..(Len(a) + Len(b)) :
                        x[i] = IF i <= Len(a) THEN a[i] ELSE b[i - Len(a)]
              BY <5>1, ConcatProperties, Zenon
            <6>1. /\ x \in Seq(Steps) /\ Len(x) = 1 + 5
                  /\ \A i \in 1..(1 + 5) : x[i] = IF i <= 1 THEN a[i] ELSE b[i - 1]
              <7> HIDE DEF x
              <7> QED BY <5>1, <6>4
            <6> HIDE DEF x
            <6>2. \A i \in 1..5 : i + 1 \in 1..(1 + 5) /\ ~(i + 1 <= 1) /\ (i + 1) - 1 = i
              OBVIOUS
            <6> QED BY <5>1, <6>1, <6>2
          <5> HIDE DEF x
          <5>3. x # <<>> /\ Head(x) = w /\ y \in Seq(Steps) /\ Len(y) = 5
                /\ \A i \in 1..5 : y[i] = x[i + 1]
            <6>1. x # <<>> /\ Head(x) = w
              <7>1. x # <<>>
                <8>1. x \in Seq(Steps) /\ Len(x) # 0
                  BY <5>2
                <8> QED BY ONLY <8>1, EmptySeq
              <7> QED BY ONLY <5>2, <7>1
            <6>2. /\ y \in Seq(Steps) /\ Len(y) = Len(x) - 1
                  /\ \A i \in 1..Len(y) : y[i] = x[i + 1]
              BY <5>2, <6>1, HeadTailProperties
            <6> HIDE DEF y
            <6>3. Len(y) = 5
              BY <5>2, <6>2
            <6> QED BY <6>1, <6>2, <6>3
          <5> HIDE DEF y
          <5>4. y = b
            <6>1. /\ y \in Seq(Steps) /\ b \in Seq(Steps) /\ Len(y) = Len(b)
                  /\ \A i \in 1..Len(y) : y[i] = b[i]
              BY <5>1, <5>2, <5>3
            <6> QED BY ONLY <6>1, SeqEqual
          <5>5. UploadBefore(x)
            BY <4>2, <4>3, <5>3, <5>4 DEF UploadBefore, y
          <5> QED BY <5>5 DEF x, a
        <4> QED BY <4>1, <4>4, <4>5 DEF UploadRest
      <3>4. todo'[l] = p
        BY <2>0, <3>1
      <3> QED BY <3>2, <3>3, <3>4 DEF UploadInv
    <2>4. CASE \E l \in Loops : AnswerClient(l)
      <3> PICK l \in Loops : AnswerClient(l)
        BY <2>4
      <3>1. /\ todo' = todo /\ todo[l] = <<>> /\ serving[l] # Nobody
            /\ asked' = [asked EXCEPT ![serving[l]] = Nothing]
            /\ serving' = [serving EXCEPT ![l] = Nobody]
        BY DEF AnswerClient
      <3>2. \A u \in Loops \ {l} : serving[u] # Nobody => serving[u] # serving[l]
        BY <3>1 DEF ServingInv
      <3>3. \A t \in Threads : t # l => KindOf(t)' = KindOf(t)
        BY <2>0, <3>1, <3>2 DEF KindOf
      <3> QED BY <2>1, <3>1, <3>3
    <2>5. CASE \/ \E l \in Loops : Hang(l)
               \/ \E t \in Threads : GetConnection(t) \/ Granted(t)
               \/ Rests
      BY <2>1, <2>5 DEF Hang, GetConnection, Granted, Rests, KindOf, loopVars
    <2>6. CASE \E l \in Loops : Polled(l)
      <3> PICK l \in Loops : Polled(l)
        BY <2>6
      <3>1. todo[l] # <<>> /\ Head(todo[l]).op = "poll" /\ UNCHANGED loopVars
        BY DEF Polled, Poll, AtStep
      <3>2. \A t \in Threads : KindOf(t)' = KindOf(t) /\ (t # l => todo'[t] = todo[t])
        BY <2>0, <3>1 DEF Polled, Poll, KindOf, loopVars
      <3>3. KindOf(l) # "upload"
        <4> SUFFICES ASSUME KindOf(l) = "upload"
                     PROVE  FALSE
          OBVIOUS
        <4>1. PICK s \in {todo[l]} : UploadRest(s)
          BY <2>0 DEF UploadInv
        <4>2. s \in Seq(Steps) /\ s # <<>> /\ Head(s).op = "poll"
          BY <2>0, <3>1, <4>1
        <4>3. CASE LeftOfUpload(s)
          <5>1. Len(s) \in {1, 2, 3, 4, 5}
            BY <4>2, <4>3, UploadLengths
          <5>2. Head(s).op \in {"lock", "find", "load", "insert", "unlock"}
            BY <4>2, <4>3, <5>1, UploadHeads
          <5> QED BY <4>2, <5>2
        <4>4. CASE Looks(s)
          <5>1. 1 \in 1..Len(s) /\ Head(s) = s[1]
            BY <4>2
          <5> QED BY <4>2, <4>4, <5>1 DEF Looks
        <4>5. ~UploadBefore(s)
          BY <4>2 DEF UploadBefore
        <4> QED BY <4>1, <4>3, <4>4, <4>5 DEF UploadRest
      <3> QED BY <3>2, <3>3 DEF UploadInv
    <2>7. CASE \E w \in Workers : WorkerTakes(w)
      <3>0. Nothing # "upload" /\ \A w \in Workers : w \notin Loops
        BY <2>0, ConstantsAssumption
      <3>1. \A w \in Workers : KindOf(w)' # "upload"
        BY <3>0 DEF KindOf
      <3>2. \A t \in Threads : KindOf(t)' = KindOf(t) /\ (t \notin Workers => todo'[t] = todo[t])
        BY <2>0, <2>7 DEF WorkerTakes, KindOf, loopVars
      <3> QED BY <3>1, <3>2 DEF UploadInv
    <2>8. CASE \E t \in Threads : Goes(t)
      <3> PICK t \in Threads : Goes(t)
        BY <2>8
      <3>1. PICK r \in Seq(Steps) : todo' = [todo EXCEPT ![t] = r]
        BY GoesAlone
      <3>2. \A u \in Threads : KindOf(u)' = KindOf(u) /\ (u # t => todo'[u] = todo[u])
        BY <2>0, <3>1 DEF Goes, KindOf, loopVars
      <3>3. KindOf(t) = "upload" => UploadRest(r)
        <4> SUFFICES ASSUME KindOf(t) = "upload"
                     PROVE  UploadRest(r)
          OBVIOUS
        <4>1. PICK q \in Seq(Steps) :
                /\ todo' = [todo EXCEPT ![t] = q] /\ UploadRest(q)
                /\ q # <<>> /\ Head(q).op = "load" => Next1(t) = "find" /\ ~known
                /\ q # <<>> /\ Head(q).op = "insert" => Next1(t) = "load"
                /\ LoadRecognizer(t) => q # <<>> /\ Head(q).op = "insert"
          BY UploadSteps
        <4>2. q = r
          BY <2>0, <3>1, <4>1
        <4> QED BY <4>1, <4>2
      <3>4. todo'[t] = r
        BY <2>0, <3>1
      <3> QED BY <3>2, <3>3, <3>4 DEF UploadInv
    <2>9. \/ \E c \in Clients, k \in Kinds : Ask(c, k)
          \/ \E l \in Loops, c \in Clients : Begin(l, c)
          \/ \E l \in Loops : AnswerClient(l) \/ Hang(l) \/ Polled(l)
          \/ \E t \in Threads : GetConnection(t) \/ Granted(t)
          \/ \E w \in Workers : WorkerTakes(w)
          \/ \E t \in Threads : Goes(t)
          \/ Rests
      BY StepsOfThreads
    <2> QED BY <2>2, <2>3, <2>4, <2>5, <2>6, <2>7, <2>8, <2>9
  <1> QED BY <1>1, <1>2, TypesKept, ClientsAreServed, MutexesAreHeld, PTL DEF Spec

(* A recognizer is in the map or with the one thread that is about to      *)
(* insert it.                                                              *)
LEMMA RecognizersAreInserted == Spec => []BuildInv
  <1>1. Init => BuildInv
    BY DEF Init, BuildInv, Constructs, Inserts
  <1>2. Typed /\ ServingInv /\ MutexInv /\ UploadInv /\ BuildInv /\ [Next]_vars => BuildInv'
    <2> SUFFICES ASSUME Typed, ServingInv, MutexInv, UploadInv, BuildInv, [Next]_vars
                 PROVE  BuildInv'
      OBVIOUS
    <2>0. /\ Loops \subseteq Threads /\ Workers \subseteq Threads
          /\ todo \in [Threads -> Seq(Steps)] /\ known \in BOOLEAN
      BY DEF Threads, Typed
    <2>1. ASSUME UNCHANGED imageVars,
                 \A t \in Threads : (Constructs(t)' <=> Constructs(t)) /\ (Inserts(t)' <=> Inserts(t))
          PROVE  BuildInv'
      BY <2>1 DEF BuildInv, imageVars
    <2>2. ASSUME UNCHANGED <<todo, imageVars>>
          PROVE  BuildInv'
      BY <2>1, <2>2 DEF Constructs, Inserts, Next1
    <2>3. ASSUME NEW t \in Threads, NEW p, todo' = [todo EXCEPT ![t] = p], UNCHANGED imageVars,
                 ~Constructs(t), ~Inserts(t), p # <<>> => Head(p).op \notin {"load", "insert"}
          PROVE  BuildInv'
      <3>1. \A u \in Threads : todo'[u] = IF u = t THEN p ELSE todo[u]
        BY <2>0, <2>3
      <3> QED BY <2>1, <2>3, <3>1 DEF Constructs, Inserts, Next1
    <2>4. CASE \/ \E c \in Clients, k \in Kinds : Ask(c, k)
               \/ \E l \in Loops : AnswerClient(l) \/ Hang(l)
               \/ \E t \in Threads : GetConnection(t) \/ Granted(t)
               \/ Rests
      BY <2>2, <2>4 DEF Ask, AnswerClient, Hang, GetConnection, Granted, Rests
    <2>5. CASE \E l \in Loops, c \in Clients : Begin(l, c)
      <3> PICK l \in Loops, c \in Clients : Begin(l, c)
        BY <2>5
      <3>1. /\ todo[l] = <<>> /\ UNCHANGED imageVars
            /\ asked[c] \in Kinds /\ serving' = [serving EXCEPT ![l] = c] /\ asked' = asked
        BY DEF Begin, ServingInv, Typed
      <3>2. PICK p \in Programs(asked[c]) : todo' = [todo EXCEPT ![l] = p]
        BY DEF Begin
      <3>3. ASSUME p # <<>>
            PROVE  Head(p).op \notin {"load", "insert"}
        <4>1. PICK k \in Kinds : k = asked[c]
          BY <3>1
        <4>2. Tidy(p, k) /\ Complete(p) /\ p \in Seq(Steps)
          BY <3>2, <4>1, ProgramsTidy DEF Tidy
        <4>3. TidyAt(p, 1, k) /\ p[1] = Head(p)
          BY <3>3, <4>2, AfterHead
        <4>4. \A m \in Locks : ~Under(p, 1, m)
          BY <4>2 DEF Complete
        <4>5. p[1].op \in {"lock", "unlock"} \/ p[1] \in Alone
          BY <4>3, <4>4 DEF TidyAt
        <4> QED BY <4>3, <4>5, AloneSteps
      <3> QED BY <2>0, <2>3, <3>1, <3>2, <3>3 DEF Constructs, Inserts
    <2>6. CASE \E l \in Loops : Polled(l)
      <3> PICK l \in Loops : Polled(l)
        BY <2>6
      <3>1. todo[l] # <<>> /\ Next1(l) = "poll" /\ UNCHANGED imageVars
        BY DEF Polled, Poll, AtStep, Next1
      <3>2. PICK s \in Seq(Steps), k \in {KindOf(l)} :
               s = todo[l] /\ s # <<>> /\ s[1] = Head(s) /\ Tail(s) \in Seq(Steps) /\ TidyAt(s, 1, k)
        BY <2>0, <3>1, AtAStep
      <3>3. PICK p \in {s, Tail(s)} : todo' = [todo EXCEPT ![l] = p]
        BY <3>2 DEF Polled, Poll
      <3>4. Tail(s) = <<>>
        <4>1. 1 = Len(s)
          BY <3>1, <3>2 DEF TidyAt, Next1
        <4>2. Len(Tail(s)) = 0
          BY <3>2, <4>1
        <4> QED BY <3>2, <4>2, EmptySeq
      <3>5. p # <<>> => Head(p).op \notin {"load", "insert"}
        BY <3>1, <3>2, <3>3, <3>4 DEF Next1
      <3> QED BY <2>0, <2>3, <3>1, <3>3, <3>5 DEF Constructs, Inserts
    <2>7. CASE \E w \in Workers : WorkerTakes(w)
      <3> PICK w \in Workers : WorkerTakes(w)
        BY <2>7
      <3> DEFINE p == WorkerProgram
      <3>1. todo[w] = <<>> /\ todo' = [todo EXCEPT ![w] = p] /\ UNCHANGED imageVars
        BY DEF WorkerTakes
      <3>2. Head(p).op = "statement"
        BY DEF WorkerProgram, Statement, Step
      <3> HIDE DEF p
      <3> QED BY <2>0, <2>3, <3>1, <3>2 DEF Constructs, Inserts
    <2>8. ASSUME NEW t \in Threads, Goes(t)
          PROVE  BuildInv'
      <3>1. PICK r \in Seq(Steps) : todo' = [todo EXCEPT ![t] = r]
        BY <2>8, GoesAlone
      <3>2. \A u \in Threads : todo'[u] = IF u = t THEN r ELSE todo[u]
        BY <2>0, <3>1
      <3>3. /\ Constructs(t)' <=> (r # <<>> /\ Head(r).op = "load")
            /\ Inserts(t)' <=> (r # <<>> /\ Head(r).op = "insert")
            /\ \A u \in Threads \ {t} : (Constructs(u)' <=> Constructs(u)) /\ (Inserts(u)' <=> Inserts(u))
        BY <3>2 DEF Constructs, Inserts, Next1
      <3>4. todo[t] # <<>>
        BY <2>8 DEF Goes
      <3>5. /\ r # <<>> /\ Head(r).op = "load" => Next1(t) = "find" /\ ~known
            /\ r # <<>> /\ Head(r).op = "insert" => Next1(t) = "load"
            /\ LoadRecognizer(t) => r # <<>> /\ Head(r).op = "insert"
        <4>1. CASE KindOf(t) = "upload"
          <5>1. PICK q \in Seq(Steps) :
                  /\ todo' = [todo EXCEPT ![t] = q] /\ UploadRest(q)
                  /\ q # <<>> /\ Head(q).op = "load" => Next1(t) = "find" /\ ~known
                  /\ q # <<>> /\ Head(q).op = "insert" => Next1(t) = "load"
                  /\ LoadRecognizer(t) => q # <<>> /\ Head(q).op = "insert"
            BY <2>8, <4>1, UploadSteps
          <5>2. q = r
            BY <2>0, <3>1, <5>1
          <5> QED BY <5>1, <5>2
        <4>2. CASE KindOf(t) # "upload"
          <5>1. Next1(t) \notin {"find", "load", "insert"}
            BY <3>4, <4>2, UploadsAlone
          <5>2. ~LoadRecognizer(t)
            BY <5>1 DEF LoadRecognizer, AtStep, Next1
          <5>3. KindOf(t)' = KindOf(t) /\ MutexInv'
            BY <2>8, GoesTidily DEF Goes, KindOf, loopVars
          <5>4. PICK s \in {todo'[t]}, k \in {KindOf(t)'} :
                  Tidy(s, k) /\ \A m \in Locks : lock'[m] = t <=> Under(s, 1, m)
            BY <5>3 DEF MutexInv
          <5>5. s = r /\ k # "upload"
            BY <3>2, <4>2, <5>3, <5>4
          <5>6. ASSUME r # <<>>
                PROVE  Head(r).op \notin {"load", "insert"}
            <6>1. TidyAt(r, 1, k) /\ r[1] = Head(r)
              BY <5>4, <5>5, <5>6, AfterHead
            <6>2. \A m \in Locks : DoneUnder(m, r[1], k) => r[1].op \in {"read", "write", "send"}
              BY <5>5 DEF DoneUnder, Reads, Writes, Step
            <6>3. r[1] \in Alone => r[1].op \notin {"load", "insert"}
              BY AloneSteps
            <6> QED BY <6>1, <6>2, <6>3 DEF TidyAt
          <5> QED BY <5>2, <5>6
        <4> QED BY <4>1, <4>2
      <3>6. ASSUME NEW u \in Threads, u # t, Next1(t) \in {"find", "load", "insert"}
            PROVE  ~Constructs(u) /\ ~Inserts(u)
        BY <3>4, <3>6, UploadsAlone DEF Constructs, Inserts
      <3>7. \/ UNCHANGED imageVars /\ Next1(t) \notin {"load", "insert"}
            \/ UNCHANGED imageVars /\ Unwind(t) /\ Next1(t) # "insert"
            \/ LoadRecognizer(t) \/ InsertRecognizer(t)
        BY <2>8 DEF Goes
      <3>8. CASE UNCHANGED imageVars /\ Next1(t) \notin {"load", "insert"}
        <4>1. ~Constructs(t) /\ ~Inserts(t) /\ ~Inserts(t)'
          BY <3>3, <3>5, <3>8 DEF Constructs, Inserts
        <4>2. Constructs(t)' => ~known
          BY <3>3, <3>5
        <4> QED BY <3>3, <3>8, <4>1, <4>2 DEF BuildInv, imageVars
      <3>9. CASE UNCHANGED imageVars /\ Unwind(t) /\ Next1(t) # "insert"
        <4>1. r = <<>>
          BY <2>0, <3>1, <3>9 DEF Unwind
        <4>2. ~Inserts(t) /\ ~Inserts(t)' /\ ~Constructs(t)'
          BY <3>3, <3>9, <4>1 DEF Inserts
        <4> QED BY <3>3, <3>9, <4>2 DEF BuildInv, imageVars
      <3>10. CASE LoadRecognizer(t)
        <4>1. Next1(t) = "load" /\ known' = known /\ built' = built + 1 /\ Constructs(t) /\ ~Inserts(t)
          BY <3>4, <3>10 DEF LoadRecognizer, AtStep, Next1, Constructs, Inserts
        <4>2. ~known /\ \A u \in Threads : ~Inserts(u)
          BY <3>6, <4>1 DEF BuildInv
        <4>3. built = 0
          BY <4>2 DEF BuildInv
        <4>4. Inserts(t)'
          BY <3>3, <3>5, <3>10
        <4> QED BY <4>1, <4>2, <4>3, <4>4 DEF BuildInv
      <3>11. CASE InsertRecognizer(t)
        <4>1. Next1(t) = "insert" /\ known' = TRUE /\ built' = built /\ Inserts(t)
          BY <3>4, <3>11 DEF InsertRecognizer, AtStep, Next1, Inserts
        <4>2. built = 1
          BY <4>1 DEF BuildInv
        <4>3. \A u \in Threads : ~Constructs(u)' /\ ~Inserts(u)'
          BY <3>3, <3>5, <3>6, <4>1
        <4> QED BY <4>1, <4>2, <4>3 DEF BuildInv
      <3> QED BY <3>7, <3>8, <3>9, <3>10, <3>11
    <2>9. \/ \E c \in Clients, k \in Kinds : Ask(c, k)
          \/ \E l \in Loops, c \in Clients : Begin(l, c)
          \/ \E l \in Loops : AnswerClient(l) \/ Hang(l) \/ Polled(l)
          \/ \E t \in Threads : GetConnection(t) \/ Granted(t)
          \/ \E w \in Workers : WorkerTakes(w)
          \/ \E t \in Threads : Goes(t)
          \/ Rests
      BY StepsOfThreads
    <2> QED BY <2>4, <2>5, <2>6, <2>7, <2>8, <2>9
  <1> QED BY <1>1, <1>2, TypesKept, ClientsAreServed, MutexesAreHeld, UploadsAreOrdered, PTL DEF Spec

(* OneRecognizer: a user's recognizer is constructed once, although        *)
(* several requests may find none at the same time and a construction may  *)
(* fail (AIUploadSendHandler holds the mutex of the map across the load).  *)
THEOREM RecognizersAreBuiltOnce == Spec => []OneRecognizer
  <1>1. BuildInv => OneRecognizer
    BY DEF BuildInv, OneRecognizer
  <1> QED BY <1>1, RecognizersAreInserted, PTL
=============================================================================
