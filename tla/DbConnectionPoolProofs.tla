----------------------- MODULE DbConnectionPoolProofs -----------------------
(***************************************************************************)
(* Theorems about DbConnectionPool for every set of threads, every set of  *)
(* connections and every bound on the losses.                              *)
(***************************************************************************)
EXTENDS DbConnectionPool, FiniteSetTheorems, SequenceTheorems, TLAPS

(* Type correctness: no null pointer is ever queued, and a thread has a    *)
(* connection exactly between pop() and push().                            *)
THEOREM TypeCorrect == Spec => []TypeOK
<1>1. Init => TypeOK
  BY DEF Init, TypeOK, PC, Holding
<1>2. TypeOK /\ [Next]_vars => TypeOK'
  <2> SUFFICES ASSUME TypeOK, [Next]_vars PROVE TypeOK'
    OBVIOUS
  <2> USE ConstantsAssumption DEF TypeOK, threadVars, checkerVars, worldVars
  <2>1. CASE InitPool
    <3>1. Cardinality(Conns) \in Nat
      BY FS_CardinalityType
    <3>2. connections' \in Seq(Conns)
      <4>1. PICK s \in [1..Cardinality(Conns) -> Conns] : connections' = s
        BY <2>1 DEF InitPool
      <4> QED
        BY SMTT(30), <3>1, <4>1, SeqDef
    <3> QED
      BY <2>1, <3>2 DEF InitPool
  <2>2. CASE InitThrows
    BY <2>2 DEF InitThrows
  <2>3. CASE Aborted
    BY <2>3 DEF Aborted, vars
  <2>4. ASSUME NEW t \in Threads, ThreadStep(t) PROVE TypeOK'
    <3>1. CASE Request(t)
      BY <3>1 DEF Request, PC, Asking, Holding
    <3>2. CASE Refuse(t)
      BY <3>2 DEF Refuse, PC, Asking, Holding
    <3>3. CASE Wait(t)
      BY <3>3 DEF Wait, PC, Asking, Holding
    <3>4. CASE Take(t)
      <4>1. Head(connections) \in Conns /\ Tail(connections) \in Seq(Conns)
        BY <3>4 DEF Take
      <4> QED
        BY <3>4, <4>1 DEF Take, PC, Asking, Holding
    <3>5. CASE SpuriousWakeup(t)
      BY <3>5 DEF SpuriousWakeup, PC, Asking, Holding
    <3>6. CASE Ping(t)
      BY <3>6 DEF Ping, PC, Asking, Holding
    <3>7. CASE Reconnect(t)
      BY <3>7 DEF Reconnect, PC, Asking, Holding
    <3>8. CASE Execute(t)
      BY <3>8 DEF Execute, PC, Asking, Holding
    <3>9. CASE Cleanup(t)
      BY <3>9 DEF Cleanup, PC, Asking, Holding
    <3>10. CASE CleanupRelocks(t)
      BY <3>10 DEF CleanupRelocks, PC, Asking, Holding
    <3>11. ASSUME PutBack(t), pc[t] \in {"returning", "failing"} PROVE TypeOK'
      <4>1. held[t] \in Conns
        BY <3>11 DEF Holding
      <4>2. connections' \in Seq(Conns)
        BY <3>11, <4>1 DEF PutBack
      <4>3. /\ pc' \in [Threads -> PC]
            /\ \A u \in Threads : held'[u] = NoConn <=> pc'[u] \notin Holding
        BY <3>11 DEF PutBack, NotifyOne, Waiting, PC, Asking, Holding
      <4>4. held' \in [Threads -> Conns \cup {NoConn}]
        BY <3>11 DEF PutBack
      <4> QED
        BY <3>11, <4>2, <4>3, <4>4 DEF PutBack
    <3>12. CASE Return(t)
      BY <3>11, <3>12 DEF Return
    <3>13. CASE Fail(t)
      BY <3>11, <3>13 DEF Fail
    <3> QED
      BY <2>4, <3>1, <3>2, <3>3, <3>4, <3>5, <3>6, <3>7, <3>8, <3>9, <3>10,
         <3>12, <3>13 DEF ThreadStep
  <2>5. CASE CheckerStep
    <3>1. CASE CheckerDoze
      BY <3>1 DEF CheckerDoze
    <3>2. CASE CheckerWake
      BY <3>2 DEF CheckerWake
    <3>3. CASE CheckerCopy
      BY <3>3 DEF CheckerCopy
    <3>4. CASE CheckerPing
      <4>1. Head(temp) \in Conns /\ Tail(temp) \in Seq(Conns)
        BY <3>4 DEF CheckerPing
      <4> QED
        BY <3>4, <4>1 DEF CheckerPing
    <3>5. CASE CheckerReconnect
      BY <3>5 DEF CheckerReconnect
    <3>6. CASE CheckerRest
      BY <3>6 DEF CheckerRest
    <3> QED
      BY <2>5, <3>1, <3>2, <3>3, <3>4, <3>5, <3>6 DEF CheckerStep
  <2>6. CASE World
    <3>1. ASSUME NEW c \in Conns, LinkLost(c) PROVE TypeOK'
      BY <3>1 DEF LinkLost
    <3>2. CASE DatabaseDown
      <4>1. up' \in [Conns -> BOOLEAN]
        BY <3>2, Zenon DEF DatabaseDown
      <4>2. dbUp' \in BOOLEAN
        BY <3>2, Zenon DEF DatabaseDown
      <4>3. outages' \in Nat
        BY <3>2 DEF DatabaseDown
      <4>4. UNCHANGED <<phase, connections, pc, held, connMutex, checker,
                        temp, checked, losses>>
        BY <3>2 DEF DatabaseDown
      <4> QED
        BY <4>1, <4>2, <4>3, <4>4
    <3>3. CASE DatabaseUp
      BY <3>3 DEF DatabaseUp
    <3> QED
      BY <2>6, <3>1, <3>2, <3>3 DEF World
  <2>7. CASE UNCHANGED vars
    BY <2>7 DEF vars
  <2> QED
    BY <2>1, <2>2, <2>3, <2>4, <2>5, <2>6, <2>7 DEF Next
<1> QED
  BY <1>1, <1>2, PTL DEF Spec

(***************************************************************************)
(* Conservation                                                            *)
(***************************************************************************)
(* Only init(), pop() and push() touch the queue and what threads hold. *)
LEMMA QueueSteps ==
    ASSUME TypeOK, [Next]_vars
    PROVE  \/ InitPool
           \/ \E t \in Threads : Take(t)
           \/ \E t \in Threads : pc[t] \in {"returning", "failing"} /\ PutBack(t)
           \/ /\ UNCHANGED <<connections, held>>
              /\ phase' = phase \/ (phase = "new" /\ phase' = "aborted")
<1> USE DEF threadVars, checkerVars, worldVars
<1>1. ASSUME NEW t \in Threads, ThreadStep(t)
      PROVE  \/ Take(t)
             \/ pc[t] \in {"returning", "failing"} /\ PutBack(t)
             \/ UNCHANGED <<connections, held, phase>>
  BY <1>1 DEF ThreadStep, Request, Refuse, Wait, SpuriousWakeup, Ping, Reconnect,
              Execute, Cleanup, CleanupRelocks, Return, Fail
<1>2. CASE CheckerStep
  BY <1>2 DEF CheckerStep, CheckerDoze, CheckerWake, CheckerCopy, CheckerPing,
              CheckerReconnect, CheckerRest
<1>3. CASE World
  BY <1>3 DEF World, LinkLost, DatabaseDown, DatabaseUp
<1>4. CASE InitThrows \/ Aborted \/ UNCHANGED vars
  BY <1>4 DEF InitThrows, Aborted, vars
<1> QED
  BY <1>1, <1>2, <1>3, <1>4 DEF Next

(* A pop moves one connection from the pool to the thread that took it.    *)
LEMMA TakeConserves ==
    ASSUME TypeOK, Conservation, NEW t \in Threads, Take(t)
    PROVE  Conservation'
<1> USE ConstantsAssumption DEF TypeOK, Conservation
<1> DEFINE n == Len(connections)
<1>1. /\ n \in Nat \ {0}
      /\ Len(connections') = n - 1
      /\ \A i \in 1..(n - 1) : connections'[i] = connections[i + 1]
      /\ held' = [held EXCEPT ![t] = connections[1]]
      /\ phase' = phase
  BY DEF Take
<1>2. held[t] = NoConn /\ connections[1] \in Conns
  <2>1. held[t] = NoConn
    BY DEF Take, Holding
  <2>2. connections[1] \in Conns
    BY <1>1, ElementOfSeq
  <2> QED
    BY <2>1, <2>2
<1> HIDE DEF n
<1>3. NoDuplicate'
  BY <1>1 DEF NoDuplicate, n
<1>4. NotShared'
  BY <1>1, <1>2 DEF NotShared, HeldNotIdle, n
<1>5. HeldNotIdle'
  <2> SUFFICES ASSUME NEW u \in Threads, NEW i \in 1..(n - 1)
               PROVE  connections'[i] # held'[u]
    BY <1>1 DEF HeldNotIdle
  <2>1. connections'[i] = connections[i + 1] /\ i + 1 \in 1..n /\ i + 1 # 1
    BY <1>1
  <2>2. CASE u = t
    BY <1>1, <2>1, <2>2 DEF NoDuplicate, n
  <2>3. CASE u # t
    BY <1>1, <2>1, <2>3 DEF HeldNotIdle, n
  <2> QED
    BY <2>2, <2>3
<1>6. NothingLost'
  <2> SUFFICES ASSUME phase = "ready", NEW c \in Conns, c \notin Idle'
               PROVE  \E u \in Threads : held'[u] = c
    BY <1>1 DEF NothingLost
  <2>1. CASE \E u \in Threads : held[u] = c
    BY <1>1, <1>2, <2>1, ConstantsAssumption
  <2>2. CASE c \in Idle
    <3>1. PICK i \in 1..n : connections[i] = c
      BY <2>2 DEF Idle, n
    <3>2. i = 1
      <4> SUFFICES ASSUME i # 1 PROVE FALSE
        OBVIOUS
      <4>1. i - 1 \in 1..(n - 1) /\ connections'[i - 1] = c
        BY <1>1, <3>1
      <4> QED
        BY <1>1, <4>1 DEF Idle
    <3> QED
      BY <1>1, <3>1, <3>2
  <2> QED
    BY <2>1, <2>2 DEF NothingLost
<1>7. EmptyUntilReady'
  BY <1>1 DEF EmptyUntilReady, Take
<1> QED
  BY <1>3, <1>4, <1>5, <1>6, <1>7

(* A push moves the connection of the thread that had it into the pool.    *)
LEMMA PutBackConserves ==
    ASSUME TypeOK, Conservation, NEW t \in Threads,
           pc[t] \in {"returning", "failing"}, PutBack(t)
    PROVE  Conservation'
<1> USE ConstantsAssumption DEF TypeOK, Conservation
<1> DEFINE n == Len(connections)
<1>1. held[t] \in Conns
  BY DEF Holding
<1>2. /\ n \in Nat
      /\ Len(connections') = n + 1
      /\ \A i \in 1..n : connections'[i] = connections[i]
      /\ connections'[n + 1] = held[t]
      /\ held' = [held EXCEPT ![t] = NoConn]
      /\ phase' = phase
  BY <1>1 DEF PutBack
<1> HIDE DEF n
<1>3. NoDuplicate'
  BY SMTT(30), <1>2 DEF NoDuplicate, HeldNotIdle, n
<1>4. NotShared'
  BY <1>2 DEF NotShared
<1>5. HeldNotIdle'
  <2> SUFFICES ASSUME NEW u \in Threads, NEW i \in 1..(n + 1)
               PROVE  connections'[i] # held'[u]
    BY <1>2 DEF HeldNotIdle
  <2>1. \A j \in 1..n : connections[j] \in Conns
    BY DEF n
  <2>2. connections'[i] \in Conns
    BY <1>1, <1>2, <2>1
  <2>3. CASE u = t
    BY <1>2, <2>2, <2>3
  <2>4. CASE u # t
    BY <1>1, <1>2, <2>4 DEF HeldNotIdle, NotShared, n
  <2> QED
    BY <2>3, <2>4
<1>6. NothingLost'
  <2> SUFFICES ASSUME phase = "ready", NEW c \in Conns,
                      \A u \in Threads : held'[u] # c
               PROVE  c \in Idle'
    BY <1>2 DEF NothingLost
  <2>1. CASE c = held[t]
    BY <1>2, <2>1 DEF Idle
  <2>2. CASE c # held[t]
    <3>1. \A u \in Threads : held[u] # c
      BY <1>2, <2>2
    <3>2. PICK i \in 1..n : connections[i] = c
      BY <3>1 DEF NothingLost, Idle, n
    <3> QED
      BY <1>2, <3>2 DEF Idle
  <2> QED
    BY <2>1, <2>2
<1>7. EmptyUntilReady'
  BY <1>1, <1>2 DEF EmptyUntilReady
<1> QED
  BY <1>3, <1>4, <1>5, <1>6, <1>7

(* Every connection is queued once or held by one thread, along every path *)
(* of getConnection() and of the deleter.                                  *)
THEOREM ConnectionsConserved == Spec => []Conservation
<1>1. Init => Conservation
  BY DEF Init, Conservation, NoDuplicate, NotShared, HeldNotIdle, NothingLost,
         EmptyUntilReady
<1>2. TypeOK /\ Conservation /\ [Next]_vars => Conservation'
  <2> SUFFICES ASSUME TypeOK, Conservation, [Next]_vars PROVE Conservation'
    OBVIOUS
  <2>1. CASE InitPool
    <3>1. PICK s \in [1..Cardinality(Conns) -> Conns] :
            /\ \A c \in Conns : \E i \in DOMAIN s : s[i] = c
            /\ \A i, j \in DOMAIN s : s[i] = s[j] => i = j
            /\ connections' = s
      BY <2>1 DEF InitPool
    <3>2. Cardinality(Conns) \in Nat
      BY FS_CardinalityType, ConstantsAssumption
    <3>3. Len(s) = Cardinality(Conns) /\ DOMAIN s = 1..Len(s)
      BY <3>1, <3>2
    <3>4. held' = held /\ phase' = "ready" /\ \A t \in Threads : held[t] = NoConn
      BY <2>1 DEF InitPool, threadVars, Conservation, EmptyUntilReady
    <3> QED
      BY <3>1, <3>3, <3>4, ConstantsAssumption
         DEF Conservation, NoDuplicate, NotShared, HeldNotIdle, NothingLost,
             EmptyUntilReady, Idle
  <2>2. CASE /\ UNCHANGED <<connections, held>>
             /\ phase' = phase \/ (phase = "new" /\ phase' = "aborted")
    BY <2>2 DEF Conservation, NoDuplicate, NotShared, HeldNotIdle, NothingLost,
                EmptyUntilReady, Idle
  <2> QED
    BY <2>1, <2>2, QueueSteps, TakeConserves, PutBackConserves
<1> QED
  BY <1>1, <1>2, TypeCorrect, PTL DEF Spec

(***************************************************************************)
(* No lost wakeup                                                          *)
(***************************************************************************)
NoWaitersUntilReady == phase # "ready" => Waiting = {}

(* The steps after which somebody else is in wait() or on the way from it. *)
LEMMA WaiterSteps ==
    ASSUME TypeOK, [Next]_vars
    PROVE  \/ InitPool
           \/ \E t \in Threads : Refuse(t) \/ Wait(t) \/ Take(t) \/ SpuriousWakeup(t)
           \/ \E t \in Threads : pc[t] \in {"returning", "failing"} /\ PutBack(t)
           \/ /\ connections' = connections
              /\ Waiting' = Waiting
              /\ Woken' = Woken
              /\ phase' = phase \/ (phase = "new" /\ phase' = "aborted")
<1> USE DEF threadVars, checkerVars, worldVars, TypeOK
<1>1. ASSUME NEW t \in Threads, ThreadStep(t)
      PROVE  \/ Refuse(t) \/ Wait(t) \/ Take(t) \/ SpuriousWakeup(t)
             \/ pc[t] \in {"returning", "failing"} /\ PutBack(t)
             \/ UNCHANGED <<connections, phase>> /\ Waiting' = Waiting /\ Woken' = Woken
  <2>1. CASE Request(t) \/ Ping(t) \/ Reconnect(t) \/ Execute(t) \/ Cleanup(t)
             \/ CleanupRelocks(t)
    <3>1. /\ UNCHANGED <<connections, phase>>
          /\ pc[t] \notin {"waiting", "woken"}
          /\ pc' = [pc EXCEPT ![t] = pc'[t]]
          /\ pc'[t] \notin {"waiting", "woken"}
      BY <2>1 DEF Request, Ping, Reconnect, Execute, Cleanup, CleanupRelocks
    <3> QED
      BY <3>1 DEF Waiting, Woken
  <2> QED
    BY <1>1, <2>1 DEF ThreadStep, Return, Fail
<1>2. CASE CheckerStep
  BY <1>2 DEF CheckerStep, CheckerDoze, CheckerWake, CheckerCopy, CheckerPing,
              CheckerReconnect, CheckerRest, Waiting, Woken
<1>3. CASE World
  BY <1>3 DEF World, LinkLost, DatabaseDown, DatabaseUp, Waiting, Woken
<1>4. CASE InitThrows \/ Aborted \/ UNCHANGED vars
  BY <1>4 DEF InitThrows, Aborted, vars, Waiting, Woken
<1> QED
  BY <1>1, <1>2, <1>3, <1>4 DEF Next

(* The woken threads can be counted: they are some of the threads.         *)
LEMMA WokenIsFinite == IsFiniteSet(Woken) /\ Cardinality(Woken) \in Nat
<1>1. Woken \subseteq Threads
  BY DEF Woken
<1> QED
  BY <1>1, ConstantsAssumption, FS_Subset, FS_CardinalityType

(* A pop is paid for by the woken thread that does it. *)
LEMMA TakePreservesWakeups ==
    ASSUME TypeOK, NoLostWakeup, NEW t \in Threads, Take(t)
    PROVE  NoLostWakeup'
<1> USE DEF TypeOK
<1>1. Waiting' = Waiting
  BY DEF Take, Waiting
<1>2. Len(connections) \in Nat /\ Len(connections') = Len(connections) - 1
  BY DEF Take
<1>3. CASE pc[t] = "woken"
  <2>1. t \in Woken /\ Woken' = Woken \ {t}
    BY <1>3 DEF Take, Woken
  <2>2. Cardinality(Woken') = Cardinality(Woken) - 1
    BY <2>1, WokenIsFinite, FS_RemoveElement
  <2> QED
    BY <1>1, <1>2, <2>2, WokenIsFinite DEF NoLostWakeup
<1>4. CASE pc[t] = "entering"
  <2>1. Woken' = Woken
    BY <1>4 DEF Take, Woken
  <2> QED
    BY <1>1, <1>2, <2>1, WokenIsFinite DEF NoLostWakeup
<1> QED
  BY <1>3, <1>4 DEF Take

(* A push wakes a thread for the connection it adds. *)
LEMMA PutBackPreservesWakeups ==
    ASSUME TypeOK, NoLostWakeup, NEW t \in Threads,
           pc[t] \in {"returning", "failing"}, PutBack(t)
    PROVE  NoLostWakeup'
<1> USE DEF TypeOK
<1>1. CASE Waiting = {} /\ pc' = [pc EXCEPT ![t] = "idle"]
  BY <1>1 DEF NoLostWakeup, Waiting
<1>2. ASSUME NEW w \in Waiting, pc' = [pc EXCEPT ![t] = "idle", ![w] = "woken"]
      PROVE  NoLostWakeup'
  <2>1. w \in Threads /\ w # t /\ pc[w] = "waiting"
    BY DEF Waiting
  <2>2. w \notin Woken /\ Woken' = Woken \cup {w}
    BY <1>2, <2>1 DEF Woken
  <2>3. Cardinality(Woken') = Cardinality(Woken) + 1
    BY <2>2, WokenIsFinite, FS_AddElement
  <2>4. held[t] \in Conns
    BY DEF Holding
  <2>5. Len(connections) \in Nat /\ Len(connections') = Len(connections) + 1
    BY <2>4 DEF PutBack
  <2>6. Waiting # {}
    BY <1>2
  <2> QED
    BY <2>3, <2>5, <2>6, WokenIsFinite DEF NoLostWakeup
<1> QED
  BY <1>1, <1>2 DEF PutBack, NotifyOne

(* No wakeup is lost: a thread sleeps in cond_m.wait() only while every    *)
(* queued connection has a woken thread on its way to take it.             *)
THEOREM WakeupsNotLost == Spec => []NoLostWakeup
<1> DEFINE IInv == NoLostWakeup /\ NoWaitersUntilReady
<1>1. Init => IInv
  BY DEF Init, NoLostWakeup, NoWaitersUntilReady, Waiting
<1>2. TypeOK /\ IInv /\ [Next]_vars => IInv'
  <2> SUFFICES ASSUME TypeOK, NoLostWakeup, NoWaitersUntilReady, [Next]_vars
               PROVE  NoLostWakeup' /\ NoWaitersUntilReady'
    OBVIOUS
  <2>1. CASE InitPool
    <3>1. Waiting' = {}
      BY <2>1 DEF InitPool, threadVars, NoWaitersUntilReady, Waiting
    <3> QED
      BY <3>1 DEF NoLostWakeup, NoWaitersUntilReady
  <2>2. ASSUME NEW t \in Threads, Refuse(t) \/ Wait(t)
        PROVE  NoLostWakeup' /\ NoWaitersUntilReady'
    <3>1. Len(connections') = 0
      BY <2>2 DEF Refuse, Wait
    <3>2. Cardinality(Woken') \in Nat
      <4>1. Woken' \subseteq Threads
        BY DEF Woken
      <4> QED
        BY <4>1, ConstantsAssumption, FS_Subset, FS_CardinalityType
    <3>3. NoWaitersUntilReady'
      BY <2>2 DEF Refuse, Wait, NoWaitersUntilReady, Waiting, TypeOK
    <3> QED
      BY <3>1, <3>2, <3>3 DEF NoLostWakeup
  <2>3. ASSUME NEW t \in Threads, SpuriousWakeup(t)
        PROVE  NoLostWakeup' /\ NoWaitersUntilReady'
    <3>1. t \in Waiting /\ Waiting' \subseteq Waiting
      BY <2>3 DEF SpuriousWakeup, Waiting, TypeOK
    <3>2. t \notin Woken /\ Woken' = Woken \cup {t}
      BY <2>3 DEF SpuriousWakeup, Woken, TypeOK
    <3>3. Cardinality(Woken') = Cardinality(Woken) + 1
      BY <3>2, WokenIsFinite, FS_AddElement
    <3>4. Len(connections') = Len(connections) /\ Len(connections) \in Nat
      BY <2>3 DEF SpuriousWakeup, TypeOK
    <3>5. NoLostWakeup'
      BY <3>1, <3>3, <3>4, WokenIsFinite DEF NoLostWakeup
    <3>6. NoWaitersUntilReady'
      BY <2>3, <3>1 DEF SpuriousWakeup, NoWaitersUntilReady
    <3> QED
      BY <3>5, <3>6
  <2>4. ASSUME NEW t \in Threads, Take(t)
        PROVE  NoLostWakeup' /\ NoWaitersUntilReady'
    <3>1. Waiting' = Waiting /\ phase' = phase
      BY <2>4 DEF Take, Waiting, TypeOK
    <3> QED
      BY <2>4, <3>1, TakePreservesWakeups DEF NoWaitersUntilReady
  <2>5. ASSUME NEW t \in Threads, pc[t] \in {"returning", "failing"}, PutBack(t)
        PROVE  NoLostWakeup' /\ NoWaitersUntilReady'
    <3>1. Waiting' \subseteq Waiting /\ phase' = phase
      BY <2>5 DEF PutBack, NotifyOne, Waiting, TypeOK
    <3> QED
      BY <2>5, <3>1, PutBackPreservesWakeups DEF NoWaitersUntilReady
  <2>6. CASE /\ connections' = connections
             /\ Waiting' = Waiting
             /\ Woken' = Woken
             /\ phase' = phase \/ (phase = "new" /\ phase' = "aborted")
    BY <2>6 DEF NoLostWakeup, NoWaitersUntilReady
  <2> QED
    BY <2>1, <2>2, <2>3, <2>4, <2>5, <2>6, WaiterSteps
<1> QED
  BY <1>1, <1>2, TypeCorrect, PTL DEF Spec

(***************************************************************************)
(* Refinement of ResourcePool                                              *)
(***************************************************************************)
Want == {t \in Threads : pc[t] \in Asking}

(* The abstract owner of a connection is the thread that has it, if any.   *)
LEMMA OwnerOf ==
    ASSUME NotShared, NEW c \in Conns
    PROVE  /\ \A t \in Threads : held[t] = c => Owner[c] = t
           /\ (\A t \in Threads : held[t] # c) => Owner[c] = Nobody
<1>1. ASSUME NEW t \in Threads, held[t] = c PROVE Owner[c] = t
  <2>1. c # NoConn
    BY ConstantsAssumption
  <2>2. \A u \in Threads : held[u] = c => u = t
    BY <1>1, <2>1 DEF NotShared
  <2> QED
    BY <1>1, <2>2 DEF Owner
<1>2. ASSUME \A t \in Threads : held[t] # c PROVE Owner[c] = Nobody
  BY <1>2 DEF Owner
<1> QED
  BY <1>1, <1>2

(* A pop makes the thread the owner of the connection. *)
LEMMA TakeAcquires ==
    ASSUME TypeOK, Conservation, Conservation', NEW t \in Threads, Take(t)
    PROVE  Pool!Acquire(t)
<1> USE DEF TypeOK, Conservation
<1> DEFINE c == Head(connections)
<1>1. /\ c \in Conns /\ c = connections[1] /\ Len(connections) \in Nat \ {0}
      /\ held' = [held EXCEPT ![t] = c]
  BY DEF Take
<1>2. phase = "ready" /\ phase' = phase
  BY DEF Take, EmptyUntilReady
<1>3. \A u \in Threads : held[u] # c
  BY <1>1 DEF HeldNotIdle
<1>4. held[t] = NoConn
  BY DEF Take, Holding
<1> HIDE DEF c
<1>5. Owner[c] = Nobody
  BY <1>1, <1>3, OwnerOf
<1>6. Owner' = [Owner EXCEPT ![c] = t]
  <2>1. Owner' = [d \in Conns |-> Owner'[d]] /\ Owner = [d \in Conns |-> Owner[d]]
    BY DEF Owner
  <2>2. ASSUME NEW d \in Conns PROVE Owner'[d] = IF d = c THEN t ELSE Owner[d]
    <3>1. CASE d = c
      BY <1>1, <1>3, <3>1, ConstantsAssumption DEF Owner
    <3>2. CASE d # c
      <4>1. \A u \in Threads : held'[u] = d <=> held[u] = d
        BY <1>1, <1>4, <3>2, ConstantsAssumption
      <4> QED
        BY <3>2, <4>1 DEF Owner
    <3> QED
      BY <3>1, <3>2
  <2> QED
    BY <2>1, <2>2, <1>1
<1>7. t \in Want /\ Want' = Want \ {t}
  BY DEF Take, Want, Asking
<1> QED
  BY <1>1, <1>2, <1>5, <1>6, <1>7 DEF Pool!Acquire, Pool!free, Want

(* A push makes the connection free again. *)
LEMMA PutBackReleases ==
    ASSUME TypeOK, Conservation, NEW t \in Threads,
           pc[t] \in {"returning", "failing"}, PutBack(t)
    PROVE  Pool!Release(t)
<1> USE DEF TypeOK, Conservation
<1> DEFINE c == held[t]
<1>1. c \in Conns /\ held' = [held EXCEPT ![t] = NoConn]
  BY DEF PutBack, Holding
<1>2. phase' = phase
  BY DEF PutBack
<1>3. \A u \in Threads : held[u] = c => u = t
  BY <1>1, ConstantsAssumption DEF NotShared
<1>4. Owner[c] = t
  BY <1>1, OwnerOf
<1>5. Owner' = [Owner EXCEPT ![c] = Nobody]
  <2>1. Owner' = [d \in Conns |-> Owner'[d]] /\ Owner = [d \in Conns |-> Owner[d]]
    BY DEF Owner
  <2>2. ASSUME NEW d \in Conns
        PROVE  Owner'[d] = IF d = c THEN Nobody ELSE Owner[d]
    <3>1. CASE d = c
      <4>1. \A u \in Threads : held'[u] # d
        BY <1>1, <1>3, <3>1, ConstantsAssumption
      <4> QED
        BY <3>1, <4>1 DEF Owner
    <3>2. CASE d # c
      <4>1. \A u \in Threads : held'[u] = d <=> held[u] = d
        BY <1>1, <3>2, ConstantsAssumption
      <4> QED
        BY <3>2, <4>1 DEF Owner
    <3> QED
      BY <3>1, <3>2
  <2> QED
    BY <2>1, <2>2, <1>1
<1>6. Want' = Want
  BY DEF PutBack, NotifyOne, Waiting, Want, Asking
<1> QED
  BY <1>1, <1>2, <1>4, <1>5, <1>6 DEF Pool!Release, Want

(* Every other step is a step of the abstract pool that moves no           *)
(* connection, or changes nothing it can see.                              *)
LEMMA OtherStepsStutter ==
    ASSUME TypeOK, UNCHANGED <<held, phase>>, Want' = Want
    PROVE  UNCHANGED Pool!vars
BY DEF Owner, Pool!vars, Want

(* The pool implements the abstract one: connections are granted only to   *)
(* threads that asked and only while nobody else has them.                 *)
THEOREM PoolRefinement == Spec => Pool!Spec
<1>1. Init => Pool!Init
  BY ConstantsAssumption DEF Init, Pool!Init, Owner, Asking
<1>2. ASSUME TypeOK, Conservation, Conservation', [Next]_vars
      PROVE  [Pool!Next]_(Pool!vars)
  <2> USE <1>2 DEF threadVars, checkerVars, worldVars
  <2>1. CASE InitPool
    <3>1. Owner' = Owner /\ Want' = Want
      BY <2>1 DEF InitPool, Owner, Want
    <3>2. Pool!Open
      BY <2>1, <3>1 DEF InitPool, Pool!Open, Want
    <3> QED
      BY <3>2 DEF Pool!Next
  <2>2. CASE InitThrows
    BY <2>2 DEF InitThrows, Pool!vars, Owner
  <2>3. CASE Aborted \/ UNCHANGED vars
    BY <2>3 DEF Aborted, vars, Pool!vars, Owner
  <2>4. ASSUME NEW t \in Threads, ThreadStep(t) PROVE [Pool!Next]_(Pool!vars)
    <3>1. CASE Request(t)
      <4>1. held[t] = NoConn /\ t \notin Want
        BY <3>1 DEF Request, TypeOK, Holding, Want, Asking
      <4>2. \A c \in Conns : Owner[c] # t
        BY <4>1, ConstantsAssumption DEF Owner
      <4>3. Want' = Want \cup {t} /\ Owner' = Owner /\ phase' = phase
        BY <3>1 DEF Request, Want, Asking, Owner, TypeOK
      <4> QED
        BY <4>1, <4>2, <4>3 DEF Pool!Next, Pool!Request, Want
    <3>2. CASE Refuse(t)
      <4>1. t \in Want /\ Want' = Want \ {t} /\ Owner' = Owner
        BY <3>2 DEF Refuse, Want, Asking, Owner, TypeOK
      <4>2. phase = "new" /\ phase' = phase
        BY <3>2 DEF Refuse
      <4> QED
        BY <4>1, <4>2 DEF Pool!Next, Pool!Refuse, Want
    <3>3. CASE Take(t)
      BY <1>2, <3>3, TakeAcquires DEF Pool!Next
    <3>4. CASE Return(t) \/ Fail(t)
      BY <1>2, <3>4, PutBackReleases DEF Pool!Next, Return, Fail
    <3>5. CASE Wait(t) \/ SpuriousWakeup(t) \/ Ping(t) \/ Reconnect(t) \/ Execute(t)
               \/ Cleanup(t) \/ CleanupRelocks(t)
      <4>1. UNCHANGED <<held, phase>>
        BY <3>5 DEF Wait, SpuriousWakeup, Ping, Reconnect, Execute, Cleanup,
                    CleanupRelocks
      <4>2. pc[t] \in Asking <=> pc'[t] \in Asking
        BY <3>5 DEF Wait, SpuriousWakeup, Ping, Reconnect, Execute, Cleanup,
                    CleanupRelocks, Asking, TypeOK
      <4>3. pc' = [pc EXCEPT ![t] = pc'[t]]
        BY <3>5 DEF Wait, SpuriousWakeup, Ping, Reconnect, Execute, Cleanup,
                    CleanupRelocks, TypeOK
      <4>4. Want' = Want
        BY <4>2, <4>3 DEF Want, TypeOK
      <4> QED
        BY <4>1, <4>4, OtherStepsStutter
    <3> QED
      BY <2>4, <3>1, <3>2, <3>3, <3>4, <3>5 DEF ThreadStep
  <2>5. CASE CheckerStep
    BY <2>5, OtherStepsStutter DEF CheckerStep, CheckerDoze, CheckerWake,
       CheckerCopy, CheckerPing, CheckerReconnect, CheckerRest, Want
  <2>6. CASE World
    BY <2>6, OtherStepsStutter DEF World, LinkLost, DatabaseDown, DatabaseUp, Want
  <2> QED
    BY <1>2, <2>1, <2>2, <2>3, <2>4, <2>5, <2>6 DEF Next
<1> QED
  BY <1>1, <1>2, TypeCorrect, ConnectionsConserved, PTL DEF Spec, Pool!Spec

=============================================================================
