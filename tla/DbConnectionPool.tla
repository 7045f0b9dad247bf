-------------------------- MODULE DbConnectionPool --------------------------
(***************************************************************************)
(* HttpServer/src/utils/db/DbConnectionPool.cpp, with the connections of   *)
(* DbConnection.cpp and the one-statement use of MysqlUtil.h.              *)
(*                                                                         *)
(* Threads are the event loops and message-queue workers that call         *)
(* MysqlUtil::executeQuery / executeUpdate: getConnection(), one           *)
(* statement, and the deleter of the shared_ptr gives the connection back. *)
(* One more thread, the checker, pings and reconnects idle connections.    *)
(*                                                                         *)
(* A block under a mutex is one action.  mutex_m (the pool's) is held from *)
(* one action to the next only by the checker, which sleeps holding it     *)
(* (line 124); a connection's own mutex only by a thread that locks it a   *)
(* second time (cleanup() calling reconnect()).                            *)
(***************************************************************************)
EXTENDS Integers, Sequences, FiniteSets

CONSTANTS
    Threads,          \* the threads that use the pool
    Conns,            \* the connections init() creates
    NoConn,           \* not a connection
    Nobody,           \* not a thread
    CleanupMayThrow,  \* does getAutoCommit() throw on a lost link?
    MaxLosses,        \* bound: links lost one at a time
    MaxOutages        \* bound: times the database goes away

ASSUME ConstantsAssumption ==
    /\ NoConn \notin Conns
    /\ Nobody \notin Threads
    /\ IsFiniteSet(Threads)
    /\ IsFiniteSet(Conns)
    /\ CleanupMayThrow \in BOOLEAN
    /\ MaxLosses \in Nat
    /\ MaxOutages \in Nat

VARIABLES
    phase,         \* "new", "ready" (initialized_m) or "aborted" (main ended)
    connections,   \* connections_m, a FIFO queue
    pc,            \* where each thread is
    held,          \* the connection each thread has taken from the queue
    up,            \* is the link of each connection alive?
    connMutex,     \* DbConnection::mutex_m when a thread is stuck holding it
    checker,       \* where the checker thread is
    temp,          \* the checker's copy of the queue
    checked,       \* the connection the checker is reconnecting
    dbUp,          \* can the database be reached?
    losses,        \* links lost so far
    outages        \* outages so far

vars == <<phase, connections, pc, held, up, connMutex, checker, temp,
          checked, dbUp, losses, outages>>

threadVars  == <<pc, held>>
checkerVars == <<checker, temp, checked>>
worldVars   == <<dbUp, losses, outages>>

(* A thread is
     idle          not using the pool
     entering      about to lock mutex_m in getConnection()
     waiting       in cond_m.wait()
     woken         notified or woken spuriously, about to relock mutex_m
     taken         has popped a connection, about to ping it
     reconnecting  the ping failed
     failing       reconnect() threw: about to push the connection back
     using         has the shared_ptr, about to execute its statement
     cleaning      in the deleter, about to run cleanup()
     returning     in the deleter, about to push and notify
     stuck         locking a connection mutex it already holds             *)
Holding == {"taken", "reconnecting", "failing", "using", "cleaning",
            "returning", "stuck"}
Asking  == {"entering", "waiting", "woken"}
PC      == {"idle"} \cup Asking \cup Holding

Waiting == {t \in Threads : pc[t] = "waiting"}
Woken   == {t \in Threads : pc[t] = "woken"}
Idle    == {connections[i] : i \in 1..Len(connections)}

MutexFree     == checker # "dozing"
ConnFree(c)   == connMutex[c] = Nobody
Running       == phase # "aborted"

(***************************************************************************)
(* init() and the start of the threads                                     *)
(***************************************************************************)
Init ==
    /\ phase = "new"
    /\ connections = <<>>
    /\ pc = [t \in Threads |-> "idle"]
    /\ held = [t \in Threads |-> NoConn]
    /\ up = [c \in Conns |-> FALSE]
    /\ connMutex = [c \in Conns |-> Nobody]
    /\ checker = "looping"
    /\ temp = <<>>
    /\ checked = NoConn
    /\ dbUp = TRUE
    /\ losses = 0
    /\ outages = 0

(* init(): under mutex_m, once, every connection is created and queued.    *)
(* The checker already runs: the constructor of the singleton started it.  *)
InitPool ==
    /\ phase = "new"
    /\ MutexFree
    /\ dbUp
    /\ \E s \in [1..Cardinality(Conns) -> Conns] :
        /\ \A c \in Conns : \E i \in DOMAIN s : s[i] = c
        /\ \A i, j \in DOMAIN s : s[i] = s[j] => i = j
        /\ connections' = s
    /\ up' = [c \in Conns |-> TRUE]
    /\ phase' = "ready"
    /\ UNCHANGED <<threadVars, connMutex, checkerVars, worldVars>>

(* createConnection() throws: nothing catches it, the process ends before  *)
(* any thread that uses the pool is started.                               *)
InitThrows ==
    /\ phase = "new"
    /\ MutexFree
    /\ ~dbUp
    /\ \A t \in Threads : pc[t] = "idle"
    /\ phase' = "aborted"
    /\ UNCHANGED <<connections, threadVars, up, connMutex, checkerVars, worldVars>>

Aborted == phase = "aborted" /\ UNCHANGED vars

(***************************************************************************)
(* getConnection(), one statement, and the deleter                         *)
(***************************************************************************)
Request(t) ==
    /\ Running
    /\ pc[t] = "idle"
    /\ pc' = [pc EXCEPT ![t] = "entering"]
    /\ UNCHANGED <<phase, connections, held, up, connMutex, checkerVars, worldVars>>

(* The loop of lines 37-44, entered or resumed with mutex_m locked.  In    *)
(* this program main() fills the pool before it starts the threads; the    *)
(* class promises the exception to any caller that comes too early.        *)
Refuse(t) ==
    /\ pc[t] \in {"entering", "woken"}
    /\ MutexFree
    /\ connections = <<>>
    /\ phase = "new"
    /\ pc' = [pc EXCEPT ![t] = "idle"]
    /\ UNCHANGED <<phase, connections, held, up, connMutex, checkerVars, worldVars>>

Wait(t) ==
    /\ pc[t] \in {"entering", "woken"}
    /\ MutexFree
    /\ connections = <<>>
    /\ phase = "ready"
    /\ pc' = [pc EXCEPT ![t] = "waiting"]
    /\ UNCHANGED <<phase, connections, held, up, connMutex, checkerVars, worldVars>>

(* Mutant of Take: front() without pop(). *)
TakeWithoutPop(t) ==
    /\ pc[t] \in {"entering", "woken"}
    /\ MutexFree
    /\ connections # <<>>
    /\ held' = [held EXCEPT ![t] = Head(connections)]
    /\ pc' = [pc EXCEPT ![t] = "taken"]
    /\ UNCHANGED <<phase, connections, up, connMutex, checkerVars, worldVars>>

Take(t) ==
    /\ pc[t] \in {"entering", "woken"}
    /\ MutexFree
    /\ connections # <<>>
    /\ held' = [held EXCEPT ![t] = Head(connections)]
    /\ connections' = Tail(connections)
    /\ pc' = [pc EXCEPT ![t] = "taken"]
    /\ UNCHANGED <<phase, up, connMutex, checkerVars, worldVars>>

SpuriousWakeup(t) ==
    /\ pc[t] = "waiting"
    /\ pc' = [pc EXCEPT ![t] = "woken"]
    /\ UNCHANGED <<phase, connections, held, up, connMutex, checkerVars, worldVars>>

Ping(t) ==
    /\ pc[t] = "taken"
    /\ ConnFree(held[t])
    /\ pc' = [pc EXCEPT ![t] = IF up[held[t]] THEN "using" ELSE "reconnecting"]
    /\ UNCHANGED <<phase, connections, held, up, connMutex, checkerVars, worldVars>>

(* Mutant of Reconnect: a lock() without unlock() when connect() throws. *)
ReconnectStaysLocked(t) ==
    /\ pc[t] = "reconnecting"
    /\ ConnFree(held[t])
    /\ up' = [up EXCEPT ![held[t]] = up[held[t]] \/ dbUp]
    /\ pc' = [pc EXCEPT ![t] = IF up'[held[t]] THEN "using" ELSE "failing"]
    /\ connMutex' = [connMutex EXCEPT ![held[t]] = IF up'[held[t]] THEN Nobody ELSE t]
    /\ UNCHANGED <<phase, connections, held, checkerVars, worldVars>>

Reconnect(t) ==
    /\ pc[t] = "reconnecting"
    /\ ConnFree(held[t])
    /\ up' = [up EXCEPT ![held[t]] = up[held[t]] \/ dbUp]
    /\ pc' = [pc EXCEPT ![t] = IF up'[held[t]] THEN "using" ELSE "failing"]
    /\ UNCHANGED <<phase, connections, held, connMutex, checkerVars, worldVars>>

(* The statement succeeds or throws DbException: both leave MysqlUtil's    *)
(* function and destroy the shared_ptr.                                    *)
Execute(t) ==
    /\ pc[t] = "using"
    /\ ConnFree(held[t])
    /\ pc' = [pc EXCEPT ![t] = "cleaning"]
    /\ UNCHANGED <<phase, connections, held, up, connMutex, checkerVars, worldVars>>

Cleanup(t) ==
    /\ pc[t] = "cleaning"
    /\ ConnFree(held[t])
    /\ up[held[t]] \/ ~CleanupMayThrow
    /\ pc' = [pc EXCEPT ![t] = "returning"]
    /\ UNCHANGED <<phase, connections, held, up, connMutex, checkerVars, worldVars>>

(* cleanup() catches the error with mutex_m of the connection still locked *)
(* and calls reconnect(), which locks the same non-recursive mutex.        *)
CleanupRelocks(t) ==
    /\ pc[t] = "cleaning"
    /\ ConnFree(held[t])
    /\ ~up[held[t]] /\ CleanupMayThrow
    /\ connMutex' = [connMutex EXCEPT ![held[t]] = t]
    /\ pc' = [pc EXCEPT ![t] = "stuck"]
    /\ UNCHANGED <<phase, connections, held, up, checkerVars, worldVars>>

(* Mutant of NotifyOne: the deleter pushes without notifying. *)
NotifyOneForgotten(t) == pc' = [pc EXCEPT ![t] = "idle"]

(* cond_m.notify_one() by t, which then leaves the pool. *)
NotifyOne(t) ==
    \/ /\ Waiting = {}
       /\ pc' = [pc EXCEPT ![t] = "idle"]
    \/ \E w \in Waiting : pc' = [pc EXCEPT ![t] = "idle", ![w] = "woken"]

(* Mutant of PutBack: the pointer is moved from before it is pushed. *)
PutBackMoved(t) ==
    /\ MutexFree
    /\ connections' = Append(connections, NoConn)
    /\ held' = [held EXCEPT ![t] = NoConn]
    /\ NotifyOne(t)
    /\ UNCHANGED <<phase, up, connMutex, checkerVars, worldVars>>

(* Push and notify under mutex_m: the end of the deleter, and the catch    *)
(* block of getConnection().                                               *)
PutBack(t) ==
    /\ MutexFree
    /\ connections' = Append(connections, held[t])
    /\ held' = [held EXCEPT ![t] = NoConn]
    /\ NotifyOne(t)
    /\ UNCHANGED <<phase, up, connMutex, checkerVars, worldVars>>

Return(t) == pc[t] = "returning" /\ PutBack(t)

(* Mutant of Fail: the catch block rethrows without pushing. *)
FailLeaks(t) ==
    /\ pc[t] = "failing"
    /\ pc' = [pc EXCEPT ![t] = "idle"]
    /\ held' = [held EXCEPT ![t] = NoConn]
    /\ UNCHANGED <<phase, connections, up, connMutex, checkerVars, worldVars>>

Fail(t) == pc[t] = "failing" /\ PutBack(t)

(***************************************************************************)
(* checkConnections()                                                      *)
(***************************************************************************)
(* An empty pool: the thread sleeps with mutex_m locked. *)
CheckerDoze ==
    /\ Running
    /\ checker = "looping"
    /\ connections = <<>>
    /\ checker' = "dozing"
    /\ UNCHANGED <<phase, connections, threadVars, up, connMutex, temp, checked, worldVars>>

CheckerWake ==
    /\ Running
    /\ checker = "dozing"
    /\ checker' = "looping"
    /\ UNCHANGED <<phase, connections, threadVars, up, connMutex, temp, checked, worldVars>>

CheckerCopy ==
    /\ checker = "looping"
    /\ connections # <<>>
    /\ temp' = connections
    /\ checker' = "checking"
    /\ UNCHANGED <<phase, connections, threadVars, up, connMutex, checked, worldVars>>

(* Mutant of CheckerPing: the answer of ping() is ignored. *)
CheckerPingIgnored ==
    /\ checker = "checking"
    /\ temp # <<>>
    /\ ConnFree(Head(temp))
    /\ temp' = Tail(temp)
    /\ UNCHANGED <<phase, connections, threadVars, up, connMutex, checker, checked, worldVars>>

(* The copy is used without mutex_m: its connections may be in use by now. *)
CheckerPing ==
    /\ checker = "checking"
    /\ temp # <<>>
    /\ ConnFree(Head(temp))
    /\ temp' = Tail(temp)
    /\ IF up[Head(temp)]
       THEN UNCHANGED <<checker, checked>>
       ELSE checker' = "repairing" /\ checked' = Head(temp)
    /\ UNCHANGED <<phase, connections, threadVars, up, connMutex, worldVars>>

(* A failed reconnect is logged and the next connection is checked. *)
CheckerReconnect ==
    /\ checker = "repairing"
    /\ ConnFree(checked)
    /\ up' = [up EXCEPT ![checked] = up[checked] \/ dbUp]
    /\ checker' = "checking"
    /\ checked' = NoConn
    /\ UNCHANGED <<phase, connections, threadVars, connMutex, temp, worldVars>>

(* The end of a round: sleep 60 s, without the mutex, and loop. *)
CheckerRest ==
    /\ checker = "checking"
    /\ temp = <<>>
    /\ checker' = "looping"
    /\ UNCHANGED <<phase, connections, threadVars, up, connMutex, temp, checked, worldVars>>

(***************************************************************************)
(* The database and the links to it (external)                             *)
(***************************************************************************)
LinkLost(c) ==
    /\ Running
    /\ up[c]
    /\ losses < MaxLosses
    /\ up' = [up EXCEPT ![c] = FALSE]
    /\ losses' = losses + 1
    /\ UNCHANGED <<phase, connections, threadVars, connMutex, checkerVars, dbUp, outages>>

DatabaseDown ==
    /\ Running
    /\ dbUp
    /\ outages < MaxOutages
    /\ dbUp' = FALSE
    /\ up' = [c \in Conns |-> FALSE]
    /\ outages' = outages + 1
    /\ UNCHANGED <<phase, connections, threadVars, connMutex, checkerVars, losses>>

DatabaseUp ==
    /\ Running
    /\ ~dbUp
    /\ dbUp' = TRUE
    /\ UNCHANGED <<phase, connections, threadVars, up, connMutex, checkerVars, losses, outages>>

(***************************************************************************)
(* The specification                                                       *)
(***************************************************************************)
ThreadStep(t) ==
    \/ Request(t)
    \/ Refuse(t)
    \/ Wait(t)
    \/ Take(t)
    \/ SpuriousWakeup(t)
    \/ Ping(t)
    \/ Reconnect(t)
    \/ Execute(t)
    \/ Cleanup(t)
    \/ CleanupRelocks(t)
    \/ Return(t)
    \/ Fail(t)

CheckerStep ==
    \/ CheckerDoze
    \/ CheckerWake
    \/ CheckerCopy
    \/ CheckerPing
    \/ CheckerReconnect
    \/ CheckerRest

World ==
    \/ \E c \in Conns : LinkLost(c)
    \/ DatabaseDown
    \/ DatabaseUp

Next ==
    \/ InitPool
    \/ InitThrows
    \/ Aborted
    \/ \E t \in Threads : ThreadStep(t)
    \/ CheckerStep
    \/ World

Spec == Init /\ [][Next]_vars

(* Every thread keeps running, and what it asks of the database returns    *)
(* (OPT_CONNECT_TIMEOUT bounds it).  No thread must call the pool again.   *)
ThreadFairness ==
    /\ \A t \in Threads :
        WF_vars(Ping(t) \/ Reconnect(t) \/ Execute(t) \/ Cleanup(t) \/ CleanupRelocks(t))
    /\ WF_vars(CheckerDoze \/ CheckerWake \/ CheckerCopy \/ CheckerPing
               \/ CheckerReconnect \/ CheckerRest)

(* A thread gets mutex_m if it stays free: all that std::mutex promises. *)
MutexProgress ==
    \A t \in Threads :
        /\ WF_vars(Return(t))
        /\ WF_vars(Fail(t))
        /\ WF_vars(Wait(t) \/ Take(t) \/ Refuse(t))

(* A thread blocked on mutex_m gets it in the end although others lock it  *)
(* again and again: more than std::mutex promises.                         *)
MutexFairness ==
    \A t \in Threads :
        /\ SF_vars(Return(t))
        /\ SF_vars(Fail(t))
        /\ SF_vars(Wait(t) \/ Take(t) \/ Refuse(t))

LiveSpec      == Spec /\ ThreadFairness /\ MutexProgress
FairMutexSpec == Spec /\ ThreadFairness /\ MutexFairness

(***************************************************************************)
(* Properties                                                              *)
(***************************************************************************)
(* Every variable has its type: in particular the queue never holds a null *)
(* pointer, and a thread has a connection exactly from pop to push.        *)
TypeOK ==
    /\ phase \in {"new", "ready", "aborted"}
    /\ connections \in Seq(Conns)
    /\ pc \in [Threads -> PC]
    /\ held \in [Threads -> Conns \cup {NoConn}]
    /\ \A t \in Threads : held[t] = NoConn <=> pc[t] \notin Holding
    /\ up \in [Conns -> BOOLEAN]
    /\ connMutex \in [Conns -> Threads \cup {Nobody}]
    /\ checker \in {"looping", "dozing", "checking", "repairing"}
    /\ temp \in Seq(Conns)
    /\ checked \in Conns \cup {NoConn}
    /\ checker = "repairing" => checked \in Conns
    /\ dbUp \in BOOLEAN
    /\ losses \in Nat
    /\ outages \in Nat

NoDuplicate ==
    \A i, j \in 1..Len(connections) : connections[i] = connections[j] => i = j

NotShared ==
    \A t, u \in Threads : held[t] = held[u] /\ held[t] # NoConn => t = u

HeldNotIdle ==
    \A t \in Threads : \A i \in 1..Len(connections) : connections[i] # held[t]

NothingLost ==
    phase = "ready" => \A c \in Conns : c \in Idle \/ \E t \in Threads : held[t] = c

EmptyUntilReady ==
    phase # "ready" => connections = <<>> /\ \A t \in Threads : held[t] = NoConn

(* Through every path of getConnection() and of the deleter, failed        *)
(* reconnects included, a connection is in the queue once or with one      *)
(* thread: none is lost, queued twice, or given to two threads.            *)
Conservation ==
    /\ NoDuplicate
    /\ NotShared
    /\ HeldNotIdle
    /\ NothingLost
    /\ EmptyUntilReady

(* One notify_one() per push is enough: while a thread sleeps in wait(),   *)
(* every queued connection has a thread on its way to take it.             *)
NoLostWakeup == Waiting # {} => Len(connections) <= Cardinality(Woken)

(* A connection that was taken goes back to the pool ("put the connection  *)
(* back when the user is done", DbConnectionPool.cpp:61).                  *)
TakenIsReturned ==
    \A t \in Threads : pc[t] \in Holding ~> pc[t] = "idle"

(* What can hold a connection back: the checker, if it finds the pool      *)
(* empty over and over (it sleeps with mutex_m, line 124, and locks it      *)
(* again at once), and the thread's own clean-up of a link that was lost.   *)
Hogged == []<>(checker = "dozing")

(* Nothing else does: with only what std::mutex promises, every connection *)
(* that was taken goes back, through outages and failed reconnects, and     *)
(* although other threads are blocked in their clean-ups.                  *)
OnlyCheckerHoldsBack ==
    Hogged \/ \A t \in Threads : pc[t] \in Holding ~> pc[t] \in {"idle", "stuck"}

(* The checker waits for the mutex of a connection whose clean-up blocked. *)
CheckerStuck ==
    \/ checker = "checking" /\ temp # <<>> /\ ~ConnFree(Head(temp))
    \/ checker = "repairing" /\ ~ConnFree(checked)

(* checkConnections() reconnects a queued connection whose link is down,   *)
(* unless it is taken or the database goes away first                      *)
(* (DbConnectionPool.h:42), or a clean-up that blocked stops the checker.  *)
IdleIsRepaired ==
    \A c \in Conns :
        (dbUp /\ c \in Idle /\ ~up[c]) ~>
            (up[c] \/ c \notin Idle \/ ~dbUp \/ CheckerStuck)

(* The abstract pool: who holds what, and who asks. *)
Owner == [c \in Conns |-> IF \E t \in Threads : held[t] = c
                          THEN CHOOSE t \in Threads : held[t] = c
                          ELSE Nobody]

Pool == INSTANCE ResourcePool WITH
            Clients <- Threads, Resources <- Conns,
            open <- (phase = "ready"),
            want <- {t \in Threads : pc[t] \in Asking},
            owner <- Owner

(* The queue, the mutexes, the condition variable and the checker          *)
(* implement the abstract pool; and without a fair mutex, somebody who     *)
(* asks is served whenever something is free.                              *)
PoolServes == Pool!ServingSpec
=============================================================================
