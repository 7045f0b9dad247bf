--------------------------- MODULE ChatPersistence ---------------------------
(***************************************************************************)
(* How the messages of one conversation reach the table chat_message and   *)
(* come back after a restart: MQManager::publish(), the RabbitMQ broker    *)
(* (external), the workers of RabbitMQThreadPool running executeMysql(),   *)
(* and ChatServer::readDataFromMySQL().                                    *)
(*                                                                         *)
(* Row k is the k-th message of the conversation: a question if k is odd,  *)
(* the answer to it if k is even.  Its timestamp (milliseconds) is taken   *)
(* when it is published; a question and its answer may get the same one,   *)
(* because chat() adds both at the end when a tool may be called.          *)
(***************************************************************************)
EXTENDS Naturals, FiniteSets, Sequences, SequencesExt

CONSTANTS
    Workers,           \* the consumer threads
    Channels,          \* the channels publish() takes in turn
    NoRow,             \* a worker has no message
    Poison,            \* rows whose INSERT always fails (bad SQL)
    MaxRows,           \* bound: messages of the conversation
    MaxCrashes,        \* bound: crashes of the server
    MaxDbErrors,       \* bound: INSERTs that fail for another reason
    MaxBrokerRestarts  \* bound: restarts of the broker

ASSUME ConstantsAssumption ==
    /\ MaxRows \in Nat
    /\ NoRow \notin 1..MaxRows
    /\ Poison \subseteq 1..MaxRows
    /\ MaxCrashes \in Nat /\ MaxDbErrors \in Nat /\ MaxBrokerRestarts \in Nat
    /\ IsFiniteSet(Workers)
    /\ IsFiniteSet(Channels) /\ Channels # {}
    /\ Channels = 0..(Cardinality(Channels) - 1)

VARIABLES
    running,    \* is the server process up?
    memory,     \* AIHelper::messages of the conversation
    ts,         \* the timestamps of the rows published so far
    connected,  \* are the server's connections to the broker good?
    inflight,   \* each channel's messages on their way to the broker
    declared,   \* does the queue exist at the broker?
    queue,      \* sql_queue
    worker,     \* where each worker is
    unacked,    \* the message each worker has not acknowledged
    orphans,    \* messages still handled although the broker forgot them
    table,      \* the rows of chat_message, in order of insertion
    lost,       \* history: rows the broker never had or forgot
    crashes, dbErrors, brokerRestarts

serverVars == <<running, memory, ts>>
brokerVars == <<connected, inflight, declared, queue>>
workerVars == <<worker, unacked, orphans>>
bounds     == <<crashes, dbErrors, brokerRestarts>>
vars == <<serverVars, brokerVars, workerVars, table, lost, bounds>>

Rows  == 1..MaxRows
Count == Len(ts)

(* The process starts for the first time on a broker without the queue. *)
Init ==
    /\ running = TRUE
    /\ memory = <<>>
    /\ ts = <<>>
    /\ connected = TRUE
    /\ inflight = [c \in Channels |-> <<>>]
    /\ declared = FALSE
    /\ queue = <<>>
    /\ worker = [w \in Workers |-> "starting"]
    /\ unacked = [w \in Workers |-> NoRow]
    /\ orphans = {}
    /\ table = <<>>
    /\ lost = {}
    /\ crashes = 0
    /\ dbErrors = 0
    /\ brokerRestarts = 0

(***************************************************************************)
(* addMessage() and publish()                                              *)
(***************************************************************************)
(* The clock moves on between an answer and the next question; question    *)
(* and answer may share a millisecond.                                     *)
Stamp(k) ==
    LET last == IF k = 1 THEN 0 ELSE ts[k - 1]
    IN  IF k % 2 = 1 THEN {last + 1} ELSE {last, last + 1}

(* A row goes out on the next channel; if that throws, the error is logged *)
(* and the row is lost.                                                    *)
Publish ==
    /\ running
    /\ Count < MaxRows
    /\ \E t \in Stamp(Count + 1) : ts' = Append(ts, t)
    /\ memory' = Append(memory, Count + 1)
    /\ LET c == Count % Cardinality(Channels) IN
        IF connected
        THEN /\ inflight' = [inflight EXCEPT ![c] = Append(@, Count + 1)]
             /\ UNCHANGED lost
        ELSE lost' = lost \cup {Count + 1} /\ UNCHANGED inflight
    /\ UNCHANGED <<running, connected, declared, queue, workerVars, table, bounds>>

(* The broker takes a message off a channel; without the queue it has no   *)
(* place for it, and publish() does not ask to be told.                    *)
Enqueue(c) ==
    /\ inflight[c] # <<>>
    /\ inflight' = [inflight EXCEPT ![c] = Tail(@)]
    /\ IF declared
       THEN queue' = Append(queue, Head(inflight[c])) /\ UNCHANGED lost
       ELSE lost' = lost \cup {Head(inflight[c])} /\ UNCHANGED queue
    /\ UNCHANGED <<serverVars, connected, declared, workerVars, table, bounds>>

(***************************************************************************)
(* RabbitMQThreadPool::worker()                                            *)
(***************************************************************************)
Declare(w) ==
    /\ worker[w] = "starting"
    /\ declared' = TRUE
    /\ worker' = [worker EXCEPT ![w] = "waiting"]
    /\ UNCHANGED <<serverVars, connected, inflight, queue, unacked, orphans, table, lost, bounds>>

Deliver(w) ==
    /\ worker[w] = "waiting"
    /\ queue # <<>>
    /\ unacked' = [unacked EXCEPT ![w] = Head(queue)]
    /\ queue' = Tail(queue)
    /\ worker' = [worker EXCEPT ![w] = "handling"]
    /\ UNCHANGED <<serverVars, connected, inflight, declared, orphans, table, lost, bounds>>

(* Mutant of Insert: the handler swallows the error and stores nothing. *)
InsertSwallowed(w) ==
    /\ worker[w] = "handling"
    /\ worker' = [worker EXCEPT ![w] = "acking"]
    /\ UNCHANGED <<serverVars, brokerVars, unacked, orphans, table, lost, bounds>>

Insert(w) ==
    /\ worker[w] = "handling"
    /\ unacked[w] \notin Poison
    /\ table' = Append(table, unacked[w])
    /\ worker' = [worker EXCEPT ![w] = "acking"]
    /\ UNCHANGED <<serverVars, brokerVars, unacked, orphans, lost, bounds>>

(* The handler throws: the thread ends for good, its channel is closed and *)
(* the broker puts the message back at the head of the queue.              *)
Die(w) ==
    /\ worker' = [worker EXCEPT ![w] = "dead"]
    /\ unacked' = [unacked EXCEPT ![w] = NoRow]
    /\ queue' = <<unacked[w]>> \o queue

PoisonKills(w) ==
    /\ worker[w] = "handling"
    /\ unacked[w] \in Poison
    /\ Die(w)
    /\ UNCHANGED <<serverVars, connected, inflight, declared, orphans, table, lost, bounds>>

(* The connection to the database breaks, before or after the commit. *)
DbError(w) ==
    /\ worker[w] = "handling"
    /\ unacked[w] \notin Poison
    /\ dbErrors < MaxDbErrors
    /\ dbErrors' = dbErrors + 1
    /\ table' \in {table, Append(table, unacked[w])}
    /\ Die(w)
    /\ UNCHANGED <<serverVars, connected, inflight, declared, orphans, lost, crashes, brokerRestarts>>

(* Mutant of Ack: there is no acknowledgement. *)
AckForgotten(w) ==
    /\ worker[w] = "acking"
    /\ worker' = [worker EXCEPT ![w] = "waiting"]
    /\ UNCHANGED <<serverVars, brokerVars, unacked, orphans, table, lost, bounds>>

(* Mutant of Ack: the message is put back although it was handled. *)
AckRequeues(w) ==
    /\ worker[w] = "acking"
    /\ unacked' = [unacked EXCEPT ![w] = NoRow]
    /\ queue' = <<unacked[w]>> \o queue
    /\ worker' = [worker EXCEPT ![w] = "waiting"]
    /\ UNCHANGED <<serverVars, connected, inflight, declared, orphans, table, lost, bounds>>

Ack(w) ==
    /\ worker[w] = "acking"
    /\ unacked' = [unacked EXCEPT ![w] = NoRow]
    /\ worker' = [worker EXCEPT ![w] = "waiting"]
    /\ UNCHANGED <<serverVars, brokerVars, orphans, table, lost, bounds>>

(***************************************************************************)
(* Crashes and restarts                                                    *)
(***************************************************************************)
Held == {w \in Workers : unacked[w] # NoRow}

(* A handler whose broker is gone: its INSERT succeeds or fails, and the   *)
(* worker ends, at the latest because BasicAck throws (MQManager.cpp:107). *)
FinishOrphan(k) ==
    /\ k \in orphans
    /\ orphans' = orphans \ {k}
    /\ table' = table \/ (k \notin Poison /\ table' = Append(table, k))
    /\ UNCHANGED <<serverVars, brokerVars, worker, unacked, lost, bounds>>

(* The process dies; what workers had not acknowledged is queued again. *)
Crash ==
    /\ running
    /\ crashes < MaxCrashes
    /\ crashes' = crashes + 1
    /\ running' = FALSE
    /\ memory' = <<>>
    /\ worker' = [w \in Workers |-> "dead"]
    /\ unacked' = [w \in Workers |-> NoRow]
    /\ orphans' = {}
    /\ \E s \in SetToSeqs({unacked[w] : w \in Held}) : queue' = s \o queue
    /\ UNCHANGED <<ts, connected, inflight, declared, table, lost, dbErrors, brokerRestarts>>

(* ORDER BY ts ASC, id ASC: id is the user, the same for every row, so     *)
(* rows with equal timestamps come in any order.                           *)
ReadRows(rows) ==
    LET n == Cardinality(rows) IN
    {[i \in 1..n |-> table[p[i]]] : p \in
        {q \in SetToSeqs(rows) : \A i \in 1..(n - 1) : ts[table[q[i]]] <= ts[table[q[i + 1]]]}}

(* Mutant of Restored: the first row is skipped. *)
RestoredWithoutFirst == ReadRows(2..Len(table))

Restored == ReadRows(1..Len(table))

(* main(): the table is read, then the workers are started. *)
Restart ==
    /\ ~running
    /\ running' = TRUE
    /\ memory' \in Restored
    /\ connected' = TRUE
    /\ worker' = [w \in Workers |-> "starting"]
    /\ UNCHANGED <<ts, inflight, declared, queue, unacked, orphans, table, lost, bounds>>

(* Rows that cannot be read are skipped, all of them if the SELECT fails;  *)
(* the error is logged and the server starts with what it has.             *)
RestartUnread ==
    /\ ~running
    /\ dbErrors < MaxDbErrors
    /\ dbErrors' = dbErrors + 1
    /\ running' = TRUE
    /\ \E rows \in SUBSET (1..Len(table)) : memory' \in ReadRows(rows)
    /\ connected' = TRUE
    /\ worker' = [w \in Workers |-> "starting"]
    /\ UNCHANGED <<ts, inflight, declared, queue, unacked, orphans, table, lost, crashes, brokerRestarts>>

(* The queue is durable, the messages are not; publish() and the workers   *)
(* never open their channels again.  Handlers at work go on; a worker that *)
(* has no channel yet will find the new broker.                            *)
BrokerRestart ==
    /\ brokerRestarts < MaxBrokerRestarts
    /\ brokerRestarts' = brokerRestarts + 1
    /\ lost' = lost \cup {queue[i] : i \in 1..Len(queue)} \cup {unacked[w] : w \in Held}
                    \cup UNION {{inflight[c][i] : i \in 1..Len(inflight[c])} : c \in Channels}
    /\ queue' = <<>>
    /\ inflight' = [c \in Channels |-> <<>>]
    /\ connected' = FALSE
    /\ worker' = [w \in Workers |-> IF worker[w] = "starting" THEN "starting" ELSE "dead"]
    /\ unacked' = [w \in Workers |-> NoRow]
    /\ orphans' = orphans \cup {unacked[w] : w \in {v \in Workers : worker[v] = "handling"}}
    /\ UNCHANGED <<serverVars, declared, table, crashes, dbErrors>>

(* The bounds: nothing is left to do. *)
Finished ==
    /\ running => Count = MaxRows
    /\ queue = <<>> \/ \A w \in Workers : worker[w] = "dead"
    /\ \A c \in Channels : inflight[c] = <<>>
    /\ orphans = {}
    /\ UNCHANGED vars

Consume(w) == Declare(w) \/ Deliver(w) \/ Insert(w) \/ PoisonKills(w) \/ DbError(w) \/ Ack(w)

Next ==
    \/ Publish
    \/ \E c \in Channels : Enqueue(c)
    \/ \E w \in Workers : Consume(w)
    \/ \E k \in orphans : FinishOrphan(k)
    \/ Crash
    \/ Restart
    \/ RestartUnread
    \/ BrokerRestart
    \/ Finished

Spec == Init /\ [][Next]_vars

(* The broker delivers and every live worker goes on.  Nobody promises to  *)
(* restart the server.                                                     *)
Fairness ==
    /\ \A c \in Channels : WF_vars(Enqueue(c))
    /\ \A w \in Workers : WF_vars(Consume(w))

LiveSpec == Spec /\ Fairness

(***************************************************************************)
(* Properties                                                              *)
(***************************************************************************)
Occurrences(k, s) == Cardinality({i \in 1..Len(s) : s[i] = k})

(* Every variable has its type, and exactly the workers between delivery   *)
(* and acknowledgement have a message.                                     *)
TypeOK ==
    /\ running \in BOOLEAN
    /\ memory \in Seq(1..Count)
    /\ ts \in Seq(Nat) /\ Count <= MaxRows
    /\ connected \in BOOLEAN
    /\ inflight \in [Channels -> Seq(1..Count)]
    /\ declared \in BOOLEAN
    /\ queue \in Seq(1..Count)
    /\ worker \in [Workers -> {"starting", "waiting", "handling", "acking", "dead"}]
    /\ unacked \in [Workers -> 1..Count \cup {NoRow}]
    /\ \A w \in Workers : unacked[w] # NoRow <=> worker[w] \in {"handling", "acking"}
    /\ orphans \subseteq lost
    /\ table \in Seq(1..Count)
    /\ lost \subseteq 1..Count

(* "Handle it first, then acknowledge" (MQManager.cpp:106): whatever dies  *)
(* or restarts, a row the broker has accepted is in the broker, with a     *)
(* worker or in the table, until the broker itself restarts.               *)
AtTheBroker(k) ==
    Occurrences(k, queue) + Cardinality({w \in Workers : unacked[w] = k})
    + Cardinality({c \in Channels : k \in ToSet(inflight[c])})

NothingForgotten ==
    \A k \in 1..Count : k \in lost \/ AtTheBroker(k) > 0 \/ k \in ToSet(table)

(* A row is stored twice only if a crash or a database error came between  *)
(* the INSERT and the acknowledgement, and each of these adds at most one  *)
(* copy of one row per worker.                                             *)
DuplicatesNeedFailures ==
    \A k \in 1..Count :
        Occurrences(k, table) <= 1 + dbErrors + crashes + brokerRestarts

(* A restart that reads every row of the table misses no row that the      *)
(* broker has not still to deliver or has not forgotten: what the context  *)
(* lacks then is on its way to the table.                                  *)
RestartMissesOnlyQueued ==
    [][(~running /\ running' /\ dbErrors' = dbErrors) =>
        \A k \in 1..Count : k \in ToSet(memory') \cup lost \/ AtTheBroker(k) > 0]_vars

(* A row in the queue is stored in the end unless the broker restarts, the *)
(* server is down or no worker is left: a worker that fails does not take  *)
(* the row with it.                                                        *)
QueuedIsStored ==
    \A k \in Rows :
        (k \in ToSet(queue)) ~>
            (k \in ToSet(table) \/ k \in lost \/ ~running \/ \A w \in Workers : worker[w] = "dead")

(* "Requests use the whole context of the conversation"                    *)
(* (ChatServer.cpp:167): what the table has, the running server has.       *)
ContextIsComplete == running => ToSet(table) \subseteq ToSet(memory)
=============================================================================
