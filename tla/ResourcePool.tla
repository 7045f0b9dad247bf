---------------------------- MODULE ResourcePool ----------------------------
(***************************************************************************)
(* What a blocking pool of reusable resources promises to its clients,     *)
(* without queues, locks, condition variables or a maintenance thread.     *)
(* A resource is free or held by one client; a client asks, is served when *)
(* a resource is free, and gives the resource back.  DbConnectionPool      *)
(* implements it.                                                          *)
(***************************************************************************)
CONSTANTS
    Clients,      \* the threads that use the pool
    Resources,    \* the resources of the pool
    Nobody        \* the owner of a free resource, not a client

VARIABLES
    open,    \* has the pool been filled?
    want,    \* the clients that asked and have no answer yet
    owner    \* who holds each resource

vars == <<open, want, owner>>

free == {r \in Resources : open /\ owner[r] = Nobody}

TypeOK ==
    /\ open \in BOOLEAN
    /\ want \subseteq Clients
    /\ owner \in [Resources -> Clients \cup {Nobody}]

Init ==
    /\ open = FALSE
    /\ want = {}
    /\ owner = [r \in Resources |-> Nobody]

(* The pool is filled, once. *)
Open ==
    /\ ~open
    /\ open' = TRUE
    /\ UNCHANGED <<want, owner>>

(* A client asks; it holds nothing, so that nobody waits while holding. *)
Request(c) ==
    /\ c \notin want
    /\ \A r \in Resources : owner[r] # c
    /\ want' = want \cup {c}
    /\ UNCHANGED <<open, owner>>

(* A request that reaches a pool not yet filled is refused. *)
Refuse(c) ==
    /\ ~open
    /\ c \in want
    /\ want' = want \ {c}
    /\ UNCHANGED <<open, owner>>

Acquire(c) ==
    /\ c \in want
    /\ \E r \in free : owner' = [owner EXCEPT ![r] = c]
    /\ want' = want \ {c}
    /\ UNCHANGED open

Release(c) ==
    /\ \E r \in Resources :
        /\ owner[r] = c
        /\ owner' = [owner EXCEPT ![r] = Nobody]
    /\ UNCHANGED <<open, want>>

Next ==
    \/ Open
    \/ \E c \in Clients : Request(c) \/ Refuse(c) \/ Acquire(c) \/ Release(c)

Spec == Init /\ [][Next]_vars

(* What is promised about progress: while somebody asks and something is   *)
(* free, somebody is served.                                               *)
ServingSpec == Spec /\ WF_vars(\E c \in Clients : Acquire(c))
=============================================================================
