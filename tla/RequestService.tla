---------------------------- MODULE RequestService ----------------------------
(***************************************************************************)
(* What a connection promises to its client, without parsing, buffers,     *)
(* segments or records: requests are answered in the order in which they   *)
(* were made, each at most once and with its own answer; a malformed one   *)
(* is refused, a good one never; and nothing follows a refusal or the end  *)
(* of the connection.  HttpConnection and SslConnection implement it.      *)
(***************************************************************************)
EXTENDS Naturals, Sequences

CONSTANTS
    Requests,   \* what may be asked
    Malformed,  \* those of them that cannot be understood
    Refusal     \* the answer to one that cannot

VARIABLES
    asked,      \* the requests made so far
    answers,    \* the answers given; the answer to a request is its name
    open        \* may more answers follow?

vars == <<asked, answers, open>>

Init ==
    /\ asked = <<>>
    /\ answers = <<>>
    /\ open = TRUE

Ask(r) ==
    /\ asked' = Append(asked, r)
    /\ UNCHANGED <<answers, open>>

(* The next request that has no answer. *)
Waiting == Len(answers) < Len(asked)
Oldest  == asked[Len(answers) + 1]

(* With or without closing the connection. *)
Answer ==
    /\ open /\ Waiting /\ Oldest \notin Malformed
    /\ answers' = Append(answers, Oldest)
    /\ open' \in BOOLEAN
    /\ UNCHANGED asked

Refuse ==
    /\ open /\ Waiting /\ Oldest \in Malformed
    /\ answers' = Append(answers, Refusal)
    /\ open' = FALSE
    /\ UNCHANGED asked

Close ==
    /\ open
    /\ open' = FALSE
    /\ UNCHANGED <<asked, answers>>

Next ==
    \/ \E r \in Requests : Ask(r)
    \/ Answer
    \/ Refuse
    \/ Close

Spec == Init /\ [][Next]_vars
=============================================================================
