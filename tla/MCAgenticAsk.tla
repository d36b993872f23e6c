---------------------------- MODULE MCAgenticAsk ----------------------------
(***************************************************************************)
(* TLC instances of AgenticAsk.                                            *)
(***************************************************************************)
EXTENDS AgenticAsk

CONSTANTS s1, q1, v1

MCSessionOf == [q \in Questions |-> s1]

\* Up to the names of the processes these are all.
MCAssignments == {a \in [Questions -> Servers] : a[q1] = v1}

Streamed == {[sync |-> FALSE, relations |-> FALSE]}
AllRequests == RequestOptions

=============================================================================
