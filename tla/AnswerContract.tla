--------------------------- MODULE AnswerContract ---------------------------
(***************************************************************************)
(* What asking an agentic configuration promises, whatever carries the     *)
(* answer: the client hears what the agent says, in the order it is said,  *)
(* nothing twice and nothing left out, and is told "success" only of an    *)
(* answer the agent finished and the client heard in full.                 *)
(***************************************************************************)
EXTENDS Naturals, Sequences

CONSTANTS Questions, Words

VARIABLES
  said,     \* question -> the words the agent has said
  outcome,  \* question -> "pending", "answered" or "refused"
  heard,    \* question -> the words the client has heard
  reply     \* question -> "open", "success", "error" or "left"

contractVars == <<said, outcome, heard, reply>>

ContractInit ==
  /\ said = [q \in Questions |-> <<>>]
  /\ outcome = [q \in Questions |-> "pending"]
  /\ heard = [q \in Questions |-> <<>>]
  /\ reply = [q \in Questions |-> "open"]

Say(q) ==
  /\ outcome[q] = "pending"
  /\ \E w \in Words : said' = [said EXCEPT ![q] = Append(@, w)]
  /\ UNCHANGED <<outcome, heard, reply>>

Conclude(q) ==
  /\ outcome[q] = "pending"
  /\ \E o \in {"answered", "refused"} : outcome' = [outcome EXCEPT ![q] = o]
  /\ UNCHANGED <<said, heard, reply>>

Hear(q) ==
  /\ reply[q] = "open"
  /\ Len(heard[q]) < Len(said[q])
  /\ heard' = [heard EXCEPT ![q] = Append(@, said[q][Len(@) + 1])]
  /\ UNCHANGED <<said, outcome, reply>>

Succeed(q) ==
  /\ reply[q] = "open"
  /\ outcome[q] = "answered"
  /\ heard[q] = said[q]
  /\ reply' = [reply EXCEPT ![q] = "success"]
  /\ UNCHANGED <<said, outcome, heard>>

GiveUp(q) ==
  /\ reply[q] = "open"
  /\ \E r \in {"error", "left"} : reply' = [reply EXCEPT ![q] = r]
  /\ UNCHANGED <<said, outcome, heard>>

ContractNext ==
  \E q \in Questions : Say(q) \/ Conclude(q) \/ Hear(q) \/ Succeed(q) \/ GiveUp(q)

ContractSpec == ContractInit /\ [][ContractNext]_contractVars

=============================================================================
