--------------------------- MODULE QuestionTopics ---------------------------
(***************************************************************************)
(* The question topics of the broker: every question asked of an agent has *)
(* a topic of its own on which the agentic server publishes messages       *)
(* (AragAnswer, AgentDone) and from which the API that asked reads them.   *)
(* The broker, hyperforge's RedisBroker, is external; what is modelled is  *)
(* how src/ uses it: an activation message per question, and an ordered    *)
(* channel per topic.                                                      *)
(***************************************************************************)
EXTENDS Naturals, Sequences, SequencesExt, Subsequences

CONSTANTS
  Questions,    \* the questions asked (question ids)
  LearningIds,  \* ids the model server gives to its calls
  NoId,         \* the empty learning id
  MaxEmitted,   \* bound: messages an agent emits while it answers a question
  BrokerMayFail \* may publishing and subscribing fail?

ASSUME TopicsAssumption ==
  /\ NoId \notin LearningIds
  /\ MaxEmitted \in Nat
  /\ BrokerMayFail \in BOOLEAN

VARIABLES
  inbox,  \* questions whose StartInteraction waits for the agentic server
  topic   \* question -> the messages published on its topic, oldest first

(***************************************************************************)
(* Messages.  A text is the sequence of the chunks it is made of.  "final" *)
(* tells the ANSWER that closes a question from the ANSWER messages that   *)
(* report a step: the code tells them apart by which fields are set.       *)
(***************************************************************************)
Texts == Seq(1..(MaxEmitted + 1))

Message ==
  [op : {"START", "REASONING", "ANSWER_CHUNK", "ANSWER", "ERROR", "DONE"},
   text : Texts, learning : LearningIds \cup {NoId}, final : BOOLEAN]

Plain(operation) == [op |-> operation, text |-> <<>>, learning |-> NoId, final |-> FALSE]
Start == Plain("START")
Error == Plain("ERROR")
Done == Plain("DONE")
Reasoning(t) == [Plain("REASONING") EXCEPT !.text = t]
Chunk(t) == [Plain("ANSWER_CHUNK") EXCEPT !.text = t]
Step(id) == [Plain("ANSWER") EXCEPT !.learning = id]
FinalAnswer(t) == [Plain("ANSWER") EXCEPT !.text = t, !.final = TRUE]

\* The texts that messages, or items, carry.
TextsOf(entries) ==
  Chosen([i \in DOMAIN entries |-> entries[i].text], Texts \ {<<>>})

IsOutcome(m) == m.op = "ERROR" \/ m.final

(***************************************************************************)
(* A reader of a topic stops at the first DONE: Visible is all it reads.   *)
(***************************************************************************)
IsDone(m) == m.op = "DONE"

IsClosed(messages) == \E i \in DOMAIN messages : IsDone(messages[i])

Visible(messages) ==
  IF IsClosed(messages)
  THEN LET first == CHOOSE i \in DOMAIN messages :
                      /\ IsDone(messages[i])
                      /\ \A j \in 1..(i - 1) : ~IsDone(messages[j])
       IN SubSeq(messages, 1, first)
  ELSE messages

Publish(q, m) == topic' = [topic EXCEPT ![q] = Append(@, m)]

\* A publication that raises may have been delivered all the same.
PublishFails(q, m) ==
  /\ BrokerMayFail
  /\ \/ Publish(q, m)
     \/ UNCHANGED topic

TopicsInit ==
  /\ inbox = {}
  /\ topic = [q \in Questions |-> <<>>]

=============================================================================
