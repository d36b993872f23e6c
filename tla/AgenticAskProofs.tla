-------------------------- MODULE AgenticAskProofs --------------------------
(***************************************************************************)
(* Proofs about AgenticAsk: what the agentic server publishes on a topic,  *)
(* the memory a question is started in, what the API's task loop knows and *)
(* queues, and that both together keep the contract of an answer.          *)
(***************************************************************************)
EXTENDS AgenticAsk, SequenceLemmas

---------------------------------------------------------------------------
(***************************************************************************)
(* Messages and topics.                                                    *)
(***************************************************************************)

\* The messages that are published are messages, and what kinds they are of.
LEMMA EndsTyped ==
    /\ Start \in Message /\ ~IsDone(Start) /\ ~IsOutcome(Start) /\ ~Start.final
    /\ Error \in Message /\ ~IsDone(Error) /\ IsOutcome(Error) /\ ~Error.final
    /\ Done \in Message /\ IsDone(Done) /\ ~IsOutcome(Done) /\ ~Done.final
<1>1. <<>> \in Texts
  BY TopicsAssumption DEF Texts
<1> QED
  BY <1>1 DEF Start, Error, Done, Plain, Message, IsDone, IsOutcome

\* What an agent emits, as AgentEmits sends it on.
LEMMA EmissionsTyped ==
    ASSUME NEW q \in Questions, emitted[q] \in Nat, emitted[q] < MaxEmitted,
           NEW m \in Emissions(q)
    PROVE  m \in Message /\ ~IsDone(m) /\ ~IsOutcome(m) /\ ~m.final
<1> DEFINE t == <<emitted[q] + 1>>
<1>1. t \in Texts /\ <<>> \in Texts
  BY TopicsAssumption DEF Texts
<1> HIDE DEF t
<1>2. \/ m = Reasoning(t)
      \/ m = Chunk(t)
      \/ \E id \in LearningIds \cup {NoId} : m = Step(id)
  BY DEF Emissions, t
<1>3. CASE m = Reasoning(t)
  BY <1>1, <1>3 DEF Reasoning, Plain, Message, IsDone, IsOutcome
<1>4. CASE m = Chunk(t)
  BY <1>1, <1>4 DEF Chunk, Plain, Message, IsDone, IsOutcome
<1>5. CASE \E id \in LearningIds \cup {NoId} : m = Step(id)
  BY <1>1, <1>5 DEF Step, Plain, Message, IsDone, IsOutcome
<1> QED
  BY <1>2, <1>3, <1>4, <1>5

\* The answer that closes a question.
LEMMA FinalTyped ==
    ASSUME NEW t \in Texts
    PROVE  /\ FinalAnswer(t) \in Message /\ FinalAnswer(t).final
           /\ ~IsDone(FinalAnswer(t)) /\ IsOutcome(FinalAnswer(t))
BY DEF FinalAnswer, Plain, Message, IsDone, IsOutcome

\* A message more closes a topic if it is DONE.
LEMMA ClosedAppend ==
    ASSUME NEW t \in Seq(Message), NEW m \in Message
    PROVE  IsClosed(Append(t, m)) <=> IsClosed(t) \/ IsDone(m)
<1>1. /\ DOMAIN Append(t, m) = 1..(Len(t) + 1) /\ DOMAIN t = 1..Len(t)
      /\ \A i \in 1..Len(t) : Append(t, m)[i] = t[i]
      /\ Append(t, m)[Len(t) + 1] = m
  OBVIOUS
<1>2. ASSUME IsClosed(Append(t, m)) PROVE IsClosed(t) \/ IsDone(m)
  BY <1>1, <1>2 DEF IsClosed
<1>3. ASSUME IsClosed(t) PROVE IsClosed(Append(t, m))
  BY <1>1, <1>3 DEF IsClosed
<1>4. ASSUME IsDone(m) PROVE IsClosed(Append(t, m))
  BY <1>1, <1>4 DEF IsClosed
<1> QED
  BY <1>2, <1>3, <1>4

\* A reader of a topic reads up to the first DONE.
LEMMA VisibleTo ==
    ASSUME NEW t \in Seq(Message), NEW n \in 1..Len(t), IsDone(t[n]),
           \A j \in 1..(n - 1) : ~IsDone(t[j])
    PROVE  Visible(t) = SubSeq(t, 1, n)
<1> DEFINE First(i) == IsDone(t[i]) /\ \A j \in 1..(i - 1) : ~IsDone(t[j])
<1>1. n \in DOMAIN t /\ First(n)
  OBVIOUS
<1>2. ASSUME NEW i \in DOMAIN t, First(i) PROVE i = n
  <2>1. ~(i < n) /\ ~(n < i)
    BY <1>1, <1>2
  <2> QED
    BY <2>1
<1>3. (CHOOSE i \in DOMAIN t : First(i)) = n
  <2> HIDE DEF First
  <2> QED
    BY <1>1, <1>2
<1>4. IsClosed(t)
  BY <1>1 DEF IsClosed
<1> QED
  BY <1>3, <1>4 DEF Visible

\* Of a closed topic there is a first DONE.
LEMMA VisibleClosed ==
    ASSUME NEW t \in Seq(Message), IsClosed(t)
    PROVE  \E n \in 1..Len(t) :
             /\ Visible(t) = SubSeq(t, 1, n)
             /\ IsDone(t[n]) /\ \A j \in 1..(n - 1) : ~IsDone(t[j])
<1> DEFINE dones == {i \in 1..Len(t) : IsDone(t[i])}
<1>1. dones \in SUBSET Nat /\ dones # {}
  BY DEF IsClosed
<1>2. PICK n \in dones : \A y \in dones : n <= y
  BY <1>1, LeastNatural
<1>3. n \in 1..Len(t) /\ IsDone(t[n]) /\ \A j \in 1..(n - 1) : ~IsDone(t[j])
  BY <1>2
<1> QED
  BY <1>3, VisibleTo

\* Of an open one everything is read.
LEMMA VisibleOpen == ASSUME NEW t, ~IsClosed(t) PROVE Visible(t) = t
BY DEF Visible

\* Nothing is read of what is published after DONE.
LEMMA VisibleAppendClosed ==
    ASSUME NEW t \in Seq(Message), NEW m \in Message, IsClosed(t)
    PROVE  Visible(Append(t, m)) = Visible(t)
<1>1. PICK n \in 1..Len(t) :
         /\ Visible(t) = SubSeq(t, 1, n)
         /\ IsDone(t[n]) /\ \A j \in 1..(n - 1) : ~IsDone(t[j])
  BY VisibleClosed
<1> DEFINE w == Append(t, m)
<1>2. /\ w \in Seq(Message) /\ n \in 1..Len(w)
      /\ \A j \in 1..n : w[j] = t[j]
      /\ SubSeq(w, 1, n) = SubSeq(t, 1, n)
  OBVIOUS
<1> HIDE DEF w
<1>3. IsDone(w[n]) /\ \A j \in 1..(n - 1) : ~IsDone(w[j])
  <2>1. n \in 1..n /\ \A j \in 1..(n - 1) : j \in 1..n
    OBVIOUS
  <2> QED
    BY <1>1, <1>2, <2>1
<1>4. Visible(w) = SubSeq(w, 1, n)
  BY <1>2, <1>3, VisibleTo
<1> QED
  BY <1>1, <1>2, <1>4 DEF w

\* Of an open topic what is published next is read.
LEMMA VisibleAppendOpen ==
    ASSUME NEW t \in Seq(Message), NEW m \in Message, ~IsClosed(t)
    PROVE  Visible(Append(t, m)) = Append(t, m)
<1> DEFINE w == Append(t, m)
<1>1. CASE ~IsDone(m)
  BY <1>1, ClosedAppend, VisibleOpen
<1>2. CASE IsDone(m)
  <2>1. /\ w \in Seq(Message) /\ Len(w) = Len(t) + 1 /\ w[Len(t) + 1] = m
        /\ \A j \in 1..Len(t) : w[j] = t[j]
        /\ SubSeq(w, 1, Len(w)) = w
    OBVIOUS
  <2> HIDE DEF w
  <2>2. \A j \in 1..Len(t) : ~IsDone(w[j])
    BY <2>1 DEF IsClosed
  <2>3. Len(w) \in 1..Len(w) /\ IsDone(w[Len(w)]) /\ \A j \in 1..(Len(w) - 1) : ~IsDone(w[j])
    BY <1>2, <2>1, <2>2
  <2>4. Visible(w) = SubSeq(w, 1, Len(w))
    BY <2>1, <2>3, VisibleTo
  <2> QED
    BY <2>1, <2>4 DEF w
<1> QED
  BY <1>1, <1>2

---------------------------------------------------------------------------
(***************************************************************************)
(* The order of a topic.                                                   *)
(***************************************************************************)

\* Neither an outcome nor DONE has been published.
Quiet(t) == \A i \in DOMAIN t : ~IsOutcome(t[i]) /\ ~IsDone(t[i])

\* The last message is an outcome, and DONE does not follow yet.
EndsInOutcome(t) == t # <<>> /\ IsOutcome(t[Len(t)]) /\ ~IsClosed(t)

\* The same of an ERROR.
EndsInError(t) == t # <<>> /\ t[Len(t)] = Error /\ ~IsClosed(t)

\* Messages in the order OutcomeClosesTopic asks for.
Ordered(seen) ==
  \A i \in DOMAIN seen :
    /\ IsOutcome(seen[i]) /\ i < Len(seen) =>
         IsDone(seen[i + 1]) \/ (seen[i] = Error /\ seen[i + 1] = Error)
    /\ IsDone(seen[i]) => i > 1 /\ IsOutcome(seen[i - 1])

\* What a reader of topic t sees is in that order.
WellClosed(t) == Ordered(Visible(t))

\* One message more in that order.
LEMMA OrderedAppend ==
    ASSUME NEW t \in Seq(Message), NEW m \in Message, Ordered(t),
           t # <<>> /\ IsOutcome(t[Len(t)]) => IsDone(m) \/ (t[Len(t)] = Error /\ m = Error),
           IsDone(m) => t # <<>> /\ IsOutcome(t[Len(t)])
    PROVE  Ordered(Append(t, m))
<1> DEFINE w == Append(t, m)
           n == Len(t)
<1>1. /\ DOMAIN w = 1..(n + 1) /\ DOMAIN t = 1..n /\ n \in Nat /\ Len(w) = n + 1
      /\ \A i \in 1..n : w[i] = t[i]
      /\ w[n + 1] = m
      /\ t # <<>> <=> n # 0
  OBVIOUS
<1> HIDE DEF w, n
<1> SUFFICES ASSUME NEW i \in 1..(n + 1)
             PROVE  /\ IsOutcome(w[i]) /\ i < n + 1 =>
                         IsDone(w[i + 1]) \/ (w[i] = Error /\ w[i + 1] = Error)
                    /\ IsDone(w[i]) => i > 1 /\ IsOutcome(w[i - 1])
  BY <1>1 DEF Ordered, w
<1>2. CASE i = n + 1
  <2>1. ~(i < n + 1)
    BY <1>1, <1>2
  <2>2. IsDone(w[i]) => n # 0 /\ IsOutcome(t[n])
    BY <1>1, <1>2 DEF n
  <2>3. n # 0 => i > 1 /\ i - 1 = n /\ w[n] = t[n]
    BY <1>1, <1>2
  <2> QED
    BY <2>1, <2>2, <2>3
<1>3. CASE i < n
  <2>1. i \in 1..n /\ i + 1 \in 1..n /\ w[i] = t[i] /\ w[i + 1] = t[i + 1] /\ i < Len(t)
    BY <1>1, <1>3 DEF n
  <2>2. i > 1 => w[i - 1] = t[i - 1]
    BY <1>1, <1>3
  <2>3. /\ IsOutcome(t[i]) /\ i < Len(t) =>
             IsDone(t[i + 1]) \/ (t[i] = Error /\ t[i + 1] = Error)
        /\ IsDone(t[i]) => i > 1 /\ IsOutcome(t[i - 1])
    BY <1>1, <2>1 DEF Ordered
  <2> QED
    BY <2>1, <2>2, <2>3
<1>4. CASE i = n
  <2>1. i \in 1..n /\ w[i] = t[n] /\ w[i + 1] = m /\ n # 0
    BY <1>1, <1>4
  <2>2. i > 1 => w[i - 1] = t[i - 1]
    BY <1>1, <1>4
  <2>3. IsDone(t[i]) => i > 1 /\ IsOutcome(t[i - 1])
    BY <1>1, <2>1 DEF Ordered
  <2>4. IsOutcome(t[n]) => IsDone(m) \/ (t[n] = Error /\ m = Error)
    BY <1>1, <2>1 DEF n
  <2> QED
    BY <1>4, <2>1, <2>2, <2>3, <2>4
<1> QED
  BY <1>1, <1>2, <1>3, <1>4

\* Before an outcome everything is in order.
LEMMA QuietOrdered ==
    ASSUME NEW t \in Seq(Message), Quiet(t)
    PROVE  ~IsClosed(t) /\ Ordered(t) /\ WellClosed(t) /\ (t # <<>> => ~IsOutcome(t[Len(t)]))
<1>1. ~IsClosed(t)
  BY DEF IsClosed, Quiet
<1>2. Ordered(t)
  BY DEF Ordered, Quiet
<1>3. t # <<>> => Len(t) \in DOMAIN t
  OBVIOUS
<1> QED
  BY <1>1, <1>2, <1>3, VisibleOpen DEF WellClosed, Quiet

\* A message after no outcome.
LEMMA QuietAppend ==
    ASSUME NEW t \in Seq(Message), NEW m \in Message, Quiet(t), ~IsDone(m)
    PROVE  /\ WellClosed(Append(t, m))
           /\ IsOutcome(m) => EndsInOutcome(Append(t, m))
           /\ m = Error => EndsInError(Append(t, m))
           /\ ~IsOutcome(m) => Quiet(Append(t, m))
<1> DEFINE w == Append(t, m)
<1>1. ~IsClosed(t) /\ Ordered(t) /\ (t # <<>> => ~IsOutcome(t[Len(t)]))
  BY QuietOrdered
<1>2. Ordered(w) /\ Visible(w) = w /\ ~IsClosed(w)
  BY <1>1, OrderedAppend, VisibleAppendOpen, ClosedAppend
<1>3. /\ DOMAIN w = 1..(Len(t) + 1) /\ DOMAIN t = 1..Len(t) /\ Len(w) = Len(t) + 1
      /\ \A i \in 1..Len(t) : w[i] = t[i]
      /\ w[Len(t) + 1] = m /\ w # <<>> /\ w[Len(w)] = m
  OBVIOUS
<1> HIDE DEF w
<1>4. ~IsOutcome(m) => Quiet(w)
  BY <1>3 DEF Quiet
<1> QED
  BY <1>2, <1>3, <1>4 DEF WellClosed, EndsInOutcome, EndsInError, w

\* An outcome is closed by DONE.
LEMMA OutcomeDone ==
    ASSUME NEW t \in Seq(Message), EndsInOutcome(t), WellClosed(t)
    PROVE  WellClosed(Append(t, Done)) /\ IsClosed(Append(t, Done))
<1>1. Done \in Message /\ IsDone(Done)
  BY EndsTyped
<1>2. ~IsClosed(t) /\ Ordered(t)
  BY VisibleOpen DEF EndsInOutcome, WellClosed
<1>3. Ordered(Append(t, Done))
  BY <1>1, <1>2, OrderedAppend DEF EndsInOutcome
<1> QED
  BY <1>1, <1>2, <1>3, VisibleAppendOpen, ClosedAppend DEF WellClosed

\* An ERROR may be repeated.
LEMMA ErrorError ==
    ASSUME NEW t \in Seq(Message), EndsInError(t), WellClosed(t)
    PROVE  WellClosed(Append(t, Error)) /\ EndsInError(Append(t, Error))
<1>1. Error \in Message /\ ~IsDone(Error)
  BY EndsTyped
<1>2. ~IsClosed(t) /\ Ordered(t)
  BY VisibleOpen DEF EndsInError, WellClosed
<1>3. Ordered(Append(t, Error))
  BY <1>1, <1>2, OrderedAppend DEF EndsInError
<1>4. Append(t, Error) # <<>> /\ Append(t, Error)[Len(Append(t, Error))] = Error
  BY <1>1
<1> QED
  BY <1>1, <1>2, <1>3, <1>4, VisibleAppendOpen, ClosedAppend DEF WellClosed, EndsInError

\* What follows DONE does not matter.
LEMMA ClosedMore ==
    ASSUME NEW t \in Seq(Message), NEW m \in Message, IsClosed(t), WellClosed(t)
    PROVE  WellClosed(Append(t, m)) /\ IsClosed(Append(t, m))
BY VisibleAppendClosed, ClosedAppend DEF WellClosed

\* An ERROR is an outcome.
LEMMA ErrorIsOutcome == ASSUME NEW t, EndsInError(t) PROVE EndsInOutcome(t)
BY EndsTyped DEF EndsInError, EndsInOutcome

---------------------------------------------------------------------------
(***************************************************************************)
(* What the agentic server says, question by question.                     *)
(***************************************************************************)

\* Nothing of the question has been answered.
Unstarted == {"idle", "rejecting", "config", "state", "memory", "loading", "starting"}

\* What the topic holds, at each point of the activation and of its answer task.
TopicOK(q) ==
  /\ WellClosed(topic[q])
  /\ phase[q] \in Unstarted => topic[q] = <<>> /\ emitted[q] = 0
  /\ phase[q] \in {"agent", "closing", "reporting"} => Quiet(topic[q])
  /\ phase[q] = "rejected" => EndsInError(topic[q])
  /\ phase[q] = "failing" => IsClosed(topic[q]) \/ Quiet(topic[q]) \/ EndsInError(topic[q])
  /\ phase[q] = "failed" => IsClosed(topic[q]) \/ EndsInError(topic[q])
  /\ phase[q] = "ending" => EndsInOutcome(topic[q])

\* The answer that closes a question has been told.
HasFinal(t) == \E i \in DOMAIN t : t[i].final

\* The drivers' manager and the keep-alive, beside the final answer.
DriversOK(q) ==
  /\ HasFinal(topic[q]) =>
       phase[q] \in {"ending", "saving", "over", "lost"} /\ manager[q] = "closed"
  /\ phase[q] = "reporting" => manager[q] = "closed"
  /\ keepalive[q] => phase[q] \in {"agent", "closing"}

\* The texts emitted are few, and so is what they make.
TextOK(q) ==
  /\ phase[q] = "agent" => Len(ChunkTexts(topic[q])) <= emitted[q]
  /\ final[q] \in Sayable \cup {<<>>}

\* What holds of a question in the agentic server, wherever its tasks stand.
ServerOK(q) == TopicOK(q) /\ DriversOK(q) /\ TextOK(q)

\* The messages there are: only reasoning, chunks and the final answer carry a
\* text, and a chunk does.
Formed == {m \in Message :
  /\ m.op \in {"START", "ERROR", "DONE"} \/ IsStep(m) => m.text = <<>>
  /\ m.final => m.op = "ANSWER"
  /\ m.op = "ANSWER_CHUNK" => m.text # <<>>
  /\ m.text \in Sayable \cup {<<>>}}

\* The types, and the messages there are.
Types ==
  /\ TypeOK
  /\ topic \in [Questions -> Seq(Formed)]
  /\ queue \in [Questions -> Seq(Formed)]

\* Nothing of question q changes in the agentic server, its memory apart.
Kept(q) ==
  /\ topic'[q] = topic[q]
  /\ phase'[q] = phase[q]
  /\ failed'[q] = failed[q]
  /\ final'[q] = final[q]
  /\ emitted'[q] = emitted[q]
  /\ manager'[q] = manager[q]
  /\ keepalive'[q] = keepalive[q]

\* What a step of the server for question r makes of what it keeps.
ServerKeeps(r) ==
  /\ SessionTypeOK'
  /\ topic' \in [Questions -> Seq(Formed)]
  /\ ServerOK(r)'
  /\ \A q \in Questions \ {r} : Kept(q)

\* A question of which nothing changes stays as it is.
LEMMA ServerOKKept ==
    ASSUME NEW q \in Questions, Kept(q), ServerOK(q)
    PROVE  ServerOK(q)'
BY DEF Kept, ServerOK, TopicOK, DriversOK, TextOK

\* No text is a text.
LEMMA NoText == <<>> \in Texts
BY DEF Texts

\* The texts that may be said are the texts short enough, but the empty one.
LEMMA SayableTexts ==
    /\ Sayable \subseteq Texts \ {<<>>}
    /\ \A t \in Texts : t # <<>> /\ Len(t) <= MaxEmitted + 1 => t \in Sayable
    /\ \A n \in 1..(MaxEmitted + 1) : <<n>> \in Sayable
<1>1. MaxEmitted \in Nat
  BY TopicsAssumption
<1>2. ASSUME NEW t \in Sayable PROVE t \in Texts /\ t # <<>>
  <2>1. PICK n \in 1..(MaxEmitted + 1) : t \in [1..n -> 1..(MaxEmitted + 1)]
    BY DEF Sayable
  <2> QED
    BY <1>1, <2>1 DEF Texts
<1>3. ASSUME NEW t \in Texts, t # <<>>, Len(t) <= MaxEmitted + 1 PROVE t \in Sayable
  <2>1. Len(t) \in 1..(MaxEmitted + 1) /\ t \in [1..Len(t) -> 1..(MaxEmitted + 1)]
    BY <1>1, <1>3 DEF Texts
  <2> QED
    BY <2>1 DEF Sayable
<1>4. ASSUME NEW n \in 1..(MaxEmitted + 1) PROVE <<n>> \in Sayable
  <2>1. <<n>> \in Texts /\ <<n>> # <<>> /\ Len(<<n>>) <= MaxEmitted + 1
    BY <1>1 DEF Texts
  <2> QED
    BY <1>3, <2>1
<1> QED
  BY <1>2, <1>3, <1>4

\* The messages there are: the ends.
LEMMA EndsFormed == Start \in Formed /\ Error \in Formed /\ Done \in Formed
<1>1. Start \in Message /\ Error \in Message /\ Done \in Message
  BY EndsTyped
<1> QED
  BY <1>1 DEF Formed, Start, Error, Done, Plain

\* What the agent emits.
LEMMA EmissionsFormed ==
    ASSUME NEW q \in Questions, emitted[q] \in Nat, emitted[q] < MaxEmitted,
           NEW m \in Emissions(q)
    PROVE  m \in Formed /\ ~IsDone(m) /\ ~IsOutcome(m) /\ ~m.final
<1> DEFINE t == <<emitted[q] + 1>>
<1>1. m \in Message /\ ~IsDone(m) /\ ~IsOutcome(m) /\ ~m.final
  BY EmissionsTyped
<1>2. t \in Sayable
  <2>1. emitted[q] + 1 \in 1..(MaxEmitted + 1)
    BY TopicsAssumption
  <2> QED
    BY <2>1, SayableTexts
<1> HIDE DEF t
<1>3. \/ m = Reasoning(t)
      \/ m = Chunk(t)
      \/ \E id \in LearningIds \cup {NoId} : m = Step(id)
  BY DEF Emissions, t
<1>4. m \in Formed
  <2>1. CASE m = Reasoning(t)
    BY <1>1, <1>2, <2>1 DEF Reasoning, Plain, Formed, IsStep
  <2>2. CASE m = Chunk(t)
    BY <1>1, <1>2, <2>2, SayableTexts DEF Chunk, Plain, Formed, IsStep
  <2>3. CASE \E id \in LearningIds \cup {NoId} : m = Step(id)
    BY <1>1, <1>2, <2>3 DEF Step, Plain, Formed, IsStep
  <2> QED
    BY <1>3, <2>1, <2>2, <2>3
<1> QED
  BY <1>1, <1>4

\* The final answer.
LEMMA FinalFormed ==
    ASSUME NEW t \in Sayable \cup {<<>>}
    PROVE  FinalAnswer(t) \in Formed
<1>1. t \in Texts
  BY SayableTexts, NoText
<1>2. FinalAnswer(t) \in Message
  BY <1>1, FinalTyped
<1> QED
  BY <1>2 DEF Formed, FinalAnswer, Plain, IsStep

\* A sequence of such messages is one of messages.
LEMMA FormedSeq == Seq(Formed) \subseteq Seq(Message)
<1>1. Formed \subseteq Message
  BY DEF Formed
<1> QED
  BY <1>1, SeqOfLarger

\* Publishing puts a message at the end of one topic.
LEMMA Published ==
    ASSUME Types, NEW r \in Questions, NEW m \in Formed, Publish(r, m)
    PROVE  /\ topic' \in [Questions -> Seq(Formed)] /\ topic' \in [Questions -> Seq(Message)]
           /\ topic'[r] = Append(topic[r], m)
           /\ \A q \in Questions \ {r} : topic'[q] = topic[q]
<1>1. topic' = [topic EXCEPT ![r] = Append(topic[r], m)]
  BY DEF Publish
<1>2. topic[r] \in Seq(Formed)
  BY DEF Types
<1>3. Append(topic[r], m) \in Seq(Formed)
  BY <1>2
<1>4. /\ topic' \in [Questions -> Seq(Formed)]
      /\ topic'[r] = Append(topic[r], m)
      /\ \A q \in Questions \ {r} : topic'[q] = topic[q]
  BY <1>1, <1>3 DEF Types
<1> QED
  BY <1>4, FormedSeq

\* A publication that fails may do so too.
LEMMA PublishedOrNot ==
    ASSUME Types, NEW r \in Questions, NEW m \in Formed, PublishFails(r, m)
    PROVE  /\ topic' \in [Questions -> Seq(Formed)] /\ topic' \in [Questions -> Seq(Message)]
           /\ topic'[r] = topic[r] \/ topic'[r] = Append(topic[r], m)
           /\ \A q \in Questions \ {r} : topic'[q] = topic[q]
<1>1. CASE Publish(r, m)
  BY <1>1, Published
<1>2. CASE UNCHANGED topic
  BY <1>2, FormedSeq DEF Types
<1> QED
  BY <1>1, <1>2 DEF PublishFails

\* A message more is a final answer more only if it is one.
LEMMA HasFinalAppend ==
    ASSUME NEW t \in Seq(Formed), NEW m \in Formed
    PROVE  HasFinal(Append(t, m)) <=> HasFinal(t) \/ m.final
<1>1. /\ DOMAIN Append(t, m) = 1..(Len(t) + 1) /\ DOMAIN t = 1..Len(t)
      /\ \A i \in 1..Len(t) : Append(t, m)[i] = t[i]
      /\ Append(t, m)[Len(t) + 1] = m
  OBVIOUS
<1>2. ASSUME HasFinal(Append(t, m)) PROVE HasFinal(t) \/ m.final
  BY <1>1, <1>2 DEF HasFinal
<1>3. ASSUME HasFinal(t) PROVE HasFinal(Append(t, m))
  BY <1>1, <1>3 DEF HasFinal
<1>4. ASSUME m.final PROVE HasFinal(Append(t, m))
  BY <1>1, <1>4 DEF HasFinal
<1> QED
  BY <1>2, <1>3, <1>4

\* The text of the chunks of a topic, and of one message more.
LEMMA ChunkTextsTyped ==
    ASSUME NEW t \in Seq(Formed)
    PROVE  /\ ChunkTexts(t) \in Texts
           /\ \A m \in Formed :
                ChunkTexts(Append(t, m)) =
                  IF m.op = "ANSWER_CHUNK" THEN ChunkTexts(t) \o m.text ELSE ChunkTexts(t)
<1> DEFINE Text(m) == IF m.op = "ANSWER_CHUNK" THEN m.text ELSE <<>>
           s == [i \in DOMAIN t |-> Text(t[i])]
<1>1. \A m \in Formed : Text(m) \in Texts
  BY NoText DEF Formed, Message
<1> HIDE DEF Text
<1>2. s \in Seq(Texts) /\ Len(s) = Len(t)
  BY <1>1
<1>3. ChunkTexts(t) = Joined(s)
  BY DEF ChunkTexts, Text
<1>4. Joined(s) \in Texts
  BY <1>2, JoinedSeq DEF Texts
<1>5. ASSUME NEW m \in Formed
      PROVE  ChunkTexts(Append(t, m)) = Joined(s) \o Text(m)
  <2>1. [i \in DOMAIN Append(t, m) |-> Text(Append(t, m)[i])] = Append(s, Text(m))
    BY <1>1
  <2>2. ChunkTexts(Append(t, m)) = Joined(Append(s, Text(m)))
    BY <2>1 DEF ChunkTexts, Text
  <2> HIDE DEF s
  <2>3. Joined(Append(s, Text(m))) = Joined(s) \o Text(m)
    BY <1>1, <1>2, JoinedAppend
  <2> QED
    BY <2>2, <2>3
<1> HIDE DEF s
<1>6. ASSUME NEW m \in Formed
      PROVE  Joined(s) \o Text(m) =
               IF m.op = "ANSWER_CHUNK" THEN Joined(s) \o m.text ELSE Joined(s)
  BY <1>4 DEF Text, Texts
<1> QED
  BY <1>3, <1>4, <1>5, <1>6

---------------------------------------------------------------------------
(***************************************************************************)
(* The steps of the agentic server, action by action.                      *)
(***************************************************************************)

\* Where a step that publishes nothing leads.
Silent(r) ==
  \/ /\ phase[r] \in Unstarted /\ phase'[r] \in Unstarted \cup {"failing"}
     /\ keepalive'[r] = keepalive[r]
  \/ /\ phase[r] = "agent" /\ phase'[r] = "closing"
     /\ manager'[r] = manager[r] /\ keepalive'[r] = keepalive[r]
  \/ /\ phase[r] = "closing" /\ phase'[r] = "reporting"
     /\ manager'[r] = "closed" /\ ~keepalive'[r]
  \/ /\ phase[r] = "saving" /\ phase'[r] = "over"
     /\ manager'[r] = manager[r] /\ keepalive'[r] = keepalive[r]

\* Such a step keeps the invariant.
LEMMA SilentKeeps ==
    ASSUME Types, NEW r \in Questions, ServerOK(r), Silent(r), SessionTypeOK',
           topic' = topic, emitted'[r] = emitted[r], final'[r] \in Sayable \cup {<<>>},
           \A q \in Questions \ {r} : Kept(q)
    PROVE  ServerKeeps(r)
<1>1. topic' \in [Questions -> Seq(Formed)]
  BY DEF Types
<1>2. topic[r] = <<>> => Quiet(topic[r]) /\ ~HasFinal(topic[r])
  BY DEF Quiet, HasFinal
<1>3. TopicOK(r)'
  BY <1>2 DEF ServerOK, TopicOK, Silent, Unstarted
<1>4. DriversOK(r)'
  BY <1>2 DEF ServerOK, TopicOK, DriversOK, Silent, Unstarted
<1>5. TextOK(r)'
  BY DEF TextOK, Silent, Unstarted
<1> QED
  BY <1>1, <1>3, <1>4, <1>5 DEF ServerKeeps, ServerOK

\* What activate does before and besides publishing (session.py, activate).
LEMMA ActivationSilent ==
    ASSUME Types, NEW r \in Questions, ServerOK(r),
           \/ Activate(r) /\ phase[r] = "idle"
           \/ FailActivation(r) \/ LoadConfig(r) \/ LoadState(r)
           \/ UseMemory(r) \/ MissMemory(r) \/ LoadMemory(r)
    PROVE  ServerKeeps(r)
<1>0. /\ SessionTypeOK /\ SessionOf[r] \in Sessions
      /\ final[r] \in Sayable \cup {<<>>}
  BY SessionAssumption DEF Types, TypeOK, ServerOK, TextOK
<1>1. CASE Activate(r) /\ phase[r] = "idle"
  <2>1. SessionTypeOK'
    <3>1. phase' \in [Questions -> Phases]
      BY <1>0, <1>1, ZenonT(30) DEF Activate, Goto, SessionTypeOK, Phases
    <3>2. beside' \in [Questions -> SUBSET Questions]
      BY <1>0, <1>1 DEF Activate, SessionTypeOK
    <3>3. /\ inbox' \subseteq Questions
          /\ UNCHANGED <<topic, failed, final, emitted, manager, keepalive, server, memory,
                         using, history, stored>>
      BY <1>0, <1>1 DEF Activate, SessionTypeOK
    <3> QED
      BY <1>0, <3>1, <3>2, <3>3 DEF SessionTypeOK
  <2>2. Silent(r) /\ topic' = topic /\ emitted' = emitted /\ final' = final
    BY <1>0, <1>1 DEF Activate, Goto, SessionTypeOK, Silent, Unstarted
  <2>3. \A q \in Questions \ {r} : Kept(q)
    BY <1>0, <1>1 DEF Activate, Goto, SessionTypeOK, Kept
  <2> QED
    BY <1>0, <2>1, <2>2, <2>3, SilentKeeps
<1>2. CASE FailActivation(r)
  <2>1. SessionTypeOK'
    BY <1>0, <1>2 DEF FailActivation, Goto, SessionTypeOK, Phases
  <2>2. Silent(r) /\ topic' = topic /\ emitted' = emitted /\ final' = final
    BY <1>0, <1>2 DEF FailActivation, Goto, SessionTypeOK, Silent, Unstarted
  <2>3. \A q \in Questions \ {r} : Kept(q)
    BY <1>0, <1>2 DEF FailActivation, Goto, SessionTypeOK, Kept
  <2> QED
    BY <1>0, <2>1, <2>2, <2>3, SilentKeeps
<1>3. CASE LoadConfig(r)
  <2>1. SessionTypeOK'
    BY <1>0, <1>3 DEF LoadConfig, Goto, SessionTypeOK, Phases
  <2>2. Silent(r) /\ topic' = topic /\ emitted' = emitted /\ final' = final
    BY <1>0, <1>3 DEF LoadConfig, Goto, SessionTypeOK, Silent, Unstarted
  <2>3. \A q \in Questions \ {r} : Kept(q)
    BY <1>0, <1>3 DEF LoadConfig, Goto, SessionTypeOK, Kept
  <2> QED
    BY <1>0, <2>1, <2>2, <2>3, SilentKeeps
<1>4. CASE LoadState(r)
  <2>1. SessionTypeOK'
    BY <1>0, <1>4 DEF LoadState, Goto, SessionTypeOK, Phases
  <2>2. Silent(r) /\ topic' = topic /\ emitted' = emitted /\ final' = final
    BY <1>0, <1>4 DEF LoadState, Goto, SessionTypeOK, Silent, Unstarted
  <2>3. \A q \in Questions \ {r} : Kept(q)
    BY <1>0, <1>4 DEF LoadState, Goto, SessionTypeOK, Kept
  <2> QED
    BY <1>0, <2>1, <2>2, <2>3, SilentKeeps
<1>5. CASE UseMemory(r)
  <2>0. MemoryFor(r) \in Questions
    BY <1>0, <1>5 DEF UseMemory, MemoryFor, SessionTypeOK
  <2>1. SessionTypeOK'
    BY <1>0, <1>5, <2>0 DEF UseMemory, StartQuestion, Goto, SessionTypeOK, Phases
  <2>2. Silent(r) /\ topic' = topic /\ emitted' = emitted /\ final' = final
    BY <1>0, <1>5 DEF UseMemory, StartQuestion, Goto, SessionTypeOK, Silent, Unstarted
  <2>3. \A q \in Questions \ {r} : Kept(q)
    BY <1>0, <1>5 DEF UseMemory, StartQuestion, Goto, SessionTypeOK, Kept
  <2> QED
    BY <1>0, <2>1, <2>2, <2>3, SilentKeeps
<1>6. CASE MissMemory(r)
  <2>1. SessionTypeOK'
    BY <1>0, <1>6 DEF MissMemory, Running, Goto, SessionTypeOK, Phases
  <2>2. Silent(r) /\ topic' = topic /\ emitted' = emitted /\ final' = final
    BY <1>0, <1>6 DEF MissMemory, Goto, SessionTypeOK, Silent, Unstarted
  <2>3. \A q \in Questions \ {r} : Kept(q)
    BY <1>0, <1>6 DEF MissMemory, Goto, SessionTypeOK, Kept
  <2> QED
    BY <1>0, <2>1, <2>2, <2>3, SilentKeeps
<1>7. CASE LoadMemory(r)
  <2>1. SessionTypeOK'
    BY <1>0, <1>7 DEF LoadMemory, StartQuestion, Goto, SessionTypeOK, Phases
  <2>2. Silent(r) /\ topic' = topic /\ emitted' = emitted /\ final' = final
    BY <1>0, <1>7 DEF LoadMemory, StartQuestion, Goto, SessionTypeOK, Silent, Unstarted
  <2>3. \A q \in Questions \ {r} : Kept(q)
    BY <1>0, <1>7 DEF LoadMemory, StartQuestion, Goto, SessionTypeOK, Kept
  <2> QED
    BY <1>0, <2>1, <2>2, <2>3, SilentKeeps
<1> QED
  BY <1>1, <1>2, <1>3, <1>4, <1>5, <1>6, <1>7

\* An ERROR, after nothing told, after another or after DONE.
LEMMA ErrorMore ==
    ASSUME NEW t \in Seq(Message), WellClosed(t), IsClosed(t) \/ Quiet(t) \/ EndsInError(t)
    PROVE  /\ WellClosed(Append(t, Error))
           /\ IsClosed(Append(t, Error)) \/ EndsInError(Append(t, Error))
           /\ Quiet(t) => EndsInError(Append(t, Error))
BY EndsTyped, ClosedMore, QuietAppend, ErrorError

\* DONE, after an outcome or another.
LEMMA DoneMore ==
    ASSUME NEW t \in Seq(Message), WellClosed(t), IsClosed(t) \/ EndsInOutcome(t)
    PROVE  WellClosed(Append(t, Done)) /\ IsClosed(Append(t, Done))
BY EndsTyped, ClosedMore, OutcomeDone

\* ERROR, or DONE, is no final answer.
LEMMA EndsNotFinal ==
    ASSUME NEW t \in Seq(Formed), NEW m \in {Start, Error, Done}
    PROVE  HasFinal(Append(t, m)) <=> HasFinal(t)
BY EndsTyped, EndsFormed, HasFinalAppend

\* Where a step that publishes ERROR or DONE in an activation leads.
LEMMA ActivationSays ==
    ASSUME Types, NEW r \in Questions, ServerOK(r), Reject(r) \/ ReportFailedActivation(r)
    PROVE  ServerKeeps(r)
<1> DEFINE t == topic[r]
           u == topic'[r]
<1>0. /\ SessionTypeOK /\ TopicOK(r) /\ DriversOK(r) /\ TextOK(r) /\ WellClosed(t)
      /\ t \in Seq(Formed) /\ t \in Seq(Message)
  BY FormedSeq DEF Types, TypeOK, ServerOK, TopicOK
<1>1. /\ topic' \in [Questions -> Seq(Formed)] /\ topic' \in [Questions -> Seq(Message)]
      /\ \A q \in Questions \ {r} : topic'[q] = topic[q]
      /\ \/ /\ phase[r] \in {"rejecting", "failing"}
            /\ \/ /\ u = Append(t, Error)
                  /\ \/ phase[r] = "rejecting" /\ phase'[r] = "rejected"
                     \/ phase[r] = "failing" /\ phase'[r] = "failed"
               \/ /\ u = t \/ u = Append(t, Error)
                  /\ phase[r] = "rejecting" => phase'[r] = "failing"
                  /\ phase[r] = "failing" => phase'[r] = "lost"
         \/ /\ phase[r] \in {"rejected", "failed"}
            /\ \/ u = Append(t, Done) /\ phase'[r] = "over"
               \/ /\ u = t \/ u = Append(t, Done)
                  /\ phase[r] = "rejected" => phase'[r] = "failing"
                  /\ phase[r] = "failed" => phase'[r] = "lost"
  <2>1. CASE Reject(r)
    BY <1>0, <2>1, EndsFormed, Published, PublishedOrNot DEF Reject, Goto, SessionTypeOK
  <2>2. CASE ReportFailedActivation(r)
    BY <1>0, <2>2, EndsFormed, Published, PublishedOrNot
       DEF ReportFailedActivation, Goto, SessionTypeOK
  <2> QED
    BY <2>1, <2>2
<1>2. /\ \A p : p # r => (phase'[p] = phase[p] \/ p \notin Questions)
      /\ phase' \in [Questions -> Phases]
      /\ UNCHANGED <<inbox, failed, final, emitted, manager, keepalive, server, memory,
                     using, history, stored, beside>>
  <2>1. /\ UNCHANGED <<inbox, failed, final, emitted, manager, keepalive, server, memory,
                       using, history, stored, beside>>
        /\ \E p \in Phases : phase' = [phase EXCEPT ![r] = p]
    <3>1. CASE Reject(r)
      BY <3>1 DEF Reject, Goto, Phases
    <3>2. CASE ReportFailedActivation(r)
      BY <3>2 DEF ReportFailedActivation, Goto, Phases
    <3> QED
      BY <3>1, <3>2
  <2>2. phase \in [Questions -> Phases]
    BY <1>0 DEF SessionTypeOK
  <2> QED
    BY <2>1, <2>2
<1>3. SessionTypeOK'
  BY <1>0, <1>1, <1>2 DEF SessionTypeOK
<1>4. \A q \in Questions \ {r} : Kept(q)
  BY <1>1, <1>2 DEF Kept
<1> HIDE DEF t, u
<1>5. /\ HasFinal(u) <=> HasFinal(t)
      /\ phase[r] \in {"rejecting", "failing", "rejected", "failed"} => ~HasFinal(t) /\ ~keepalive[r]
  <2>1. HasFinal(u) <=> HasFinal(t)
    <3>1. /\ HasFinal(Append(t, Error)) <=> HasFinal(t)
          /\ HasFinal(Append(t, Done)) <=> HasFinal(t)
      BY <1>0, EndsNotFinal
    <3>2. u = t \/ u = Append(t, Error) \/ u = Append(t, Done)
      BY <1>1
    <3> QED
      BY <3>1, <3>2
  <2>2. phase[r] \in {"rejecting", "failing", "rejected", "failed"} => ~HasFinal(t) /\ ~keepalive[r]
    BY <1>0 DEF DriversOK, t
  <2> QED
    BY <2>1, <2>2
<1>6. /\ phase[r] = "rejecting" => Quiet(t)
      /\ phase[r] = "failing" => IsClosed(t) \/ Quiet(t) \/ EndsInError(t)
      /\ phase[r] = "rejected" => EndsInError(t)
      /\ phase[r] = "failed" => IsClosed(t) \/ EndsInError(t)
  BY <1>0 DEF TopicOK, Unstarted, Quiet, t
<1>7. TopicOK(r)'
  <2>1. CASE phase[r] \in {"rejecting", "failing"}
    <3>1. /\ WellClosed(Append(t, Error))
          /\ IsClosed(Append(t, Error)) \/ EndsInError(Append(t, Error))
          /\ Quiet(t) => EndsInError(Append(t, Error))
      BY <1>0, <1>6, <2>1, ErrorMore
    <3> QED
      BY <1>0, <1>1, <1>6, <2>1, <3>1 DEF TopicOK, Unstarted, u
  <2>2. CASE phase[r] \in {"rejected", "failed"}
    <3>1. IsClosed(t) \/ EndsInOutcome(t)
      BY <1>6, <2>2, ErrorIsOutcome
    <3>2. WellClosed(Append(t, Done)) /\ IsClosed(Append(t, Done))
      BY <1>0, <3>1, DoneMore
    <3> QED
      BY <1>0, <1>1, <1>6, <2>2, <3>2 DEF TopicOK, Unstarted, u
  <2> QED
    BY <1>1, <2>1, <2>2
<1>8. DriversOK(r)'
  BY <1>0, <1>1, <1>2, <1>5 DEF DriversOK, u
<1>9. TextOK(r)'
  BY <1>0, <1>1, <1>2 DEF TextOK
<1> QED
  BY <1>1, <1>3, <1>4, <1>7, <1>8, <1>9 DEF ServerKeeps, ServerOK

\* The task answer begins: START, and the keep-alive.
LEMMA BeginAnswerKeeps ==
    ASSUME Types, NEW r \in Questions, ServerOK(r), BeginAnswer(r)
    PROVE  ServerKeeps(r)
<1> DEFINE t == topic[r]
           u == topic'[r]
<1>0. /\ SessionTypeOK /\ TopicOK(r) /\ DriversOK(r) /\ TextOK(r)
      /\ t = <<>> /\ t \in Seq(Formed) /\ t \in Seq(Message) /\ emitted[r] = 0
  BY FormedSeq DEF Types, TypeOK, ServerOK, TopicOK, BeginAnswer, Unstarted
<1>1. /\ topic' \in [Questions -> Seq(Formed)] /\ topic' \in [Questions -> Seq(Message)]
      /\ \A q \in Questions \ {r} : topic'[q] = topic[q]
      /\ u = t \/ u = Append(t, Start)
      /\ phase'[r] \in {"agent", "closing"}
  BY <1>0, EndsFormed, Published, PublishedOrNot DEF BeginAnswer, Goto, SessionTypeOK
<1>2. /\ SessionTypeOK' /\ \A q \in Questions \ {r} : Kept(q)
      /\ emitted' = emitted /\ final' = final
  BY <1>0, <1>1, ZenonT(30) DEF BeginAnswer, Goto, SessionTypeOK, Phases, Kept
<1> HIDE DEF t, u
<1>3. Quiet(u) /\ WellClosed(u) /\ ~HasFinal(u)
  <2>1. Quiet(t) /\ ~HasFinal(t)
    BY <1>0 DEF Quiet, HasFinal
  <2>2. Quiet(Append(t, Start)) /\ ~HasFinal(Append(t, Start))
    BY <1>0, <2>1, EndsTyped, EndsNotFinal, QuietAppend
  <2>3. u \in Seq(Message)
    BY <1>1 DEF u
  <2> QED
    BY <1>1, <2>1, <2>2, <2>3, QuietOrdered
<1>4. ChunkTexts(u) = <<>>
  <2>1. ChunkTexts(t) = <<>>
    BY <1>0, JoinedEmpty DEF ChunkTexts
  <2>2. ChunkTexts(Append(t, Start)) = ChunkTexts(t)
    BY <1>0, EndsFormed, ChunkTextsTyped DEF Start, Plain
  <2> QED
    BY <1>1, <2>1, <2>2
<1>5. TopicOK(r)'
  BY <1>1, <1>3 DEF TopicOK, Unstarted, u
<1>6. DriversOK(r)'
  BY <1>1, <1>3 DEF DriversOK, u
<1>7. TextOK(r)'
  BY <1>0, <1>1, <1>2, <1>4 DEF TextOK, u
<1> QED
  BY <1>1, <1>2, <1>5, <1>6, <1>7 DEF ServerKeeps, ServerOK

\* The agent emits a message.
LEMMA AgentEmitsKeeps ==
    ASSUME Types, NEW r \in Questions, ServerOK(r), AgentEmits(r)
    PROVE  ServerKeeps(r)
<1> DEFINE t == topic[r]
           u == topic'[r]
<1>0. /\ SessionTypeOK /\ TopicOK(r) /\ DriversOK(r) /\ TextOK(r)
      /\ t \in Seq(Formed) /\ t \in Seq(Message) /\ Quiet(t)
      /\ phase[r] = "agent" /\ emitted[r] \in Nat /\ emitted[r] < MaxEmitted
  BY FormedSeq, TopicsAssumption
     DEF Types, TypeOK, SessionTypeOK, ServerOK, TopicOK, AgentEmits, Unstarted
<1>1. PICK m \in Emissions(r) :
         \/ Publish(r, m) /\ UNCHANGED <<phase, failed>>
         \/ /\ PublishFails(r, m)
            /\ Goto(r, "closing")
            /\ failed' = [failed EXCEPT ![r] = TRUE]
  BY DEF AgentEmits
<1>2. m \in Formed /\ ~IsDone(m) /\ ~IsOutcome(m) /\ ~m.final
  BY <1>0, EmissionsFormed
<1>3. /\ topic' \in [Questions -> Seq(Formed)] /\ topic' \in [Questions -> Seq(Message)]
      /\ \A q \in Questions \ {r} : topic'[q] = topic[q]
      /\ \/ u = Append(t, m) /\ phase'[r] = "agent"
         \/ (u = t \/ u = Append(t, m)) /\ phase'[r] = "closing"
  BY <1>0, <1>1, <1>2, Published, PublishedOrNot DEF Goto, SessionTypeOK
<1>4. emitted'[r] = emitted[r] + 1 /\ emitted' \in [Questions -> 0..MaxEmitted]
  BY <1>0, TopicsAssumption DEF AgentEmits, SessionTypeOK
<1>5. /\ SessionTypeOK' /\ \A q \in Questions \ {r} : Kept(q)
      /\ final' = final /\ manager' = manager /\ keepalive' = keepalive
  <2>1. /\ UNCHANGED <<inbox, final, manager, keepalive, server, memory, using, history,
                       stored, beside>>
        /\ emitted' = [emitted EXCEPT ![r] = @ + 1]
    BY DEF AgentEmits
  <2>2. /\ phase' \in [Questions -> Phases] /\ failed' \in [Questions -> BOOLEAN]
        /\ \A q \in Questions \ {r} : phase'[q] = phase[q] /\ failed'[q] = failed[q]
    <3>1. CASE UNCHANGED <<phase, failed>>
      BY <1>0, <3>1 DEF SessionTypeOK
    <3>2. CASE Goto(r, "closing") /\ failed' = [failed EXCEPT ![r] = TRUE]
      BY <1>0, <3>2 DEF Goto, SessionTypeOK, Phases
    <3> QED
      BY <1>1, <3>1, <3>2
  <2>3. SessionTypeOK'
    BY <1>0, <1>3, <1>4, <2>1, <2>2 DEF SessionTypeOK
  <2>4. \A q \in Questions \ {r} : Kept(q)
    BY <1>0, <1>3, <2>1, <2>2 DEF SessionTypeOK, Kept
  <2> QED
    BY <2>1, <2>3, <2>4
<1>6. Quiet(u) /\ WellClosed(u) /\ ~HasFinal(u)
  <2>1. Quiet(t) /\ ~HasFinal(t)
    BY <1>0 DEF DriversOK
  <2> HIDE DEF t, u
  <2>2. Quiet(Append(t, m)) /\ ~HasFinal(Append(t, m))
    <3>1. m \in Message
      BY <1>2 DEF Formed
    <3> QED
      BY <1>0, <1>2, <2>1, <3>1, HasFinalAppend, QuietAppend
  <2>3. u \in Seq(Message)
    BY <1>3 DEF u
  <2> QED
    BY <1>3, <2>1, <2>2, <2>3, QuietOrdered
<1>7. phase'[r] = "agent" => Len(ChunkTexts(u)) <= emitted[r] + 1
  <2> HIDE DEF t, u
  <2>1. m.op = "ANSWER_CHUNK" => m.text = <<emitted[r] + 1>>
    BY DEF Emissions, Reasoning, Step, Chunk, Plain
  <2>2. ChunkTexts(t) \in Texts /\ Len(ChunkTexts(t)) <= emitted[r]
    BY <1>0, ChunkTextsTyped DEF TextOK, t
  <2>3. ChunkTexts(Append(t, m)) =
          IF m.op = "ANSWER_CHUNK" THEN ChunkTexts(t) \o m.text ELSE ChunkTexts(t)
    BY <1>0, <1>2, ChunkTextsTyped
  <2>4. ASSUME NEW c \in Seq(Nat), NEW n \in Nat
        PROVE  Len(c \o <<n>>) = Len(c) + 1
    OBVIOUS
  <2>5. ChunkTexts(t) \in Seq(Nat)
    BY <2>2, TopicsAssumption DEF Texts
  <2>6. Len(ChunkTexts(Append(t, m))) <= emitted[r] + 1
    <3>1. CASE m.op = "ANSWER_CHUNK"
      <4>1. Len(ChunkTexts(t) \o <<emitted[r] + 1>>) = Len(ChunkTexts(t)) + 1
        BY <1>0, <2>4, <2>5
      <4>2. ChunkTexts(Append(t, m)) = ChunkTexts(t) \o <<emitted[r] + 1>>
        BY <2>1, <2>3, <3>1
      <4>3. Len(ChunkTexts(t)) \in Nat
        BY <2>5
      <4>4. Len(ChunkTexts(t)) + 1 <= emitted[r] + 1
        BY <1>0, <2>2, <4>3
      <4> QED
        BY <4>1, <4>2, <4>4
    <3>2. CASE m.op # "ANSWER_CHUNK"
      BY <1>0, <2>2, <2>3, <2>5, <3>2
    <3> QED
      BY <3>1, <3>2
  <2> QED
    BY <1>3, <2>6
<1>8. TopicOK(r)'
  BY <1>3, <1>6 DEF TopicOK, Unstarted
<1>9. DriversOK(r)'
  BY <1>3, <1>6 DEF DriversOK
<1>10. TextOK(r)'
  BY <1>0, <1>4, <1>5, <1>7 DEF TextOK
<1> QED
  BY <1>3, <1>5, <1>8, <1>9, <1>10 DEF ServerKeeps, ServerOK

\* The agent ends, its drivers are closed, the question is saved: nothing is
\* published (session.py, answer).
LEMMA AnswerSilent ==
    ASSUME Types, NEW r \in Questions, ServerOK(r),
           AgentFinishes(r) \/ AgentFails(r) \/ CloseManager(r) \/ SaveQuestion(r)
    PROVE  ServerKeeps(r)
<1>0. /\ SessionTypeOK /\ SessionOf[r] \in Sessions
      /\ final[r] \in Sayable \cup {<<>>} /\ topic[r] \in Seq(Formed)
      /\ phase[r] = "agent" => Len(ChunkTexts(topic[r])) <= emitted[r]
  BY SessionAssumption DEF Types, TypeOK, ServerOK, TextOK
<1>1. CASE AgentFinishes(r)
  <2>1. PICK x \in {ChunkTexts(topic[r]), <<MaxEmitted + 1>>, <<>>} :
           final' = [final EXCEPT ![r] = x]
    BY <1>1 DEF AgentFinishes
  <2>2. x \in Sayable \cup {<<>>}
    <3>1. CASE x = ChunkTexts(topic[r])
      <4>1. x \in Texts /\ Len(x) <= emitted[r] /\ emitted[r] \in 0..MaxEmitted
        BY <1>0, <1>1, <3>1, ChunkTextsTyped DEF AgentFinishes, SessionTypeOK
      <4>2. Len(x) <= MaxEmitted + 1
        <5>1. Len(x) \in Nat
          BY <4>1 DEF Texts
        <5> QED
          BY <4>1, <5>1, TopicsAssumption
      <4> QED
        BY <4>1, <4>2, SayableTexts
    <3>2. CASE x = <<MaxEmitted + 1>>
      <4>1. MaxEmitted + 1 \in 1..(MaxEmitted + 1)
        BY TopicsAssumption
      <4> QED
        BY <3>2, <4>1, SayableTexts
    <3> QED
      BY <2>1, <3>1, <3>2
  <2>3. x \in Texts
    BY <2>2, SayableTexts, NoText
  <2>4. final' \in [Questions -> Texts] /\ final'[r] \in Sayable \cup {<<>>}
        /\ \A q \in Questions \ {r} : final'[q] = final[q]
    BY <1>0, <2>1, <2>2, <2>3 DEF SessionTypeOK
  <2>5. SessionTypeOK'
    BY <1>0, <1>1, <2>4 DEF AgentFinishes, Goto, SessionTypeOK, Phases
  <2>6. Silent(r) /\ topic' = topic /\ emitted' = emitted
    BY <1>0, <1>1 DEF AgentFinishes, Goto, SessionTypeOK, Silent
  <2>7. \A q \in Questions \ {r} : Kept(q)
    BY <1>0, <1>1, <2>4 DEF AgentFinishes, Goto, SessionTypeOK, Kept
  <2> QED
    BY <2>4, <2>5, <2>6, <2>7, SilentKeeps
<1>2. CASE AgentFails(r)
  <2>1. SessionTypeOK'
    BY <1>0, <1>2 DEF AgentFails, Goto, SessionTypeOK, Phases
  <2>2. Silent(r) /\ topic' = topic /\ emitted' = emitted /\ final' = final
    BY <1>0, <1>2 DEF AgentFails, Goto, SessionTypeOK, Silent
  <2>3. \A q \in Questions \ {r} : Kept(q)
    BY <1>0, <1>2 DEF AgentFails, Goto, SessionTypeOK, Kept
  <2> QED
    BY <1>0, <2>1, <2>2, <2>3, SilentKeeps
<1>3. CASE CloseManager(r)
  <2>1. SessionTypeOK'
    BY <1>0, <1>3 DEF CloseManager, Goto, SessionTypeOK, Phases
  <2>2. Silent(r) /\ topic' = topic /\ emitted' = emitted /\ final' = final
    BY <1>0, <1>3 DEF CloseManager, Goto, SessionTypeOK, Silent
  <2>3. \A q \in Questions \ {r} : Kept(q)
    BY <1>0, <1>3 DEF CloseManager, Goto, SessionTypeOK, Kept
  <2> QED
    BY <1>0, <2>1, <2>2, <2>3, SilentKeeps
<1>4. CASE SaveQuestion(r)
  <2>1. SessionTypeOK'
    <3>1. stored' \in [Sessions -> SUBSET Questions]
      BY <1>0, <1>4 DEF SaveQuestion, SessionTypeOK
    <3> QED
      BY <1>0, <1>4, <3>1 DEF SaveQuestion, Goto, SessionTypeOK, Phases
  <2>2. Silent(r) /\ topic' = topic /\ emitted' = emitted /\ final' = final
    BY <1>0, <1>4 DEF SaveQuestion, Goto, SessionTypeOK, Silent
  <2>3. \A q \in Questions \ {r} : Kept(q)
    BY <1>0, <1>4 DEF SaveQuestion, Goto, SessionTypeOK, Kept
  <2> QED
    BY <1>0, <2>1, <2>2, <2>3, SilentKeeps
<1> QED
  BY <1>1, <1>2, <1>3, <1>4

\* The outcome is told once the drivers are closed.
LEMMA ReportOutcomeKeeps ==
    ASSUME Types, NEW r \in Questions, ServerOK(r), ReportOutcome(r)
    PROVE  ServerKeeps(r)
<1> DEFINE t == topic[r]
           u == topic'[r]
           m == Outcome(r)
<1>0. /\ SessionTypeOK /\ TextOK(r) /\ t \in Seq(Formed) /\ t \in Seq(Message)
      /\ Quiet(t) /\ WellClosed(t) /\ phase[r] = "reporting"
      /\ manager[r] = "closed" /\ ~keepalive[r] /\ ~HasFinal(t)
  BY FormedSeq DEF Types, TypeOK, ServerOK, TopicOK, DriversOK, ReportOutcome
<1>1. m \in Formed /\ m \in Message /\ IsOutcome(m) /\ ~IsDone(m)
  <2>1. m = Error \/ m = FinalAnswer(final[r])
    BY DEF Outcome
  <2>2. final[r] \in Sayable \cup {<<>>} /\ final[r] \in Texts
    BY <1>0 DEF TextOK, SessionTypeOK
  <2> QED
    BY <2>1, <2>2, EndsTyped, EndsFormed, FinalTyped, FinalFormed
<1>2. /\ topic' \in [Questions -> Seq(Formed)] /\ topic' \in [Questions -> Seq(Message)]
      /\ \A q \in Questions \ {r} : topic'[q] = topic[q]
      /\ \/ u = Append(t, m) /\ phase'[r] = "ending"
         \/ (u = t \/ u = Append(t, m)) /\ phase'[r] = "lost"
  <2> HIDE DEF m
  <2>1. CASE Publish(r, m) /\ Goto(r, "ending")
    BY <1>0, <1>1, <2>1, Published DEF Goto, SessionTypeOK
  <2>2. CASE PublishFails(r, m) /\ Goto(r, "lost")
    BY <1>0, <1>1, <2>2, PublishedOrNot DEF Goto, SessionTypeOK
  <2> QED
    BY <2>1, <2>2 DEF ReportOutcome, m
<1>3. /\ SessionTypeOK' /\ \A q \in Questions \ {r} : Kept(q)
      /\ final' = final /\ manager' = manager /\ keepalive' = keepalive
  BY <1>0, <1>2, ZenonT(30) DEF ReportOutcome, Goto, SessionTypeOK, Phases, Kept
<1> HIDE DEF t, u, m
<1>4. WellClosed(u) /\ (u = Append(t, m) => EndsInOutcome(u))
  BY <1>0, <1>1, <1>2, QuietAppend
<1>5. TopicOK(r)'
  BY <1>2, <1>4 DEF TopicOK, Unstarted, u
<1>6. HasFinal(u) => phase'[r] \in {"ending", "lost"}
  BY <1>2
<1>7. DriversOK(r)'
  BY <1>0, <1>2, <1>3, <1>6 DEF DriversOK, u
<1>8. TextOK(r)'
  BY <1>0, <1>2, <1>3 DEF TextOK
<1> QED
  BY <1>2, <1>3, <1>5, <1>7, <1>8 DEF ServerKeeps, ServerOK

\* DONE follows the outcome.
LEMMA ReportDoneKeeps ==
    ASSUME Types, NEW r \in Questions, ServerOK(r), ReportDone(r)
    PROVE  ServerKeeps(r)
<1> DEFINE t == topic[r]
           u == topic'[r]
<1>0. /\ SessionTypeOK /\ TextOK(r) /\ DriversOK(r) /\ t \in Seq(Formed) /\ t \in Seq(Message)
      /\ EndsInOutcome(t) /\ WellClosed(t) /\ phase[r] = "ending"
  BY FormedSeq DEF Types, TypeOK, ServerOK, TopicOK, ReportDone
<1>1. /\ topic' \in [Questions -> Seq(Formed)] /\ topic' \in [Questions -> Seq(Message)]
      /\ \A q \in Questions \ {r} : topic'[q] = topic[q]
      /\ u = t \/ u = Append(t, Done)
      /\ phase'[r] \in {"saving", "lost"}
  <2>1. CASE Publish(r, Done) /\ Goto(r, "saving")
    BY <1>0, <2>1, EndsFormed, Published DEF Goto, SessionTypeOK
  <2>2. CASE PublishFails(r, Done) /\ Goto(r, "lost")
    BY <1>0, <2>2, EndsFormed, PublishedOrNot DEF Goto, SessionTypeOK
  <2> QED
    BY <2>1, <2>2 DEF ReportDone
<1>2. /\ SessionTypeOK' /\ \A q \in Questions \ {r} : Kept(q)
      /\ final' = final /\ manager' = manager /\ keepalive' = keepalive
  BY <1>0, <1>1, ZenonT(30) DEF ReportDone, Goto, SessionTypeOK, Phases, Kept
<1>3. HasFinal(u) <=> HasFinal(t)
  <2>1. HasFinal(Append(t, Done)) <=> HasFinal(t)
    BY <1>0, EndsNotFinal
  <2> QED
    BY <1>1, <2>1
<1> HIDE DEF t, u
<1>4. WellClosed(u)
  BY <1>0, <1>1, DoneMore
<1>5. TopicOK(r)'
  BY <1>1, <1>4 DEF TopicOK, Unstarted, u
<1>6. DriversOK(r)'
  BY <1>0, <1>1, <1>2, <1>3 DEF DriversOK, t, u
<1>7. TextOK(r)'
  BY <1>0, <1>1, <1>2 DEF TextOK
<1> QED
  BY <1>1, <1>2, <1>5, <1>6, <1>7 DEF ServerKeeps, ServerOK

\* A step of the server for one question.
LEMMA ServerStepKeeps ==
    ASSUME Types, NEW r \in Questions, ServerOK(r), r \in inbox => phase[r] = "idle",
           ServerStep(r)
    PROVE  ServerKeeps(r)
<1>1. CASE \/ Activate(r) \/ FailActivation(r) \/ LoadConfig(r) \/ LoadState(r)
           \/ UseMemory(r) \/ MissMemory(r) \/ LoadMemory(r)
  <2>1. Activate(r) => phase[r] = "idle"
    BY DEF Activate
  <2> QED
    BY <1>1, <2>1, ActivationSilent
<1>2. CASE Reject(r) \/ ReportFailedActivation(r)
  BY <1>2, ActivationSays
<1>3. CASE BeginAnswer(r) \/ AgentEmits(r)
  BY <1>3, BeginAnswerKeeps, AgentEmitsKeeps
<1>4. CASE AgentFinishes(r) \/ AgentFails(r) \/ CloseManager(r) \/ SaveQuestion(r)
  BY <1>4, AnswerSilent
<1>5. CASE ReportOutcome(r) \/ ReportDone(r)
  BY <1>5, ReportOutcomeKeeps, ReportDoneKeeps
<1> QED
  BY <1>1, <1>2, <1>3, <1>4, <1>5 DEF ServerStep

---------------------------------------------------------------------------
(***************************************************************************)
(* The steps of the API: their types.                                      *)
(***************************************************************************)

\* Nothing of question q changes in the API.
ApiKept(q) ==
  /\ loop'[q] = loop[q]
  /\ read'[q] = read[q]
  /\ queue'[q] = queue[q]
  /\ signal'[q] = signal[q]
  /\ learning'[q] = learning[q]
  /\ handler'[q] = handler[q]
  /\ header'[q] = header[q]
  /\ items'[q] = items[q]
  /\ answer'[q] = answer[q]
  /\ request'[q] = request[q]
  /\ dropped'[q] = dropped[q]

\* What a step of the API for question r makes of what it keeps.
ApiKeeps(r) ==
  /\ AskTypeOK'
  /\ queue' \in [Questions -> Seq(Formed)]
  /\ topic' = topic /\ inbox' = inbox /\ request' = request
  /\ handler'[r] = "idle" => handler[r] = "idle"
  /\ \A q \in Questions \ {r} : ApiKept(q)

\* The items that are yielded.
LEMMA ItemsTyped ==
    /\ \A type \in ItemTypes : Bare(type) \in Item
    /\ \A m \in Formed : TextItem(m) \in Item
<1>1. ASSUME NEW type \in ItemTypes PROVE Bare(type) \in Item
  BY NoText DEF Bare, Item
<1>2. ASSUME NEW m \in Formed PROVE TextItem(m) \in Item
  BY DEF TextItem, Item, ItemTypes, Formed, Message
<1> QED
  BY <1>1, <1>2

\* The queue of a question has messages for elements, also when its head is taken.
LEMMA TakingTyped ==
    ASSUME Types, NEW r \in Questions, NEW operations, Taking(r, operations)
    PROVE  /\ Head(queue[r]) \in Formed /\ Tail(queue[r]) \in Seq(Formed)
           /\ queue[r] \in Seq(Formed) /\ queue[r] # <<>>
           /\ handler[r] = "answering" /\ Head(queue[r]).op \in operations
           /\ queue' \in [Questions -> Seq(Formed)] /\ queue'[r] = Tail(queue[r])
           /\ \A q \in Questions \ {r} : queue'[q] = queue[q]
           /\ UNCHANGED <<inbox, topic, request, read, signal, learning, header, dropped>>
<1>1. queue[r] \in Seq(Formed) /\ queue[r] # <<>>
  BY DEF Types, Taking
<1>2. Head(queue[r]) \in Formed /\ Tail(queue[r]) \in Seq(Formed)
  BY <1>1
<1>3. queue' = [queue EXCEPT ![r] = Tail(queue[r])]
  BY DEF Taking
<1>4. /\ queue' \in [Questions -> Seq(Formed)] /\ queue'[r] = Tail(queue[r])
      /\ \A q \in Questions \ {r} : queue'[q] = queue[q]
  BY <1>2, <1>3 DEF Types
<1> QED
  BY <1>1, <1>2, <1>4 DEF Taking

\* Items are yielded to one question.
LEMMA YieldTyped ==
    ASSUME Types, NEW r \in Questions, NEW new \in Seq(Item), Yield(r, new)
    PROVE  /\ items' \in [Questions -> Seq(Item)]
           /\ items'[r] = items[r] \o new
           /\ \A q \in Questions \ {r} : items'[q] = items[q]
<1>1. items[r] \in Seq(Item) /\ items \in [Questions -> Seq(Item)]
  BY DEF Types, TypeOK, AskTypeOK
<1>2. items[r] \o new \in Seq(Item)
  BY <1>1
<1> QED
  BY <1>1, <1>2 DEF Yield

\* The end of a response.
LEMMA EndInErrorTyped ==
    ASSUME Types, NEW r \in Questions, NEW new \in Seq(Item), EndInError(r, new)
    PROVE  /\ items' \in [Questions -> Seq(Item)]
           /\ handler' \in [Questions -> HandlerStates]
           /\ \/ handler'[r] = "failed" /\ items'[r] = items[r] \o new
              \/ /\ handler'[r] = "done"
                 /\ items'[r] = items[r] \o Append(new, Bare("error"))
           /\ \A q \in Questions \ {r} : items'[q] = items[q] /\ handler'[q] = handler[q]
<1>1. Append(new, Bare("error")) \in Seq(Item)
  BY ItemsTyped DEF ItemTypes
<1>2. handler \in [Questions -> HandlerStates]
  BY DEF Types, TypeOK, AskTypeOK
<1>3. CASE request[r].sync
  BY <1>2, <1>3, YieldTyped DEF EndInError, HandlerStates
<1>4. CASE ~request[r].sync
  BY <1>1, <1>2, <1>4, YieldTyped DEF EndInError, HandlerStates
<1> QED
  BY <1>3, <1>4

\* The message that the task loop reads next.
LEMMA UnreadTyped ==
    ASSUME Types, NEW r \in Questions, Unread(r)
    PROVE  /\ read[r] \in Nat /\ read[r] + 1 \in 1..Len(topic[r])
           /\ Next1(r) \in Formed /\ Next1(r).learning \in LearningIds \cup {NoId}
<1>1. /\ read[r] \in Nat /\ topic[r] \in Seq(Formed) /\ read[r] < Len(topic[r])
  BY DEF Types, TypeOK, AskTypeOK, Unread
<1>2. read[r] + 1 \in 1..Len(topic[r])
  BY <1>1
<1>3. Next1(r) \in Formed
  BY <1>1, <1>2 DEF Next1
<1> QED
  BY <1>1, <1>2, <1>3 DEF Formed, Message

\* A step of the task loop.
LEMMA LoopTyped ==
    ASSUME Types, NEW r \in Questions, LoopPuts(r) \/ LoopDrops(r) \/ LoopBreaks(r)
    PROVE  ApiKeeps(r)
<1>0. AskTypeOK /\ queue \in [Questions -> Seq(Formed)]
  BY DEF Types, TypeOK
<1>1. CASE LoopPuts(r)
  <2>1. /\ read[r] \in Nat /\ Next1(r) \in Formed /\ Next1(r).learning \in LearningIds \cup {NoId}
    BY <1>1, UnreadTyped DEF LoopPuts
  <2>2. queue' = [queue EXCEPT ![r] = Append(queue[r], Next1(r))]
    BY <1>1 DEF LoopPuts
  <2>3. queue[r] \in Seq(Formed) /\ Append(queue[r], Next1(r)) \in Seq(Formed)
    BY <1>0, <2>1
  <2>4. /\ queue' \in [Questions -> Seq(Formed)]
        /\ \A q \in Questions \ {r} : queue'[q] = queue[q]
    BY <1>0, <2>2, <2>3
  <2>5. queue' \in [Questions -> Seq(Message)]
    BY <2>4, FormedSeq
  <2>6. /\ learning' \in [Questions -> LearningIds \cup {NoId}]
        /\ signal' \in [Questions -> BOOLEAN]
        /\ loop' \in [Questions -> LoopStates]
        /\ read' \in [Questions -> Nat]
    <3>1. learning' \in [Questions -> LearningIds \cup {NoId}]
      BY <1>0, <1>1, <2>1 DEF LoopPuts, AskTypeOK
    <3>2. signal' \in [Questions -> BOOLEAN]
      BY <1>0, <1>1 DEF LoopPuts, AskTypeOK
    <3>3. loop' \in [Questions -> LoopStates]
      BY <1>0, <1>1 DEF LoopPuts, AskTypeOK, LoopStates
    <3>4. read' \in [Questions -> Nat]
      BY <1>0, <1>1, <2>1 DEF LoopPuts, AskTypeOK
    <3> QED
      BY <3>1, <3>2, <3>3, <3>4
  <2>7. AskTypeOK'
    BY <1>0, <1>1, <2>5, <2>6 DEF LoopPuts, AskTypeOK
  <2>8. \A q \in Questions \ {r} : ApiKept(q)
    BY <1>0, <1>1, <2>4 DEF LoopPuts, AskTypeOK, ApiKept
  <2> QED
    BY <1>1, <2>4, <2>7, <2>8 DEF LoopPuts, ApiKeeps
<1>2. CASE LoopDrops(r)
  <2>1. /\ read[r] \in Nat /\ Next1(r).learning \in LearningIds \cup {NoId}
    BY <1>2, UnreadTyped DEF LoopDrops
  <2>2. AskTypeOK'
    BY <1>0, <1>2, <2>1 DEF LoopDrops, AskTypeOK
  <2>3. \A q \in Questions \ {r} : ApiKept(q)
    BY <1>0, <1>2 DEF LoopDrops, AskTypeOK, ApiKept
  <2> QED
    BY <1>0, <1>2, <2>2, <2>3 DEF LoopDrops, ApiKeeps
<1>3. CASE LoopBreaks(r)
  BY <1>0, <1>3 DEF LoopBreaks, AskTypeOK, LoopStates, ApiKept, ApiKeeps
<1> QED
  BY <1>1, <1>2, <1>3

\* A step of the request's handler.
LEMMA HandlerTyped ==
    ASSUME Types, NEW r \in Questions,
           \/ StartReturns(r) \/ StreamText(r) \/ SkipStart(r) \/ StreamError(r)
           \/ StreamDone(r) \/ ClientLeaves(r)
    PROVE  ApiKeeps(r)
<1>0. AskTypeOK /\ queue \in [Questions -> Seq(Formed)]
  BY DEF Types, TypeOK
<1>1. CASE StartReturns(r)
  BY <1>0, <1>1 DEF StartReturns, AskTypeOK, HandlerStates, ApiKept, ApiKeeps
<1>2. CASE ClientLeaves(r)
  BY <1>0, <1>2 DEF ClientLeaves, AskTypeOK, HandlerStates, ApiKept, ApiKeeps
<1>3. CASE StreamText(r)
  <2>1. PICK operations : Taking(r, operations)
    BY <1>3 DEF StreamText
  <2>2. /\ Head(queue[r]) \in Formed /\ queue' \in [Questions -> Seq(Formed)]
        /\ \A q \in Questions \ {r} : queue'[q] = queue[q]
        /\ UNCHANGED <<inbox, topic, request, read, signal, learning, header, dropped>>
    BY <2>1, TakingTyped
  <2>3. TextItem(Head(queue[r])) \in Item /\ Head(queue[r]).text \in Texts
    BY <2>2, ItemsTyped DEF Formed, Message
  <2>4. <<TextItem(Head(queue[r]))>> \in Seq(Item)
    BY <2>3
  <2>5. /\ items' \in [Questions -> Seq(Item)]
        /\ \A q \in Questions \ {r} : items'[q] = items[q]
    BY <1>3, <2>4, YieldTyped DEF StreamText
  <2>6. answer[r] \in Seq(Texts) /\ Append(answer[r], Head(queue[r]).text) \in Seq(Texts)
    BY <1>0, <2>3 DEF AskTypeOK
  <2>7. /\ answer' \in [Questions -> Seq(Texts)]
        /\ \A q \in Questions \ {r} : answer'[q] = answer[q]
    BY <1>0, <1>3, <2>6 DEF StreamText, AskTypeOK
  <2>8. UNCHANGED <<loop, handler>>
    BY <1>3 DEF StreamText
  <2>9. AskTypeOK'
    BY <1>0, <2>2, <2>5, <2>7, <2>8, FormedSeq DEF AskTypeOK
  <2> QED
    BY <2>2, <2>5, <2>7, <2>8, <2>9 DEF ApiKept, ApiKeeps
<1>4. CASE SkipStart(r)
  <2>1. PICK operations : Taking(r, operations)
    BY <1>4 DEF SkipStart
  <2>2. /\ queue' \in [Questions -> Seq(Formed)]
        /\ \A q \in Questions \ {r} : queue'[q] = queue[q]
        /\ UNCHANGED <<inbox, topic, request, read, signal, learning, header, dropped>>
    BY <2>1, TakingTyped
  <2>3. AskTypeOK'
    BY <1>0, <1>4, <2>2, FormedSeq DEF AskTypeOK, SkipStart
  <2> QED
    BY <1>4, <2>2, <2>3 DEF ApiKept, ApiKeeps, SkipStart
<1>5. CASE StreamError(r)
  <2>1. PICK operations : Taking(r, operations)
    BY <1>5 DEF StreamError
  <2>2. /\ queue' \in [Questions -> Seq(Formed)]
        /\ \A q \in Questions \ {r} : queue'[q] = queue[q]
        /\ UNCHANGED <<inbox, topic, request, read, signal, learning, header, dropped>>
    BY <2>1, TakingTyped
  <2>3. /\ items' \in [Questions -> Seq(Item)] /\ handler' \in [Questions -> HandlerStates]
        /\ handler'[r] # "idle"
        /\ \A q \in Questions \ {r} : items'[q] = items[q] /\ handler'[q] = handler[q]
    <3>1. <<>> \in Seq(Item)
      OBVIOUS
    <3> QED
      BY <1>5, <3>1, EndInErrorTyped DEF StreamError
  <2>4. UNCHANGED <<loop, answer>>
    BY <1>5 DEF StreamError
  <2>5. AskTypeOK'
    BY <1>0, <2>2, <2>3, <2>4, FormedSeq DEF AskTypeOK
  <2> QED
    BY <2>2, <2>3, <2>4, <2>5 DEF ApiKept, ApiKeeps
<1>6. CASE StreamDone(r)
  <2> DEFINE rest == <<Bare("retrieval"), Bare("status"), Bare("metadata"),
                       Bare("consumption")>>
  <2>1. PICK operations : Taking(r, operations)
    BY <1>6 DEF StreamDone
  <2>2. /\ queue' \in [Questions -> Seq(Formed)]
        /\ \A q \in Questions \ {r} : queue'[q] = queue[q]
        /\ UNCHANGED <<inbox, topic, request, read, signal, learning, header, dropped>>
    BY <2>1, TakingTyped
  <2>3. rest \in Seq(Item)
    <3>1. /\ Bare("retrieval") \in Item /\ Bare("status") \in Item
          /\ Bare("metadata") \in Item /\ Bare("consumption") \in Item
      BY ItemsTyped DEF ItemTypes
    <3> QED
      BY <3>1
  <2>4. /\ IF request[r].relations THEN EndInError(r, rest)
           ELSE Yield(r, rest) /\ handler' = [handler EXCEPT ![r] = "done"]
        /\ loop' = [loop EXCEPT ![r] = IF @ = "reading" THEN "ended" ELSE @]
        /\ UNCHANGED answer
    BY <1>6 DEF StreamDone
  <2> HIDE DEF rest
  <2>5. /\ items' \in [Questions -> Seq(Item)] /\ handler' \in [Questions -> HandlerStates]
        /\ handler'[r] # "idle"
        /\ \A q \in Questions \ {r} : items'[q] = items[q] /\ handler'[q] = handler[q]
    <3>1. CASE request[r].relations
      BY <2>3, <2>4, <3>1, EndInErrorTyped
    <3>2. CASE ~request[r].relations
      BY <1>0, <2>3, <2>4, <3>2, YieldTyped DEF AskTypeOK, HandlerStates
    <3> QED
      BY <3>1, <3>2
  <2>6. /\ loop' \in [Questions -> LoopStates]
        /\ \A q \in Questions \ {r} : loop'[q] = loop[q]
    BY <1>0, <2>4 DEF AskTypeOK, LoopStates
  <2>7. AskTypeOK'
    BY <1>0, <2>2, <2>4, <2>5, <2>6, FormedSeq DEF AskTypeOK
  <2> QED
    BY <2>2, <2>4, <2>5, <2>6, <2>7 DEF ApiKept, ApiKeeps
<1> QED
  BY <1>1, <1>2, <1>3, <1>4, <1>5, <1>6

\* A step of the API for one question.
LEMMA AskStepKeeps ==
    ASSUME Types, NEW r \in Questions, AskStep(r)
    PROVE  ApiKeeps(r)
BY LoopTyped, HandlerTyped DEF AskStep

---------------------------------------------------------------------------
(***************************************************************************)
(* What always holds of topics.                                            *)
(***************************************************************************)

\* A question is activated once: it waits only before its activation.
AskedOnce(q) ==
  /\ q \in inbox => phase[q] = "idle" /\ handler[q] # "idle"
  /\ handler[q] = "idle" => phase[q] = "idle"

\* The types, and what holds of every question.
TopicsInv == Types /\ \A q \in Questions : ServerOK(q) /\ AskedOnce(q)

\* At first no question is asked and nothing is published.
LEMMA TopicsInitially == Init => TopicsInv
<1> SUFFICES ASSUME Init PROVE TopicsInv
  OBVIOUS
<1>1. <<>> \in Seq(Message) /\ <<>> \in Seq(Formed) /\ <<>> \in Seq(Item)
  OBVIOUS
<1>2. SessionTypeOK
  BY <1>1, NoText, TopicsAssumption, SessionAssumption
     DEF Init, TopicsInit, SessionInit, SessionTypeOK, Phases
<1>3. AskTypeOK
  <2>1. request \in [Questions -> RequestOptions]
    BY RequestsAssumption DEF Init, AskInit
  <2> QED
    BY <1>1, <2>1, NoText DEF Init, AskInit, AskTypeOK, LoopStates, HandlerStates
<1>4. topic \in [Questions -> Seq(Formed)] /\ queue \in [Questions -> Seq(Formed)]
  BY <1>1 DEF Init, TopicsInit, AskInit
<1>5. ASSUME NEW q \in Questions PROVE ServerOK(q) /\ AskedOnce(q)
  <2>1. /\ topic[q] = <<>> /\ phase[q] = "idle" /\ ~keepalive[q] /\ final[q] = <<>>
        /\ emitted[q] = 0 /\ inbox = {}
    BY <1>5 DEF Init, TopicsInit, SessionInit
  <2>2. Quiet(<<>>) /\ ~HasFinal(<<>>)
    BY DEF Quiet, HasFinal
  <2>3. WellClosed(<<>>)
    BY <1>1, <2>2, QuietOrdered
  <2> QED
    BY <2>1, <2>2, <2>3 DEF ServerOK, TopicOK, DriversOK, TextOK, AskedOnce, Unstarted
<1> QED
  BY <1>2, <1>3, <1>4, <1>5 DEF TopicsInv, Types, TypeOK

\* A restart of a process of the server.
LEMMA RestartKeeps ==
    ASSUME TopicsInv, NEW v \in Servers, Restart(v), UNCHANGED askVars
    PROVE  TopicsInv'
<1>0. SessionTypeOK
  BY DEF TopicsInv, Types, TypeOK
<1>1. /\ topic' = topic /\ inbox' = inbox /\ handler' = handler /\ queue' = queue
      /\ final' = final /\ emitted' = emitted
      /\ \A q \in Questions :
           \/ /\ phase'[q] = "lost" /\ phase[q] \notin {"idle", "over"}
              /\ ~keepalive'[q]
              /\ manager'[q] = IF manager[q] = "open" THEN "closed" ELSE manager[q]
           \/ /\ phase'[q] = phase[q] /\ (keepalive'[q] => keepalive[q])
              /\ manager[q] = "closed" => manager'[q] = "closed"
              /\ phase[q] \in {"idle", "over", "lost"} \/
                   (keepalive'[q] = keepalive[q] /\ manager'[q] = manager[q])
  BY <1>0 DEF Restart, askVars, SessionTypeOK
<1>2. SessionTypeOK'
  <2>1. memory' \in [Servers -> [Sessions -> Questions \cup {NoMemory}]]
    BY <1>0 DEF Restart, SessionTypeOK
  <2>2. phase' \in [Questions -> Phases]
    BY <1>0 DEF Restart, SessionTypeOK, Phases
  <2>3. keepalive' \in [Questions -> BOOLEAN]
    BY <1>0 DEF Restart, SessionTypeOK
  <2>4. manager' \in [Questions -> {"none", "open", "closed"}]
    BY <1>0 DEF Restart, SessionTypeOK
  <2> QED
    BY <1>0, <2>1, <2>2, <2>3, <2>4 DEF Restart, SessionTypeOK
<1>3. AskTypeOK'
  BY DEF TopicsInv, Types, TypeOK, AskTypeOK, askVars
<1>4. ASSUME NEW q \in Questions PROVE ServerOK(q)' /\ AskedOnce(q)'
  <2>1. ServerOK(q) /\ AskedOnce(q)
    BY DEF TopicsInv
  <2>2. TopicOK(q)'
    BY <1>1, <2>1 DEF ServerOK, TopicOK, Unstarted
  <2>3. DriversOK(q)'
    BY <1>1, <2>1 DEF ServerOK, DriversOK
  <2>4. TextOK(q)'
    BY <1>1, <2>1 DEF ServerOK, TextOK
  <2>5. AskedOnce(q)'
    BY <1>1, <2>1 DEF AskedOnce
  <2> QED
    BY <2>2, <2>3, <2>4, <2>5 DEF ServerOK
<1> QED
  BY <1>1, <1>2, <1>3, <1>4 DEF TopicsInv, Types, TypeOK

\* Every step keeps it.
LEMMA TopicsKept ==
    ASSUME TopicsInv, [Next]_vars
    PROVE  TopicsInv'
<1>0. Types /\ SessionTypeOK /\ AskTypeOK
  BY DEF TopicsInv, Types, TypeOK
<1>1. ASSUME NEW r \in Questions, Ask(r), UNCHANGED serverVars PROVE TopicsInv'
  <2>1. ASSUME NEW q \in Questions PROVE Kept(q)
    BY <1>1 DEF Ask, serverVars, Kept
  <2>2. SessionTypeOK'
    BY <1>0, <1>1 DEF Ask, serverVars, SessionTypeOK
  <2>3. AskTypeOK'
    BY <1>0, <1>1 DEF Ask, AskTypeOK, LoopStates, HandlerStates
  <2>4. ASSUME NEW q \in Questions PROVE AskedOnce(q)'
    BY <1>0, <1>1 DEF TopicsInv, AskedOnce, Ask, AskTypeOK, serverVars
  <2>5. topic' = topic /\ queue' = queue
    BY <1>1 DEF Ask
  <2> QED
    BY <1>0, <2>1, <2>2, <2>3, <2>4, <2>5, ServerOKKept DEF TopicsInv, Types, TypeOK
<1>2. ASSUME NEW r \in Questions, ServerStep(r), UNCHANGED askVars PROVE TopicsInv'
  <2>1. ServerOK(r) /\ (r \in inbox => phase[r] = "idle")
    BY DEF TopicsInv, AskedOnce
  <2>2. ServerKeeps(r)
    BY <1>0, <1>2, <2>1, ServerStepKeeps
  <2>3. AskTypeOK' /\ queue' = queue /\ handler' = handler
    BY <1>0, <1>2 DEF AskTypeOK, askVars
  <2>4. ASSUME NEW q \in Questions PROVE ServerOK(q)'
    BY <2>2, ServerOKKept DEF TopicsInv, ServerKeeps
  <2>5. \/ r \in inbox /\ inbox' = inbox \ {r}
        \/ phase[r] # "idle" /\ inbox' = inbox
    <3>1. CASE Activate(r)
      BY <3>1 DEF Activate
    <3>2. CASE ~Activate(r)
      BY <1>0, <1>2, <3>2
         DEF ServerStep, Reject, FailActivation, ReportFailedActivation, LoadConfig, LoadState,
             UseMemory, MissMemory, LoadMemory, StartQuestion, BeginAnswer, AgentEmits,
             AgentFinishes, AgentFails, CloseManager, ReportOutcome, ReportDone, SaveQuestion,
             Goto, SessionTypeOK
    <3> QED
      BY <3>1, <3>2
  <2>6. ASSUME NEW q \in Questions PROVE AskedOnce(q)'
    <3>1. CASE q # r
      <4>1. phase'[q] = phase[q] /\ (q \in inbox' => q \in inbox)
        BY <2>2, <2>5, <3>1 DEF ServerKeeps, Kept
      <4> QED
        BY <2>3, <4>1 DEF TopicsInv, AskedOnce
    <3>2. CASE q = r
      <4>1. AskedOnce(r)
        BY DEF TopicsInv
      <4>2. handler[r] # "idle" /\ r \notin inbox'
        BY <2>5, <4>1 DEF AskedOnce
      <4> QED
        BY <2>3, <3>2, <4>2 DEF AskedOnce
    <3> QED
      BY <3>1, <3>2
  <2> QED
    BY <1>0, <2>2, <2>3, <2>4, <2>6 DEF TopicsInv, Types, TypeOK, ServerKeeps
<1>3. ASSUME NEW v \in Servers, NEW s \in Sessions, Evict(v, s), UNCHANGED askVars
      PROVE  TopicsInv'
  <2>1. ASSUME NEW q \in Questions PROVE Kept(q) /\ inbox' = inbox /\ handler' = handler
    BY <1>3 DEF Evict, askVars, Kept
  <2>2. SessionTypeOK' /\ topic' = topic
    BY <1>0, <1>3 DEF Evict, SessionTypeOK
  <2>3. AskTypeOK' /\ queue' = queue
    BY <1>0, <1>3 DEF askVars, AskTypeOK
  <2>4. ASSUME NEW q \in Questions PROVE ServerOK(q)' /\ AskedOnce(q)'
    BY <2>1, ServerOKKept DEF TopicsInv, AskedOnce, Kept
  <2> QED
    BY <1>0, <2>2, <2>3, <2>4 DEF TopicsInv, Types, TypeOK
<1>4. CASE (\E v \in Servers : Restart(v)) /\ UNCHANGED askVars
  BY <1>4, RestartKeeps
<1>5. ASSUME NEW r \in Questions, AskStep(r), UNCHANGED serverVars PROVE TopicsInv'
  <2>1. ApiKeeps(r)
    BY <1>0, <1>5, AskStepKeeps
  <2>2. SessionTypeOK'
    BY <1>0, <1>5, <2>1 DEF ApiKeeps, SessionTypeOK, serverVars
  <2>3. ASSUME NEW q \in Questions PROVE Kept(q) /\ phase'[q] = phase[q]
    BY <1>5, <2>1 DEF ApiKeeps, Kept, serverVars
  <2>4. ASSUME NEW q \in Questions PROVE handler'[q] = "idle" <=> handler[q] = "idle"
    <3>1. CASE q # r
      BY <2>1, <3>1 DEF ApiKeeps, ApiKept
    <3>2. CASE q = r
      <4>1. handler[r] # "idle" \/ handler'[r] = handler[r]
        BY <1>5 DEF AskStep, LoopPuts, LoopDrops, LoopBreaks, StartReturns, StreamText,
             SkipStart, StreamError, StreamDone, ClientLeaves, Taking
      <4> QED
        BY <2>1, <3>2, <4>1 DEF ApiKeeps
    <3> QED
      BY <3>1, <3>2
  <2>5. ASSUME NEW q \in Questions PROVE ServerOK(q)' /\ AskedOnce(q)'
    BY <2>1, <2>3, <2>4, ServerOKKept DEF TopicsInv, AskedOnce, ApiKeeps
  <2> QED
    BY <1>0, <2>1, <2>2, <2>5 DEF TopicsInv, Types, TypeOK, ApiKeeps
<1>6. CASE UNCHANGED vars
  <2>1. ASSUME NEW q \in Questions PROVE Kept(q)
    BY <1>6 DEF vars, serverVars, Kept
  <2>2. SessionTypeOK' /\ AskTypeOK' /\ topic' = topic /\ queue' = queue
        /\ inbox' = inbox /\ handler' = handler /\ phase' = phase
    BY <1>0, <1>6 DEF vars, serverVars, askVars, SessionTypeOK, AskTypeOK
  <2>3. ASSUME NEW q \in Questions PROVE ServerOK(q)' /\ AskedOnce(q)'
    BY <2>1, <2>2, ServerOKKept DEF TopicsInv, AskedOnce
  <2> QED
    BY <1>0, <2>2, <2>3 DEF TopicsInv, Types, TypeOK
<1> QED
  BY <1>1, <1>2, <1>3, <1>4, <1>5, <1>6 DEF Next, ServerNext

\* Types and topics: an activation reports what went wrong before AgentDone, and
\* the answer task reports one outcome after its drivers are closed (session.py,
\* activate and answer).
THEOREM TopicsInvariant == Spec => []TopicsInv
BY TopicsInitially, TopicsKept, PTL DEF Spec

\* The variables of the server and of the API keep their types.
THEOREM AskTypes == Spec => []TypeOK
<1>1. TopicsInv => TypeOK
  BY DEF TopicsInv, Types
<1> QED
  BY <1>1, TopicsInvariant, PTL

\* A reader of any topic sees what the agent said, then an outcome, then DONE,
\* whatever publication fails (session.py, activate and answer).
THEOREM OutcomesClose == Spec => []OutcomeClosesTopic
<1>1. ASSUME TopicsInv PROVE OutcomeClosesTopic
  BY <1>1 DEF TopicsInv, ServerOK, TopicOK, WellClosed, Ordered, OutcomeClosesTopic
<1> QED
  BY <1>1, TopicsInvariant, PTL

\* No driver is open and no keep-alive runs once the final answer is published,
\* and a task that is over or lost leaves no keep-alive behind
\* (session.py:280-305).
THEOREM AnsweredClosed == Spec => []AnsweredLeavesNothingOpen
<1>1. ASSUME TopicsInv PROVE AnsweredLeavesNothingOpen
  BY <1>1 DEF TopicsInv, ServerOK, DriversOK, HasFinal, AnsweredLeavesNothingOpen
<1> QED
  BY <1>1, TopicsInvariant, PTL

---------------------------------------------------------------------------
(***************************************************************************)
(* Session memories.                                                       *)
(***************************************************************************)

\* The task that answers, or is about to, has its question in a memory.
Answering == {"starting", "agent", "closing", "reporting", "ending", "saving"}

\* A question that has started leads no other memory to be loaded.
Started == Answering \cup {"over", "lost"}

\* What is saved of a session was asked in it.
StoredOfSessions == \A s \in Sessions : \A p \in stored[s] : SessionOf[p] = s

\* What the LRU of process v holds of session s was loaded there, and has
\* whatever the process has started of it or saved, but for questions in
\* progress beside the load.
ServedOK(v, s) ==
  memory[v][s] # NoMemory =>
    /\ SessionOf[memory[v][s]] = s /\ server[memory[v][s]] = v
    /\ phase[memory[v][s]] \in Started
    /\ \A p \in Questions :
         SessionOf[p] = s /\ server[p] = v /\ (p \in stored[s] \/ phase[p] \in Answering) =>
           p \in history[memory[v][s]] \cup beside[memory[v][s]]

\* A memory that is being loaded has what was saved before, and all others that
\* may yet be saved are beside it.
LoadOK(q) ==
  phase[q] = "loading" =>
    \A p \in Questions :
      p \in stored[SessionOf[q]] \/ p \in Running(SessionOf[q]) =>
        p = q \/ p \in history[q] \cup beside[q]

\* No LRU is behind what its own process saved.
MemoriesInv ==
  /\ StoredOfSessions
  /\ \A v \in Servers, s \in Sessions : ServedOK(v, s)
  /\ \A q \in Questions : LoadOK(q)

\* What every step knows.
LEMMA MemoryTypes ==
    ASSUME TopicsInv, NEW r \in Questions
    PROVE  /\ SessionTypeOK /\ SessionOf[r] \in Sessions /\ server[r] \in Servers
           /\ NoMemory \notin Questions
           /\ MemoryFor(r) \in Questions \cup {NoMemory}
BY SessionAssumption DEF TopicsInv, Types, TypeOK, SessionTypeOK, MemoryFor

\* A step that at most leads a running question on, saves one that was answered
\* or takes a session from an LRU.
Leads(q) ==
  \/ phase'[q] = phase[q]
  \/ /\ phase[q] \notin {"idle", "over", "lost"}
     /\ phase'[q] # "loading"
     /\ phase'[q] \in Answering => phase[q] \in Answering
     /\ phase[q] \in Started => phase'[q] \in Started

\* Such a step keeps memories: what it saves was in progress.
LEMMA PlainKeeps ==
    ASSUME TopicsInv, MemoriesInv,
           \A q \in Questions : Leads(q),
           \A v \in Servers, s \in Sessions : memory'[v][s] \in {memory[v][s], NoMemory},
           \A s \in Sessions : \A p \in stored'[s] :
             p \in stored[s] \/ (p \in Questions /\ SessionOf[p] = s /\ phase[p] \in Answering),
           UNCHANGED <<server, history, beside>>
    PROVE  MemoriesInv'
<1>0. SessionTypeOK
  BY DEF TopicsInv, Types, TypeOK
<1>1. StoredOfSessions'
  BY DEF MemoriesInv, StoredOfSessions
<1>2. ASSUME NEW v \in Servers, NEW s \in Sessions PROVE ServedOK(v, s)'
  <2> SUFFICES ASSUME memory'[v][s] # NoMemory PROVE ServedOK(v, s)'
    BY DEF ServedOK
  <2> DEFINE m == memory[v][s]
  <2>1. memory'[v][s] = m /\ m \in Questions /\ ServedOK(v, s)
    BY <1>0 DEF SessionTypeOK, MemoriesInv
  <2>2. /\ SessionOf[m] = s /\ server[m] = v /\ phase[m] \in Started
        /\ \A p \in Questions :
             SessionOf[p] = s /\ server[p] = v /\ (p \in stored[s] \/ phase[p] \in Answering) =>
               p \in history[m] \cup beside[m]
    BY <2>1 DEF ServedOK
  <2>3. phase'[m] \in Started
    BY <2>1, <2>2 DEF Leads
  <2>4. ASSUME NEW p \in Questions, SessionOf[p] = s, server[p] = v,
               p \in stored'[s] \/ phase'[p] \in Answering
        PROVE  p \in history[m] \cup beside[m]
    <3>1. phase'[p] \in Answering => phase[p] \in Answering
      BY DEF Leads
    <3> QED
      BY <2>2, <2>4, <3>1
  <2> HIDE DEF m
  <2> QED
    BY <2>1, <2>2, <2>3, <2>4 DEF ServedOK
<1>3. ASSUME NEW q \in Questions PROVE LoadOK(q)'
  <2> SUFFICES ASSUME phase'[q] = "loading" PROVE LoadOK(q)'
    BY DEF LoadOK
  <2>1. phase[q] = "loading" /\ LoadOK(q) /\ SessionOf[q] \in Sessions
    BY SessionAssumption DEF Leads, MemoriesInv
  <2>2. ASSUME NEW p \in Questions,
               p \in stored'[SessionOf[q]] \/ p \in Running(SessionOf[q])'
        PROVE  p \in stored[SessionOf[q]] \/ p \in Running(SessionOf[q])
    <3>1. p \in Running(SessionOf[q])' => p \in Running(SessionOf[q])
      BY DEF Running, Leads
    <3>2. SessionOf[p] = SessionOf[q] /\ phase[p] \in Answering => p \in Running(SessionOf[q])
      BY DEF Running, Answering
    <3> QED
      BY <2>1, <2>2, <3>1, <3>2
  <2> QED
    BY <2>1, <2>2 DEF LoadOK
<1> QED
  BY <1>1, <1>2, <1>3 DEF MemoriesInv

\* The steps of the server that load no memory and start no question.
LEMMA PlainSteps ==
    ASSUME TopicsInv, MemoriesInv, NEW r \in Questions,
           \/ Reject(r) \/ FailActivation(r) \/ ReportFailedActivation(r)
           \/ LoadConfig(r) \/ LoadState(r) \/ BeginAnswer(r) \/ AgentEmits(r)
           \/ AgentFinishes(r) \/ AgentFails(r) \/ CloseManager(r)
           \/ ReportOutcome(r) \/ ReportDone(r) \/ SaveQuestion(r)
    PROVE  /\ MemoriesInv'
           /\ \A q \in Questions : ~(phase[q] # "starting" /\ phase'[q] = "starting")
<1>0. SessionTypeOK /\ SessionOf[r] \in Sessions
  BY MemoryTypes
<1>1. /\ UNCHANGED <<server, memory, history, beside>>
      /\ \A q \in Questions \ {r} : phase'[q] = phase[q]
      /\ Leads(r) /\ (phase'[r] = "starting" => phase[r] = "starting")
      /\ stored' = stored \/ SaveQuestion(r)
  <2>1. CASE Reject(r)
    BY <1>0, <2>1 DEF Reject, Goto, SessionTypeOK, Answering, Started, Leads
  <2>2. CASE FailActivation(r) \/ LoadConfig(r) \/ LoadState(r)
    BY <1>0, <2>2
       DEF FailActivation, LoadConfig, LoadState, Goto, SessionTypeOK, Answering, Started, Leads
  <2>3. CASE ReportFailedActivation(r)
    BY <1>0, <2>3 DEF ReportFailedActivation, Goto, SessionTypeOK, Answering, Started, Leads
  <2>4. CASE BeginAnswer(r)
    BY <1>0, <2>4 DEF BeginAnswer, Goto, SessionTypeOK, Answering, Started, Leads
  <2>5. CASE AgentEmits(r)
    BY <1>0, <2>5 DEF AgentEmits, Goto, SessionTypeOK, Answering, Started, Leads
  <2>6. CASE AgentFinishes(r) \/ AgentFails(r) \/ CloseManager(r)
    BY <1>0, <2>6
       DEF AgentFinishes, AgentFails, CloseManager, Goto, SessionTypeOK, Answering, Started,
           Leads
  <2>7. CASE ReportOutcome(r) \/ ReportDone(r)
    BY <1>0, <2>7
       DEF ReportOutcome, ReportDone, Goto, SessionTypeOK, Answering, Started, Leads
  <2>8. CASE SaveQuestion(r)
    BY <1>0, <2>8 DEF SaveQuestion, Goto, SessionTypeOK, Answering, Started, Leads
  <2> QED
    BY <2>1, <2>2, <2>3, <2>4, <2>5, <2>6, <2>7, <2>8
<1>2. \A s \in Sessions : \A p \in stored'[s] :
        p \in stored[s] \/ (p \in Questions /\ SessionOf[p] = s /\ phase[p] \in Answering)
  <2>1. CASE stored' = stored
    BY <2>1
  <2>2. CASE SaveQuestion(r)
    <3>1. /\ phase[r] \in Answering
          /\ stored' = stored \/ stored' = [stored EXCEPT ![SessionOf[r]] = @ \cup {r}]
      BY <2>2 DEF SaveQuestion, Answering
    <3>2. stored \in [Sessions -> SUBSET Questions]
      BY <1>0 DEF SessionTypeOK
    <3> QED
      BY <1>0, <3>1, <3>2
  <2> QED
    BY <1>1, <2>1, <2>2
<1>3. \A q \in Questions : Leads(q)
  BY <1>1 DEF Leads
<1>4. MemoriesInv'
  BY <1>1, <1>2, <1>3, PlainKeeps
<1> QED
  BY <1>1, <1>4

\* An eviction, or a restart, only takes memories away.
LEMMA EvictKeeps ==
    ASSUME TopicsInv, MemoriesInv,
           \/ \E v \in Servers, s \in Sessions : Evict(v, s)
           \/ \E v \in Servers : Restart(v)
    PROVE  /\ MemoriesInv'
           /\ \A q \in Questions : ~(phase[q] # "starting" /\ phase'[q] = "starting")
<1>0. SessionTypeOK
  BY DEF TopicsInv, Types, TypeOK
<1>1. /\ UNCHANGED <<server, history, stored, beside>>
      /\ \A v \in Servers, s \in Sessions : memory'[v][s] \in {memory[v][s], NoMemory}
      /\ \A q \in Questions :
           \/ phase'[q] = phase[q]
           \/ phase'[q] = "lost" /\ phase[q] \notin {"idle", "over", "lost"}
  <2>1. ASSUME NEW v \in Servers, NEW s \in Sessions, Evict(v, s)
        PROVE  /\ UNCHANGED <<server, history, stored, beside, phase>>
               /\ \A w \in Servers, x \in Sessions : memory'[w][x] \in {memory[w][x], NoMemory}
    BY <1>0, <2>1 DEF Evict, SessionTypeOK
  <2>2. ASSUME NEW v \in Servers, Restart(v)
        PROVE  /\ UNCHANGED <<server, history, stored, beside>>
               /\ \A w \in Servers, x \in Sessions : memory'[w][x] \in {memory[w][x], NoMemory}
               /\ \A q \in Questions :
                    \/ phase'[q] = phase[q]
                    \/ phase'[q] = "lost" /\ phase[q] \notin {"idle", "over", "lost"}
    BY <1>0, <2>2 DEF Restart, SessionTypeOK
  <2> QED
    BY <2>1, <2>2
<1>2. \A q \in Questions : Leads(q)
  BY <1>1 DEF Leads, Started, Answering
<1>3. MemoriesInv'
  BY <1>1, <1>2, PlainKeeps
<1> QED
  BY <1>1, <1>3

\* The activation arrives: it is beside whatever is being loaded of its session.
LEMMA ActivateMemories ==
    ASSUME TopicsInv, MemoriesInv, NEW r \in Questions, Activate(r)
    PROVE  MemoriesInv' /\ \A q \in Questions : phase'[q] = "starting" => phase[q] = "starting"
<1>0. SessionTypeOK /\ phase[r] = "idle"
  BY MemoryTypes DEF TopicsInv, AskedOnce, Activate
<1>1. /\ UNCHANGED <<server, memory, history, stored>>
      /\ \A q \in Questions \ {r} : phase'[q] = phase[q]
      /\ phase'[r] \in {"config", "rejecting"}
      /\ \A q \in Questions :
           /\ beside[q] \subseteq beside'[q]
           /\ phase[q] = "loading" /\ SessionOf[q] = SessionOf[r] => r \in beside'[q]
  BY <1>0 DEF Activate, Goto, SessionTypeOK
<1>2. StoredOfSessions'
  BY <1>1 DEF MemoriesInv, StoredOfSessions
<1>3. ASSUME NEW v \in Servers, NEW s \in Sessions PROVE ServedOK(v, s)'
  <2> SUFFICES ASSUME memory[v][s] # NoMemory PROVE ServedOK(v, s)'
    BY <1>1 DEF ServedOK
  <2> DEFINE m == memory[v][s]
  <2>1. m \in Questions /\ ServedOK(v, s)
    BY <1>0 DEF SessionTypeOK, MemoriesInv
  <2>2. /\ SessionOf[m] = s /\ server[m] = v /\ phase[m] \in Started
        /\ \A p \in Questions :
             SessionOf[p] = s /\ server[p] = v /\ (p \in stored[s] \/ phase[p] \in Answering) =>
               p \in history[m] \cup beside[m]
    BY <2>1 DEF ServedOK
  <2>3. phase'[m] = phase[m]
    BY <1>0, <1>1, <2>1, <2>2 DEF Started, Answering
  <2>4. \A p \in Questions : phase'[p] \in Answering => phase[p] \in Answering
    BY <1>1 DEF Answering
  <2>5. beside[m] \subseteq beside'[m] /\ memory' = memory /\ server' = server
        /\ history' = history /\ stored' = stored
    BY <1>1, <2>1
  <2> HIDE DEF m
  <2>6. memory'[v][s] = m
    BY <2>5 DEF m
  <2> QED
    BY <2>2, <2>3, <2>4, <2>5, <2>6 DEF ServedOK
<1>4. ASSUME NEW q \in Questions PROVE LoadOK(q)'
  <2> SUFFICES ASSUME phase'[q] = "loading" PROVE LoadOK(q)'
    BY DEF LoadOK
  <2>1. phase[q] = "loading" /\ LoadOK(q) /\ beside[q] \subseteq beside'[q]
    BY <1>1 DEF MemoriesInv
  <2>2. ASSUME NEW p \in Questions, p \in Running(SessionOf[q])'
        PROVE  p \in Running(SessionOf[q]) \/ p \in beside'[q]
    BY <1>1, <2>1, <2>2 DEF Running
  <2> QED
    BY <1>1, <2>1, <2>2 DEF LoadOK
<1>5. \A q \in Questions : phase'[q] = "starting" => phase[q] = "starting"
  BY <1>1
<1> QED
  BY <1>2, <1>3, <1>4, <1>5 DEF MemoriesInv

\* A memory is read that no one has: what is not read yet is in progress.
LEMMA MissMemoryKeeps ==
    ASSUME TopicsInv, MemoriesInv, NEW r \in Questions, MissMemory(r)
    PROVE  MemoriesInv' /\ \A q \in Questions : phase'[q] = "starting" => phase[q] = "starting"
<1>0. SessionTypeOK
  BY MemoryTypes
<1>1. /\ phase[r] = "memory" /\ phase'[r] = "loading"
      /\ UNCHANGED <<server, memory, stored>>
      /\ history'[r] = stored[SessionOf[r]]
      /\ beside'[r] = Running(SessionOf[r]) \ {r}
      /\ \A q \in Questions \ {r} :
           phase'[q] = phase[q] /\ history'[q] = history[q] /\ beside'[q] = beside[q]
  BY <1>0 DEF MissMemory, Goto, SessionTypeOK
<1>2. StoredOfSessions'
  BY <1>1 DEF MemoriesInv, StoredOfSessions
<1>3. ASSUME NEW v \in Servers, NEW s \in Sessions PROVE ServedOK(v, s)'
  <2> SUFFICES ASSUME memory[v][s] # NoMemory PROVE ServedOK(v, s)'
    BY <1>1 DEF ServedOK
  <2>1. memory[v][s] \in Questions /\ ServedOK(v, s)
    BY <1>0 DEF SessionTypeOK, MemoriesInv
  <2>2. memory[v][s] # r
    BY <1>1, <2>1 DEF ServedOK, Started, Answering
  <2>3. \A p \in Questions : phase'[p] \in Answering => phase[p] \in Answering
    BY <1>1 DEF Answering
  <2> QED
    BY <1>1, <2>1, <2>2, <2>3 DEF ServedOK
<1>4. \A q \in Questions, s \in Sessions : q \in Running(s)' <=> q \in Running(s)
  BY <1>1 DEF Running
<1>5. ASSUME NEW q \in Questions PROVE LoadOK(q)'
  <2>0. SessionOf[q] \in Sessions /\ LoadOK(q)
    BY SessionAssumption DEF MemoriesInv
  <2>1. CASE q = r
    BY <1>1, <1>4, <2>0, <2>1 DEF LoadOK
  <2>2. CASE q # r
    BY <1>1, <1>4, <2>0, <2>2 DEF LoadOK
  <2> QED
    BY <2>1, <2>2
<1>6. \A q \in Questions : phase'[q] = "starting" => phase[q] = "starting"
  BY <1>1
<1> QED
  BY <1>2, <1>3, <1>5, <1>6 DEF MemoriesInv

\* start_question on memory m: what it knows.
LEMMA StartTyped ==
    ASSUME TopicsInv, NEW r \in Questions, NEW m \in Questions, StartQuestion(r, m),
           phase[r] \in {"memory", "loading"}
    PROVE  /\ phase'[r] = "starting" /\ using'[r] = m /\ r \in history'[m]
           /\ \A q \in Questions \ {r} : phase'[q] = phase[q]
           /\ \A q \in Questions : history[q] \subseteq history'[q]
           /\ \A q \in Questions : q \in Running(SessionOf[q])' <=> q \in Running(SessionOf[q])
           /\ \A p \in Questions \ {r} : phase'[p] \in Answering => phase[p] \in Answering
<1>0. SessionTypeOK
  BY MemoryTypes
<1>1. /\ phase' = [phase EXCEPT ![r] = "starting"]
      /\ using' = [using EXCEPT ![r] = m]
      /\ history' = [history EXCEPT ![m] = @ \cup {r}]
  BY DEF StartQuestion, Goto
<1>2. /\ phase'[r] = "starting" /\ using'[r] = m /\ r \in history'[m]
      /\ \A q \in Questions \ {r} : phase'[q] = phase[q]
      /\ \A q \in Questions : history[q] \subseteq history'[q]
  BY <1>0, <1>1 DEF SessionTypeOK
<1>3. \A q \in Questions : q \in Running(SessionOf[q])' <=> q \in Running(SessionOf[q])
  BY <1>2 DEF Running
<1> QED
  BY <1>2, <1>3

\* A question that starts, in the memory its process has or the one it has
\* loaded, is in it.
LEMMA StartKeeps ==
    ASSUME TopicsInv, MemoriesInv, NEW r \in Questions, NEW m \in Questions,
           StartQuestion(r, m), phase[r] \in {"memory", "loading"},
           \A v \in Servers, s \in Sessions :
             v # server[r] \/ s # SessionOf[r] => memory'[v][s] = memory[v][s],
           memory'[server[r]][SessionOf[r]] = m,
           SessionOf[m] = SessionOf[r], server[m] = server[r],
           m = r \/ phase[m] \in Started,
           \A p \in Questions :
             /\ SessionOf[p] = SessionOf[r] /\ server[p] = server[r]
             /\ p \in stored[SessionOf[r]] \/ phase[p] \in Answering
             => p = r \/ p \in history[m] \cup beside[m],
           UNCHANGED <<server, stored, beside>>
    PROVE  MemoriesInv'
<1>0. /\ SessionTypeOK /\ SessionOf[r] \in Sessions /\ server[r] \in Servers
      /\ NoMemory \notin Questions
  BY MemoryTypes
<1>1. /\ phase'[r] = "starting" /\ using'[r] = m /\ r \in history'[m]
      /\ \A q \in Questions \ {r} : phase'[q] = phase[q]
      /\ \A q \in Questions : history[q] \subseteq history'[q]
      /\ \A q \in Questions : q \in Running(SessionOf[q])' <=> q \in Running(SessionOf[q])
      /\ \A p \in Questions \ {r} : phase'[p] \in Answering => phase[p] \in Answering
  BY StartTyped
<1>2. StoredOfSessions'
  BY DEF MemoriesInv, StoredOfSessions
<1>3. ASSUME NEW v \in Servers, NEW s \in Sessions PROVE ServedOK(v, s)'
  <2>1. CASE v = server[r] /\ s = SessionOf[r]
    <3>1. phase'[m] \in Started
      BY <1>1 DEF Started, Answering
    <3>2. ASSUME NEW p \in Questions, SessionOf[p] = s, server[p] = v,
                 p \in stored[s] \/ phase'[p] \in Answering
          PROVE  p \in history'[m] \cup beside'[m]
      <4>1. p # r => p \in stored[s] \/ phase[p] \in Answering
        BY <1>1, <3>2
      <4>2. history[m] \subseteq history'[m] /\ beside'[m] = beside[m]
        BY <1>1
      <4> QED
        BY <1>1, <2>1, <3>2, <4>1, <4>2
    <3> QED
      BY <2>1, <3>1, <3>2 DEF ServedOK
  <2>2. CASE v # server[r] \/ s # SessionOf[r]
    <3> SUFFICES ASSUME memory[v][s] # NoMemory PROVE ServedOK(v, s)'
      BY <2>2 DEF ServedOK
    <3>1. memory[v][s] \in Questions /\ ServedOK(v, s) /\ memory'[v][s] = memory[v][s]
      BY <1>0, <2>2 DEF SessionTypeOK, MemoriesInv
    <3>2. memory[v][s] # r
      BY <3>1, <2>2 DEF ServedOK
    <3>3. history[memory[v][s]] \subseteq history'[memory[v][s]]
          /\ phase'[memory[v][s]] = phase[memory[v][s]]
      BY <1>1, <3>1, <3>2
    <3> QED
      BY <1>1, <2>2, <3>1, <3>3 DEF ServedOK
  <2> QED
    BY <2>1, <2>2
<1>4. ASSUME NEW q \in Questions PROVE LoadOK(q)'
  <2> SUFFICES ASSUME phase'[q] = "loading" PROVE LoadOK(q)'
    BY DEF LoadOK
  <2>1. phase[q] = "loading" /\ LoadOK(q) /\ history[q] \subseteq history'[q]
    BY <1>1 DEF MemoriesInv
  <2>2. ASSUME NEW p \in Questions, p \in Running(SessionOf[q])'
        PROVE  p \in Running(SessionOf[q])
    BY <1>1, <2>2 DEF Running
  <2> QED
    BY <2>1, <2>2 DEF LoadOK
<1> QED
  BY <1>2, <1>3, <1>4 DEF MemoriesInv

\* What question q may miss as it starts: nothing saved but what was in progress
\* as its memory was loaded, or what another process answered where its own
\* still had a memory.
SeesSaved(q) ==
  \A p \in stored[SessionOf[q]] :
    \/ p \in history'[using'[q]] \cup beside'[using'[q]]
    \/ using'[q] # q /\ server[p] # server[q]

\* A question starts in the memory of the LRU, or in the one it has loaded.
LEMMA StartsWithStored ==
    ASSUME TopicsInv, MemoriesInv, NEW r \in Questions, UseMemory(r) \/ LoadMemory(r)
    PROVE  /\ MemoriesInv'
           /\ SeesSaved(r)
           /\ \A q \in Questions \ {r} : phase'[q] = phase[q]
<1> DEFINE s == SessionOf[r]
           v == server[r]
<1>0. /\ SessionTypeOK /\ s \in Sessions /\ v \in Servers /\ NoMemory \notin Questions
      /\ MemoryFor(r) \in Questions \cup {NoMemory}
  BY MemoryTypes
<1>1. \A p \in stored[s] : p \in Questions /\ SessionOf[p] = s
  BY <1>0 DEF SessionTypeOK, MemoriesInv, StoredOfSessions
<1>2. CASE UseMemory(r)
  <2> DEFINE m == MemoryFor(r)
  <2>1. /\ phase[r] = "memory" /\ m # NoMemory /\ m \in Questions
        /\ StartQuestion(r, m) /\ UNCHANGED <<server, memory, stored, beside>>
    BY <1>0, <1>2 DEF UseMemory
  <2>2. m = memory[v][s] /\ ServedOK(v, s)
    BY <1>0 DEF MemoryFor, MemoriesInv
  <2>3. /\ SessionOf[m] = s /\ server[m] = v /\ phase[m] \in Started
        /\ \A p \in Questions :
             SessionOf[p] = s /\ server[p] = v /\ (p \in stored[s] \/ phase[p] \in Answering) =>
               p \in history[m] \cup beside[m]
    BY <2>1, <2>2 DEF ServedOK
  <2>4. m # r
    BY <2>1, <2>3 DEF Started, Answering
  <2> HIDE DEF m
  <2>5. MemoriesInv'
    BY <2>1, <2>2, <2>3, StartKeeps
  <2>6. using'[r] = m /\ history[m] \subseteq history'[m]
        /\ \A q \in Questions \ {r} : phase'[q] = phase[q]
    BY <2>1, StartTyped
  <2>7. SeesSaved(r)
    BY <1>1, <2>1, <2>3, <2>4, <2>6 DEF SeesSaved
  <2> QED
    BY <2>5, <2>6, <2>7
<1>3. CASE LoadMemory(r)
  <2>1. /\ phase[r] = "loading" /\ memory' = [memory EXCEPT ![v][s] = r]
        /\ StartQuestion(r, r) /\ UNCHANGED <<server, stored, beside>>
    BY <1>3 DEF LoadMemory
  <2>2. /\ memory'[v][s] = r
        /\ \A w \in Servers, x \in Sessions : w # v \/ x # s => memory'[w][x] = memory[w][x]
    BY <1>0, <2>1 DEF SessionTypeOK
  <2>3. \A p \in Questions :
          p \in stored[s] \/ p \in Running(s) => p = r \/ p \in history[r] \cup beside[r]
    BY <2>1 DEF MemoriesInv, LoadOK
  <2>4. \A p \in Questions : SessionOf[p] = s /\ phase[p] \in Answering => p \in Running(s)
    BY DEF Running, Answering
  <2>5. MemoriesInv'
    BY <2>1, <2>2, <2>3, <2>4, StartKeeps
  <2>6. using'[r] = r /\ history[r] \subseteq history'[r] /\ r \in history'[r]
        /\ \A q \in Questions \ {r} : phase'[q] = phase[q]
    BY <2>1, StartTyped
  <2>7. SeesSaved(r)
    BY <1>1, <2>1, <2>3, <2>6 DEF SeesSaved
  <2> QED
    BY <2>5, <2>6, <2>7
<1> QED
  BY <1>2, <1>3

\* At first there is no memory, and nothing is saved.
LEMMA MemoriesInitially == Init => MemoriesInv
<1> SUFFICES ASSUME Init PROVE MemoriesInv
  OBVIOUS
<1>1. /\ \A v \in Servers, s \in Sessions : memory[v][s] = NoMemory
      /\ \A s \in Sessions : stored[s] = {}
      /\ \A q \in Questions : phase[q] = "idle"
  BY DEF Init, SessionInit
<1> QED
  BY <1>1 DEF MemoriesInv, StoredOfSessions, ServedOK, LoadOK

\* A step keeps memories, and starts a question only with what it may not miss.
LEMMA MemoriesKept ==
    ASSUME TopicsInv, MemoriesInv, [Next]_vars
    PROVE  /\ MemoriesInv'
           /\ \A q \in Questions :
                phase[q] # "starting" /\ phase'[q] = "starting" => SeesSaved(q)
<1>1. ASSUME NEW r \in Questions, ServerStep(r)
      PROVE  /\ MemoriesInv'
             /\ \A q \in Questions :
                  phase[q] # "starting" /\ phase'[q] = "starting" => SeesSaved(q)
  <2>1. CASE Activate(r)
    BY <2>1, ActivateMemories
  <2>2. CASE UseMemory(r) \/ LoadMemory(r)
    BY <2>2, StartsWithStored
  <2>3. CASE MissMemory(r)
    BY <2>3, MissMemoryKeeps
  <2>4. CASE \/ Reject(r) \/ FailActivation(r) \/ ReportFailedActivation(r)
             \/ LoadConfig(r) \/ LoadState(r) \/ BeginAnswer(r) \/ AgentEmits(r)
             \/ AgentFinishes(r) \/ AgentFails(r) \/ CloseManager(r)
             \/ ReportOutcome(r) \/ ReportDone(r) \/ SaveQuestion(r)
    BY <2>4, PlainSteps
  <2> QED
    BY <1>1, <2>1, <2>2, <2>3, <2>4 DEF ServerStep
<1>2. CASE \/ \E v \in Servers, s \in Sessions : Evict(v, s)
           \/ \E v \in Servers : Restart(v)
  BY <1>2, EvictKeeps
<1>3. CASE UNCHANGED <<phase, server, memory, history, stored, beside>>
  <2>1. MemoriesInv'
    BY <1>3, PlainKeeps DEF Leads
  <2> QED
    BY <1>3, <2>1
<1> QED
  BY <1>1, <1>2, <1>3 DEF Next, ServerNext, vars, serverVars

\* No memory in the LRU of a process is behind what that process has saved or is
\* answering, but for questions that were in progress when it was loaded; a
\* question saved by another process it may lack (session.py:71, 159-181).
THEOREM MemoriesInvariant == Spec => [](TopicsInv /\ MemoriesInv)
BY TopicsInitially, TopicsKept, MemoriesInitially, MemoriesKept, PTL DEF Spec

\* A question that starts has every saved question of its session before it, but
\* for those in progress as its memory was loaded, and those another process
\* answered where its own still had a memory; whatever was evicted, restarted or
\* not saved in between (session.py:71, 159-181).
THEOREM FollowUpsSeeSaved == Spec => FollowUpSeesSaved
<1>1. TopicsInv /\ MemoriesInv /\ [Next]_vars =>
        [\A q \in Questions :
           phase[q] # "starting" /\ phase'[q] = "starting" =>
             \A p \in stored[SessionOf[q]] :
               \/ p \in history'[using'[q]] \cup beside'[using'[q]]
               \/ using'[q] # q /\ server[p] # server[q]]_vars
  BY MemoriesKept DEF SeesSaved
<1> QED
  BY <1>1, MemoriesInvariant, PTL DEF Spec, FollowUpSeesSaved

---------------------------------------------------------------------------
(***************************************************************************)
(* What the task loop has read.                                            *)
(***************************************************************************)

\* A topic grows at its end.
Grows(q) ==
  \/ topic'[q] = topic[q]
  \/ \E m \in Formed : topic'[q] = Append(topic[q], m)

\* The server publishes a message at a time.
LEMMA ServerGrows ==
    ASSUME Types, NEW r \in Questions, ServerOK(r), ServerStep(r)
    PROVE  Grows(r)
<1>1. \/ topic' = topic
      \/ \E m \in Formed : Publish(r, m) \/ PublishFails(r, m)
  <2>1. CASE \/ Activate(r) \/ FailActivation(r) \/ LoadConfig(r) \/ LoadState(r)
             \/ UseMemory(r) \/ MissMemory(r) \/ LoadMemory(r)
             \/ AgentFinishes(r) \/ AgentFails(r) \/ CloseManager(r) \/ SaveQuestion(r)
    BY <2>1 DEF Activate, FailActivation, LoadConfig, LoadState, UseMemory, MissMemory,
       LoadMemory, AgentFinishes, AgentFails, CloseManager, SaveQuestion
  <2>2. CASE \/ Reject(r) \/ ReportFailedActivation(r) \/ BeginAnswer(r) \/ ReportDone(r)
    BY <2>2, EndsFormed DEF Reject, ReportFailedActivation, BeginAnswer, ReportDone
  <2>3. CASE AgentEmits(r)
    <3>1. emitted[r] \in Nat /\ emitted[r] < MaxEmitted
      BY <2>3, TopicsAssumption DEF AgentEmits, Types, TypeOK, SessionTypeOK
    <3> QED
      BY <2>3, <3>1, EmissionsFormed DEF AgentEmits
  <2>4. CASE ReportOutcome(r)
    <3>1. Outcome(r) \in Formed
      BY EndsFormed, FinalFormed DEF Outcome, ServerOK, TextOK
    <3> QED
      BY <2>4, <3>1 DEF ReportOutcome
  <2> QED
    BY <2>1, <2>2, <2>3, <2>4 DEF ServerStep
<1> QED
  BY <1>1, Published, PublishedOrNot DEF Grows

\* Whatever happens, topics grow.
LEMMA TopicsGrow ==
    ASSUME TopicsInv, [Next]_vars
    PROVE  \A q \in Questions : Grows(q)
<1>1. ASSUME NEW r \in Questions, ServerStep(r) PROVE \A q \in Questions : Grows(q)
  <2>1. ServerKeeps(r) /\ Grows(r)
    BY <1>1, ServerStepKeeps, ServerGrows DEF TopicsInv, AskedOnce
  <2> QED
    BY <2>1 DEF ServerKeeps, Kept, Grows
<1>2. ASSUME NEW r \in Questions, AskStep(r) PROVE \A q \in Questions : Grows(q)
  <2>1. ApiKeeps(r)
    BY <1>2, AskStepKeeps DEF TopicsInv
  <2> QED
    BY <2>1 DEF ApiKeeps, Grows
<1>3. CASE topic' = topic
  BY <1>3 DEF Grows
<1> QED
  BY <1>1, <1>2, <1>3 DEF Next, ServerNext, Ask, Evict, Restart, vars

\* Up to where the loop has read there is no DONE but the last, and no
\* learning id that it does not know of.
LoopOK(q) ==
  /\ read[q] <= Len(topic[q])
  /\ \A i \in 1..read[q] : IsDone(topic[q][i]) => i = read[q] /\ loop[q] # "reading"
  /\ learning[q] = NoId => \A i \in 1..read[q] : topic[q][i].learning = NoId

\* The loop has read all there is to read, and found no learning id.
ReadInVain(q) ==
  /\ read[q] > 0 /\ IsDone(topic[q][read[q]])
  /\ \A i \in 1..read[q] : topic[q][i].learning = NoId

\* The event is set without a learning id only then, or when a message is dropped.
SignalOK(q) ==
  ~dropped[q] =>
    /\ signal[q] /\ learning[q] = NoId => ReadInVain(q)
    /\ handler[q] \notin {"idle", "starting"} /\ header[q] = NoId => ReadInVain(q)

\* What the task loops have read, and what set their events.
LoopsInv == \A q \in Questions : LoopOK(q) /\ SignalOK(q)

\* What has been read of a topic that grows stays.
LEMMA GrownKeeps ==
    ASSUME TopicsInv, NEW q \in Questions, Grows(q), LoopOK(q)
    PROVE  /\ read[q] \in Nat /\ topic[q] \in Seq(Formed)
           /\ read[q] <= Len(topic'[q])
           /\ \A i \in 1..read[q] : topic'[q][i] = topic[q][i]
<1>1. read[q] \in Nat /\ topic[q] \in Seq(Formed) /\ read[q] <= Len(topic[q])
  BY DEF TopicsInv, Types, TypeOK, AskTypeOK, LoopOK
<1>2. ASSUME NEW m \in Formed, topic'[q] = Append(topic[q], m)
      PROVE  /\ read[q] <= Len(topic'[q])
             /\ \A i \in 1..read[q] : topic'[q][i] = topic[q][i]
  BY <1>1, <1>2
<1> QED
  BY <1>1, <1>2 DEF Grows

\* A question of which only the topic grows.
LEMMA LoopKept ==
    ASSUME TopicsInv, NEW q \in Questions, Grows(q), ApiKept(q), LoopOK(q), SignalOK(q)
    PROVE  LoopOK(q)' /\ SignalOK(q)'
<1>1. /\ read[q] \in Nat /\ read[q] <= Len(topic'[q])
      /\ \A i \in 1..read[q] : topic'[q][i] = topic[q][i]
  BY GrownKeeps
<1>2. LoopOK(q)'
  BY <1>1 DEF LoopOK, ApiKept
<1>3. ReadInVain(q) => ReadInVain(q)'
  <2>1. read[q] > 0 => read[q] \in 1..read[q]
    BY <1>1
  <2> QED
    BY <1>1, <2>1 DEF ReadInVain, ApiKept
<1>4. SignalOK(q)'
  BY <1>3 DEF SignalOK, ApiKept
<1> QED
  BY <1>2, <1>4

\* The loop reads a message.
LEMMA ReadsOne ==
    ASSUME Types, NEW r \in Questions, Unread(r), LoopOK(r)
    PROVE  /\ read[r] \in Nat /\ read[r] + 1 \in 1..Len(topic[r])
           /\ \A i \in 1..read[r] : ~IsDone(topic[r][i])
           /\ ~ReadInVain(r)
           /\ Next1(r) = topic[r][read[r] + 1] /\ Next1(r) \in Formed
<1>1. read[r] \in Nat /\ read[r] + 1 \in 1..Len(topic[r]) /\ Next1(r) \in Formed
  BY UnreadTyped
<1>2. loop[r] = "reading"
  BY DEF Unread
<1>3. \A i \in 1..read[r] : ~IsDone(topic[r][i])
  BY <1>2 DEF LoopOK
<1>4. ~ReadInVain(r)
  <2>1. read[r] > 0 => read[r] \in 1..read[r]
    BY <1>1
  <2> QED
    BY <1>3, <2>1 DEF ReadInVain
<1> QED
  BY <1>1, <1>3, <1>4 DEF Next1

\* It puts a message on the queue.
LEMMA LoopPutsKeeps ==
    ASSUME Types, NEW r \in Questions, LoopOK(r), SignalOK(r), LoopPuts(r)
    PROVE  LoopOK(r)' /\ SignalOK(r)'
<1> DEFINE m == Next1(r)
           n == read[r]
<1>0. AskTypeOK /\ Unread(r)
  BY DEF Types, TypeOK, LoopPuts
<1>1. /\ n \in Nat /\ n + 1 \in 1..Len(topic[r])
      /\ \A i \in 1..n : ~IsDone(topic[r][i])
      /\ ~ReadInVain(r)
      /\ m = topic[r][n + 1] /\ m \in Formed
  BY <1>0, ReadsOne
<1>2. /\ read'[r] = n + 1 /\ topic' = topic /\ dropped' = dropped
      /\ handler' = handler /\ header' = header
      /\ learning'[r] = IF m.learning # NoId THEN m.learning ELSE learning[r]
      /\ signal'[r] = (signal[r] \/ IsDone(m) \/ m.learning # NoId)
      /\ loop'[r] = IF IsDone(m) THEN "ended" ELSE loop[r]
  BY <1>0 DEF LoopPuts, AskTypeOK
<1> HIDE DEF m, n
<1>3. \A i \in 1..(n + 1) : i \in 1..n \/ i = n + 1
  BY <1>1
<1>4. LoopOK(r)'
  <2>1. read'[r] <= Len(topic'[r])
    BY <1>1, <1>2
  <2>2. ASSUME NEW i \in 1..(n + 1), IsDone(topic[r][i])
        PROVE  i = n + 1 /\ loop'[r] # "reading"
    BY <1>1, <1>2, <1>3, <2>2
  <2>3. ASSUME learning'[r] = NoId, NEW i \in 1..(n + 1) PROVE topic[r][i].learning = NoId
    <3>1. m.learning = NoId /\ learning[r] = NoId
      BY <1>2, <2>3
    <3>2. \A j \in 1..n : topic[r][j].learning = NoId
      BY <3>1 DEF LoopOK, n
    <3> QED
      BY <1>1, <1>3, <3>1, <3>2
  <2> QED
    BY <1>2, <2>1, <2>2, <2>3 DEF LoopOK
<1>5. SignalOK(r)'
  <2> SUFFICES ASSUME ~dropped[r] PROVE SignalOK(r)'
    BY <1>2 DEF SignalOK
  <2>1. /\ ~(signal[r] /\ learning[r] = NoId)
        /\ ~(handler[r] \notin {"idle", "starting"} /\ header[r] = NoId)
    BY <1>1 DEF SignalOK
  <2>2. ASSUME signal'[r], learning'[r] = NoId PROVE ReadInVain(r)'
    <3>1. IsDone(m) /\ m.learning = NoId /\ learning[r] = NoId
      BY <1>2, <2>1, <2>2
    <3>2. \A j \in 1..(n + 1) : topic[r][j].learning = NoId
      BY <1>2, <1>4, <2>2 DEF LoopOK
    <3> QED
      BY <1>1, <1>2, <3>1, <3>2 DEF ReadInVain
  <2> QED
    BY <1>2, <2>1, <2>2 DEF SignalOK
<1> QED
  BY <1>4, <1>5

\* It drops one.
LEMMA LoopDropsKeeps ==
    ASSUME Types, NEW r \in Questions, LoopOK(r), LoopDrops(r)
    PROVE  LoopOK(r)' /\ SignalOK(r)'
<1> DEFINE m == Next1(r)
           n == read[r]
<1>0. AskTypeOK /\ Unread(r)
  BY DEF Types, TypeOK, LoopDrops
<1>1. /\ n \in Nat /\ n + 1 \in 1..Len(topic[r])
      /\ \A i \in 1..n : ~IsDone(topic[r][i])
      /\ m = topic[r][n + 1]
  BY <1>0, ReadsOne
<1>2. /\ read'[r] = n + 1 /\ topic' = topic /\ dropped'[r]
      /\ ~IsDone(m)
      /\ learning'[r] = IF m.learning # NoId THEN m.learning ELSE learning[r]
  BY <1>0 DEF LoopDrops, AskTypeOK, IsStep, IsDone
<1> HIDE DEF m, n
<1>3. \A i \in 1..(n + 1) : i \in 1..n \/ i = n + 1
  BY <1>1
<1>4. LoopOK(r)'
  <2>1. read'[r] <= Len(topic'[r])
    BY <1>1, <1>2
  <2>2. \A i \in 1..(n + 1) : ~IsDone(topic[r][i])
    BY <1>1, <1>2, <1>3
  <2>3. ASSUME learning'[r] = NoId, NEW i \in 1..(n + 1) PROVE topic[r][i].learning = NoId
    <3>1. m.learning = NoId /\ learning[r] = NoId
      BY <1>2, <2>3
    <3>2. \A j \in 1..n : topic[r][j].learning = NoId
      BY <3>1 DEF LoopOK, n
    <3> QED
      BY <1>1, <1>3, <3>1, <3>2
  <2> QED
    BY <1>2, <2>1, <2>2, <2>3 DEF LoopOK
<1>5. SignalOK(r)'
  BY <1>2 DEF SignalOK
<1> QED
  BY <1>4, <1>5

\* The handler answers once the event is set, with the learning id known then.
LEMMA StartReturnsKeeps ==
    ASSUME Types, NEW r \in Questions, LoopOK(r), SignalOK(r), StartReturns(r)
    PROVE  LoopOK(r)' /\ SignalOK(r)'
<1>1. /\ signal[r] /\ header'[r] = learning[r]
      /\ UNCHANGED <<topic, read, loop, learning, signal, dropped>>
  BY DEF StartReturns, Types, TypeOK, AskTypeOK
<1>2. LoopOK(r)'
  BY <1>1 DEF LoopOK
<1>3. ReadInVain(r)' <=> ReadInVain(r)
  BY <1>1 DEF ReadInVain
<1> QED
  BY <1>1, <1>2, <1>3 DEF SignalOK

\* The other steps of the API read nothing.
LEMMA HandlerReadsNothing ==
    ASSUME Types, NEW r \in Questions, LoopOK(r), SignalOK(r),
           \/ LoopBreaks(r) \/ StreamText(r) \/ SkipStart(r) \/ StreamError(r)
           \/ StreamDone(r) \/ ClientLeaves(r)
    PROVE  LoopOK(r)' /\ SignalOK(r)'
<1>1. /\ UNCHANGED <<topic, read, learning, signal, header, dropped>>
      /\ loop[r] # "reading" => loop'[r] # "reading"
      /\ handler[r] \in {"idle", "starting"} => handler'[r] = handler[r]
  BY DEF LoopBreaks, StreamText, SkipStart, StreamError, StreamDone, ClientLeaves, Taking,
     Types, TypeOK, AskTypeOK, LoopStates
<1>2. LoopOK(r)'
  BY <1>1 DEF LoopOK
<1>3. ReadInVain(r)' <=> ReadInVain(r)
  BY <1>1 DEF ReadInVain
<1> QED
  BY <1>1, <1>2, <1>3 DEF SignalOK

\* At first nothing is read and no event set.
LEMMA LoopsInitially == Init => LoopsInv
<1> SUFFICES ASSUME Init, NEW q \in Questions PROVE LoopOK(q) /\ SignalOK(q)
  BY DEF LoopsInv
<1>1. /\ read[q] = 0 /\ topic[q] = <<>> /\ ~signal[q] /\ handler[q] = "idle"
  BY DEF Init, TopicsInit, AskInit
<1> QED
  BY <1>1 DEF LoopOK, SignalOK

\* Every step keeps it.
LEMMA LoopsKept ==
    ASSUME TopicsInv, LoopsInv, [Next]_vars
    PROVE  LoopsInv'
<1>0. Types /\ \A q \in Questions : Grows(q)
  BY TopicsGrow DEF TopicsInv
<1>1. ASSUME NEW r \in Questions, AskStep(r) PROVE LoopsInv'
  <2>1. ApiKeeps(r)
    BY <1>0, <1>1, AskStepKeeps
  <2>2. LoopOK(r)' /\ SignalOK(r)'
    BY <1>0, <1>1, LoopPutsKeeps, LoopDropsKeeps, StartReturnsKeeps, HandlerReadsNothing
       DEF AskStep, LoopsInv
  <2>3. ASSUME NEW q \in Questions \ {r} PROVE LoopOK(q)' /\ SignalOK(q)'
    BY <1>0, <2>1, LoopKept DEF ApiKeeps, LoopsInv
  <2> QED
    BY <2>2, <2>3 DEF LoopsInv
<1>2. ASSUME NEW r \in Questions, Ask(r) PROVE LoopsInv'
  <2>1. ASSUME NEW q \in Questions \ {r} PROVE LoopOK(q)' /\ SignalOK(q)'
    <3>1. ApiKept(q)
      BY <1>0, <1>2 DEF Ask, ApiKept, Types, TypeOK, AskTypeOK
    <3> QED
      BY <1>0, <3>1, LoopKept DEF LoopsInv
  <2>2. /\ handler'[r] = "starting" /\ topic' = topic
        /\ UNCHANGED <<read, learning, signal, dropped>>
    BY <1>0, <1>2 DEF Ask, Types, TypeOK, AskTypeOK
  <2>3. LoopOK(r) /\ SignalOK(r) /\ AskedOnce(r) /\ ServerOK(r) /\ handler[r] = "idle"
    BY <1>2 DEF LoopsInv, TopicsInv, Ask
  <2>4. topic[r] = <<>>
    BY <2>3 DEF AskedOnce, ServerOK, TopicOK, Unstarted
  <2>5. read[r] = 0
    BY <1>0, <2>3, <2>4 DEF LoopOK, Types, TypeOK, AskTypeOK
  <2>6. LoopOK(r)' /\ SignalOK(r)'
    BY <2>2, <2>3, <2>4, <2>5 DEF LoopOK, SignalOK, ReadInVain
  <2> QED
    BY <2>1, <2>6 DEF LoopsInv
<1>3. CASE UNCHANGED askVars
  <2>1. ASSUME NEW q \in Questions PROVE LoopOK(q)' /\ SignalOK(q)'
    <3>1. ApiKept(q)
      BY <1>3 DEF askVars, ApiKept
    <3> QED
      BY <1>0, <3>1, LoopKept DEF LoopsInv
  <2> QED
    BY <2>1 DEF LoopsInv
<1> QED
  BY <1>1, <1>2, <1>3 DEF Next, ServerNext, vars

\* The event that lets a response start is set by a learning id, by DONE or by a
\* dropped message only (ask_result.py, loop).
THEOREM LoopsInvariant == Spec => [](TopicsInv /\ LoopsInv)
BY TopicsInitially, TopicsKept, LoopsInitially, LoopsKept, PTL DEF Spec

\* A response is labelled with no learning id only when the whole topic named
\* none, or a message of it was dropped (ask_result.py:133-164).
THEOREM HeadersNameCalls == Spec => []HeaderNamesCall
<1>1. ASSUME TopicsInv, LoopsInv PROVE HeaderNamesCall
  <2> SUFFICES ASSUME NEW q \in Questions, handler[q] \notin {"idle", "starting"},
                      header[q] = NoId, ~dropped[q]
               PROVE  \A i \in DOMAIN Visible(topic[q]) : topic[q][i].learning = NoId
    BY DEF HeaderNamesCall
  <2>1. ReadInVain(q) /\ LoopOK(q)
    BY <1>1 DEF LoopsInv, SignalOK
  <2>2. topic[q] \in Seq(Message) /\ read[q] \in Nat
    BY <1>1 DEF TopicsInv, Types, TypeOK, SessionTypeOK, AskTypeOK
  <2>3. /\ read[q] \in 1..Len(topic[q]) /\ IsDone(topic[q][read[q]])
        /\ \A j \in 1..(read[q] - 1) : ~IsDone(topic[q][j])
    BY <2>1, <2>2 DEF ReadInVain, LoopOK
  <2>4. Visible(topic[q]) = SubSeq(topic[q], 1, read[q])
    BY <2>2, <2>3, VisibleTo
  <2>5. DOMAIN Visible(topic[q]) = 1..read[q]
    BY <2>2, <2>3, <2>4
  <2> QED
    BY <2>1, <2>5 DEF ReadInVain
<1> QED
  BY <1>1, LoopsInvariant, PTL

---------------------------------------------------------------------------
(***************************************************************************)
(* The texts that messages and items carry.                                *)
(***************************************************************************)

\* The texts of entries, the empty ones included.
Wordings(entries) == [i \in DOMAIN entries |-> entries[i].text]

\* The empty texts are left out.
LEMMA TextsChosen == \A s : TextsOf(s) = Chosen(Wordings(s), Texts \ {<<>>})
BY DEF TextsOf, Wordings

\* They are a sequence as the entries are.
LEMMA WordingsSeq ==
    ASSUME NEW E, \A e \in E : e.text \in Texts, NEW s \in Seq(E)
    PROVE  /\ Wordings(s) \in Seq(Texts) /\ Len(Wordings(s)) = Len(s)
           /\ \A i \in 1..Len(s) : Wordings(s)[i] = s[i].text
<1>1. Len(s) \in Nat /\ DOMAIN s = 1..Len(s) /\ \A i \in 1..Len(s) : s[i] \in E
  OBVIOUS
<1>2. Wordings(s) = [i \in 1..Len(s) |-> s[i].text]
  BY <1>1 DEF Wordings
<1>3. \A i \in 1..Len(s) : s[i].text \in Texts
  BY <1>1
<1> QED
  BY <1>1, <1>2, <1>3

\* No entries carry no texts.
LEMMA TextsEmpty == TextsOf(<<>>) = <<>>
<1>1. Wordings(<<>>) = <<>>
  BY DEF Wordings
<1> QED
  BY <1>1, ChosenEmpty, TextsChosen

\* Texts that are not empty.
LEMMA TextsSeq ==
    ASSUME NEW E, \A e \in E : e.text \in Texts, NEW s \in Seq(E)
    PROVE  TextsOf(s) \in Seq(Texts \ {<<>>})
<1>1. Wordings(s) \in Seq(Texts)
  BY WordingsSeq
<1>2. Chosen(Wordings(s), Texts \ {<<>>}) \in Seq((Texts \ {<<>>}) \cap Texts)
  BY <1>1, ChosenSeq
<1>3. (Texts \ {<<>>}) \cap Texts = Texts \ {<<>>}
  OBVIOUS
<1> QED
  BY <1>2, <1>3, TextsChosen

\* One entry more.
LEMMA TextsAppend ==
    ASSUME NEW E, \A e \in E : e.text \in Texts, NEW s \in Seq(E), NEW e \in E
    PROVE  TextsOf(Append(s, e)) =
             IF e.text # <<>> THEN Append(TextsOf(s), e.text) ELSE TextsOf(s)
<1> DEFINE w == Append(s, e)
<1>1. /\ w \in Seq(E) /\ Len(w) = Len(s) + 1 /\ w[Len(s) + 1] = e
      /\ \A i \in 1..Len(s) : w[i] = s[i]
      /\ Len(s) \in Nat
  OBVIOUS
<1> HIDE DEF w
<1>2. /\ Wordings(s) \in Seq(Texts) /\ Len(Wordings(s)) = Len(s)
      /\ \A i \in 1..Len(s) : Wordings(s)[i] = s[i].text
  BY WordingsSeq
<1>3. /\ Wordings(w) \in Seq(Texts) /\ Len(Wordings(w)) = Len(s) + 1
      /\ \A i \in 1..(Len(s) + 1) : Wordings(w)[i] = w[i].text
  BY <1>1, WordingsSeq
<1>4. Wordings(w) = Append(Wordings(s), e.text)
  <2>1. \A i \in 1..Len(s) : Wordings(w)[i] = Wordings(s)[i]
    BY <1>1, <1>2, <1>3
  <2>2. Wordings(w)[Len(s) + 1] = e.text
    BY <1>1, <1>3
  <2> QED
    BY <1>1, <1>2, <1>3, <2>1, <2>2
<1>5. e.text \in Texts
  OBVIOUS
<1> DEFINE a == Wordings(s)
           x == e.text
           S == Texts \ {<<>>}
<1>6. Chosen(Append(a, x), S) = IF x \in S THEN Append(Chosen(a, S), x) ELSE Chosen(a, S)
  <2>1. a \in Seq(Texts) /\ x \in Texts
    BY <1>2, <1>5
  <2> HIDE DEF a, x, S
  <2> QED
    BY <2>1, ChosenAppend
<1>7. x \in S <=> x # <<>>
  BY <1>5
<1>8. TextsOf(w) = Chosen(Append(a, x), S) /\ TextsOf(s) = Chosen(a, S)
  BY <1>4, TextsChosen
<1> QED
  BY <1>6, <1>7, <1>8 DEF w

\* One sequence after another.
LEMMA TextsConcat ==
    ASSUME NEW E, \A e \in E : e.text \in Texts, NEW s \in Seq(E), NEW t \in Seq(E)
    PROVE  TextsOf(s \o t) = TextsOf(s) \o TextsOf(t)
<1> DEFINE w == s \o t
<1>1. /\ w \in Seq(E) /\ Len(w) = Len(s) + Len(t)
      /\ \A i \in 1..Len(s) : w[i] = s[i]
      /\ \A i \in 1..Len(t) : w[Len(s) + i] = t[i]
      /\ Len(s) \in Nat /\ Len(t) \in Nat
  OBVIOUS
<1> HIDE DEF w
<1>2. /\ Wordings(s) \in Seq(Texts) /\ Len(Wordings(s)) = Len(s)
      /\ \A i \in 1..Len(s) : Wordings(s)[i] = s[i].text
  BY WordingsSeq
<1>3. /\ Wordings(t) \in Seq(Texts) /\ Len(Wordings(t)) = Len(t)
      /\ \A i \in 1..Len(t) : Wordings(t)[i] = t[i].text
  BY WordingsSeq
<1>4. /\ Wordings(w) \in Seq(Texts) /\ Len(Wordings(w)) = Len(w)
      /\ \A i \in 1..Len(w) : Wordings(w)[i] = w[i].text
  BY <1>1, WordingsSeq
<1>5. Wordings(w) = Wordings(s) \o Wordings(t)
  <2> DEFINE a == Wordings(s)
             b == Wordings(t)
             c == Wordings(w)
  <2>1. /\ Len(c) = Len(a) + Len(b)
        /\ \A i \in 1..Len(a) : c[i] = a[i]
    <3>1. Len(c) = Len(a) + Len(b)
      BY <1>1, <1>2, <1>3, <1>4
    <3>2. ASSUME NEW i \in 1..Len(a) PROVE c[i] = a[i]
      <4>1. i \in 1..Len(s) /\ i \in 1..Len(w)
        BY <1>1, <1>2
      <4> QED
        BY <1>1, <1>2, <1>4, <4>1
    <3> QED
      BY <3>1, <3>2
  <2>2. ASSUME NEW i \in 1..Len(b) PROVE c[Len(a) + i] = b[i]
    <3>1. Len(s) + i \in 1..Len(w) /\ i \in 1..Len(t)
      BY <1>1, <1>3, <2>2
    <3> QED
      BY <1>1, <1>2, <1>3, <1>4, <3>1
  <2>3. a \in Seq(Texts) /\ b \in Seq(Texts) /\ c \in Seq(Texts)
    BY <1>2, <1>3, <1>4
  <2> HIDE DEF a, b, c
  <2>4. c = a \o b
    <3> DEFINE d == a \o b
    <3>1. /\ d \in Seq(Texts) /\ Len(d) = Len(a) + Len(b)
          /\ \A i \in 1..Len(a) : d[i] = a[i]
          /\ \A i \in 1..Len(b) : d[Len(a) + i] = b[i]
          /\ Len(a) \in Nat /\ Len(b) \in Nat
      BY <2>3
    <3> HIDE DEF d
    <3>2. ASSUME NEW i \in 1..Len(c) PROVE c[i] = d[i]
      <4>1. CASE i <= Len(a)
        BY <2>1, <3>1, <4>1
      <4>2. CASE i > Len(a)
        <5>1. i - Len(a) \in 1..Len(b) /\ i = Len(a) + (i - Len(a))
          BY <2>1, <3>1, <4>2
        <5> QED
          BY <2>2, <3>1, <5>1
      <4> QED
        BY <3>1, <4>1, <4>2
    <3>3. c = d
      BY <2>1, <2>3, <3>1, <3>2
    <3> QED
      BY <3>3 DEF d
  <2> QED
    BY <2>4 DEF a, b, c
<1>6. Chosen(Wordings(s) \o Wordings(t), Texts \ {<<>>})
        = Chosen(Wordings(s), Texts \ {<<>>}) \o Chosen(Wordings(t), Texts \ {<<>>})
  BY <1>2, <1>3, ChosenConcat
<1> QED
  BY <1>5, <1>6, TextsChosen DEF w

\* The first of the entries, and the others.
LEMMA TextsHead ==
    ASSUME NEW E, \A e \in E : e.text \in Texts, NEW s \in Seq(E), s # <<>>
    PROVE  TextsOf(s) = (IF Head(s).text # <<>> THEN <<Head(s).text>> ELSE <<>>) \o TextsOf(Tail(s))
<1> DEFINE h == Head(s)
           t == Tail(s)
<1>1. h \in E /\ t \in Seq(E) /\ s = <<h>> \o t /\ <<h>> \in Seq(E) /\ <<>> \in Seq(E)
      /\ <<h>> = Append(<<>>, h)
  OBVIOUS
<1> HIDE DEF h, t
<1>2. TextsOf(<<h>>) = IF h.text # <<>> THEN Append(<<>>, h.text) ELSE <<>>
  <2>1. TextsOf(Append(<<>>, h)) = IF h.text # <<>> THEN Append(TextsOf(<<>>), h.text) ELSE TextsOf(<<>>)
    BY <1>1, TextsAppend
  <2> QED
    BY <1>1, <2>1, TextsEmpty
<1>3. TextsOf(<<h>> \o t) = TextsOf(<<h>>) \o TextsOf(t)
  BY <1>1, TextsConcat
<1>4. Append(<<>>, h.text) = <<h.text>>
  OBVIOUS
<1> QED
  BY <1>1, <1>2, <1>3, <1>4 DEF h, t

\* The texts of the beginning of a sequence are the first of its texts.
LEMMA TextsBeginning ==
    ASSUME NEW E, \A e \in E : e.text \in Texts, NEW s \in Seq(E), NEW k \in 0..Len(s)
    PROVE  LET p == TextsOf(SubSeq(s, 1, k))
               w == TextsOf(s)
           IN  Len(p) <= Len(w) /\ p = SubSeq(w, 1, Len(p))
<1> DEFINE b == SubSeq(s, 1, k)
<1>1. b \in Seq(E) /\ Len(b) = k /\ \A i \in 1..k : b[i] = s[i]
  OBVIOUS
<1>2. Len(s) \in Nat /\ k \in Nat /\ k <= Len(s)
  OBVIOUS
<1> HIDE DEF b
<1>3. /\ Wordings(s) \in Seq(Texts) /\ Len(Wordings(s)) = Len(s)
      /\ \A i \in 1..Len(s) : Wordings(s)[i] = s[i].text
  BY WordingsSeq
<1>4. /\ Wordings(b) \in Seq(Texts) /\ Len(Wordings(b)) = k
      /\ \A i \in 1..k : Wordings(b)[i] = b[i].text
  BY <1>1, WordingsSeq
<1>5. Wordings(b) = SubSeq(Wordings(s), 1, k)
  <2> DEFINE c == Wordings(b)
             a == Wordings(s)
  <2>1. /\ c \in Seq(Texts) /\ Len(c) = k /\ a \in Seq(Texts) /\ k <= Len(a)
        /\ \A i \in 1..k : c[i] = a[i]
    BY <1>1, <1>2, <1>3, <1>4
  <2> HIDE DEF a, c
  <2>2. c = SubSeq(a, 1, k)
    BY <1>2, <2>1
  <2> QED
    BY <2>2 DEF a, c
<1>6. k \in 0..Len(Wordings(s))
  BY <1>3
<1> DEFINE S == Texts \ {<<>>}
<1>7. LET p == Chosen(SubSeq(Wordings(s), 1, k), S)
          w == Chosen(Wordings(s), S)
      IN  Len(p) <= Len(w) /\ p = SubSeq(w, 1, Len(p))
  BY <1>3, <1>6, ChosenBeginning
<1> QED
  BY <1>5, <1>7, TextsChosen DEF b, S

\* Messages and items have texts.
LEMMA TextsTyped ==
    /\ \A m \in Formed : m.text \in Texts
    /\ \A m \in Message : m.text \in Texts
    /\ \A item \in Item : item.text \in Texts
BY DEF Formed, Message, Item

---------------------------------------------------------------------------
(***************************************************************************)
(* The texts of messages that reach the client of a question.              *)
(***************************************************************************)

\* The messages with nothing but the text that reaches the client.
Bared(q, messages) == [i \in DOMAIN messages |-> [text |-> TextTo(q, messages[i])]]

\* What one message more makes the client hear.
Bit(q, m) == IF TextTo(q, m) # <<>> THEN <<TextTo(q, m)>> ELSE <<>>

\* The text of a message, if it reaches the client.
LEMMA TextToTyped ==
    ASSUME NEW q, NEW m \in Formed
    PROVE  /\ TextTo(q, m) \in Texts /\ TextTo(q, m) \in {m.text, <<>>}
           /\ m.op \in {"START", "ERROR", "DONE"} \/ IsStep(m) => TextTo(q, m) = <<>>
           /\ TextTo(q, m) # <<>> => TextTo(q, m) \in Sayable
<1>1. m.text \in Texts /\ <<>> \in Texts
  BY NoText, TextsTyped
<1>2. TextTo(q, m) \in {m.text, <<>>}
  BY DEF TextTo
<1>3. m.text \in Sayable \cup {<<>>}
  BY DEF Formed
<1>4. m.op \in {"START", "ERROR", "DONE"} \/ IsStep(m) => m.text = <<>>
  BY DEF Formed
<1> QED
  BY <1>1, <1>2, <1>3, <1>4

\* Bared messages are a sequence as the messages are.
LEMMA BaredSeq ==
    ASSUME NEW q, NEW s \in Seq(Formed)
    PROVE  /\ Bared(q, s) \in Seq([text : Texts]) /\ Len(Bared(q, s)) = Len(s)
           /\ \A i \in 1..Len(s) : Bared(q, s)[i] = [text |-> TextTo(q, s[i])]
           /\ SaidTo(q, s) = TextsOf(Bared(q, s))
<1>1. Len(s) \in Nat /\ DOMAIN s = 1..Len(s) /\ \A i \in 1..Len(s) : s[i] \in Formed
  OBVIOUS
<1> DEFINE b == Bared(q, s)
<1>2. b = [i \in 1..Len(s) |-> [text |-> TextTo(q, s[i])]]
  BY <1>1 DEF Bared
<1>3. \A i \in 1..Len(s) : [text |-> TextTo(q, s[i])] \in [text : Texts]
  BY <1>1, TextToTyped
<1>4. /\ b \in Seq([text : Texts]) /\ Len(b) = Len(s) /\ DOMAIN b = 1..Len(s)
      /\ \A i \in 1..Len(s) : b[i] = [text |-> TextTo(q, s[i])]
  BY <1>1, <1>2, <1>3
<1>5. SaidTo(q, s) = TextsOf(b)
  <2> DEFINE w == [i \in DOMAIN s |-> TextTo(q, s[i])]
             x == [i \in DOMAIN b |-> b[i].text]
  <2>1. \A i \in 1..Len(s) : b[i].text = TextTo(q, s[i])
    BY <1>4
  <2>2. w = [i \in 1..Len(s) |-> TextTo(q, s[i])] /\ x = [i \in 1..Len(s) |-> b[i].text]
    BY <1>1, <1>4
  <2> HIDE DEF b
  <2>3. w = x
    BY <2>1, <2>2
  <2>4. SaidTo(q, s) = Chosen(w, Texts \ {<<>>}) /\ TextsOf(b) = Chosen(x, Texts \ {<<>>})
    BY DEF SaidTo, TextsOf
  <2> QED
    BY <2>3, <2>4
<1> QED
  BY <1>4, <1>5

\* The texts of bared messages.
LEMMA BaredTexts == \A e \in [text : Texts] : e.text \in Texts
OBVIOUS

\* What reaches the client are texts.
LEMMA SaidSeq ==
    ASSUME NEW q, NEW s \in Seq(Formed) PROVE SaidTo(q, s) \in Seq(Texts)
<1>1. TextsOf(Bared(q, s)) \in Seq(Texts \ {<<>>})
  BY BaredSeq, BaredTexts, TextsSeq
<1>2. Seq(Texts \ {<<>>}) \subseteq Seq(Texts)
  BY SeqOfLarger
<1> QED
  BY <1>1, <1>2, BaredSeq

\* Nothing reaches it of no messages.
LEMMA SaidEmpty == \A q : SaidTo(q, <<>>) = <<>>
<1> SUFFICES ASSUME NEW q PROVE SaidTo(q, <<>>) = <<>>
  OBVIOUS
<1>1. <<>> \in Seq(Formed)
  OBVIOUS
<1>2. Bared(q, <<>>) = <<>>
  BY DEF Bared
<1>3. SaidTo(q, <<>>) = TextsOf(Bared(q, <<>>))
  BY <1>1, BaredSeq
<1> QED
  BY <1>2, <1>3, TextsEmpty

\* One message more.
LEMMA SaidAppend ==
    ASSUME NEW q, NEW s \in Seq(Formed), NEW m \in Formed
    PROVE  SaidTo(q, Append(s, m)) = SaidTo(q, s) \o Bit(q, m)
<1> DEFINE w == Append(s, m)
           a == Bared(q, s)
           b == Bared(q, w)
           e == [text |-> TextTo(q, m)]
           E == [text : Texts]
<1>1. /\ w \in Seq(Formed) /\ Len(w) = Len(s) + 1 /\ w[Len(s) + 1] = m
      /\ \A i \in 1..Len(s) : w[i] = s[i]
      /\ Len(s) \in Nat
  OBVIOUS
<1> HIDE DEF w
<1>2. /\ a \in Seq(E) /\ Len(a) = Len(s) /\ SaidTo(q, s) = TextsOf(a)
      /\ \A i \in 1..Len(s) : a[i] = [text |-> TextTo(q, s[i])]
  BY BaredSeq
<1>3. /\ b \in Seq(E) /\ Len(b) = Len(s) + 1 /\ SaidTo(q, w) = TextsOf(b)
      /\ \A i \in 1..(Len(s) + 1) : b[i] = [text |-> TextTo(q, w[i])]
  BY <1>1, BaredSeq
<1>4. e \in E /\ e.text = TextTo(q, m)
  BY TextToTyped
<1>5. b[Len(s) + 1] = e /\ \A i \in 1..Len(s) : b[i] = a[i]
  <2> HIDE DEF a, b, E
  <2>1. /\ Len(s) + 1 \in 1..(Len(s) + 1)
        /\ \A i \in 1..Len(s) : i \in 1..(Len(s) + 1)
    BY <1>1
  <2>2. b[Len(s) + 1] = [text |-> TextTo(q, w[Len(s) + 1])]
    BY <1>3, <2>1
  <2>3. ASSUME NEW i \in 1..Len(s) PROVE b[i] = a[i]
    <3>1. b[i] = [text |-> TextTo(q, w[i])]
      BY <1>3, <2>1
    <3>2. a[i] = [text |-> TextTo(q, s[i])] /\ w[i] = s[i]
      BY <1>1, <1>2
    <3> QED
      BY <3>1, <3>2
  <2> QED
    BY <1>1, <2>2, <2>3
<1> HIDE DEF a, b, e, E
<1>6. b = Append(a, e)
  BY <1>1, <1>2, <1>3, <1>4, <1>5
<1>7. TextsOf(b) = IF e.text # <<>> THEN Append(TextsOf(a), e.text) ELSE TextsOf(a)
  BY <1>2, <1>4, <1>6, BaredTexts, TextsAppend DEF E
<1>8. SaidTo(q, s) \in Seq(Texts) /\ TextTo(q, m) \in Texts
  BY SaidSeq, TextToTyped
<1>9. /\ Append(SaidTo(q, s), TextTo(q, m)) = SaidTo(q, s) \o <<TextTo(q, m)>>
      /\ SaidTo(q, s) \o <<>> = SaidTo(q, s)
  BY <1>8
<1> QED
  BY <1>2, <1>3, <1>4, <1>7, <1>9 DEF Bit, w

\* The first of the messages, and the others.
LEMMA SaidHead ==
    ASSUME NEW q, NEW s \in Seq(Formed), s # <<>>
    PROVE  SaidTo(q, s) = Bit(q, Head(s)) \o SaidTo(q, Tail(s))
<1> DEFINE h == Head(s)
           t == Tail(s)
           a == Bared(q, s)
           b == Bared(q, t)
           E == [text : Texts]
<1>1. /\ h \in Formed /\ t \in Seq(Formed) /\ h = s[1] /\ Len(s) \in Nat \ {0}
      /\ Len(t) = Len(s) - 1 /\ \A i \in 1..(Len(s) - 1) : t[i] = s[i + 1]
  OBVIOUS
<1> HIDE DEF h, t
<1>2. /\ a \in Seq(E) /\ Len(a) = Len(s) /\ SaidTo(q, s) = TextsOf(a)
      /\ \A i \in 1..Len(s) : a[i] = [text |-> TextTo(q, s[i])]
  BY BaredSeq
<1>3. /\ b \in Seq(E) /\ Len(b) = Len(s) - 1 /\ SaidTo(q, t) = TextsOf(b)
      /\ \A i \in 1..(Len(s) - 1) : b[i] = [text |-> TextTo(q, t[i])]
  <2>1. /\ b \in Seq(E) /\ Len(b) = Len(t) /\ SaidTo(q, t) = TextsOf(b)
        /\ \A i \in 1..Len(t) : b[i] = [text |-> TextTo(q, t[i])]
    BY <1>1, BaredSeq
  <2> HIDE DEF b, E
  <2> QED
    BY <1>1, <2>1
<1>4. 1 \in 1..Len(s) /\ \A i \in 1..(Len(s) - 1) : i + 1 \in 1..Len(s)
  BY <1>1
<1>5. a[1].text = TextTo(q, h) /\ \A i \in 1..(Len(s) - 1) : b[i] = a[i + 1]
  <2> HIDE DEF a, b, E
  <2>1. a[1] = [text |-> TextTo(q, s[1])]
    BY <1>2, <1>4
  <2>2. ASSUME NEW i \in 1..(Len(s) - 1) PROVE b[i] = a[i + 1]
    <3>1. a[i + 1] = [text |-> TextTo(q, s[i + 1])]
      BY <1>2, <1>4
    <3>2. b[i] = [text |-> TextTo(q, t[i])] /\ t[i] = s[i + 1]
      BY <1>1, <1>3
    <3> QED
      BY <3>1, <3>2
  <2> QED
    BY <1>1, <2>1, <2>2
<1> HIDE DEF a, b, E
<1>6. a # <<>> /\ Head(a) = a[1] /\ Tail(a) = b
  <2>1. a # <<>> /\ Len(Tail(a)) = Len(a) - 1 /\ Tail(a) \in Seq(E)
        /\ \A i \in 1..(Len(a) - 1) : Tail(a)[i] = a[i + 1]
    BY <1>1, <1>2
  <2>2. /\ Len(b) = Len(Tail(a)) /\ Len(Tail(a)) \in Nat
        /\ \A i \in 1..Len(Tail(a)) : b[i] = Tail(a)[i]
    BY <1>1, <1>2, <1>3, <1>5, <2>1
  <2>3. b = Tail(a)
    BY <1>3, <2>1, <2>2
  <2> QED
    BY <2>1, <2>3
<1>7. TextsOf(a) = (IF Head(a).text # <<>> THEN <<Head(a).text>> ELSE <<>>) \o TextsOf(Tail(a))
  BY <1>2, <1>6, BaredTexts, TextsHead DEF E
<1> QED
  BY <1>2, <1>3, <1>5, <1>6, <1>7 DEF Bit, h, t

\* What reaches the client of the beginning is the beginning of what does.
LEMMA SaidBeginning ==
    ASSUME NEW q, NEW s \in Seq(Formed), NEW k \in 0..Len(s)
    PROVE  LET p == SaidTo(q, SubSeq(s, 1, k))
               w == SaidTo(q, s)
           IN  Len(p) <= Len(w) /\ p = SubSeq(w, 1, Len(p))
<1> DEFINE t == SubSeq(s, 1, k)
           a == Bared(q, s)
           b == Bared(q, t)
           E == [text : Texts]
<1>1. t \in Seq(Formed) /\ Len(t) = k /\ \A i \in 1..k : t[i] = s[i]
  OBVIOUS
<1>2. Len(s) \in Nat /\ k \in Nat /\ k <= Len(s) /\ \A i \in 1..k : i \in 1..Len(s)
  OBVIOUS
<1> HIDE DEF t
<1>3. /\ a \in Seq(E) /\ Len(a) = Len(s) /\ SaidTo(q, s) = TextsOf(a)
      /\ \A i \in 1..Len(s) : a[i] = [text |-> TextTo(q, s[i])]
  BY BaredSeq
<1>4. /\ b \in Seq(E) /\ Len(b) = k /\ SaidTo(q, t) = TextsOf(b)
      /\ \A i \in 1..k : b[i] = [text |-> TextTo(q, t[i])]
  BY <1>1, BaredSeq
<1>5. \A i \in 1..k : b[i] = a[i]
  BY <1>1, <1>2, <1>3, <1>4
<1> HIDE DEF a, b, E
<1>6. b = SubSeq(a, 1, k) /\ k \in 0..Len(a)
  BY <1>2, <1>3, <1>4, <1>5
<1>7. LET p == TextsOf(SubSeq(a, 1, k))
          w == TextsOf(a)
      IN  Len(p) <= Len(w) /\ p = SubSeq(w, 1, Len(p))
  BY <1>3, <1>6, BaredTexts, TextsBeginning DEF E
<1> QED
  BY <1>3, <1>4, <1>6, <1>7 DEF t

\* What is yielded is heard: with the text of a message that was taken.
LEMMA HeardMore ==
    ASSUME Types, NEW r \in Questions, NEW m \in Formed, NEW new \in Seq(Item),
           items'[r] = items[r] \o new, request'[r] = request[r],
           TextsOf(new) = IF m.text # <<>> THEN <<m.text>> ELSE <<>>,
           answer'[r] = IF m.op = "ANSWER_CHUNK" THEN Append(answer[r], m.text) ELSE answer[r]
    PROVE  HeardOf(r)' = HeardOf(r) \o Bit(r, m)
<1>1. /\ items[r] \in Seq(Item) /\ answer[r] \in Seq(Texts) /\ m.text \in Texts
      /\ m.op = "ANSWER_CHUNK" => m.text # <<>>
  BY TextsTyped DEF Types, TypeOK, AskTypeOK, Formed
<1>2. CASE request[r].sync
  <2>1. HeardOf(r) = answer[r] /\ HeardOf(r)' = answer'[r]
    BY <1>2 DEF HeardOf
  <2>2. Append(answer[r], m.text) = answer[r] \o <<m.text>> /\ answer[r] \o <<>> = answer[r]
    <3>1. ASSUME NEW w \in Seq(Texts), NEW c \in Texts
          PROVE  Append(w, c) = w \o <<c>> /\ w \o <<>> = w
      OBVIOUS
    <3> QED
      BY <1>1, <3>1
  <2>3. Bit(r, m) = IF m.op = "ANSWER_CHUNK" THEN <<m.text>> ELSE <<>>
    BY <1>1, <1>2 DEF Bit, TextTo
  <2> QED
    BY <2>1, <2>2, <2>3
<1>3. CASE ~request[r].sync
  <2>1. HeardOf(r) = TextsOf(items[r]) /\ HeardOf(r)' = TextsOf(items[r] \o new)
    BY <1>3 DEF HeardOf
  <2>2. TextsOf(items[r] \o new) = TextsOf(items[r]) \o TextsOf(new)
    BY <1>1, TextsConcat, TextsTyped
  <2>3. TextTo(r, m) = m.text
    BY <1>3 DEF TextTo
  <2> QED
    BY <2>1, <2>2, <2>3 DEF Bit
<1> QED
  BY <1>2, <1>3

\* What has been heard are texts.
LEMMA HeardSeq ==
    ASSUME Types, NEW q \in Questions PROVE HeardOf(q) \in Seq(Texts)
<1>1. items[q] \in Seq(Item) /\ answer[q] \in Seq(Texts)
  BY DEF Types, TypeOK, AskTypeOK
<1>2. TextsOf(items[q]) \in Seq(Texts \ {<<>>})
  BY <1>1, TextsSeq, TextsTyped
<1>3. Seq(Texts \ {<<>>}) \subseteq Seq(Texts)
  BY SeqOfLarger
<1> QED
  BY <1>1, <1>2, <1>3 DEF HeardOf

---------------------------------------------------------------------------
(***************************************************************************)
(* What the queue holds, between the topic and the response.               *)
(***************************************************************************)

\* The messages that the task loop has read.
ReadOf(q) == SubSeq(topic[q], 1, read[q])

\* DONE is the last message of the queue, and of those read.
DoneLast(q) ==
  \A j \in DOMAIN queue[q] :
    IsDone(queue[q][j]) => j = Len(queue[q]) /\ read[q] > 0 /\ IsDone(topic[q][read[q]])

\* What was read is, to the client, what was heard, and then what is queued.
ReadOrQueued(q) == SaidTo(q, ReadOf(q)) = HeardOf(q) \o SaidTo(q, queue[q])

\* An ERROR that was read is still queued, until it ends the response.
ErrorsWait(q) ==
  handler[q] \in {"idle", "starting", "answering"} /\ (\E i \in 1..read[q] : topic[q][i].op = "ERROR")
    => \E j \in DOMAIN queue[q] : queue[q][j].op = "ERROR"

\* The queue of a question, beside its topic and its response.
QueueOK(q) == DoneLast(q) /\ ReadOrQueued(q) /\ ErrorsWait(q)

\* The types of a question, one by one.
LEMMA QuestionTyped ==
    ASSUME Types, NEW q \in Questions
    PROVE  /\ topic[q] \in Seq(Formed) /\ queue[q] \in Seq(Formed) /\ items[q] \in Seq(Item)
           /\ read[q] \in Nat /\ handler[q] \in HandlerStates
BY DEF Types, TypeOK, AskTypeOK

\* A question of which only the topic grows.
LEMMA QueueKept ==
    ASSUME TopicsInv, NEW q \in Questions, Grows(q), ApiKept(q), LoopOK(q), QueueOK(q)
    PROVE  QueueOK(q)' /\ ReadOf(q)' = ReadOf(q)
<1>1. /\ read[q] \in Nat /\ read[q] <= Len(topic'[q]) /\ topic[q] \in Seq(Formed)
      /\ read[q] <= Len(topic[q]) /\ topic'[q] \in Seq(Formed)
      /\ \A i \in 1..read[q] : topic'[q][i] = topic[q][i]
  <2>1. /\ read[q] \in Nat /\ topic[q] \in Seq(Formed)
        /\ read[q] <= Len(topic'[q])
        /\ \A i \in 1..read[q] : topic'[q][i] = topic[q][i]
    BY GrownKeeps
  <2>2. topic'[q] \in Seq(Formed)
    <3>1. ASSUME NEW m \in Formed PROVE Append(topic[q], m) \in Seq(Formed)
      BY <2>1
    <3> QED
      BY <2>1, <3>1 DEF Grows
  <2> QED
    BY <2>1, <2>2 DEF LoopOK
<1>2. ReadOf(q)' = ReadOf(q)
  <2> DEFINE s == topic[q]
             t == topic'[q]
             n == read[q]
  <2>1. /\ s \in Seq(Formed) /\ t \in Seq(Formed) /\ n \in Nat /\ n <= Len(s) /\ n <= Len(t)
        /\ \A i \in 1..n : t[i] = s[i]
    BY <1>1
  <2> HIDE DEF s, t, n
  <2>2. SubSeq(t, 1, n) = SubSeq(s, 1, n)
    BY <2>1, SameBeginning
  <2>3. ReadOf(q)' = SubSeq(t, 1, n) /\ ReadOf(q) = SubSeq(s, 1, n)
    BY DEF ReadOf, ApiKept, s, t, n
  <2> QED
    BY <2>2, <2>3
<1>3. DoneLast(q)'
  <2>1. read[q] > 0 => read[q] \in 1..read[q]
    BY <1>1
  <2> QED
    BY <1>1, <2>1 DEF QueueOK, DoneLast, ApiKept
<1>4. ReadOrQueued(q)'
  <2>1. HeardOf(q)' = HeardOf(q)
    BY DEF HeardOf, ApiKept
  <2>2. /\ SaidTo(q, queue[q])' = SaidTo(q, queue[q])
        /\ SaidTo(q, ReadOf(q))' = SaidTo(q, ReadOf(q))
    BY <1>2 DEF SaidTo, TextTo, ApiKept
  <2> QED
    BY <2>1, <2>2 DEF QueueOK, ReadOrQueued
<1>5. ErrorsWait(q)'
  BY <1>1 DEF QueueOK, ErrorsWait, ApiKept
<1> QED
  BY <1>2, <1>3, <1>4, <1>5 DEF QueueOK

\* There is no DONE on the queue while there is something to read.
LEMMA NoDoneQueued ==
    ASSUME Types, NEW r \in Questions, Unread(r), LoopOK(r), DoneLast(r)
    PROVE  \A j \in DOMAIN queue[r] : ~IsDone(queue[r][j])
<1>1. read[r] \in Nat /\ \A i \in 1..read[r] : ~IsDone(topic[r][i])
  BY ReadsOne
<1>2. read[r] > 0 => read[r] \in 1..read[r]
  BY <1>1
<1> QED
  BY <1>1, <1>2 DEF DoneLast

\* The loop puts a message on the queue.
LEMMA PutsQueued ==
    ASSUME Types, NEW r \in Questions, LoopOK(r), QueueOK(r), LoopPuts(r)
    PROVE  QueueOK(r)'
<1> DEFINE m == Next1(r)
           n == read[r]
           u == queue[r]
           s == topic[r]
<1>0. AskTypeOK /\ Unread(r)
  BY DEF Types, TypeOK, LoopPuts
<1>1. /\ n \in Nat /\ n + 1 \in 1..Len(s) /\ m = s[n + 1] /\ m \in Formed
      /\ s \in Seq(Formed) /\ u \in Seq(Formed)
  BY <1>0, ReadsOne, QuestionTyped
<1>2. /\ read'[r] = n + 1 /\ topic' = topic /\ handler' = handler
      /\ UNCHANGED <<items, answer, request>>
      /\ queue'[r] = Append(u, m)
  BY <1>0 DEF LoopPuts, AskTypeOK, Types
<1>3. \A j \in DOMAIN u : ~IsDone(u[j])
  BY <1>0, NoDoneQueued DEF QueueOK
<1>4. ReadOrQueued(r) /\ ErrorsWait(r)
  BY DEF QueueOK
<1> HIDE DEF m, n, u, s
<1>5. /\ DOMAIN Append(u, m) = 1..(Len(u) + 1) /\ Len(Append(u, m)) = Len(u) + 1
      /\ \A j \in 1..Len(u) : Append(u, m)[j] = u[j]
      /\ Append(u, m)[Len(u) + 1] = m
      /\ Len(u) \in Nat /\ DOMAIN u = 1..Len(u)
  BY <1>1
<1>6. DoneLast(r)'
  <2> SUFFICES ASSUME NEW j \in 1..(Len(u) + 1), IsDone(Append(u, m)[j])
               PROVE  j = Len(u) + 1 /\ n + 1 > 0 /\ IsDone(s[n + 1])
    BY <1>2, <1>5 DEF DoneLast, s
  <2>1. j = Len(u) + 1
    BY <1>3, <1>5
  <2> QED
    BY <1>1, <1>5, <2>1
<1>7. ReadOrQueued(r)'
  <2>1. SubSeq(s, 1, n) \in Seq(Formed) /\ SubSeq(s, 1, n + 1) = Append(SubSeq(s, 1, n), m)
    BY <1>1, OneMore
  <2> DEFINE a == SubSeq(s, 1, n)
             i == HeardOf(r)
             v == SaidTo(r, u)
             b == Bit(r, m)
  <2>2. ReadOf(r) = a /\ ReadOf(r)' = Append(a, m)
    BY <1>2, <2>1 DEF ReadOf, s, n
  <2>3. a \in Seq(Formed)
    BY <2>1
  <2>4. i \in Seq(Texts) /\ v \in Seq(Texts) /\ b \in Seq(Texts)
    <3>1. TextTo(r, m) \in Texts
      BY <1>1, TextToTyped
    <3> QED
      BY <1>1, <3>1, HeardSeq, SaidSeq DEF Bit
  <2>5. SaidTo(r, a) = i \o v
    BY <1>4, <2>2 DEF ReadOrQueued, u
  <2>6. HeardOf(r)' = i
    BY <1>2 DEF HeardOf
  <2>7. /\ SaidTo(r, ReadOf(r))' = SaidTo(r, Append(a, m))
        /\ SaidTo(r, queue[r])' = SaidTo(r, Append(u, m))
    BY <1>2, <2>2 DEF SaidTo, TextTo
  <2> HIDE DEF a
  <2>8. SaidTo(r, Append(a, m)) = SaidTo(r, a) \o b /\ SaidTo(r, Append(u, m)) = v \o b
    BY <1>1, <2>3, SaidAppend
  <2> HIDE DEF i, v, b
  <2>9. (i \o v) \o b = i \o (v \o b)
    BY <2>4
  <2> QED
    BY <2>5, <2>6, <2>7, <2>8, <2>9 DEF ReadOrQueued
<1>8. ErrorsWait(r)'
  <2> SUFFICES ASSUME handler[r] \in {"idle", "starting", "answering"},
                      NEW k \in 1..(n + 1), s[k].op = "ERROR"
               PROVE  \E j \in 1..(Len(u) + 1) : Append(u, m)[j].op = "ERROR"
    BY <1>2, <1>5 DEF ErrorsWait, s
  <2>1. CASE k = n + 1
    BY <1>1, <1>5, <2>1
  <2>2. CASE k # n + 1
    <3>1. k \in 1..n
      BY <1>1, <2>2
    <3>2. PICK j \in DOMAIN u : u[j].op = "ERROR"
      BY <1>4, <3>1 DEF ErrorsWait, s, n, u
    <3> QED
      BY <1>5, <3>2
  <2> QED
    BY <2>1, <2>2
<1> QED
  BY <1>6, <1>7, <1>8 DEF QueueOK

\* It drops one, of no text.
LEMMA DropsQueued ==
    ASSUME Types, NEW r \in Questions, LoopOK(r), QueueOK(r), LoopDrops(r)
    PROVE  QueueOK(r)'
<1> DEFINE m == Next1(r)
           n == read[r]
           s == topic[r]
<1>0. AskTypeOK /\ Unread(r)
  BY DEF Types, TypeOK, LoopDrops
<1>1. /\ n \in Nat /\ n + 1 \in 1..Len(s) /\ m = s[n + 1] /\ m \in Formed /\ s \in Seq(Formed)
  BY <1>0, ReadsOne, QuestionTyped
<1>2. /\ read'[r] = n + 1 /\ topic' = topic /\ handler' = handler
      /\ UNCHANGED <<items, answer, request>>
      /\ queue' = queue /\ IsStep(m)
  BY <1>0 DEF LoopDrops, AskTypeOK
<1>3. \A j \in DOMAIN queue[r] : ~IsDone(queue[r][j])
  BY <1>0, NoDoneQueued DEF QueueOK
<1>4. ReadOrQueued(r) /\ ErrorsWait(r)
  BY DEF QueueOK
<1> HIDE DEF m, n, s
<1>5. m.text = <<>> /\ m.op # "ERROR"
  BY <1>1, <1>2 DEF Formed, IsStep
<1>6. DoneLast(r)'
  BY <1>2, <1>3 DEF DoneLast
<1>7. ReadOrQueued(r)'
  <2> DEFINE a == SubSeq(s, 1, n)
  <2>1. a \in Seq(Formed) /\ SubSeq(s, 1, n + 1) = Append(a, m)
    BY <1>1, OneMore
  <2>2. ReadOf(r) = a /\ ReadOf(r)' = Append(a, m)
    BY <1>2, <2>1 DEF ReadOf, s, n
  <2> HIDE DEF a
  <2>3. SaidTo(r, Append(a, m)) = SaidTo(r, a)
    <3>1. SaidTo(r, Append(a, m)) = SaidTo(r, a) \o Bit(r, m) /\ SaidTo(r, a) \in Seq(Texts)
      BY <1>1, <2>1, SaidAppend, SaidSeq
    <3>2. Bit(r, m) = <<>>
      BY <1>1, <1>2, TextToTyped DEF Bit
    <3> QED
      BY <3>1, <3>2
  <2>4. /\ SaidTo(r, ReadOf(r))' = SaidTo(r, Append(a, m))
        /\ SaidTo(r, queue[r])' = SaidTo(r, queue[r])
        /\ HeardOf(r)' = HeardOf(r)
    BY <1>2, <2>2 DEF SaidTo, TextTo, HeardOf
  <2> QED
    BY <1>4, <2>2, <2>3, <2>4 DEF ReadOrQueued
<1>8. ErrorsWait(r)'
  <2>1. ASSUME NEW k \in 1..(n + 1), s[k].op = "ERROR" PROVE k \in 1..n
    BY <1>1, <1>5, <2>1
  <2> QED
    BY <1>2, <1>4, <2>1 DEF ErrorsWait, s, n
<1> QED
  BY <1>6, <1>7, <1>8 DEF QueueOK

\* The handler takes the head of the queue and its text, if it has one, is heard.
LEMMA TakenKeeps ==
    ASSUME Types, NEW r \in Questions, QueueOK(r), NEW operations, Taking(r, operations),
           HeardOf(r)' = HeardOf(r) \o Bit(r, Head(queue[r])),
           Head(queue[r]).op = "ERROR" => handler'[r] \notin {"idle", "starting", "answering"}
    PROVE  QueueOK(r)'
<1> DEFINE u == queue[r]
           h == Head(u)
           t == Tail(u)
<1>1. /\ u \in Seq(Formed) /\ u # <<>> /\ queue'[r] = t /\ handler[r] = "answering"
      /\ topic' = topic /\ read' = read /\ request' = request
  BY TakingTyped, QuestionTyped
<1>2. DoneLast(r) /\ ReadOrQueued(r) /\ ErrorsWait(r)
  BY DEF QueueOK
<1> HIDE DEF u
<1>3. /\ t \in Seq(Formed) /\ Len(t) = Len(u) - 1 /\ Len(u) \in Nat \ {0}
      /\ DOMAIN u = 1..Len(u) /\ DOMAIN t = 1..(Len(u) - 1)
      /\ \A j \in 1..(Len(u) - 1) : t[j] = u[j + 1]
      /\ h = u[1] /\ h \in Formed
  BY <1>1
<1> HIDE DEF t, h
<1>4. \A j \in DOMAIN t : j + 1 \in DOMAIN u /\ t[j] = u[j + 1]
  BY <1>3
<1>5. DoneLast(r)'
  <2> SUFFICES ASSUME NEW j \in DOMAIN t, IsDone(t[j])
               PROVE  j = Len(t) /\ read[r] > 0 /\ IsDone(topic[r][read[r]])
    BY <1>1 DEF DoneLast
  <2>1. j + 1 = Len(u) /\ read[r] > 0 /\ IsDone(topic[r][read[r]])
    BY <1>2, <1>4 DEF DoneLast, u
  <2> QED
    BY <1>3, <2>1
<1>6. ReadOrQueued(r)'
  <2> DEFINE i == HeardOf(r)
             n == Bit(r, h)
             v == SaidTo(r, t)
  <2>1. i \in Seq(Texts) /\ n \in Seq(Texts) /\ v \in Seq(Texts)
    <3>1. TextTo(r, h) \in Texts
      BY <1>3, TextToTyped
    <3> QED
      BY <1>3, <3>1, HeardSeq, SaidSeq DEF Bit
  <2>2. HeardOf(r)' = i \o n
    BY DEF h, u
  <2>3. SaidTo(r, u) = n \o v
    BY <1>1, SaidHead DEF h, t
  <2>4. SaidTo(r, ReadOf(r)) = i \o SaidTo(r, u)
    BY <1>2 DEF ReadOrQueued, u
  <2>5. /\ SaidTo(r, ReadOf(r))' = SaidTo(r, ReadOf(r))
        /\ SaidTo(r, queue[r])' = v
    BY <1>1 DEF SaidTo, TextTo, ReadOf
  <2> HIDE DEF i, n, v
  <2>6. i \o (n \o v) = (i \o n) \o v
    BY <2>1
  <2> QED
    BY <2>2, <2>3, <2>4, <2>5, <2>6 DEF ReadOrQueued
<1>7. ErrorsWait(r)'
  <2> SUFFICES ASSUME handler'[r] \in {"idle", "starting", "answering"},
                      \E i \in 1..read[r] : topic[r][i].op = "ERROR"
               PROVE  \E j \in DOMAIN t : t[j].op = "ERROR"
    BY <1>1 DEF ErrorsWait
  <2>1. h.op # "ERROR"
    BY DEF h, u
  <2>2. PICK j \in DOMAIN u : u[j].op = "ERROR"
    BY <1>1, <1>2 DEF ErrorsWait, u
  <2>3. j # 1
    BY <1>3, <2>1, <2>2
  <2>4. j - 1 \in 1..(Len(u) - 1) /\ (j - 1) + 1 = j
    BY <1>3, <2>3
  <2> QED
    BY <1>3, <2>2, <2>4
<1> QED
  BY <1>5, <1>6, <1>7 DEF QueueOK

\* Only texts are yielded with a text.
LEMMA BareTexts ==
    /\ \A type \in ItemTypes :
         Bare(type) \in Item /\ <<Bare(type)>> \in Seq(Item) /\ TextsOf(<<Bare(type)>>) = <<>>
    /\ \A m \in Formed :
         /\ <<TextItem(m)>> \in Seq(Item)
         /\ TextsOf(<<TextItem(m)>>) = IF m.text # <<>> THEN <<m.text>> ELSE <<>>
<1>1. ASSUME NEW e \in Item
      PROVE  <<e>> \in Seq(Item) /\ TextsOf(<<e>>) = IF e.text # <<>> THEN <<e.text>> ELSE <<>>
  <2>1. <<e>> \in Seq(Item) /\ <<e>> # <<>> /\ Head(<<e>>) = e /\ Tail(<<e>>) = <<>>
    OBVIOUS
  <2> DEFINE s == <<e>>
  <2>2. TextsOf(s) = (IF Head(s).text # <<>> THEN <<Head(s).text>> ELSE <<>>) \o TextsOf(Tail(s))
    <3> HIDE DEF s
    <3>1. s \in Seq(Item) /\ s # <<>>
      BY <2>1 DEF s
    <3> QED
      BY <3>1, TextsHead, TextsTyped
  <2>3. /\ <<e.text>> \o <<>> = <<e.text>>
        /\ <<>> \o <<>> = <<>>
    <3>1. <<e.text>> \in Seq({e.text}) /\ <<>> \in Seq({e.text})
      OBVIOUS
    <3> QED
      BY <3>1
  <2> QED
    BY <2>1, <2>2, <2>3, TextsEmpty
<1>2. ASSUME NEW type \in ItemTypes
      PROVE  Bare(type) \in Item /\ <<Bare(type)>> \in Seq(Item) /\ TextsOf(<<Bare(type)>>) = <<>>
  <2>1. Bare(type) \in Item /\ Bare(type).text = <<>>
    BY ItemsTyped DEF Bare
  <2> QED
    BY <1>1, <2>1
<1>3. ASSUME NEW m \in Formed
      PROVE  /\ <<TextItem(m)>> \in Seq(Item)
             /\ TextsOf(<<TextItem(m)>>) = IF m.text # <<>> THEN <<m.text>> ELSE <<>>
  <2>1. TextItem(m) \in Item /\ TextItem(m).text = m.text
    BY ItemsTyped DEF TextItem
  <2> QED
    BY <1>1, <2>1
<1> QED
  BY <1>2, <1>3

\* Entries without a text.
LEMMA TextsNone ==
    ASSUME NEW E, \A e \in E : e.text \in Texts, NEW s \in Seq(E),
           \A i \in DOMAIN s : s[i].text = <<>>
    PROVE  TextsOf(s) = <<>>
<1> DEFINE w == Wordings(s)
           S == Texts \ {<<>>}
<1>1. w \in Seq(Texts) /\ Len(w) = Len(s) /\ \A i \in 1..Len(s) : w[i] = s[i].text
  BY WordingsSeq
<1>2. DOMAIN s = 1..Len(s)
  OBVIOUS
<1> HIDE DEF w
<1>3. \A i \in DOMAIN w : w[i] \notin S
  BY <1>1, <1>2
<1>4. <<>> \in Seq(Texts) /\ <<>> \o w = w
  BY <1>1
<1> HIDE DEF S
<1>5. Chosen(<<>> \o w, S) = Chosen(<<>>, S)
  BY <1>1, <1>3, <1>4, ChosenNone
<1> QED
  BY <1>4, <1>5, ChosenEmpty, TextsChosen DEF w, S

\* What ends a response has no text.
LEMMA RestTyped ==
    LET rest == <<Bare("retrieval"), Bare("status"), Bare("metadata"), Bare("consumption")>>
    IN  /\ rest \in Seq(Item) /\ TextsOf(rest) = <<>> /\ rest # <<>>
        /\ rest[Len(rest)] # Bare("error")
<1> DEFINE a == Bare("retrieval")
           b == Bare("status")
           c == Bare("metadata")
           d == Bare("consumption")
           rest == <<a, b, c, d>>
<1>1. /\ a \in Item /\ b \in Item /\ c \in Item /\ d \in Item
      /\ a.text = <<>> /\ b.text = <<>> /\ c.text = <<>> /\ d.text = <<>>
      /\ d # Bare("error")
  <2>1. {"retrieval", "status", "metadata", "consumption"} \subseteq ItemTypes
    BY DEF ItemTypes
  <2> QED
    BY <2>1, ItemsTyped DEF Bare
<1> HIDE DEF a, b, c, d
<1>2. /\ rest \in Seq(Item) /\ rest # <<>> /\ rest[Len(rest)] = d
      /\ \A i \in DOMAIN rest : rest[i] \in {a, b, c, d}
  BY <1>1
<1>3. \A i \in DOMAIN rest : rest[i].text = <<>>
  BY <1>1, <1>2
<1> HIDE DEF rest
<1>4. TextsOf(rest) = <<>>
  BY <1>2, <1>3, TextsNone, TextsTyped
<1> QED
  BY <1>1, <1>2, <1>4 DEF rest, a, b, c, d

\* Nor does the error that ends one.
LEMMA ErrorEnds ==
    ASSUME NEW new \in Seq(Item), TextsOf(new) = <<>>
    PROVE  /\ Append(new, Bare("error")) \in Seq(Item)
           /\ TextsOf(Append(new, Bare("error"))) = <<>>
<1>1. Bare("error") \in Item /\ Bare("error").text = <<>>
  BY ItemsTyped DEF Bare, ItemTypes
<1> DEFINE e == Bare("error")
<1> HIDE DEF e
<1>2. e \in Item /\ e.text = <<>>
  BY <1>1 DEF e
<1>3. TextsOf(Append(new, e)) = IF e.text # <<>> THEN Append(TextsOf(new), e.text) ELSE TextsOf(new)
  BY <1>2, TextsAppend, TextsTyped
<1>4. Append(new, e) \in Seq(Item)
  BY <1>2
<1> QED
  BY <1>2, <1>3, <1>4 DEF e

\* A response that ends, and what it yields then.
LEMMA EndsYield ==
    ASSUME Types, NEW r \in Questions, StreamError(r) \/ StreamDone(r)
    PROVE  /\ handler'[r] \in {"done", "failed"}
           /\ \E new \in Seq(Item) : items'[r] = items[r] \o new /\ TextsOf(new) = <<>>
           /\ handler'[r] = "done" => items'[r] # <<>>
           /\ handler'[r] = "done" /\ Last(items'[r]) # Bare("error") =>
                StreamDone(r)
<1> DEFINE rest == <<Bare("retrieval"), Bare("status"), Bare("metadata"),
                     Bare("consumption")>>
           new == IF StreamError(r) THEN <<>> ELSE rest
<1>1. \/ StreamError(r) /\ EndInError(r, <<>>)
      \/ StreamDone(r) /\ EndInError(r, rest)
      \/ StreamDone(r) /\ Yield(r, rest) /\ handler' = [handler EXCEPT ![r] = "done"]
  BY DEF StreamError, StreamDone
<1>2. rest \in Seq(Item) /\ TextsOf(rest) = <<>> /\ rest # <<>> /\ items[r] \in Seq(Item)
  BY RestTyped, QuestionTyped
<1>3. <<>> \in Seq(Item) /\ TextsOf(<<>>) = <<>>
  BY TextsEmpty
<1> HIDE DEF rest
<1>4. ASSUME NEW n \in Seq(Item), TextsOf(n) = <<>>, EndInError(r, n)
      PROVE  /\ handler'[r] \in {"done", "failed"}
             /\ \E x \in Seq(Item) : items'[r] = items[r] \o x /\ TextsOf(x) = <<>>
             /\ handler'[r] = "done" => items'[r] # <<>> /\ Last(items'[r]) = Bare("error")
  <2>1. /\ Append(n, Bare("error")) \in Seq(Item) /\ TextsOf(Append(n, Bare("error"))) = <<>>
    BY <1>4, ErrorEnds
  <2>2. \/ handler'[r] = "failed" /\ items'[r] = items[r] \o n
        \/ handler'[r] = "done" /\ items'[r] = items[r] \o Append(n, Bare("error"))
    BY <1>4, EndInErrorTyped
  <2> DEFINE e == Bare("error")
             i == items[r]
             w == i \o Append(n, e)
  <2>3. e \in Item /\ i \in Seq(Item)
    BY <1>2, ItemsTyped DEF ItemTypes
  <2> HIDE DEF e, i
  <2>4. w # <<>> /\ w[Len(w)] = e
    BY <2>3
  <2> QED
    BY <1>4, <2>1, <2>2, <2>4 DEF Last, e, i
<1>5. ASSUME StreamDone(r), Yield(r, rest), handler' = [handler EXCEPT ![r] = "done"]
      PROVE  handler'[r] = "done" /\ items'[r] = items[r] \o rest /\ items'[r] # <<>>
  <2>1. items'[r] = items[r] \o rest
    BY <1>2, <1>5, YieldTyped
  <2>2. items[r] \o rest # <<>>
    BY <1>2
  <2>3. handler'[r] = "done"
    BY <1>5 DEF Types, TypeOK, AskTypeOK
  <2> QED
    BY <2>1, <2>2, <2>3
<1> QED
  BY <1>1, <1>2, <1>3, <1>4, <1>5

\* A text that is yielded joins the answer if it is a chunk.
LEMMA StreamTextAnswers ==
    ASSUME Types, NEW r \in Questions, StreamText(r)
    PROVE  LET m == Head(queue[r]) IN
           answer'[r] = IF m.op = "ANSWER_CHUNK" THEN Append(answer[r], m.text) ELSE answer[r]
<1>1. answer \in [Questions -> Seq(Texts)]
  BY DEF Types, TypeOK, AskTypeOK
<1> QED
  BY <1>1 DEF StreamText

\* A step of the request's handler.
LEMMA HandlerQueued ==
    ASSUME Types, NEW r \in Questions, QueueOK(r),
           \/ LoopBreaks(r) \/ StartReturns(r) \/ StreamText(r) \/ SkipStart(r)
           \/ StreamError(r) \/ StreamDone(r) \/ ClientLeaves(r)
    PROVE  QueueOK(r)'
<1>0. items[r] \in Seq(Item) /\ handler \in [Questions -> HandlerStates]
  BY QuestionTyped DEF Types, TypeOK, AskTypeOK
<1>1. CASE LoopBreaks(r) \/ StartReturns(r) \/ ClientLeaves(r)
  <2>1. /\ UNCHANGED <<topic, read, queue, items, answer, request>>
        /\ handler'[r] \in {"idle", "starting", "answering"} =>
             handler[r] \in {"idle", "starting", "answering"}
    BY <1>0, <1>1 DEF LoopBreaks, StartReturns, ClientLeaves
  <2> QED
    BY <2>1 DEF QueueOK, DoneLast, ReadOrQueued, ReadOf, SaidTo, TextTo, HeardOf, ErrorsWait
<1>2. CASE StreamText(r)
  <2>1. PICK operations \in {{"REASONING", "ANSWER_CHUNK", "ANSWER"}} : Taking(r, operations)
    BY <1>2 DEF StreamText
  <2>2. Head(queue[r]) \in Formed /\ Head(queue[r]).op # "ERROR" /\ request' = request
    BY <2>1, TakingTyped
  <2> DEFINE new == <<TextItem(Head(queue[r]))>>
  <2>3. Yield(r, new)
    BY <1>2 DEF StreamText
  <2>4. new \in Seq(Item)
        /\ TextsOf(new) = IF Head(queue[r]).text # <<>> THEN <<Head(queue[r]).text>> ELSE <<>>
    BY <2>2, BareTexts
  <2> HIDE DEF new
  <2>5. items'[r] = items[r] \o new
    BY <2>3, <2>4, YieldTyped
  <2>6. HeardOf(r)' = HeardOf(r) \o Bit(r, Head(queue[r]))
    BY <1>2, <2>2, <2>4, <2>5, StreamTextAnswers, HeardMore
  <2> QED
    BY <2>1, <2>2, <2>6, TakenKeeps
<1>3. CASE SkipStart(r)
  <2>1. Taking(r, {"START"}) /\ UNCHANGED items
    BY <1>3 DEF SkipStart
  <2>2. Head(queue[r]) \in Formed /\ Head(queue[r]).op = "START" /\ request' = request
    BY <2>1, TakingTyped
  <2>3. Head(queue[r]).text = <<>>
    BY <2>2 DEF Formed
  <2>4. <<>> \in Seq(Item) /\ TextsOf(<<>>) = <<>> /\ items'[r] = items[r] \o <<>>
    BY <1>0, <2>1, TextsEmpty
  <2>5. answer' = answer
    BY <1>3 DEF SkipStart
  <2>6. HeardOf(r)' = HeardOf(r) \o Bit(r, Head(queue[r]))
    BY <2>2, <2>3, <2>4, <2>5, HeardMore
  <2> QED
    BY <2>1, <2>2, <2>6, TakenKeeps
<1>4. CASE StreamError(r) \/ StreamDone(r)
  <2>1. PICK operations \in {{"ERROR"}, {"DONE"}} : Taking(r, operations)
    BY <1>4 DEF StreamError, StreamDone
  <2>2. /\ Head(queue[r]) \in Formed /\ Head(queue[r]).op \in {"ERROR", "DONE"}
        /\ request' = request
    BY <2>1, TakingTyped
  <2>3. Head(queue[r]).text = <<>>
    BY <2>2 DEF Formed
  <2>4. PICK new \in Seq(Item) : items'[r] = items[r] \o new /\ TextsOf(new) = <<>>
    BY <1>4, EndsYield
  <2>5. handler'[r] \notin {"idle", "starting", "answering"}
    BY <1>4, EndsYield
  <2>6. answer' = answer
    BY <1>4 DEF StreamError, StreamDone
  <2>7. HeardOf(r)' = HeardOf(r) \o Bit(r, Head(queue[r]))
    BY <2>2, <2>3, <2>4, <2>6, HeardMore
  <2> QED
    BY <2>1, <2>5, <2>7, TakenKeeps
<1> QED
  BY <1>1, <1>2, <1>3, <1>4

\* The queue always holds what was read and is not answered yet.
QueuesInv == \A q \in Questions : QueueOK(q)

\* At first there is nothing.
LEMMA QueuesInitially == Init => QueuesInv
<1> SUFFICES ASSUME Init, NEW q \in Questions PROVE QueueOK(q)
  BY DEF QueuesInv
<1>1. /\ read[q] = 0 /\ topic[q] = <<>> /\ queue[q] = <<>> /\ items[q] = <<>>
      /\ answer[q] = <<>>
  BY DEF Init, TopicsInit, AskInit
<1>2. SubSeq(<<>>, 1, 0) = <<>> /\ <<>> \o <<>> = <<>>
  <2>1. <<>> \in Seq({})
    OBVIOUS
  <2> QED
    BY <2>1
<1>3. ReadOrQueued(q)
  BY <1>1, <1>2, TextsEmpty, SaidEmpty DEF ReadOrQueued, ReadOf, HeardOf
<1>4. DoneLast(q) /\ ErrorsWait(q)
  BY <1>1 DEF DoneLast, ErrorsWait
<1> QED
  BY <1>3, <1>4 DEF QueueOK

\* Every step keeps it.
LEMMA QueuesKept ==
    ASSUME TopicsInv, LoopsInv, QueuesInv, [Next]_vars
    PROVE  QueuesInv'
<1>0. Types /\ \A q \in Questions : Grows(q) /\ LoopOK(q) /\ QueueOK(q)
  BY TopicsGrow DEF TopicsInv, LoopsInv, QueuesInv
<1>1. ASSUME NEW r \in Questions, AskStep(r) PROVE QueuesInv'
  <2>1. ApiKeeps(r)
    BY <1>0, <1>1, AskStepKeeps
  <2>2. QueueOK(r)'
    BY <1>0, <1>1, PutsQueued, DropsQueued, HandlerQueued DEF AskStep
  <2>3. ASSUME NEW q \in Questions \ {r} PROVE QueueOK(q)'
    BY <1>0, <2>1, QueueKept DEF ApiKeeps
  <2> QED
    BY <2>2, <2>3 DEF QueuesInv
<1>2. ASSUME NEW r \in Questions, Ask(r) PROVE QueuesInv'
  <2>1. ASSUME NEW q \in Questions \ {r} PROVE QueueOK(q)'
    <3>1. ApiKept(q)
      BY <1>0, <1>2 DEF Ask, ApiKept, Types, TypeOK, AskTypeOK
    <3> QED
      BY <1>0, <3>1, QueueKept
  <2>2. handler[r] = "idle" /\ UNCHANGED <<topic, read, queue, items, answer, request>>
    BY <1>2 DEF Ask
  <2>3. QueueOK(r)'
    BY <1>0, <2>2
    DEF QueueOK, DoneLast, ReadOrQueued, ReadOf, SaidTo, TextTo, HeardOf, ErrorsWait
  <2> QED
    BY <2>1, <2>3 DEF QueuesInv
<1>3. CASE UNCHANGED askVars
  <2>1. ASSUME NEW q \in Questions PROVE QueueOK(q)'
    <3>1. ApiKept(q)
      BY <1>3 DEF askVars, ApiKept
    <3> QED
      BY <1>0, <3>1, QueueKept
  <2> QED
    BY <2>1 DEF QueuesInv
<1> QED
  BY <1>1, <1>2, <1>3 DEF Next, ServerNext, vars

\* Between the topic and the response nothing is lost, doubled or overtaken:
\* the texts read from the topic that are for the client are those it hears, then
\* those still queued (ask_result.py, loop, websocket_to_ask and _stream).
THEOREM QueuesInvariant == Spec => [](TopicsInv /\ LoopsInv /\ QueuesInv)
BY TopicsInitially, TopicsKept, LoopsInitially, LoopsKept, QueuesInitially, QueuesKept, PTL
   DEF Spec

---------------------------------------------------------------------------
(***************************************************************************)
(* The contract.                                                           *)
(***************************************************************************)
\* The texts said to the client on the topic of a question.
SaidOf(q) == SaidTo(q, Visible(topic[q]))

\* What the contract says of question q is as it was.
SameFor(q) ==
  /\ SaidOf(q)' = SaidOf(q) /\ HeardOf(q)' = HeardOf(q)
  /\ OutcomeOf(q)' = OutcomeOf(q) /\ ReplyOf(q)' = ReplyOf(q)

\* The steps of the contract, as a question takes them: the agent says a text.
Says(q) ==
  /\ OutcomeOf(q) = "pending" /\ OutcomeOf(q)' = OutcomeOf(q)
  /\ \E w \in Sayable : SaidOf(q)' = Append(SaidOf(q), w)
  /\ HeardOf(q)' = HeardOf(q) /\ ReplyOf(q)' = ReplyOf(q)

\* Its topic is closed.
Concludes(q) ==
  /\ OutcomeOf(q) = "pending" /\ OutcomeOf(q)' \in {"answered", "refused"}
  /\ SaidOf(q)' = SaidOf(q) /\ HeardOf(q)' = HeardOf(q) /\ ReplyOf(q)' = ReplyOf(q)

\* The response yields the next text.
Hears(q) ==
  /\ ReplyOf(q) = "open" /\ ReplyOf(q)' = ReplyOf(q)
  /\ Len(HeardOf(q)) < Len(SaidOf(q))
  /\ HeardOf(q)' = Append(HeardOf(q), SaidOf(q)[Len(HeardOf(q)) + 1])
  /\ SaidOf(q)' = SaidOf(q) /\ OutcomeOf(q)' = OutcomeOf(q)

\* The response ends well.
Succeeds(q) ==
  /\ ReplyOf(q) = "open" /\ ReplyOf(q)' = "success"
  /\ OutcomeOf(q) = "answered" /\ OutcomeOf(q)' = OutcomeOf(q)
  /\ HeardOf(q) = SaidOf(q)
  /\ SaidOf(q)' = SaidOf(q) /\ HeardOf(q)' = HeardOf(q)

\* It ends in an error, or its client leaves.
GivesUp(q) ==
  /\ ReplyOf(q) = "open" /\ ReplyOf(q)' \in {"error", "left"}
  /\ SaidOf(q)' = SaidOf(q) /\ HeardOf(q)' = HeardOf(q)
  /\ OutcomeOf(q)' = OutcomeOf(q)

\* A step that is one of these of one question, and none of the others, is a
\* step of the contract.
LEMMA ContractStep ==
    ASSUME NEW q \in Questions, \A x \in Questions \ {q} : SameFor(x),
           SameFor(q) \/ Says(q) \/ Concludes(q) \/ Hears(q) \/ Succeeds(q) \/ GivesUp(q)
    PROVE  [Contract!ContractNext]_(Contract!contractVars)
<1>1. ASSUME SameFor(q) PROVE UNCHANGED Contract!contractVars
  BY <1>1 DEF SameFor, SaidOf, Contract!contractVars
<1>2. ASSUME Says(q) PROVE Contract!Say(q)
  BY <1>2 DEF SameFor, SaidOf, Says, Contract!Say
<1>3. ASSUME Concludes(q) PROVE Contract!Conclude(q)
  BY <1>3 DEF SameFor, SaidOf, Concludes, Contract!Conclude
<1>4. ASSUME Hears(q) PROVE Contract!Hear(q)
  BY <1>4 DEF SameFor, SaidOf, Hears, Contract!Hear
<1>5. ASSUME Succeeds(q) PROVE Contract!Succeed(q)
  BY <1>5 DEF SameFor, SaidOf, Succeeds, Contract!Succeed
<1>6. ASSUME GivesUp(q) PROVE Contract!GiveUp(q)
  BY <1>6 DEF SameFor, SaidOf, GivesUp, Contract!GiveUp
<1> QED
  BY <1>1, <1>2, <1>3, <1>4, <1>5, <1>6 DEF Contract!ContractNext

\* A question of which the contract sees nothing change.
LEMMA UntoldSame ==
    ASSUME NEW q, topic'[q] = topic[q], items'[q] = items[q], answer'[q] = answer[q],
           request'[q] = request[q],
           \/ handler'[q] = handler[q]
           \/ {handler[q], handler'[q]} \subseteq {"idle", "starting", "answering"}
    PROVE  SameFor(q)
<1>1. OutcomeOf(q)' = OutcomeOf(q)
  BY DEF OutcomeOf
<1>2. ReplyOf(q)' = ReplyOf(q)
  BY DEF ReplyOf
<1>3. SaidOf(q)' = SaidOf(q) /\ HeardOf(q)' = HeardOf(q)
  BY DEF SaidOf, SaidTo, TextTo, HeardOf
<1> QED
  BY <1>1, <1>2, <1>3 DEF SameFor

\* A reader of an open topic, or of a closed one, sees it so.
LEMMA VisibleTyped ==
    ASSUME NEW t \in Seq(Formed)
    PROVE  /\ Visible(t) \in Seq(Formed)
           /\ IsClosed(Visible(t)) <=> IsClosed(t)
<1>1. t \in Seq(Message)
  BY FormedSeq
<1>2. CASE ~IsClosed(t)
  BY <1>2, VisibleOpen
<1>3. CASE IsClosed(t)
  <2>1. PICK n \in 1..Len(t) : Visible(t) = SubSeq(t, 1, n) /\ IsDone(t[n])
    BY <1>1, <1>3, VisibleClosed
  <2>2. /\ SubSeq(t, 1, n) \in Seq(Formed) /\ n \in DOMAIN SubSeq(t, 1, n)
        /\ SubSeq(t, 1, n)[n] = t[n]
    OBVIOUS
  <2> QED
    BY <1>3, <2>1, <2>2 DEF IsClosed
<1> QED
  BY <1>2, <1>3

\* A message published says its text, concludes, or comes too late.
LEMMA PublishedMaps ==
    ASSUME Types, NEW r \in Questions, NEW m \in Formed, topic'[r] = Append(topic[r], m),
           UNCHANGED <<items, answer, request, handler>>
    PROVE  SameFor(r) \/ Says(r) \/ Concludes(r)
<1> DEFINE t == topic[r]
           w == Append(t, m)
<1>1. t \in Seq(Formed) /\ w \in Seq(Formed) /\ t \in Seq(Message) /\ m \in Message
  <2>1. t \in Seq(Formed)
    BY QuestionTyped
  <2>2. Append(t, m) \in Seq(Formed)
    BY <2>1
  <2> QED
    BY <2>1, <2>2, FormedSeq DEF Formed
<1>2. HeardOf(r)' = HeardOf(r) /\ ReplyOf(r)' = ReplyOf(r)
  BY DEF HeardOf, ReplyOf
<1>3. /\ SaidOf(r) = SaidTo(r, Visible(t)) /\ SaidOf(r)' = SaidTo(r, Visible(w))
      /\ topic[r] = t /\ topic'[r] = w
  BY DEF SaidOf, SaidTo, TextTo
<1> HIDE DEF t
<1>4. CASE IsClosed(t)
  <2>1. Visible(w) = Visible(t)
    BY <1>1, <1>4, VisibleAppendClosed
  <2>2. OutcomeOf(r)' = OutcomeOf(r)
    BY <1>3, <2>1 DEF OutcomeOf
  <2> QED
    BY <1>2, <1>3, <2>1, <2>2 DEF SameFor
<1>5. CASE ~IsClosed(t)
  <2>1. Visible(t) = t /\ Visible(w) = w
    BY <1>1, <1>5, VisibleOpen, VisibleAppendOpen
  <2>2. SaidTo(r, w) = IF TextTo(r, m) # <<>> THEN Append(SaidTo(r, t), TextTo(r, m))
                        ELSE SaidTo(r, t)
    <3>1. SaidTo(r, w) = SaidTo(r, t) \o Bit(r, m) /\ SaidTo(r, t) \in Seq(Texts)
      BY <1>1, SaidAppend, SaidSeq
    <3>2. TextTo(r, m) \in Texts
      BY TextToTyped
    <3> QED
      BY <3>1, <3>2 DEF Bit
  <2>3. OutcomeOf(r) = "pending"
    BY <1>3, <1>5, <2>1 DEF OutcomeOf
  <2>4. IsClosed(w) <=> IsDone(m)
    BY <1>1, <1>5, ClosedAppend
  <2> HIDE DEF w
  <2>5. CASE IsDone(m)
    <3>1. TextTo(r, m) = <<>>
      BY <2>5, TextToTyped DEF IsDone
    <3>2. OutcomeOf(r)' \in {"answered", "refused"}
      BY <1>3, <2>1, <2>4, <2>5 DEF OutcomeOf
    <3> QED
      BY <1>2, <1>3, <2>1, <2>2, <2>3, <3>1, <3>2 DEF Concludes
  <2>6. CASE ~IsDone(m)
    <3>1. OutcomeOf(r)' = "pending"
      BY <1>3, <2>1, <2>4, <2>6 DEF OutcomeOf
    <3>2. CASE TextTo(r, m) = <<>>
      BY <1>2, <1>3, <2>1, <2>2, <2>3, <3>1, <3>2 DEF SameFor
    <3>3. CASE TextTo(r, m) # <<>>
      <4>1. TextTo(r, m) \in Sayable
        BY <3>3, TextToTyped
      <4> QED
        BY <1>2, <1>3, <2>1, <2>2, <2>3, <3>1, <3>3, <4>1 DEF Says
    <3> QED
      BY <3>2, <3>3
  <2> QED
    BY <2>5, <2>6
<1> QED
  BY <1>4, <1>5

\* What the loop has read is the beginning of what a reader sees.
LEMMA ReadVisible ==
    ASSUME Types, NEW q \in Questions, LoopOK(q)
    PROVE  LET seen == Visible(topic[q]) IN
           /\ seen \in Seq(Formed) /\ read[q] \in 0..Len(seen)
           /\ ReadOf(q) = SubSeq(seen, 1, read[q])
<1> DEFINE t == topic[q]
           k == read[q]
<1>1. /\ t \in Seq(Formed) /\ t \in Seq(Message) /\ k \in Nat /\ k <= Len(t)
      /\ \A i \in 1..k : IsDone(t[i]) => i = k
      /\ ReadOf(q) = SubSeq(t, 1, k)
  BY QuestionTyped, FormedSeq DEF LoopOK, ReadOf
<1> HIDE DEF t, k
<1>2. CASE ~IsClosed(t)
  <2>1. Visible(t) = t /\ k \in 0..Len(t)
    BY <1>1, <1>2, VisibleOpen
  <2> QED
    BY <1>1, <2>1 DEF t, k
<1>3. CASE IsClosed(t)
  <2>1. PICK n \in 1..Len(t) : Visible(t) = SubSeq(t, 1, n) /\ IsDone(t[n])
    BY <1>1, <1>3, VisibleClosed
  <2>2. k <= n
    <3>1. n <= k => n \in 1..k
      BY <1>1
    <3> QED
      BY <1>1, <2>1, <3>1
  <2>3. /\ SubSeq(t, 1, n) \in Seq(Formed) /\ Len(SubSeq(t, 1, n)) = n
        /\ SubSeq(SubSeq(t, 1, n), 1, k) = SubSeq(t, 1, k)
    BY <1>1, <2>2
  <2>4. k \in 0..n
    BY <1>1, <2>2
  <2> QED
    BY <1>1, <2>1, <2>3, <2>4 DEF t, k
<1> QED
  BY <1>2, <1>3

\* A text that is yielded is the next one said.
LEMMA TextMaps ==
    ASSUME Types, NEW r \in Questions, LoopOK(r), QueueOK(r), StreamText(r)
    PROVE  SameFor(r) \/ Hears(r)
<1> DEFINE h == Head(queue[r])
           said == SaidOf(r)
           heard == HeardOf(r)
           new == <<TextItem(h)>>
           c == TextTo(r, h)
           u == SaidTo(r, queue[r])
           v == SaidTo(r, Tail(queue[r]))
<1>1. PICK operations : Taking(r, operations)
  BY DEF StreamText
<1>2. /\ h \in Formed /\ handler[r] = "answering" /\ topic' = topic
      /\ queue[r] \in Seq(Formed) /\ queue[r] # <<>> /\ Tail(queue[r]) \in Seq(Formed)
      /\ request' = request
  BY <1>1, TakingTyped
<1>3. Yield(r, new) /\ handler' = handler
  BY DEF StreamText
<1>4. new \in Seq(Item) /\ TextsOf(new) = IF h.text # <<>> THEN <<h.text>> ELSE <<>>
  BY <1>2, BareTexts
<1> HIDE DEF new
<1>5. items'[r] = items[r] \o new
  BY <1>3, <1>4, YieldTyped
<1>6. HeardOf(r)' = heard \o Bit(r, h)
  BY <1>2, <1>4, <1>5, StreamTextAnswers, HeardMore
<1>7. /\ SaidOf(r)' = said /\ OutcomeOf(r)' = OutcomeOf(r) /\ ReplyOf(r)' = ReplyOf(r)
      /\ ReplyOf(r) = "open"
  <2>1. SaidOf(r)' = SaidOf(r) /\ OutcomeOf(r)' = OutcomeOf(r)
    BY <1>2 DEF SaidOf, SaidTo, TextTo, OutcomeOf
  <2>2. ReplyOf(r) = "open" /\ ReplyOf(r)' = "open"
    BY <1>2, <1>3 DEF ReplyOf
  <2> QED
    BY <2>1, <2>2
<1>8. heard \in Seq(Texts) /\ v \in Seq(Texts) /\ c \in Texts
  BY <1>2, HeardSeq, SaidSeq, TextToTyped
<1>9. u = Bit(r, h) \o v
  BY <1>2, SaidHead
<1>10. LET p == heard \o u
       IN  Len(p) <= Len(said) /\ p = SubSeq(said, 1, Len(p)) /\ said \in Seq(Texts)
  <2>1. /\ Visible(topic[r]) \in Seq(Formed) /\ read[r] \in 0..Len(Visible(topic[r]))
        /\ ReadOf(r) = SubSeq(Visible(topic[r]), 1, read[r])
    BY ReadVisible
  <2>2. SaidTo(r, ReadOf(r)) = heard \o u
    BY DEF QueueOK, ReadOrQueued
  <2> DEFINE s == Visible(topic[r])
             k == read[r]
  <2>3. s \in Seq(Formed) /\ k \in 0..Len(s) /\ ReadOf(r) = SubSeq(s, 1, k) /\ said = SaidTo(r, s)
    BY <2>1 DEF SaidOf
  <2> HIDE DEF s, k, said
  <2>4. LET p == SaidTo(r, SubSeq(s, 1, k))
            w == SaidTo(r, s)
        IN  Len(p) <= Len(w) /\ p = SubSeq(w, 1, Len(p))
    BY <2>3, SaidBeginning
  <2>5. SaidTo(r, s) \in Seq(Texts)
    BY <2>3, SaidSeq
  <2> QED
    BY <2>2, <2>3, <2>4, <2>5
<1>11. Bit(r, h) = IF c # <<>> THEN <<c>> ELSE <<>>
  BY DEF Bit
<1> HIDE DEF h, said, heard, u, v, c
<1>12. CASE c = <<>>
  <2>1. heard \o <<>> = heard
    BY <1>8
  <2>2. HeardOf(r)' = HeardOf(r)
    BY <1>6, <1>11, <1>12, <2>1 DEF heard
  <2> QED
    BY <1>7, <2>2 DEF SameFor, said
<1>13. CASE c # <<>>
  <2> DEFINE S == Texts
  <2>1. c \in S /\ u = <<c>> \o v /\ Bit(r, h) = <<c>>
    BY <1>8, <1>9, <1>11, <1>13
  <2>2. heard \in Seq(S) /\ v \in Seq(S) /\ said \in Seq(S)
    BY <1>8, <1>10
  <2> HIDE DEF S
  <2> DEFINE p == heard \o u
             n == Len(heard)
  <2>3. p \in Seq(S) /\ n \in Nat /\ n < Len(p) /\ p[n + 1] = c
    BY <2>1, <2>2
  <2>4. Len(p) <= Len(said) /\ p = SubSeq(said, 1, Len(p)) /\ Len(said) \in Nat /\ Len(p) \in Nat
    BY <1>10, <2>2, <2>3
  <2> HIDE DEF p
  <2>5. n < Len(said) /\ said[n + 1] = c
    <3>1. n + 1 \in 1..Len(p)
      BY <2>3, <2>4
    <3>2. SubSeq(said, 1, Len(p))[n + 1] = said[n + 1]
      BY <2>2, <2>4, <3>1
    <3> QED
      BY <2>3, <2>4, <3>2
  <2>6. heard \o <<c>> = Append(heard, c)
    BY <2>1, <2>2
  <2> QED
    BY <1>6, <1>7, <2>1, <2>5, <2>6 DEF Hears, said, heard
<1> QED
  BY <1>12, <1>13

\* At DONE everything said is heard, and there was no ERROR.
LEMMA DoneHeard ==
    ASSUME Types, NEW r \in Questions, LoopOK(r), QueueOK(r), StreamDone(r)
    PROVE  HeardOf(r) = SaidOf(r) /\ OutcomeOf(r) = "answered"
<1> DEFINE u == queue[r]
           t == topic[r]
           k == read[r]
<1>1. Taking(r, {"DONE"})
  BY DEF StreamDone
<1>2. /\ u \in Seq(Formed) /\ u # <<>> /\ Head(u) \in Formed /\ Tail(u) \in Seq(Formed)
      /\ Head(u).op = "DONE" /\ handler[r] = "answering"
      /\ t \in Seq(Message) /\ k \in Nat /\ k <= Len(t) /\ t \in Seq(Formed)
      /\ \A i \in 1..k : IsDone(t[i]) => i = k
  BY <1>1, TakingTyped, QuestionTyped, FormedSeq DEF LoopOK
<1>3. \A j \in DOMAIN u : IsDone(u[j]) => j = Len(u) /\ k > 0 /\ IsDone(t[k])
  BY DEF QueueOK, DoneLast
<1>4. /\ (\E i \in 1..k : t[i].op = "ERROR") => \E j \in DOMAIN u : u[j].op = "ERROR"
      /\ SaidTo(r, ReadOf(r)) = HeardOf(r) \o SaidTo(r, u)
      /\ ReadOf(r) = SubSeq(t, 1, k)
  BY <1>2 DEF QueueOK, ReadOrQueued, ErrorsWait, ReadOf
<1>5. SaidOf(r) = SaidTo(r, Visible(t)) /\ topic[r] = t
  BY DEF SaidOf
<1> HIDE DEF u, t, k
<1>6. 1 \in DOMAIN u /\ u[1] = Head(u) /\ DOMAIN u = 1..Len(u) /\ Len(u) \in Nat
  BY <1>2
<1>7. Len(u) = 1 /\ k > 0 /\ IsDone(t[k]) /\ k \in 1..Len(t) /\ \A i \in DOMAIN u : i = 1
  BY <1>2, <1>3, <1>6 DEF IsDone
<1>8. Visible(t) = SubSeq(t, 1, k)
  <2>1. \A j \in 1..(k - 1) : ~IsDone(t[j])
    <3> SUFFICES ASSUME NEW j \in 1..(k - 1) PROVE ~IsDone(t[j])
      OBVIOUS
    <3>1. j \in 1..k /\ j # k
      BY <1>2
    <3> QED
      BY <1>2, <3>1
  <2> QED
    BY <1>2, <1>7, <2>1, VisibleTo
<1>9. SaidTo(r, u) = <<>>
  <2>1. TextTo(r, Head(u)) = <<>>
    BY <1>2, TextToTyped
  <2>2. SaidTo(r, u) = Bit(r, Head(u)) \o SaidTo(r, Tail(u))
    BY <1>2, SaidHead
  <2>3. Tail(u) = <<>>
    <3>1. Tail(u) \in Seq(Formed) /\ Len(Tail(u)) = 0
      BY <1>2, <1>7
    <3>2. ASSUME NEW w \in Seq(Formed), Len(w) = 0 PROVE w = <<>>
      BY <3>2
    <3> QED
      BY <3>1, <3>2
  <2>4. <<>> \o <<>> = <<>>
    <3>1. <<>> \in Seq({})
      OBVIOUS
    <3> QED
      BY <3>1
  <2> QED
    BY <2>1, <2>2, <2>3, <2>4, SaidEmpty DEF Bit
<1>10. HeardOf(r) = SaidOf(r)
  <2>1. HeardOf(r) \in Seq(Texts)
    BY HeardSeq
  <2>2. HeardOf(r) \o <<>> = HeardOf(r)
    BY <2>1
  <2> QED
    BY <1>4, <1>5, <1>8, <1>9, <2>2
<1>11. OutcomeOf(r) = "answered"
  <2> DEFINE seen == SubSeq(t, 1, k)
  <2>1. DOMAIN seen = 1..k /\ (\A i \in 1..k : seen[i] = t[i]) /\ k \in 1..k
    BY <1>2, <1>7
  <2> HIDE DEF seen
  <2>2. IsClosed(seen)
    BY <1>7, <2>1 DEF IsClosed
  <2>3. \A i \in DOMAIN seen : seen[i].op # "ERROR"
    <3>1. u[1].op # "ERROR"
      BY <1>2, <1>6
    <3>2. ~\E j \in DOMAIN u : u[j].op = "ERROR"
      BY <1>7, <3>1
    <3> QED
      BY <1>4, <2>1, <3>2
  <2>4. Visible(topic[r]) = seen
    BY <1>5, <1>8 DEF seen
  <2> QED
    BY <2>2, <2>3, <2>4 DEF OutcomeOf
<1> QED
  BY <1>10, <1>11

\* A response that ends succeeds or gives up.
LEMMA EndMaps ==
    ASSUME Types, NEW r \in Questions, LoopOK(r), QueueOK(r), StreamError(r) \/ StreamDone(r)
    PROVE  Succeeds(r) \/ GivesUp(r)
<1>1. PICK operations : Taking(r, operations)
  BY DEF StreamError, StreamDone
<1>2. handler[r] = "answering" /\ topic' = topic /\ request' = request /\ answer' = answer
  BY <1>1, TakingTyped DEF StreamError, StreamDone
<1>3. /\ handler'[r] \in {"done", "failed"}
      /\ handler'[r] = "done" /\ Last(items'[r]) # Bare("error") => StreamDone(r)
  BY EndsYield
<1>4. PICK new \in Seq(Item) : items'[r] = items[r] \o new /\ TextsOf(new) = <<>>
  BY EndsYield
<1>5. HeardOf(r)' = HeardOf(r)
  <2>1. items[r] \in Seq(Item)
    BY QuestionTyped
  <2>2. TextsOf(items[r] \o new) = TextsOf(items[r]) \o TextsOf(new)
    BY <2>1, TextsConcat, TextsTyped
  <2>3. TextsOf(items[r]) \in Seq(Texts \ {<<>>})
    BY <2>1, TextsSeq, TextsTyped
  <2>4. TextsOf(items[r]) \o <<>> = TextsOf(items[r])
    BY <2>3
  <2> QED
    BY <1>2, <1>4, <2>2, <2>4 DEF HeardOf
<1>6. SaidOf(r)' = SaidOf(r) /\ OutcomeOf(r)' = OutcomeOf(r)
  BY <1>2 DEF SaidOf, SaidTo, TextTo, OutcomeOf
<1>7. ReplyOf(r) = "open"
  BY <1>2 DEF ReplyOf
<1>8. CASE handler'[r] = "done" /\ Last(items'[r]) # Bare("error")
  <2>1. HeardOf(r) = SaidOf(r) /\ OutcomeOf(r) = "answered"
    BY <1>3, <1>8, DoneHeard
  <2>2. ReplyOf(r)' = "success"
    BY <1>8 DEF ReplyOf
  <2> QED
    BY <1>5, <1>6, <1>7, <2>1, <2>2 DEF Succeeds
<1>9. CASE handler'[r] = "failed" \/ Last(items'[r]) = Bare("error")
  <2>1. ReplyOf(r)' = "error"
    BY <1>3, <1>9 DEF ReplyOf
  <2> QED
    BY <1>5, <1>6, <1>7, <2>1 DEF GivesUp
<1> QED
  BY <1>3, <1>8, <1>9

\* Every step of the API for a question is one of the contract.
LEMMA ApiMaps ==
    ASSUME Types, NEW r \in Questions, LoopOK(r), QueueOK(r), AskStep(r)
    PROVE  SameFor(r) \/ Hears(r) \/ Succeeds(r) \/ GivesUp(r)
<1>0. handler \in [Questions -> HandlerStates]
  BY DEF Types, TypeOK, AskTypeOK
<1>1. CASE LoopPuts(r) \/ LoopDrops(r) \/ LoopBreaks(r) \/ StartReturns(r) \/ SkipStart(r)
  <2>1. /\ topic'[r] = topic[r] /\ items'[r] = items[r] /\ answer'[r] = answer[r]
        /\ request'[r] = request[r]
        /\ \/ handler'[r] = handler[r]
           \/ {handler[r], handler'[r]} \subseteq {"idle", "starting", "answering"}
    BY <1>0, <1>1 DEF LoopPuts, LoopDrops, LoopBreaks, StartReturns, SkipStart, Taking
  <2> QED
    BY <2>1, UntoldSame
<1>2. CASE ClientLeaves(r)
  <2>1. /\ UNCHANGED <<topic, items, answer, request>>
        /\ handler[r] = "answering" /\ handler'[r] = "gone"
    BY <1>0, <1>2 DEF ClientLeaves
  <2>2. ReplyOf(r) = "open" /\ ReplyOf(r)' = "left"
    BY <2>1 DEF ReplyOf
  <2> QED
    BY <2>1, <2>2 DEF GivesUp, SaidOf, SaidTo, TextTo, HeardOf, OutcomeOf
<1>3. CASE StreamText(r)
  BY <1>3, TextMaps
<1>4. CASE StreamError(r) \/ StreamDone(r)
  BY <1>4, EndMaps
<1> QED
  BY <1>1, <1>2, <1>3, <1>4 DEF AskStep

\* Every step is a step of the contract, or one it does not see.
LEMMA StepMaps ==
    ASSUME TopicsInv, LoopsInv, QueuesInv, [Next]_vars
    PROVE  [Contract!ContractNext]_(Contract!contractVars)
<1>0. Types /\ \A q \in Questions : LoopOK(q) /\ QueueOK(q) /\ ServerOK(q) /\ AskedOnce(q)
  BY DEF TopicsInv, LoopsInv, QueuesInv
<1>1. ASSUME NEW r \in Questions, AskStep(r)
      PROVE  [Contract!ContractNext]_(Contract!contractVars)
  <2>1. ApiKeeps(r)
    BY <1>0, <1>1, AskStepKeeps
  <2>2. \A x \in Questions \ {r} : SameFor(x)
    BY <2>1, UntoldSame DEF ApiKeeps, ApiKept
  <2>3. SameFor(r) \/ Hears(r) \/ Succeeds(r) \/ GivesUp(r)
    BY <1>0, <1>1, ApiMaps
  <2> QED
    BY <2>2, <2>3, ContractStep
<1>2. ASSUME NEW r \in Questions, ServerStep(r), UNCHANGED askVars
      PROVE  [Contract!ContractNext]_(Contract!contractVars)
  <2>1. ServerKeeps(r) /\ Grows(r)
    BY <1>0, <1>2, ServerStepKeeps, ServerGrows DEF AskedOnce
  <2>2. UNCHANGED <<items, answer, request, handler>>
    BY <1>2 DEF askVars
  <2>3. \A x \in Questions \ {r} : SameFor(x)
    BY <2>1, <2>2, UntoldSame DEF ServerKeeps, Kept
  <2>4. SameFor(r) \/ Says(r) \/ Concludes(r)
    BY <1>0, <2>1, <2>2, PublishedMaps, UntoldSame DEF Grows
  <2> QED
    BY <2>3, <2>4, ContractStep
<1>3. ASSUME \A x \in Questions : SameFor(x)
      PROVE  [Contract!ContractNext]_(Contract!contractVars)
  BY <1>3 DEF SameFor, SaidOf, Contract!contractVars
<1>4. ASSUME NEW r \in Questions, Ask(r)
      PROVE  [Contract!ContractNext]_(Contract!contractVars)
  <2>1. ASSUME NEW x \in Questions PROVE SameFor(x)
    <3>1. /\ topic'[x] = topic[x] /\ items'[x] = items[x] /\ answer'[x] = answer[x]
          /\ request'[x] = request[x]
          /\ \/ handler'[x] = handler[x]
             \/ {handler[x], handler'[x]} \subseteq {"idle", "starting", "answering"}
      BY <1>0, <1>4 DEF Ask, Types, TypeOK, AskTypeOK
    <3> QED
      BY <3>1, UntoldSame
  <2> QED
    BY <1>3, <2>1
<1>5. CASE UNCHANGED <<topic, items, answer, request, handler>>
  BY <1>3, <1>5, UntoldSame
<1> QED
  BY <1>1, <1>2, <1>4, <1>5 DEF Next, ServerNext, Evict, Restart, vars, askVars

\* At first nothing is said and nothing heard.
LEMMA ContractInitially == Init => Contract!ContractInit
<1> SUFFICES ASSUME Init PROVE Contract!ContractInit
  OBVIOUS
<1>1. ASSUME NEW q \in Questions
      PROVE  /\ SaidTo(q, Visible(topic[q])) = <<>> /\ HeardOf(q) = <<>>
             /\ OutcomeOf(q) = "pending" /\ ReplyOf(q) = "open"
  <2>1. topic[q] = <<>> /\ items[q] = <<>> /\ answer[q] = <<>> /\ handler[q] = "idle"
    BY DEF Init, TopicsInit, AskInit
  <2>2. ~IsClosed(<<>>)
    BY DEF IsClosed
  <2>3. Visible(<<>>) = <<>>
    BY <2>2, VisibleOpen
  <2> QED
    BY <2>1, <2>2, <2>3, TextsEmpty, SaidEmpty DEF HeardOf, OutcomeOf, ReplyOf
<1> QED
  BY <1>1 DEF Contract!ContractInit

\* The agentic server and the API together implement the contract: the client
\* hears what the agent says, in order, nothing twice and nothing left out, and
\* is told "success" only of an answer that was finished and heard in full.  What
\* is said to a synchronous client are the chunks of the answer (session.py,
\* answer; ask_result.py, loop, websocket_to_ask and _stream).
THEOREM AgenticRefinesContract == Spec => KeepsContract
BY ContractInitially, StepMaps, QueuesInvariant, PTL DEF Spec, KeepsContract, Contract!ContractSpec

=============================================================================
