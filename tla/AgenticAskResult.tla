-------------------------- MODULE AgenticAskResult --------------------------
(***************************************************************************)
(* AgenticAskResult and create_agentic_response (agentic/ask_result.py,    *)
(* agentic/ask_handler.py): the API's side of a question.  The task loop   *)
(* moves the topic's messages to a queue and signals the learning id; the  *)
(* request's handler waits for that signal, then turns the queue into the  *)
(* items of an ask response, streamed to the client or collected in a      *)
(* synchronous one.                                                        *)
(***************************************************************************)
EXTENDS QuestionTopics

CONSTANTS
  Requests,      \* the requests clients make: subset of RequestOptions
  UsageMayFail   \* may reporting a step's usage raise?

RequestOptions == [sync : BOOLEAN, relations : BOOLEAN]

ASSUME RequestsAssumption ==
  /\ Requests \subseteq RequestOptions
  /\ UsageMayFail \in BOOLEAN

VARIABLES
  request,   \* question -> the options of the request that asked it
  loop,      \* question -> the task that reads the topic
  read,      \* question -> messages it has read
  queue,     \* question -> self.queue
  signal,    \* question -> self.event_learning_id
  learning,  \* question -> self.nuclia_learning_id
  handler,   \* question -> where the request's handler stands
  header,    \* question -> the NUCLIA-LEARNING-ID header of the response
  items,     \* question -> the items _stream has yielded
  answer,    \* question -> self._answer_text, as the texts joined in it
  dropped    \* question -> has loop dropped a message?  (history of the run)

askVars ==
  <<request, loop, read, queue, signal, learning, handler, header, items, answer, dropped>>

LoopStates == {"none", "reading", "ended", "broken"}

\* "failed" is a request that ends in an error response, "gone" one whose
\* client left.
HandlerStates == {"idle", "starting", "answering", "done", "failed", "gone"}

ItemTypes == {"answer", "reasoning", "retrieval", "status", "metadata",
              "consumption", "error"}

Item == [type : ItemTypes, text : Texts]

Bare(type) == [type |-> type, text |-> <<>>]

AskTypeOK ==
  /\ request \in [Questions -> RequestOptions]
  /\ loop \in [Questions -> LoopStates]
  /\ read \in [Questions -> Nat]
  /\ queue \in [Questions -> Seq(Message)]
  /\ signal \in [Questions -> BOOLEAN]
  /\ learning \in [Questions -> LearningIds \cup {NoId}]
  /\ handler \in [Questions -> HandlerStates]
  /\ header \in [Questions -> LearningIds \cup {NoId}]
  /\ items \in [Questions -> Seq(Item)]
  /\ answer \in [Questions -> Seq(Texts)]
  /\ dropped \in [Questions -> BOOLEAN]

AskInit ==
  /\ request \in [Questions -> Requests]
  /\ loop = [q \in Questions |-> "none"]
  /\ read = [q \in Questions |-> 0]
  /\ queue = [q \in Questions |-> <<>>]
  /\ signal = [q \in Questions |-> FALSE]
  /\ learning = [q \in Questions |-> NoId]
  /\ handler = [q \in Questions |-> "idle"]
  /\ header = [q \in Questions |-> NoId]
  /\ items = [q \in Questions |-> <<>>]
  /\ answer = [q \in Questions |-> <<>>]
  /\ dropped = [q \in Questions |-> FALSE]

(***************************************************************************)
(* start: the loop is spawned; stream_response asks the agentic server to  *)
(* activate the question.                                                  *)
(***************************************************************************)
Ask(q) ==
  /\ handler[q] = "idle"
  /\ handler' = [handler EXCEPT ![q] = "starting"]
  /\ loop' = [loop EXCEPT ![q] = "reading"]
  /\ inbox' = inbox \cup {q}
  /\ UNCHANGED <<topic, request, read, queue, signal, learning, header, items, answer,
                 dropped>>

(***************************************************************************)
(* The task loop                                                           *)
(***************************************************************************)
Unread(q) == loop[q] = "reading" /\ read[q] < Len(topic[q])

Next1(q) == topic[q][read[q] + 1]

\* Mutant: DONE does not set the event.
LoopPutsSilently(q) ==
  /\ Unread(q)
  /\ LET m == Next1(q) IN
     /\ queue' = [queue EXCEPT ![q] = Append(@, m)]
     /\ learning' = [learning EXCEPT ![q] = IF m.learning # NoId THEN m.learning ELSE @]
     /\ signal' = [signal EXCEPT ![q] = @ \/ m.learning # NoId]
     /\ loop' = [loop EXCEPT ![q] = IF IsDone(m) THEN "ended" ELSE @]
  /\ read' = [read EXCEPT ![q] = @ + 1]
  /\ UNCHANGED <<inbox, topic, request, handler, header, items, answer, dropped>>

\* Mutant: the loop does not break at DONE.
LoopPutsForever(q) ==
  /\ Unread(q)
  /\ LET m == Next1(q) IN
     /\ queue' = [queue EXCEPT ![q] = Append(@, m)]
     /\ learning' = [learning EXCEPT ![q] = IF m.learning # NoId THEN m.learning ELSE @]
     /\ signal' = [signal EXCEPT ![q] = @ \/ IsDone(m) \/ m.learning # NoId]
  /\ read' = [read EXCEPT ![q] = @ + 1]
  /\ UNCHANGED <<inbox, topic, request, loop, handler, header, items, answer, dropped>>

LoopPuts(q) ==
  /\ Unread(q)
  /\ LET m == Next1(q) IN
     /\ queue' = [queue EXCEPT ![q] = Append(@, m)]
     /\ learning' = [learning EXCEPT ![q] = IF m.learning # NoId THEN m.learning ELSE @]
     /\ signal' = [signal EXCEPT ![q] = @ \/ IsDone(m) \/ m.learning # NoId]
     /\ loop' = [loop EXCEPT ![q] = IF IsDone(m) THEN "ended" ELSE @]
  /\ read' = [read EXCEPT ![q] = @ + 1]
  /\ UNCHANGED <<inbox, topic, request, handler, header, items, answer, dropped>>

IsStep(m) == m.op = "ANSWER" /\ ~m.final

\* Reporting a step's usage raises RuntimeError or QueueFull: the message is
\* dropped and the event set.
LoopDrops(q) ==
  /\ UsageMayFail
  /\ Unread(q)
  /\ LET m == Next1(q) IN
     /\ IsStep(m)
     /\ learning' = [learning EXCEPT ![q] = IF m.learning # NoId THEN m.learning ELSE @]
  /\ signal' = [signal EXCEPT ![q] = TRUE]
  /\ dropped' = [dropped EXCEPT ![q] = TRUE]
  /\ read' = [read EXCEPT ![q] = @ + 1]
  /\ UNCHANGED <<inbox, topic, request, loop, queue, handler, header, items, answer>>

\* stream_response raises: nothing in loop catches it.
LoopBreaks(q) ==
  /\ BrokerMayFail
  /\ loop[q] = "reading"
  /\ loop' = [loop EXCEPT ![q] = "broken"]
  /\ UNCHANGED <<inbox, topic, request, read, queue, signal, learning, handler, header,
                 items, answer, dropped>>

(***************************************************************************)
(* The request's handler                                                   *)
(***************************************************************************)
\* Mutant: start does not wait for the event.
StartReturnsEarly(q) ==
  /\ handler[q] = "starting"
  /\ handler' = [handler EXCEPT ![q] = "answering"]
  /\ header' = [header EXCEPT ![q] = learning[q]]
  /\ UNCHANGED <<inbox, topic, request, loop, read, queue, signal, learning, items,
                 answer, dropped>>

StartReturns(q) ==
  /\ handler[q] = "starting"
  /\ signal[q]
  /\ handler' = [handler EXCEPT ![q] = "answering"]
  /\ header' = [header EXCEPT ![q] = learning[q]]
  /\ UNCHANGED <<inbox, topic, request, loop, read, queue, signal, learning, items,
                 answer, dropped>>

Taking(q, operations) ==
  /\ handler[q] = "answering"
  /\ queue[q] # <<>>
  /\ Head(queue[q]).op \in operations
  /\ queue' = [queue EXCEPT ![q] = Tail(@)]
  /\ UNCHANGED <<inbox, topic, request, read, signal, learning, header, dropped>>

Yield(q, new) == items' = [items EXCEPT ![q] = @ \o new]

TextItem(m) ==
  [type |-> IF m.op = "REASONING" THEN "reasoning" ELSE "answer", text |-> m.text]

\* A chunk joins the answer; reasoning and the text of an ANSWER are only
\* yielded.
StreamText(q) ==
  /\ Taking(q, {"REASONING", "ANSWER_CHUNK", "ANSWER"})
  /\ LET m == Head(queue[q]) IN
     /\ Yield(q, <<TextItem(m)>>)
     /\ answer' = [answer EXCEPT ![q] = IF m.op = "ANSWER_CHUNK" THEN Append(@, m.text) ELSE @]
  /\ UNCHANGED <<loop, handler>>

SkipStart(q) ==
  /\ Taking(q, {"START"})
  /\ UNCHANGED <<loop, handler, items, answer>>

\* The end of a response that fails: an error item in a stream, an error
\* response when synchronous.
EndInError(q, new) ==
  IF request[q].sync
  THEN /\ Yield(q, new)
       /\ handler' = [handler EXCEPT ![q] = "failed"]
  ELSE /\ Yield(q, Append(new, Bare("error")))
       /\ handler' = [handler EXCEPT ![q] = "done"]

\* Mutant: an ERROR message is skipped like START.
StreamErrorSkipped(q) ==
  /\ Taking(q, {"ERROR"})
  /\ UNCHANGED <<loop, handler, items, answer>>

\* websocket_to_ask raises UnprocessableEntity.
StreamError(q) ==
  /\ Taking(q, {"ERROR"})
  /\ EndInError(q, <<>>)
  /\ UNCHANGED <<loop, answer>>

\* DONE: the status is set and the rest of _stream runs.  Relations need a
\* search SDK this class never has.
StreamDone(q) ==
  /\ Taking(q, {"DONE"})
  /\ LET rest == <<Bare("retrieval"), Bare("status"), Bare("metadata"),
                   Bare("consumption")>>
     IN IF request[q].relations
        THEN EndInError(q, rest)
        ELSE /\ Yield(q, rest)
             /\ handler' = [handler EXCEPT ![q] = "done"]
  /\ loop' = [loop EXCEPT ![q] = IF @ = "reading" THEN "ended" ELSE @]
  /\ UNCHANGED answer

\* The client of a streamed response leaves.
ClientLeaves(q) ==
  /\ handler[q] = "answering"
  /\ ~request[q].sync
  /\ handler' = [handler EXCEPT ![q] = "gone"]
  /\ UNCHANGED <<inbox, topic, request, loop, read, queue, signal, learning, header,
                 items, answer, dropped>>

AskStep(q) ==
  \/ LoopPuts(q) \/ LoopDrops(q) \/ LoopBreaks(q) \/ StartReturns(q)
  \/ StreamText(q) \/ SkipStart(q) \/ StreamError(q) \/ StreamDone(q) \/ ClientLeaves(q)

=============================================================================
