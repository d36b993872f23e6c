----------------------------- MODULE AskResult -----------------------------
(***************************************************************************)
(* The answer of an ask without an agentic configuration (ask and          *)
(* AskResult in ask/search/ask.py, create_ask_response in v1/ask.py): the  *)
(* generative model's stream is read into the items of the response,       *)
(* streamed or collected, and the finished answer is audited.              *)
(***************************************************************************)
EXTENDS Retrieval, SequencesExt, Subsequences

CONSTANTS
  Words,     \* what the model may say, in order; bound: it sends Len(Words) chunks
  NoStatus   \* no status has been read

Codes == {"success", "error", "no_context"}

\* What a response yields beside words and statuses.
Notices == {"no_retrieval_data", "not enough context", "retrieval", "augmented context", "error item"}

ASSUME AskResultAssumption ==
  /\ Words \in Seq(ToSet(Words))
  /\ (Codes \cup Notices) \cap ToSet(Words) = {}
  /\ NoStatus \notin Codes

VARIABLES
  model,    \* ask -> the model's stream: "silent", "open", "ended" or "broken"
  stream,   \* ask -> what the model has sent
  unread,   \* ask -> the part of it _stream_predict_answer_text has not read
  answer,   \* ask -> self._answer_text
  status,   \* ask -> self._status
  items,    \* ask -> the items the response has yielded
  record    \* ask -> the audit request of its context

answerVars == <<model, stream, unread, answer, status, items, record>>

\* A chunk is a word of the answer or a status.
Chunks == ToSet(Words) \cup Codes

TextOf(chunks) == Chosen(chunks, ToSet(Words))

Texts == Seq(ToSet(Words))

\* An audit request without a kbid has not been filled in by an answer.
Unaudited == [kbid |-> FALSE, answer |-> <<>>, status |-> NoStatus]

Records == [kbid : BOOLEAN, answer : Texts, status : Codes \cup {NoStatus}]

AnswerInit ==
  /\ model = [a \in Asks |-> "silent"]
  /\ stream = [a \in Asks |-> <<>>]
  /\ unread = [a \in Asks |-> <<>>]
  /\ answer = [a \in Asks |-> <<>>]
  /\ status = [a \in Asks |-> NoStatus]
  /\ items = [a \in Asks |-> <<>>]
  /\ record = [a \in Asks |-> Unaudited]

Told(a, new) == items' = [items EXCEPT ![a] = @ \o new]

(***************************************************************************)
(* The generative model, external: text, statuses, an end or a break.      *)
(***************************************************************************)
ModelSends(a) ==
  /\ model[a] = "open"
  /\ Len(stream[a]) < Len(Words)
  /\ \E c \in Codes \cup {Words[Len(stream[a]) + 1]} :
       /\ stream' = [stream EXCEPT ![a] = Append(@, c)]
       /\ unread' = [unread EXCEPT ![a] = Append(@, c)]
  /\ UNCHANGED <<retrievalVars, model, answer, status, items, record>>

ModelStops(a) ==
  /\ model[a] = "open"
  /\ \E how \in {"ended", "broken"} : model' = [model EXCEPT ![a] = how]
  /\ UNCHANGED <<retrievalVars, stream, unread, answer, status, items, record>>

(***************************************************************************)
(* ask after the retrieval                                                 *)
(***************************************************************************)
\* NotEnoughContextAskResult.
AnswerNotEnough(a) ==
  /\ stage[a] = "empty"
  /\ GotoStage(a, "done")
  /\ Told(a, <<"no_retrieval_data", "not enough context", "retrieval">>)
  /\ UNCHANGED <<filter, task, found, related, search, options, model, stream,
                 unread, answer, status, record>>

\* parse_ask, the prompt context and generate_stream: any of them may fail.
\* Without generate_answer there is no stream to read.
Generate(a) ==
  /\ stage[a] = "retrieved"
  /\ \/ GotoStage(a, "failed") /\ UNCHANGED model
     \/ /\ GotoStage(a, "reading")
        /\ model' = [model EXCEPT ![a] = IF options[a].generate THEN "open" ELSE "ended"]
  /\ UNCHANGED <<filter, task, found, related, search, options, stream, unread,
                 answer, status, items, record>>

(***************************************************************************)
(* AskResult._stream                                                       *)
(***************************************************************************)
ReadChunk(a) ==
  /\ stage[a] = "reading"
  /\ unread[a] # <<>>
  /\ unread' = [unread EXCEPT ![a] = Tail(@)]
  /\ LET c == Head(unread[a]) IN
     IF c \in Codes
     THEN status' = [status EXCEPT ![a] = c] /\ UNCHANGED <<answer, items>>
     ELSE /\ answer' = [answer EXCEPT ![a] = Append(@, c)]
          /\ Told(a, <<c>>)
          /\ UNCHANGED status
  /\ UNCHANGED <<retrievalVars, model, stream, record>>

\* The model's stream raises: an error item, or an error response.
StreamBreaks(a) ==
  /\ stage[a] = "reading"
  /\ unread[a] = <<>> /\ model[a] = "broken"
  /\ IF options[a].sync
     THEN GotoStage(a, "failed") /\ UNCHANGED items
     ELSE GotoStage(a, "done") /\ Told(a, <<"error item">>)
  /\ UNCHANGED <<filter, task, found, related, search, options, model, stream,
                 unread, answer, status, record>>

\* Mutant: a stream that breaks is taken for one that ends.
StreamEndsAnyhow(a) ==
  /\ stage[a] = "reading"
  /\ unread[a] = <<>> /\ model[a] \in {"ended", "broken"}
  /\ Told(a, <<"retrieval">>)
  /\ GotoStage(a, "telling")
  /\ UNCHANGED <<filter, task, found, related, search, options, model, stream,
                 unread, answer, status, record>>

StreamEnds(a) ==
  /\ stage[a] = "reading"
  /\ unread[a] = <<>> /\ model[a] = "ended"
  /\ Told(a, <<"retrieval">>)
  /\ GotoStage(a, "telling")
  /\ UNCHANGED <<filter, task, found, related, search, options, model, stream,
                 unread, answer, status, record>>

StatusCode(a) == IF status[a] = NoStatus THEN "success" ELSE status[a]

\* An error status halts the stream.
TellStatus(a) ==
  /\ stage[a] = "telling"
  /\ Told(a, <<StatusCode(a)>>)
  /\ GotoStage(a, IF StatusCode(a) = "error" THEN "done" ELSE "auditing")
  /\ UNCHANGED <<filter, task, found, related, search, options, model, stream,
                 unread, answer, status, record>>

\* ChatAuditor.audit, when the feature is on and the utility still there, and
\* the rest of the items.  An answer without context is not told.
Audit(a) ==
  /\ stage[a] = "auditing"
  /\ \/ record' = [record EXCEPT ![a] =
                     [kbid |-> TRUE, status |-> StatusCode(a),
                      answer |-> IF StatusCode(a) = "no_context" THEN <<>> ELSE answer[a]]]
     \/ UNCHANGED record
  /\ Told(a, <<"augmented context">>)
  /\ GotoStage(a, "done")
  /\ UNCHANGED <<filter, task, found, related, search, options, model, stream,
                 unread, answer, status>>

\* The client of a streamed response leaves while it is sent.
Leave(a) ==
  /\ stage[a] \in {"reading", "telling", "auditing"}
  /\ ~options[a].sync
  /\ GotoStage(a, "left")
  /\ UNCHANGED <<filter, task, found, related, search, options, model, stream,
                 unread, answer, status, items, record>>

AnswerStep(a) ==
  \/ ModelSends(a) \/ ModelStops(a)
  \/ AnswerNotEnough(a) \/ Generate(a) \/ ReadChunk(a) \/ StreamBreaks(a)
  \/ StreamEnds(a) \/ TellStatus(a) \/ Audit(a) \/ Leave(a)

=============================================================================
