---------------------------- MODULE AskWebsocket ----------------------------
(***************************************************************************)
(* The websocket endpoint of agentic asks (v1/ask_websocket.py): a         *)
(* coroutine that answers questions, and the task of a WebsocketReceiver   *)
(* that reads the websocket for it.  The receiver, like the stream of an   *)
(* answer, is hyperforge's.                                                *)
(***************************************************************************)
EXTENDS SearchConfigurations

CONSTANTS
  Sessions,    \* the query parameters there may be
  MaxMessages  \* bound on the messages of the client

ASSUME SessionsAssumption ==
  Sessions \subseteq [kb : Kbs, named : BOOLEAN, keepOpen : BOOLEAN]

VARIABLES
  session,   \* the query parameters
  endpoint,  \* where the coroutine stands
  receiver,  \* none, running or stopped
  wire,      \* what the client sent and the receiver has not read
  inbox,     \* what it has read and the coroutine has not taken
  sent,      \* how many messages the client has sent
  gone,      \* has the client left?
  first,     \* first_question
  item,      \* the configuration in the ask request
  closed,    \* has the endpoint closed the websocket?
  exit       \* none, or how the coroutine left: finished, returned, raised

socketVars == <<session, endpoint, receiver, wire, inbox, sent, gone, first, item, closed, exit>>

SocketInit ==
  /\ session \in Sessions
  /\ endpoint = "connecting"
  /\ receiver = "none"
  /\ wire = <<>>
  /\ inbox = <<>>
  /\ sent = 0
  /\ gone = FALSE
  /\ first = TRUE
  /\ item = NoConfiguration
  /\ closed = FALSE
  /\ exit = "none"

Accept ==
  /\ endpoint = "connecting"
  /\ endpoint' = "loading"
  /\ receiver' = "running"
  /\ UNCHANGED <<session, wire, inbox, sent, gone, first, item, closed, exit>>

\* A question, or a message the receiver refuses with ValueError.
ClientSends(m) ==
  /\ endpoint # "connecting" /\ ~gone /\ ~closed /\ sent < MaxMessages
  /\ wire' = Append(wire, m)
  /\ sent' = sent + 1
  /\ UNCHANGED <<session, endpoint, receiver, inbox, gone, first, item, closed, exit>>

ClientLeaves ==
  /\ endpoint # "connecting" /\ ~gone
  /\ gone' = TRUE
  /\ wire' = Append(wire, "disconnect")
  /\ UNCHANGED <<session, endpoint, receiver, inbox, sent, first, item, closed, exit>>

\* The receiver's run() reads until it is cancelled; it may end itself with the client.
Relay ==
  /\ receiver = "running" /\ wire # <<>>
  /\ inbox' = Append(inbox, Head(wire))
  /\ wire' = Tail(wire)
  /\ \/ UNCHANGED receiver
     \/ Head(wire) = "disconnect" /\ receiver' = "stopped"
  /\ UNCHANGED <<session, endpoint, sent, gone, first, item, closed, exit>>

\* The coroutine ends without its last statements.
Abandon(how) ==
  /\ endpoint' = "ended"
  /\ exit' = how
  /\ UNCHANGED <<session, receiver, wire, inbox, sent, gone, first, item, closed>>

ApplySearchConfiguration ==
  /\ endpoint = "loading"
  /\ \/ /\ ~session.named
        /\ endpoint' = "waiting"
        /\ UNCHANGED <<session, receiver, wire, inbox, sent, gone, first, item, closed, exit>>
     \/ \E c \in Load(session.kb) :
          /\ session.named
          /\ \/ c = Failure /\ Abandon("raised")
             \/ c # Failure /\ Abandon("returned")  \* missing, of find, or not valid
             \/ /\ c \in Configurations /\ c.kind = "ask"
                /\ item' = c
                /\ endpoint' = "waiting"
                /\ UNCHANGED <<session, receiver, wire, inbox, sent, gone, first, closed, exit>>

\* receive_question
ReceiveQuestion ==
  /\ endpoint = "waiting" /\ inbox # <<>>
  /\ inbox' = Tail(inbox)
  /\ \/ Head(inbox) = "question" /\ endpoint' = "streaming" /\ first' = FALSE
     \/ Head(inbox) = "wrong" /\ endpoint' = "refusing" /\ UNCHANGED first
     \/ Head(inbox) = "disconnect" /\ endpoint' = "closing" /\ UNCHANGED first
  /\ UNCHANGED <<session, receiver, wire, sent, gone, item, closed, exit>>

\* Mutant: a wrong message returns instead of breaking the loop.
RefuseAndReturn ==
  /\ endpoint = "refusing"
  /\ Abandon("finished")

\* The ERROR for a wrong message, which cannot be sent to a client that has left.
RefuseMessage ==
  /\ endpoint = "refusing"
  /\ \/ /\ endpoint' = "closing"
        /\ UNCHANGED <<session, receiver, wire, inbox, sent, gone, first, item, closed, exit>>
     \/ gone /\ Abandon("raised")

\* An answer is sent, or not if the client has left; the stream of its messages and
\* the report of their usage may raise.
StreamResponse ==
  /\ endpoint = "streaming"
  /\ \/ /\ endpoint' = IF session.keepOpen \/ first THEN "waiting" ELSE "closing"
        /\ UNCHANGED <<session, receiver, wire, inbox, sent, gone, first, item, closed, exit>>
     \/ Abandon("raised")

CloseSocket ==
  /\ endpoint = "closing"
  /\ endpoint' = "ended"
  /\ receiver' = "stopped"
  /\ closed' = TRUE
  /\ exit' = "finished"
  /\ UNCHANGED <<session, wire, inbox, sent, gone, first, item>>

SocketStep ==
  \/ Accept
  \/ \E m \in {"question", "wrong"} : ClientSends(m)
  \/ ClientLeaves
  \/ Relay
  \/ ApplySearchConfiguration
  \/ ReceiveQuestion
  \/ RefuseMessage
  \/ StreamResponse
  \/ CloseSocket

=============================================================================
