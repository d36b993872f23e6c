------------------------------ MODULE Frontends ------------------------------
(***************************************************************************)
(* The websocket and the MCP endpoint beside each other, over the search   *)
(* configurations both apply while their owners change them.               *)
(***************************************************************************)
EXTENDS AskWebsocket, MCPServers

Init == SavedInit /\ SocketInit /\ MCPInit

Next ==
  \/ SocketStep /\ UNCHANGED <<savedVars, mcpVars>>
  \/ MCPStep /\ UNCHANGED <<savedVars, socketVars>>
  \/ \E kb \in Kbs, c \in Configurations \cup {NoConfiguration} :
       Save(kb, c) /\ UNCHANGED <<socketVars, mcpVars>>

vars == <<savedVars, socketVars, mcpVars>>

Spec == Init /\ [][Next]_vars

(***************************************************************************)
(* Properties                                                              *)
(***************************************************************************)

\* However a websocket's loop of questions ends (the client left, a wrong message, the
\* one question answered), its receiver's task is cancelled and the websocket closed
\* (ask_websocket.py:145).  It is not when the search configuration is refused
\* (line 77) or something raises (lines 113 and 123), the only ways past these lines.
ReceiverStopped ==
  endpoint = "ended" =>
    \/ receiver = "stopped" /\ closed
    \/ exit = "returned" /\ session.named
    \/ exit = "raised"

\* A tool works in the knowledge base its request is for, for a user who has asked for
\* that knowledge base, though the server may be one that an earlier caller made, that
\* was evicted in the meantime and made anew (mcp_nucliadb.py:800).  That holds of the
\* resource of a URI as well, whatever knowledge base the URI names (lines 676-682).
CallsStayInKb ==
  \A r \in Requests :
    /\ asked[r] # NoAsk =>
         /\ asked[r].kb = call[r].kb
         /\ \E q \in Requests :
              step[q] # "new" /\ Own(q) = [kb |-> asked[r].kb, caller |-> asked[r].user]
    /\ \A d \in (ToSet(reply[r].documents) \ {NoDocument}) \cup reply[r].listed :
         KbOf[d] = call[r].kb

\* Does a document match the filters of a tool and those of the configuration it has
\* read?
MatchesBoth(r, d) ==
  /\ call[r].filters # NoFilters => \A f \in call[r].filters : d \in f
  /\ call[r].named =>
       /\ loaded[r] \in Configurations
       /\ d \in Selected(loaded[r].filters, loaded[r].expression)

\* The filters of a tool can only narrow what the configuration it has read selects
\* (mcp_nucliadb.py:295): the documents whose text a search gives match both, whether
\* that was a configuration of asks or of finds, and whether it has been replaced in
\* the meantime.  So do those its answer lists, unless the configuration asks for
\* prequeries or the graph, which find what they find without these filters
\* (ask.py:923-944, retrieval.py:164-176).
SearchesNarrow ==
  \A r \in Requests : call[r].tool = "search" =>
    /\ \A d \in ToSet(reply[r].documents) : MatchesBoth(r, d)
    /\ \A d \in reply[r].listed :
         MatchesBoth(r, d) \/ (call[r].named /\ loaded[r].strategies)

=============================================================================
