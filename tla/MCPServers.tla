----------------------------- MODULE MCPServers -----------------------------
(***************************************************************************)
(* The MCP endpoint of knowledge bases (v1/mcp_nucliadb.py): a process     *)
(* keeps one stateless server per knowledge base, made for the first       *)
(* request that needs it, and each request runs one tool in it.  Searching *)
(* is the ask of the rest of this project and external here.               *)
(***************************************************************************)
EXTENDS SearchConfigurations

CONSTANTS
  Requests,
  Callers,
  Capacity,    \* how many servers app.mcp_servers keeps
  NoFilters,   \* a search without filters
  NoAsk,
  NoDocument,  \* the error in the place of a document
  Workloads    \* the calls there may be: functions from Requests to Call

Call ==
  [kb : Kbs,
   caller : Callers,
   tool : {"search", "get", "batch", "read", "list", "invalid"},
   named : BOOLEAN,                                 \* does it name a configuration?
   filters : {NoFilters} \cup SUBSET SUBSET Documents,
   names : Seq(Documents)]

ASSUME MCPAssumption ==
  /\ Capacity \in Nat \ {0}
  /\ \A w \in Workloads : \A r \in Requests : w[r] \in Call

VARIABLES
  call,
  step,     \* request -> new, body, loading, asking, fetching or done
  servers,  \* app.mcp_servers, the most recently used first
  server,   \* request -> the server it runs in
  loaded,   \* request -> the configuration it read
  asked,    \* request -> the ask it made
  fetched,  \* request -> position of a name -> waiting, text or failed
  reply     \* request -> whether it is an error, the documents it was given the text of,
            \* and those an answer lists

mcpVars == <<call, step, servers, server, loaded, asked, fetched, reply>>

\* A server made for this request.
Own(r) == [kb |-> call[r].kb, caller |-> call[r].caller]

NoReply == [error |-> FALSE, documents |-> <<>>, listed |-> {}]

MCPInit ==
  /\ call \in Workloads
  /\ step = [r \in Requests |-> "new"]
  /\ servers = <<>>
  /\ server = [r \in Requests |-> Own(r)]
  /\ loaded = [r \in Requests |-> NoConfiguration]
  /\ asked = [r \in Requests |-> NoAsk]
  /\ fetched = [r \in Requests |-> [i \in DOMAIN call[r].names |-> "waiting"]]
  /\ reply = [r \in Requests |-> NoReply]

(***************************************************************************)
(* mcp_handler: no await between the test and the use of the server.  A    *)
(* new server is given who made the request.                               *)
(***************************************************************************)
\* Mutant: one server per caller.
ServesCaller(s, r) == s.caller = call[r].caller

Serves(s, r) == s.kb = call[r].kb

Handle(r) ==
  /\ step[r] = "new"
  /\ \/ \E i \in DOMAIN servers :
          /\ Serves(servers[i], r)
          /\ server' = [server EXCEPT ![r] = servers[i]]
          /\ servers' = <<servers[i]>> \o RemoveAt(servers, i)
     \/ /\ \A i \in DOMAIN servers : ~Serves(servers[i], r)
        /\ server' = [server EXCEPT ![r] = Own(r)]
        /\ servers' = <<Own(r)>> \o IF Len(servers) < Capacity THEN servers ELSE Front(servers)
  /\ step' = [step EXCEPT ![r] = "body"]
  /\ UNCHANGED <<call, loaded, asked, fetched, reply>>

Reply(r, error, documents, listed) ==
  /\ reply' = [reply EXCEPT ![r] =
                 [error |-> error, documents |-> documents, listed |-> listed]]
  /\ step' = [step EXCEPT ![r] = "done"]
  /\ UNCHANGED <<call, servers, server>>

Fail(r) == Reply(r, TRUE, <<>>, {}) /\ UNCHANGED <<asked, fetched, loaded>>

(***************************************************************************)
(* _build_ask_request.  Filters of the tool come after those of the        *)
(* configuration; an expression and filters do not go together.  The       *)
(* request may be refused as not valid.                                    *)
(***************************************************************************)
\* Mutant: the filters of the tool replace those of the configuration.
ReplaceFilters(given, saved_filters) == IF given = NoFilters THEN saved_filters ELSE given

CombineFilters(given, saved_filters) ==
  saved_filters \cup IF given = NoFilters THEN {} ELSE given

BuildAsk(r, c) ==
  LET set == IF c = NoConfiguration
             THEN [filters |-> {}, expression |-> NoFilter, strategies |-> FALSE, schema |-> FALSE]
             ELSE c
      wrong == set.schema \/ (call[r].filters # NoFilters /\ set.expression # NoFilter)
  IN /\ loaded' = [loaded EXCEPT ![r] = c]
     /\ UNCHANGED fetched
     /\ \/ /\ ~wrong
           /\ asked' = [asked EXCEPT ![r] =
                [kb |-> server[r].kb, user |-> server[r].caller,
                 filters |-> CombineFilters(call[r].filters, set.filters),
                 expression |-> set.expression, strategies |-> set.strategies]]
           /\ step' = [step EXCEPT ![r] = "asking"]
           /\ UNCHANGED <<call, servers, server, reply>>
        \/ Reply(r, TRUE, <<>>, {}) /\ UNCHANGED asked

\* call_tool
CallTool(r) ==
  /\ step[r] = "body"
  /\ CASE call[r].tool = "invalid" -> Fail(r)
       [] call[r].tool = "search" /\ ~call[r].named -> BuildAsk(r, NoConfiguration)
       [] OTHER ->
            /\ step' = [step EXCEPT ![r] = IF call[r].tool = "search" THEN "loading" ELSE "fetching"]
            /\ UNCHANGED <<call, servers, server, loaded, asked, fetched, reply>>

LoadSearchConfiguration(r) ==
  /\ step[r] = "loading"
  /\ \E c \in Load(server[r].kb) :
       IF c \in Configurations THEN BuildAsk(r, c) ELSE Fail(r)

\* What the main query of an ask finds, and what prequeries and the graph find, which
\* have no filter of the ask.
MainFinds(a) == {d \in Selected(a.filters, a.expression) : KbOf[d] = a.kb}

StrategiesFind(a) == IF a.strategies THEN {d \in Documents : KbOf[d] = a.kb} ELSE {}

\* _tool_search_documents.  The answer lists all documents that it cites; the blocks
\* skip those the main query has not found.  The ask, or a citation of an unknown form,
\* may raise.
SearchDocuments(r) ==
  /\ step[r] = "asking"
  /\ \/ Fail(r)
     \/ \E cited \in SUBSET (MainFinds(asked[r]) \cup StrategiesFind(asked[r])) :
          /\ Reply(r, FALSE, SetToSeq(cited \cap MainFinds(asked[r])), cited)
          /\ UNCHANGED <<loaded, asked, fetched>>

\* Does the server's knowledge base have the document?  Of a URI only the document is
\* looked at.
Exists(r, d) == KbOf[d] = server[r].kb

Fetch(r, i) ==
  /\ step[r] = "fetching" /\ call[r].tool # "list"
  /\ fetched[r][i] = "waiting"
  /\ \E outcome \in {"text", "failed"} :
       /\ outcome = "text" => Exists(r, call[r].names[i])
       /\ fetched' = [fetched EXCEPT ![r][i] = outcome]
  /\ UNCHANGED <<call, step, servers, server, loaded, asked, reply>>

\* What _tool_batch_get_documents makes of the answers: each in its place.
InOrder(r) ==
  [i \in DOMAIN call[r].names |-> IF fetched[r][i] = "text" THEN call[r].names[i] ELSE NoDocument]

\* get_resource and read_resource raise what fails; a batch shows it.
GiveDocuments(r) ==
  /\ step[r] = "fetching" /\ call[r].tool # "list"
  /\ \A i \in DOMAIN fetched[r] : fetched[r][i] # "waiting"
  /\ IF call[r].tool # "batch" /\ \E i \in DOMAIN fetched[r] : fetched[r][i] = "failed"
       THEN Fail(r)
       ELSE Reply(r, FALSE, InOrder(r), {}) /\ UNCHANGED <<loaded, asked, fetched>>

ListResources(r) ==
  /\ step[r] = "fetching" /\ call[r].tool = "list"
  /\ \/ Fail(r)
     \/ /\ Reply(r, FALSE, SetToSeq({d \in Documents : KbOf[d] = server[r].kb}), {})
        /\ UNCHANGED <<loaded, asked, fetched>>

MCPStep ==
  \E r \in Requests :
    \/ Handle(r)
    \/ CallTool(r)
    \/ LoadSearchConfiguration(r)
    \/ SearchDocuments(r)
    \/ \E i \in DOMAIN fetched[r] : Fetch(r, i)
    \/ GiveDocuments(r)
    \/ ListResources(r)

=============================================================================
