-------------------------- MODULE FrontendsProofs --------------------------
(***************************************************************************)
(* The websocket is cleaned up (ReceiverStopped); the tools of the MCP     *)
(* servers stay in the knowledge base of their request and only narrow     *)
(* what its configuration selects (CallsStayInKb and SearchesNarrow, both  *)
(* from the inductive invariant CallsInv).                                 *)
(***************************************************************************)
EXTENDS Frontends, SequenceLemmas

---------------------------------------------------------------------------
(***************************************************************************)
(* The websocket.                                                          *)
(***************************************************************************)

\* However the coroutine of the websocket ends, the receiver's task is cancelled and the
\* websocket closed, unless the configuration is refused or something raises
\* (ask_websocket.py:77, 113, 123 and 145): nothing that happens later starts the
\* receiver again.
THEOREM ReceiverStops == Spec => []ReceiverStopped
<1>1. Init => ReceiverStopped
  BY DEF Init, SocketInit, ReceiverStopped
<1>2. ASSUME ReceiverStopped, [Next]_vars PROVE ReceiverStopped'
  <2> USE <1>2 DEF ReceiverStopped
  <2>1. CASE UNCHANGED socketVars
    BY <2>1 DEF socketVars
  <2>2. CASE Accept
    BY <2>2 DEF Accept
  <2>3. ASSUME NEW m, ClientSends(m) PROVE ReceiverStopped'
    BY <2>3 DEF ClientSends
  <2>4. CASE ClientLeaves
    BY <2>4 DEF ClientLeaves
  <2>5. CASE Relay
    BY <2>5 DEF Relay
  <2>6. CASE ApplySearchConfiguration
    BY <2>6 DEF ApplySearchConfiguration, Abandon
  <2>7. CASE ReceiveQuestion
    BY <2>7 DEF ReceiveQuestion
  <2>8. CASE RefuseMessage
    BY <2>8 DEF RefuseMessage, Abandon
  <2>9. CASE StreamResponse
    BY <2>9 DEF StreamResponse, Abandon
  <2>10. CASE CloseSocket
    BY <2>10 DEF CloseSocket
  <2> QED
    BY <2>1, <2>2, <2>3, <2>4, <2>5, <2>6, <2>7, <2>8, <2>9, <2>10
       DEF Next, SocketStep, vars
<1> QED
  BY <1>1, <1>2, PTL DEF Spec

---------------------------------------------------------------------------
(***************************************************************************)
(* The tools of the MCP servers.                                           *)
(***************************************************************************)

\* The servers made for the requests there have been.
MadeServers == {Own(r) : r \in {q \in Requests : step[q] # "new"}}

\* The asks that tools make.
Asks == [kb : Kbs, user : Callers, filters : SUBSET SUBSET Documents,
         expression : {NoFilter} \cup SUBSET Documents, strategies : BOOLEAN]

\* What requests may be given.
Replies == [error : BOOLEAN, documents : Seq(Documents \cup {NoDocument}), listed : SUBSET Documents]

\* The types of what requests have and of what is saved.
CallsTypeOK ==
  /\ call \in Workloads
  /\ saved \in [Kbs -> Configurations \cup {NoConfiguration}]
  /\ step \in [Requests -> {"new", "body", "loading", "asking", "fetching", "done"}]
  /\ servers \in Seq(MadeServers)
  /\ server \in [Requests -> [kb : Kbs, caller : Callers]]
  /\ loaded \in [Requests -> Configurations \cup {NoConfiguration}]
  /\ asked \in [Requests -> {NoAsk} \cup Asks]
  /\ DOMAIN fetched = Requests
  /\ \A r \in Requests : fetched[r] \in [DOMAIN call[r].names -> {"waiting", "text", "failed"}]
  /\ reply \in [Requests -> Replies]

\* A request past its handler runs in a server that was made for its knowledge base.
ServedInKb(r) ==
  step[r] # "new" => server[r] \in MadeServers /\ server[r].kb = call[r].kb

\* An ask is made in that knowledge base, for who had the server made.
AskedInKb(r) ==
  asked[r] # NoAsk =>
    /\ asked[r].kb = call[r].kb
    /\ [kb |-> asked[r].kb, caller |-> asked[r].user] \in MadeServers

\* It selects by the filters of the tool and by all that the configuration it read sets,
\* and has prequeries or the graph if that has.
AskedNarrow(r) ==
  step[r] = "asking" =>
    /\ call[r].tool = "search"
    /\ asked[r] \in Asks
    /\ asked[r].kb = call[r].kb
    /\ call[r].filters # NoFilters => call[r].filters \subseteq asked[r].filters
    /\ call[r].named =>
         /\ loaded[r] \in Configurations
         /\ loaded[r].filters \subseteq asked[r].filters
         /\ asked[r].expression = loaded[r].expression
    /\ asked[r].strategies => call[r].named /\ loaded[r].strategies

\* The steps of a tool.
ToolSteps(r) ==
  /\ step[r] = "loading" => call[r].tool = "search" /\ call[r].named
  /\ step[r] = "fetching" => call[r].tool # "search"
  /\ step[r] # "done" => reply[r] = NoReply
  /\ \A i \in DOMAIN call[r].names :
       fetched[r][i] = "text" => step[r] # "new" /\ Exists(r, call[r].names[i])

\* What a request is given.
GivenInKb(r) ==
  \A d \in (ToSet(reply[r].documents) \ {NoDocument}) \cup reply[r].listed :
    KbOf[d] = call[r].kb

\* What a search is given is what its filters and its configuration select, and what
\* the prequeries and the graph of that configuration find is only listed.
GivenNarrow(r) ==
  call[r].tool = "search" =>
    /\ \A d \in ToSet(reply[r].documents) : MatchesBoth(r, d)
    /\ \A d \in reply[r].listed :
         MatchesBoth(r, d) \/ (call[r].named /\ loaded[r].strategies)

\* What holds of a call of a tool, wherever it stands.
CallOK(r) ==
  ServedInKb(r) /\ AskedInKb(r) /\ AskedNarrow(r) /\ ToolSteps(r) /\ GivenInKb(r) /\ GivenNarrow(r)

\* The types, and what holds of every call.
CallsInv == CallsTypeOK /\ \A r \in Requests : CallOK(r)

---------------------------------------------------------------------------
\* What a request calls is a call.
LEMMA CallTyped ==
    ASSUME CallsTypeOK, NEW r \in Requests
    PROVE  call[r] \in Call
BY MCPAssumption DEF CallsTypeOK

\* A server stays one that was made, also when it is evicted.
LEMMA MadeGrow ==
    ASSUME call' = call, \A q \in Requests : step[q] # "new" => step'[q] # "new"
    PROVE  MadeServers \subseteq MadeServers'
BY DEF MadeServers, Own

\* What a step leaves alone keeps a request's part of the invariant.
LEMMA OthersKept ==
    ASSUME call' = call, MadeServers \subseteq MadeServers', NEW x \in Requests, CallOK(x),
           step'[x] = step[x], server'[x] = server[x], loaded'[x] = loaded[x],
           asked'[x] = asked[x], fetched'[x] = fetched[x], reply'[x] = reply[x]
    PROVE  CallOK(x)'
<1> USE DEF CallOK
<1>1. ServedInKb(x)' /\ AskedInKb(x)'
  BY DEF ServedInKb, AskedInKb
<1>2. AskedNarrow(x)' /\ ToolSteps(x)'
  BY DEF AskedNarrow, ToolSteps, Exists
<1>3. GivenInKb(x)' /\ GivenNarrow(x)'
  BY DEF GivenInKb, GivenNarrow, MatchesBoth, Selected
<1> QED
  BY <1>1, <1>2, <1>3

\* No request has been handled.
LEMMA CallsInitially == Init => CallsInv
<1> SUFFICES ASSUME Init PROVE CallsInv
  OBVIOUS
<1> USE DEF Init, SavedInit, MCPInit
<1>1. \A r \in Requests : call[r] \in Call
  BY MCPAssumption
<1>2. CallsTypeOK
  <2>1. saved \in [Kbs -> Configurations \cup {NoConfiguration}]
    BY ConfigurationsAssumption
  <2>2. server \in [Requests -> [kb : Kbs, caller : Callers]]
    BY <1>1 DEF Own, Call
  <2>3. reply \in [Requests -> Replies]
    BY DEF NoReply, Replies
  <2> QED
    BY <2>1, <2>2, <2>3 DEF CallsTypeOK
<1>3. ASSUME NEW r \in Requests PROVE CallOK(r)
  <2>1. ToSet(reply[r].documents) = {} /\ reply[r].listed = {}
    BY DEF NoReply, ToSet
  <2> QED
    BY <2>1 DEF CallOK, ServedInKb, AskedInKb, AskedNarrow, ToolSteps, GivenInKb, GivenNarrow, NoReply
<1> QED
  BY <1>2, <1>3 DEF CallsInv

\* mcp_handler finds the server of the knowledge base or makes one.
LEMMA HandleKeeps ==
    ASSUME CallsInv, NEW r \in Requests, Handle(r), UNCHANGED savedVars
    PROVE  CallsInv'
<1> USE DEF CallsInv
<1>0. call[r] \in Call
  BY CallTyped
<1>1. call' = call /\ UNCHANGED <<saved, loaded, asked, fetched, reply>>
  BY DEF Handle, savedVars
<1>2. /\ step[r] = "new" /\ step' = [step EXCEPT ![r] = "body"]
      /\ step \in [Requests -> {"new", "body", "loading", "asking", "fetching", "done"}]
  BY DEF Handle, CallsTypeOK
<1>3. MadeServers \subseteq MadeServers'
  BY <1>1, <1>2, MadeGrow
<1>4. Own(r) \in MadeServers' /\ Own(r) \in [kb : Kbs, caller : Callers]
  BY <1>0, <1>1, <1>2 DEF MadeServers, Own, Call
<1>5. MadeServers \subseteq [kb : Kbs, caller : Callers]
  BY CallTyped DEF MadeServers, Own, Call
<1>6. /\ server'[r] \in MadeServers'
      /\ server' \in [Requests -> [kb : Kbs, caller : Callers]]
      /\ server'[r].kb = call[r].kb
      /\ \A x \in Requests \ {r} : server'[x] = server[x]
      /\ servers' \in Seq(MadeServers')
  <2>1. server \in [Requests -> [kb : Kbs, caller : Callers]] /\ servers \in Seq(MadeServers)
    BY DEF CallsTypeOK
  <2>2. CASE \E i \in DOMAIN servers :
               /\ Serves(servers[i], r)
               /\ server' = [server EXCEPT ![r] = servers[i]]
               /\ servers' = <<servers[i]>> \o RemoveAt(servers, i)
    <3>1. PICK i \in DOMAIN servers :
               /\ Serves(servers[i], r)
               /\ server' = [server EXCEPT ![r] = servers[i]]
               /\ servers' = <<servers[i]>> \o RemoveAt(servers, i)
      BY <2>2
    <3>2. servers[i] \in MadeServers /\ RemoveAt(servers, i) \in Seq(MadeServers)
      BY <2>1, RemoveAtSeq
    <3>3. servers' \in Seq(MadeServers)
      BY <3>1, <3>2
    <3>4. servers' \in Seq(MadeServers')
      BY <1>3, <3>3, SeqOfLarger
    <3> QED
      BY <1>3, <1>5, <2>1, <3>1, <3>2, <3>4 DEF Serves
  <2>3. CASE /\ server' = [server EXCEPT ![r] = Own(r)]
             /\ servers' = <<Own(r)>> \o IF Len(servers) < Capacity THEN servers ELSE Front(servers)
    <3>1. servers \in Seq(MadeServers') /\ Front(servers) \in Seq(MadeServers')
      BY <1>3, <2>1, FrontSeq, SeqOfLarger
    <3> QED
      BY <1>4, <2>1, <2>3, <3>1 DEF Own
  <2> QED
    BY <2>2, <2>3 DEF Handle
<1>7. CallsTypeOK'
  BY <1>1, <1>2, <1>6 DEF CallsTypeOK
<1>8. ASSUME NEW x \in Requests PROVE CallOK(x)'
  <2>1. CASE x = r
    BY <1>1, <1>2, <1>3, <1>6, <2>1, ZenonT(30) DEF CallOK, ServedInKb, AskedInKb, AskedNarrow,
       ToolSteps, GivenInKb, GivenNarrow, MatchesBoth, Selected
  <2>2. CASE x # r
    BY <1>1, <1>2, <1>3, <1>6, <2>2, OthersKept
  <2> QED
    BY <2>1, <2>2
<1> QED
  BY <1>7, <1>8

\* A step of a tool that leaves the servers alone needs to be looked at for its request only.
LEMMA ToolStepKeeps ==
    ASSUME CallsInv, NEW r \in Requests, step[r] # "new",
           UNCHANGED <<saved, call, servers, server>>,
           \A x \in Requests \ {r} : /\ step'[x] = step[x]
                                     /\ loaded'[x] = loaded[x]
                                     /\ asked'[x] = asked[x]
                                     /\ fetched'[x] = fetched[x]
                                     /\ reply'[x] = reply[x],
           step' \in [Requests -> {"new", "body", "loading", "asking", "fetching", "done"}],
           step'[r] # "new",
           loaded' \in [Requests -> Configurations \cup {NoConfiguration}],
           asked' \in [Requests -> {NoAsk} \cup Asks],
           DOMAIN fetched' = Requests,
           fetched'[r] \in [DOMAIN call[r].names -> {"waiting", "text", "failed"}],
           reply' \in [Requests -> Replies],
           MadeServers \subseteq MadeServers' => CallOK(r)'
    PROVE  CallsInv'
<1> USE DEF CallsInv
<1>1. \A q \in Requests : step[q] # "new" => step'[q] # "new"
  OBVIOUS
<1>2. MadeServers \subseteq MadeServers'
  BY <1>1, MadeGrow
<1>3. servers' \in Seq(MadeServers')
  BY <1>2, SeqOfLarger DEF CallsTypeOK
<1>4. CallsTypeOK'
  BY <1>3 DEF CallsTypeOK
<1>5. ASSUME NEW x \in Requests \ {r} PROVE CallOK(x)'
  BY <1>2, OthersKept
<1> QED
  BY <1>2, <1>4, <1>5

\* A reply that is of the knowledge base and as narrow as it should be.
LEMMA ReplyKeeps ==
    ASSUME CallsInv, NEW r \in Requests, step[r] # "new", NEW error \in BOOLEAN,
           NEW documents \in Seq(Documents \cup {NoDocument}), NEW listed \in SUBSET Documents,
           Reply(r, error, documents, listed),
           UNCHANGED <<saved, asked, fetched>>,
           loaded' \in [Requests -> Configurations \cup {NoConfiguration}],
           \A x \in Requests \ {r} : loaded'[x] = loaded[x],
           \A d \in (ToSet(documents) \ {NoDocument}) \cup listed : KbOf[d] = call[r].kb,
           call[r].tool = "search" =>
             /\ \A d \in ToSet(documents) : MatchesBoth(r, d)'
             /\ \A d \in listed : MatchesBoth(r, d)' \/ (call[r].named /\ loaded'[r].strategies)
    PROVE  CallsInv'
<1> USE DEF CallsInv
<1>1. /\ UNCHANGED <<call, servers, server>>
      /\ step' = [step EXCEPT ![r] = "done"]
      /\ reply' = [reply EXCEPT ![r] =
                     [error |-> error, documents |-> documents, listed |-> listed]]
  BY DEF Reply
<1>2. /\ reply' \in [Requests -> Replies]
      /\ reply'[r].documents = documents /\ reply'[r].listed = listed
  BY <1>1 DEF CallsTypeOK, Replies
<1>3. /\ step' \in [Requests -> {"new", "body", "loading", "asking", "fetching", "done"}]
      /\ step'[r] = "done"
  BY <1>1 DEF CallsTypeOK
<1>4. ASSUME MadeServers \subseteq MadeServers' PROVE CallOK(r)'
  <2>1. ServedInKb(r)' /\ AskedInKb(r)'
    BY <1>1, <1>4 DEF CallOK, ServedInKb, AskedInKb
  <2>2. AskedNarrow(r)' /\ ToolSteps(r)'
    BY <1>1, <1>3 DEF CallOK, AskedNarrow, ToolSteps, Exists
  <2>3. GivenInKb(r)'
    BY <1>1, <1>2 DEF GivenInKb
  <2>4. GivenNarrow(r)'
    BY <1>1, <1>2 DEF GivenNarrow
  <2> QED
    BY <2>1, <2>2, <2>3, <2>4 DEF CallOK
<1> QED
  BY <1>1, <1>2, <1>3, <1>4, ToolStepKeeps DEF CallsTypeOK

\* An error is always given without documents.
LEMMA FailKeeps ==
    ASSUME CallsInv, NEW r \in Requests, step[r] # "new", Reply(r, TRUE, <<>>, {}),
           UNCHANGED <<savedVars, asked, fetched>>,
           loaded' \in [Requests -> Configurations \cup {NoConfiguration}],
           \A x \in Requests \ {r} : loaded'[x] = loaded[x]
    PROVE  CallsInv'
<1>1. <<>> \in Seq(Documents \cup {NoDocument}) /\ ToSet(<<>>) = {}
  BY DEF ToSet
<1> QED
  BY <1>1, ReplyKeeps DEF savedVars

\* _build_ask_request: what it asks for is what the tool and the configuration it has
\* read say together.
LEMMA BuildAskKeeps ==
    ASSUME CallsInv, NEW r \in Requests, step[r] \in {"body", "loading"},
           call[r].tool = "search",
           NEW c \in Configurations \cup {NoConfiguration},
           call[r].named <=> c \in Configurations,
           BuildAsk(r, c), UNCHANGED savedVars
    PROVE  CallsInv'
<1> DEFINE set == IF c = NoConfiguration
                    THEN [filters |-> {}, expression |-> NoFilter, strategies |-> FALSE,
                          schema |-> FALSE]
                    ELSE c
           ask == [kb |-> server[r].kb, user |-> server[r].caller,
                   filters |-> CombineFilters(call[r].filters, set.filters),
                   expression |-> set.expression, strategies |-> set.strategies]
<1> USE DEF CallsInv
<1>0. call[r] \in Call
  BY CallTyped
<1>1. /\ UNCHANGED <<saved, call, servers, server, fetched>>
      /\ loaded' = [loaded EXCEPT ![r] = c]
      /\ loaded' \in [Requests -> Configurations \cup {NoConfiguration}]
  BY DEF BuildAsk, savedVars, CallsTypeOK, Reply
<1>2. CASE /\ asked' = [asked EXCEPT ![r] = ask]
           /\ step' = [step EXCEPT ![r] = "asking"]
           /\ reply' = reply
  <2>1. /\ set.filters \in SUBSET SUBSET Documents
        /\ set.expression \in {NoFilter} \cup SUBSET Documents
        /\ set.strategies \in BOOLEAN
    BY ConfigurationsAssumption DEF Configuration
  <2>2. server[r] \in MadeServers /\ server[r].kb = call[r].kb
        /\ server[r] \in [kb : Kbs, caller : Callers]
    BY DEF CallOK, ServedInKb, CallsTypeOK
  <2>3. ask.filters \in SUBSET SUBSET Documents
    BY <1>0, <2>1 DEF CombineFilters, Call
  <2>4. ask \in Asks
    BY <2>1, <2>2, <2>3 DEF Asks
  <2>5. call[r].filters # NoFilters => call[r].filters \subseteq ask.filters
    BY DEF CombineFilters
  <2>6. call[r].named => c.filters \subseteq ask.filters /\ ask.expression = c.expression
    BY ConfigurationsAssumption DEF CombineFilters
  <2>7. [kb |-> ask.kb, caller |-> ask.user] = server[r]
    BY <2>2
  <2>8. ask.kb = call[r].kb
    BY <2>2
  <2>9. ask.strategies => call[r].named /\ c.strategies
    <3>1. CASE c = NoConfiguration
      BY <3>1
    <3>2. CASE c \in Configurations
      BY <3>2, ConfigurationsAssumption
    <3> QED
      BY <3>1, <3>2
  <2> HIDE DEF ask, set
  <2>10. asked' \in [Requests -> {NoAsk} \cup Asks] /\ asked'[r] = ask
    BY <1>2, <2>4 DEF CallsTypeOK
  <2>11. step' \in [Requests -> {"new", "body", "loading", "asking", "fetching", "done"}]
         /\ step'[r] = "asking"
    BY <1>2 DEF CallsTypeOK
  <2>12. ASSUME MadeServers \subseteq MadeServers' PROVE CallOK(r)'
    <3>1. ServedInKb(r)' /\ AskedInKb(r)'
      BY <1>1, <2>2, <2>7, <2>8, <2>10, <2>12 DEF ServedInKb, AskedInKb
    <3>2. AskedNarrow(r)'
      BY <1>1, <2>4, <2>5, <2>6, <2>8, <2>9, <2>10 DEF AskedNarrow, CallsTypeOK
    <3>3. ToolSteps(r)'
      BY <1>1, <1>2, <2>11 DEF CallOK, ToolSteps, Exists
    <3>4. GivenInKb(r)' /\ GivenNarrow(r)'
      <4>1. reply'[r] = NoReply /\ ToSet(<<>>) = {}
        BY <1>2 DEF CallOK, ToolSteps, ToSet
      <4> QED
        BY <4>1 DEF NoReply, GivenInKb, GivenNarrow
    <3> QED
      BY <3>1, <3>2, <3>3, <3>4 DEF CallOK
  <2> QED
    BY <1>1, <1>2, <2>10, <2>11, <2>12, ToolStepKeeps DEF CallsTypeOK
<1> HIDE DEF ask, set
<1>3. CASE Reply(r, TRUE, <<>>, {}) /\ UNCHANGED asked
  BY <1>1, <1>3, FailKeeps DEF CallsTypeOK
<1> QED
  BY <1>2, <1>3 DEF BuildAsk, ask, set

\* Some of what the ask selects in the knowledge base is cited.
LEMMA SearchKeeps ==
    ASSUME CallsInv, NEW r \in Requests, SearchDocuments(r), UNCHANGED savedVars
    PROVE  CallsInv'
<1> USE DEF CallsInv
<1>1. step[r] = "asking" /\ CallOK(r) /\ AskedNarrow(r)
  BY DEF SearchDocuments, CallOK
<1>2. CASE Fail(r)
  BY <1>1, <1>2, FailKeeps DEF Fail, CallsTypeOK
<1>3. ASSUME NEW cited \in SUBSET (MainFinds(asked[r]) \cup StrategiesFind(asked[r])),
             Reply(r, FALSE, SetToSeq(cited \cap MainFinds(asked[r])), cited),
             UNCHANGED <<loaded, asked, fetched>>
      PROVE  CallsInv'
  <2> DEFINE shown == cited \cap MainFinds(asked[r])
             texts == SetToSeq(shown)
  <2>1. cited \subseteq Documents
    BY DEF MainFinds, StrategiesFind, Selected
  <2>2. IsFiniteSet(shown)
    BY <2>1, FS_Subset, ConfigurationsAssumption
  <2>3. texts \in Seq(shown)
    BY <2>2, SetToSeqElements
  <2>4. ToSet(texts) \subseteq shown
    BY <2>3 DEF ToSet
  <2>5. texts \in Seq(Documents \cup {NoDocument})
    BY <2>1, <2>3, SeqOfLarger
  <2>6. \A d \in cited : KbOf[d] = call[r].kb
    BY <1>1 DEF AskedNarrow, MainFinds, StrategiesFind
  <2>7. \A d \in MainFinds(asked[r]) : MatchesBoth(r, d)'
    <3>1. /\ call[r].filters # NoFilters => call[r].filters \subseteq asked[r].filters
          /\ call[r].named =>
               /\ loaded[r] \in Configurations
               /\ loaded[r].filters \subseteq asked[r].filters
               /\ asked[r].expression = loaded[r].expression
      BY <1>1 DEF AskedNarrow
    <3>2. call' = call /\ loaded' = loaded
      BY <1>3 DEF Reply
    <3> QED
      BY <3>1, <3>2 DEF MainFinds, MatchesBoth, Selected
  <2>8. \A d \in cited : MatchesBoth(r, d)' \/ (call[r].named /\ loaded'[r].strategies)
    <3>1. \A d \in cited : d \in MainFinds(asked[r]) \/ asked[r].strategies
      BY DEF StrategiesFind
    <3> QED
      BY <1>1, <1>3, <2>7, <3>1 DEF AskedNarrow
  <2>9. Reply(r, FALSE, texts, cited) /\ UNCHANGED <<saved, asked, fetched>>
    BY <1>3 DEF savedVars
  <2>10. /\ loaded' \in [Requests -> Configurations \cup {NoConfiguration}]
         /\ \A x \in Requests \ {r} : loaded'[x] = loaded[x]
    BY <1>3 DEF CallsTypeOK
  <2>11. /\ \A d \in (ToSet(texts) \ {NoDocument}) \cup cited : KbOf[d] = call[r].kb
         /\ \A d \in ToSet(texts) : MatchesBoth(r, d)'
    BY <2>4, <2>6, <2>7
  <2> HIDE DEF texts, shown
  <2> QED
    BY <1>1, <2>1, <2>5, <2>8, <2>9, <2>10, <2>11, ReplyKeeps
<1> QED
  BY <1>2, <1>3 DEF SearchDocuments

\* call_tool: a search reads its configuration, or goes on without one.
LEMMA CallToolKeeps ==
    ASSUME CallsInv, NEW r \in Requests, CallTool(r), UNCHANGED savedVars
    PROVE  CallsInv'
<1> USE DEF CallsInv
<1>1. step[r] = "body"
  BY DEF CallTool
<1>2. CASE Fail(r)
  BY <1>1, <1>2, FailKeeps DEF Fail, CallsTypeOK
<1>3. CASE call[r].tool = "search" /\ ~call[r].named /\ BuildAsk(r, NoConfiguration)
  BY <1>1, <1>3, BuildAskKeeps, ConfigurationsAssumption
<1>4. CASE /\ call[r].tool = "search" => call[r].named
           /\ step' = [step EXCEPT ![r] = IF call[r].tool = "search" THEN "loading" ELSE "fetching"]
           /\ UNCHANGED <<call, servers, server, loaded, asked, fetched, reply>>
  <2>1. /\ step' \in [Requests -> {"new", "body", "loading", "asking", "fetching", "done"}]
        /\ step'[r] = IF call[r].tool = "search" THEN "loading" ELSE "fetching"
    BY <1>4 DEF CallsTypeOK
  <2>2. ASSUME MadeServers \subseteq MadeServers' PROVE CallOK(r)'
    BY <1>1, <1>4, <2>1, <2>2 DEF CallOK, ServedInKb, AskedInKb, AskedNarrow, ToolSteps, Exists,
       GivenInKb, GivenNarrow, MatchesBoth, Selected
  <2> QED
    BY <1>1, <1>4, <2>1, <2>2, ToolStepKeeps DEF CallsTypeOK, savedVars
<1> QED
  BY <1>2, <1>3, <1>4 DEF CallTool

\* The configuration is read from the knowledge box of the server.
LEMMA LoadKeeps ==
    ASSUME CallsInv, NEW r \in Requests, LoadSearchConfiguration(r), UNCHANGED savedVars
    PROVE  CallsInv'
<1> USE DEF CallsInv
<1>1. step[r] = "loading" /\ call[r].tool = "search" /\ call[r].named
  BY DEF LoadSearchConfiguration, CallOK, ToolSteps
<1>2. CASE Fail(r)
  BY <1>1, <1>2, FailKeeps DEF Fail, CallsTypeOK
<1>3. ASSUME NEW c \in Configurations, BuildAsk(r, c) PROVE CallsInv'
  BY <1>1, <1>3, BuildAskKeeps
<1> QED
  BY <1>2, <1>3 DEF LoadSearchConfiguration

\* What is fetched exists in the knowledge base of the server.
LEMMA FetchKeeps ==
    ASSUME CallsInv, NEW r \in Requests, NEW i \in DOMAIN fetched[r], Fetch(r, i),
           UNCHANGED savedVars
    PROVE  CallsInv'
<1> USE DEF CallsInv
<1>1. PICK outcome \in {"text", "failed"} :
         /\ outcome = "text" => Exists(r, call[r].names[i])
         /\ fetched' = [fetched EXCEPT ![r][i] = outcome]
  BY DEF Fetch
<1>2. step[r] = "fetching" /\ UNCHANGED <<saved, call, step, servers, server, loaded, asked, reply>>
  BY DEF Fetch, savedVars
<1>3. /\ fetched'[r] \in [DOMAIN call[r].names -> {"waiting", "text", "failed"}]
      /\ fetched'[r] = [fetched[r] EXCEPT ![i] = outcome]
      /\ DOMAIN fetched' = Requests
      /\ \A x \in Requests \ {r} : fetched'[x] = fetched[x]
  BY <1>1 DEF CallsTypeOK
<1>4. ASSUME MadeServers \subseteq MadeServers' PROVE CallOK(r)'
  <2>1. ToolSteps(r)'
    BY <1>1, <1>2, <1>3 DEF CallsTypeOK, CallOK, ToolSteps, Exists
  <2> QED
    BY <1>2, <1>4, <2>1 DEF CallOK, ServedInKb, AskedInKb, AskedNarrow, GivenInKb, GivenNarrow,
       MatchesBoth, Selected
<1> QED
  BY <1>2, <1>3, <1>4, ToolStepKeeps DEF CallsTypeOK

\* get_resource, read_resource and _tool_batch_get_documents give what was fetched.
LEMMA GiveKeeps ==
    ASSUME CallsInv, NEW r \in Requests, GiveDocuments(r), UNCHANGED savedVars
    PROVE  CallsInv'
<1> USE DEF CallsInv
<1>1. step[r] = "fetching" /\ CallOK(r) /\ call[r].tool # "search"
  BY DEF GiveDocuments, CallOK, ToolSteps
<1>2. CASE Fail(r)
  BY <1>1, <1>2, FailKeeps DEF Fail, CallsTypeOK
<1>3. CASE Reply(r, FALSE, InOrder(r), {}) /\ UNCHANGED <<loaded, asked, fetched>>
  <2>1. call[r].names \in Seq(Documents)
    BY CallTyped DEF Call
  <2>2. InOrder(r) \in Seq(Documents \cup {NoDocument})
    BY <2>1 DEF InOrder
  <2>3. server[r].kb = call[r].kb
    BY <1>1 DEF CallOK, ServedInKb
  <2>4. \A d \in ToSet(InOrder(r)) \ {NoDocument} : KbOf[d] = call[r].kb
    <3>1. \A i \in DOMAIN InOrder(r) :
             InOrder(r)[i] # NoDocument => KbOf[InOrder(r)[i]] = call[r].kb
      BY <1>1, <2>3 DEF InOrder, CallOK, ToolSteps, Exists
    <3> QED
      BY <3>1 DEF ToSet
  <2>5. \A d \in (ToSet(InOrder(r)) \ {NoDocument}) \cup {} : KbOf[d] = call[r].kb
    BY <2>4
  <2>6. {} \in SUBSET Documents
    OBVIOUS
  <2> QED
    BY <1>1, <1>3, <2>2, <2>5, <2>6, ReplyKeeps DEF CallsTypeOK, savedVars
<1> QED
  BY <1>2, <1>3 DEF GiveDocuments

\* list_resources lists the knowledge box of the server.
LEMMA ListKeeps ==
    ASSUME CallsInv, NEW r \in Requests, ListResources(r), UNCHANGED savedVars
    PROVE  CallsInv'
<1> USE DEF CallsInv
<1> DEFINE listed == {d \in Documents : KbOf[d] = server[r].kb}
<1>1. step[r] = "fetching" /\ call[r].tool = "list" /\ server[r].kb = call[r].kb
  BY DEF ListResources, CallOK, ServedInKb
<1>2. CASE Fail(r)
  BY <1>1, <1>2, FailKeeps DEF Fail, CallsTypeOK
<1>3. CASE Reply(r, FALSE, SetToSeq(listed), {}) /\ UNCHANGED <<loaded, asked, fetched>>
  <2>1. IsFiniteSet(listed)
    BY FS_Subset, ConfigurationsAssumption
  <2>2. SetToSeq(listed) \in Seq(listed)
    BY <2>1, SetToSeqElements
  <2>3. ToSet(SetToSeq(listed)) \subseteq listed
    BY <2>2 DEF ToSet
  <2>4. SetToSeq(listed) \in Seq(Documents \cup {NoDocument})
    BY <2>2, SeqOfLarger
  <2>5. \A d \in (ToSet(SetToSeq(listed)) \ {NoDocument}) \cup {} : KbOf[d] = call[r].kb
    BY <1>1, <2>3
  <2>6. {} \in SUBSET Documents /\ call[r].tool # "search"
    BY <1>1
  <2> QED
    BY <1>1, <1>3, <2>4, <2>5, <2>6, ReplyKeeps DEF CallsTypeOK, savedVars
<1> QED
  BY <1>2, <1>3 DEF ListResources

\* What every step of every request keeps: its server is of its knowledge base, and the
\* main query of its ask selects no more than the configuration it has read and the
\* filters of its tool; what it lists beside that, the prequeries or the graph of the
\* configuration have found.
THEOREM CallsInvariant == Spec => []CallsInv
<1>1. ASSUME CallsInv, [Next]_vars PROVE CallsInv'
  <2>1. CASE UNCHANGED mcpVars /\ saved' \in [Kbs -> Configurations \cup {NoConfiguration}]
    <3>1. MadeServers' = MadeServers
      BY <2>1 DEF mcpVars, MadeServers, Own
    <3>2. CallsTypeOK'
      BY <1>1, <2>1, <3>1 DEF mcpVars, CallsInv, CallsTypeOK
    <3>3. ASSUME NEW r \in Requests PROVE CallOK(r)'
      BY <1>1, <2>1, <3>1, OthersKept DEF mcpVars, CallsInv
    <3> QED
      BY <3>2, <3>3 DEF CallsInv
  <2>2. CASE SocketStep /\ UNCHANGED <<savedVars, mcpVars>>
    BY <1>1, <2>1, <2>2 DEF savedVars, CallsInv, CallsTypeOK
  <2>3. CASE UNCHANGED vars
    BY <1>1, <2>1, <2>3 DEF vars, savedVars, CallsInv, CallsTypeOK
  <2>4. ASSUME NEW kb \in Kbs, NEW c \in Configurations \cup {NoConfiguration}, Save(kb, c),
               UNCHANGED <<socketVars, mcpVars>>
        PROVE  CallsInv'
    BY <1>1, <2>1, <2>4 DEF Save, CallsInv, CallsTypeOK
  <2>5. CASE MCPStep /\ UNCHANGED <<savedVars, socketVars>>
    BY <1>1, <2>5, HandleKeeps, CallToolKeeps, LoadKeeps, SearchKeeps, FetchKeeps, GiveKeeps,
       ListKeeps DEF MCPStep
  <2> QED
    BY <1>1, <2>2, <2>3, <2>4, <2>5 DEF Next
<1> QED
  BY <1>1, CallsInitially, PTL DEF Spec

\* Every tool, the reading of a URI among them, works in the knowledge base of its
\* request, with a server that was made for a request there (mcp_nucliadb.py:676-682,
\* 800), for any number of requests, callers and servers kept.
THEOREM CallsKeepToKb == Spec => []CallsStayInKb
<1>1. CallsInv => CallsStayInKb
  BY DEF CallsInv, CallOK, AskedInKb, GivenInKb, MadeServers, CallsStayInKb
<1> QED
  BY <1>1, CallsInvariant, PTL

\* The filters of a tool only narrow what the configuration it has read selects
\* (mcp_nucliadb.py:295), whatever is saved, replaced or deleted meanwhile: the text a
\* search gives is of documents that match both, and so is what its answer lists unless
\* that configuration has prequeries or the graph, whose results no filter of the ask
\* narrows (ask.py:923-944, retrieval.py:164-176).
THEOREM SearchesOnlyNarrow == Spec => []SearchesNarrow
<1>1. CallsInv => SearchesNarrow
  BY DEF CallsInv, CallOK, GivenNarrow, SearchesNarrow
<1> QED
  BY <1>1, CallsInvariant, PTL
============================================================================
