----------------------------- MODULE MCFrontends -----------------------------
(***************************************************************************)
(* TLC instance of Frontends: a websocket, two MCP requests of two callers *)
(* and two knowledge bases, and a server kept for one of these.            *)
(***************************************************************************)
EXTENDS Frontends

CONSTANTS k1, k2, d1, d2, d3, r1, r2, ann, bob

MCKbOf == d1 :> k1 @@ d2 :> k1 @@ d3 :> k2

Open == [kind |-> "ask", filters |-> {}, expression |-> NoFilter, strategies |-> FALSE,
         schema |-> FALSE]

MCConfigurations ==
  {[Open EXCEPT !.filters = {{d1, d3}}],
   [Open EXCEPT !.filters = {{d1, d3}}, !.strategies = TRUE],
   [Open EXCEPT !.kind = "find", !.expression = {d2}],
   [Open EXCEPT !.schema = TRUE]}

MCInitiallySaved ==
  {k1 :> c @@ k2 :> NoConfiguration :
     c \in {[Open EXCEPT !.filters = {{d1, d3}}, !.strategies = TRUE], NoConfiguration}}

MCSessions ==
  {[kb |-> k1, named |-> TRUE, keepOpen |-> FALSE], [kb |-> k1, named |-> FALSE, keepOpen |-> TRUE]}

Plain == [kb |-> k1, caller |-> ann, tool |-> "search", named |-> FALSE, filters |-> NoFilters,
          names |-> <<>>]

Narrow == {{d1, d2}}

Others ==
  {[Plain EXCEPT !.tool = "get", !.names = <<d1>>],
   [Plain EXCEPT !.tool = "batch", !.names = <<d3, d1>>],
   [Plain EXCEPT !.tool = "read", !.names = <<d1>>],
   [Plain EXCEPT !.tool = "read", !.names = <<d3>>]}
    \cup {[Plain EXCEPT !.tool = t] : t \in {"list", "invalid"}}

MCWorkloads ==
  {r1 :> [Plain EXCEPT !.named = TRUE, !.filters = f] @@ r2 :> [Plain EXCEPT !.caller = bob] :
     f \in {NoFilters, Narrow}}
    \cup {r1 :> [Plain EXCEPT !.filters = Narrow] @@ r2 :> [Plain EXCEPT !.kb = k2, !.caller = bob]}
    \cup {r1 :> o @@ r2 :> [Plain EXCEPT !.kb = k2, !.tool = "list"] : o \in Others}

=============================================================================
