--------------------------- MODULE MCNucliaDBAgent ---------------------------
(***************************************************************************)
(* TLC instance of NucliaDBAgent: two calls, two sources.                  *)
(***************************************************************************)
EXTENDS NucliaDBAgent, TLC

CONSTANTS c1, c2, s1, s2, r1, r2, r3, bad

MCSourceOf == r1 :> s1 @@ r2 :> s1 @@ r3 :> s2
x1 == <<"x", 1>>
x2 == <<"x", 2>>
y1 == <<"y", 1>>
y2 == <<"y", 2>>
MCLabels == r1 :> {x1, y1} @@ r2 :> {x2} @@ r3 :> {x1, y2}
MCWords == r1 :> {"car"} @@ r2 :> {"auto"} @@ r3 :> {"auto", "car"}
MCSynonyms == s1 :> ("car" :> {"auto"} @@ "auto" :> {}) @@ s2 :> ("car" :> {} @@ "auto" :> {})
MCDriverFilter == s1 :> {r1} @@ s2 :> {r1, r2, r3}
MCDriverCatalog == s1 :> {r2} @@ s2 :> {r3}
MCConfigs == {<<s1>>, <<s1, s2>>}

Plain == [kind |-> "ask", keywords |-> {}, labels |-> <<>>, filter |-> NoFilter, source |-> s1,
          fallback |-> FALSE, strategies |-> FALSE]

LabelLists ==
  {<<>>, <<x1>>, <<x1, y1>>, <<x1, x2, y1>>, <<x1, x2, y1, y2>>, <<bad>>, <<y1, bad, x1, x2>>}

Asks ==
  {[Plain EXCEPT !.labels = ls, !.filter = f] : ls \in LabelLists, f \in {NoFilter, {r1, r2, r3}}}
    \cup {[Plain EXCEPT !.keywords = ws] : ws \in {{"car"}, {"auto", "car"}}}
    \cup {[Plain EXCEPT !.strategies = TRUE]}

Others ==
  {[Plain EXCEPT !.kind = k] : k \in {"facets", "count", "catalog", "images", "all_images", "labels"}}
    \cup {[Plain EXCEPT !.kind = "question", !.fallback = b] : b \in BOOLEAN}
    \cup {[Plain EXCEPT !.kind = "title", !.labels = <<x1>>]}
    \cup {[Plain EXCEPT !.kind = "retrieve", !.source = s2, !.keywords = {"car"}]}

MCWorkloads ==
  {c1 :> a @@ c2 :> Plain : a \in Asks}
    \cup {c1 :> o @@ c2 :> [Plain EXCEPT !.kind = "retrieve", !.filter = {r1}] : o \in Others}

=============================================================================
