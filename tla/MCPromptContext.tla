--------------------------- MODULE MCPromptContext ---------------------------
(***************************************************************************)
(* TLC instance of PromptContext: a document whose fields' ids begin alike *)
(* and a conversation with an attached file.                               *)
(***************************************************************************)
EXTENDS PromptContext, TLC

CONSTANTS r1, r2, title, doc1, doc10, talk, file, t1, p1, p2, p3, m1, m2, m3, x1

MCFields == {title, doc1, doc10, talk, file}

MCParagraphs ==
  title :> <<t1>> @@ doc1 :> <<p1, p2>> @@ doc10 :> <<p3>>
    @@ talk :> <<m1, m2, m3>> @@ file :> <<x1>>

MCResourceOf == [f \in MCFields |-> IF f \in {talk, file} THEN r2 ELSE r1]
MCAttached == talk :> <<file>>
MCPrefixOf == {<<doc1, doc10>>}

Plain ==
  [retrieved |-> <<p2, m1, p3>>, semantic |-> {m1}, excluded |-> {}, resource |-> NoResource,
   userTexts |-> 2, strategies |-> {}, count |-> 2, remaining |-> FALSE, extend |-> {},
   before |-> 1, after |-> 1, messages |-> 2, attachments |-> FALSE, pageImages |-> 0,
   pictures |-> {}, limit |-> 20]

Retrieved == {<<p2, m1, p3>>, <<m3, m1, p1>>}

Extending ==
  {[Plain EXCEPT !.retrieved = ps, !.strategies = ss, !.extend = fs, !.attachments = a, !.limit = n] :
     ps \in Retrieved, ss \in SUBSET (Strategies \ {"full_resource", "prequeries"}),
     fs \in {{title, doc1}, {doc1, doc10, talk}}, a \in BOOLEAN, n \in {1, 6, 20}}

FullResource ==
  {[Plain EXCEPT !.retrieved = ps, !.excluded = ex, !.strategies = ss, !.count = k,
                 !.remaining = rest, !.limit = n] :
     ps \in Retrieved, ex \in {{}, {p2, m3}}, k \in {1, 2}, rest \in BOOLEAN, n \in {1, 6, 20},
     ss \in {{"full_resource"}, {"full_resource", "metadata"}, {"full_resource", "hierarchy"}}}

OneResource == {[Plain EXCEPT !.retrieved = <<>>, !.resource = r, !.strategies = {"full_resource"}] :
                  r \in {r1, r2}}

Default == {[Plain EXCEPT !.semantic = {m1, m3}, !.retrieved = ps, !.strategies = ss, !.pageImages = 1,
                          !.pictures = {p2}, !.limit = n] :
              ps \in Retrieved, n \in {1, 6, 20}, ss \in {{}, {"prequeries"}}}

MCRequests == Extending \cup FullResource \cup OneResource \cup Default

=============================================================================
