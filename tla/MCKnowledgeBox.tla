-------------------------- MODULE MCKnowledgeBox --------------------------
(***************************************************************************)
(* Small instances of KnowledgeBox: two configurations, one that names no  *)
(* source and one that names every source, and a home for each task.       *)
(***************************************************************************)
EXTENDS KnowledgeBox, TLC

CONSTANTS bare, full, k1, k2, s1, s2, pw1, pw2, api, agent, w1, w2, d1, d2, r1

MCConfigs == {bare, full}
MCRefs == bare :> {} @@ full :> SourceIds

\* One process, or the API process beside the agentic server.
OneHome == [t \in {w1, w2, d1, d2, r1} |-> api]
TwoHomes == w1 :> api @@ w2 :> agent @@ d1 :> api @@ d2 :> agent @@ r1 :> agent

OneProcHome == [t \in Tasks |-> OneHome[t]]
TwoProcHome == [t \in Tasks |-> TwoHomes[t]]

===========================================================================
