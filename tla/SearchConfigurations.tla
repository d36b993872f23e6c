------------------------ MODULE SearchConfigurations ------------------------
(***************************************************************************)
(* The search configurations saved in knowledge boxes, as                  *)
(* ask/search/rpc.py reads them.  NucliaDB keeps them; their owners save,  *)
(* replace and delete them while they are in use.  One name is enough: a   *)
(* request that names a configuration names this one.                      *)
(*                                                                         *)
(* A filter is the set of the documents it selects.                        *)
(***************************************************************************)
EXTENDS Naturals, Sequences, FiniteSets, SequencesExt

CONSTANTS
  Documents,
  KbOf,             \* document -> its knowledge box
  Configurations,   \* the configurations that may be saved
  InitiallySaved,   \* what knowledge boxes may have saved at first
  NoConfiguration,  \* nothing is saved under the name
  Failure,          \* the knowledge box did not answer
  NoFilter,         \* no filter expression
  MaxSaves          \* bound on the changes of configurations

Kbs == {KbOf[d] : d \in Documents}

\* What AskConfig and FindConfig set, as far as the properties tell it apart.  A
\* FindConfig has no rag_strategies.
Configuration ==
  {c \in [kind : {"ask", "find"},
          filters : SUBSET SUBSET Documents,             \* each of them holds
          expression : {NoFilter} \cup SUBSET Documents,
          strategies : BOOLEAN,                          \* prequeries or the graph
          schema : BOOLEAN] :                            \* answer_json_schema
     c.kind = "find" => ~c.strategies}

ASSUME ConfigurationsAssumption ==
  /\ IsFiniteSet(Documents)
  /\ Configurations \subseteq Configuration
  /\ {NoConfiguration, Failure} \cap Configurations = {}
  /\ InitiallySaved \subseteq [Kbs -> Configurations \cup {NoConfiguration}]

VARIABLES
  saved,  \* knowledge box -> its configuration
  saves   \* how often one has changed

savedVars == <<saved, saves>>

SavedInit ==
  /\ saved \in InitiallySaved
  /\ saves = 0

Save(kb, c) ==
  /\ saves < MaxSaves
  /\ saved[kb] # c
  /\ saved' = [saved EXCEPT ![kb] = c]
  /\ saves' = saves + 1

\* get_search_configuration: any status but 200 and 404 raises.
Load(kb) == {saved[kb], Failure}

\* The documents an ask request selects by its filters and its expression.
Selected(filters, expression) ==
  {d \in Documents : /\ \A f \in filters : d \in f
                     /\ expression = NoFilter \/ d \in expression}

=============================================================================
