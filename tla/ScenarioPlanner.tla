--------------------------- MODULE ScenarioPlanner ---------------------------
(***************************************************************************)
(* ScenarioPlanner.nextScenario (apps/worker/src/session/                  *)
(* scenario-planner.ts) as a function of the ids already executed.  What   *)
(* is sent to the LLM along with the request is left out.                  *)
(***************************************************************************)
EXTENDS Integers, Sequences

CONSTANTS Library,       \* SCENARIO_LIBRARY: a sequence of [id, actions]
          LLMScenarios   \* what the LLM may generate: a set of [id, actions]

ASSUME LibraryAssumption ==
  /\ Library \in Seq({Library[k] : k \in DOMAIN Library}) /\ Library # << >>
  /\ \A j, k \in DOMAIN Library : Library[j].id = Library[k].id => j = k

NotExecuted(executed) ==
  {k \in DOMAIN Library : \A j \in DOMAIN executed : executed[j] # Library[k].id}

LibraryDrained(executed) == NotExecuted(executed) = {}

\* Mutant: the library is drained from its end.
LastNotExecuted(executed) ==
  Library[CHOOSE k \in NotExecuted(executed) : \A j \in NotExecuted(executed) : k >= j]

\* SCENARIO_LIBRARY.find: the first that has not been executed.
FirstNotExecuted(executed) ==
  Library[CHOOSE k \in NotExecuted(executed) : \A j \in NotExecuted(executed) : k <= j]

\* The LLM failed: replay the library in turn.
Fallback(executed) == Library[(Len(executed) % Len(Library)) + 1]

\* The scenarios nextScenario may return when the LLM does not throw.
Planned(executed) ==
  IF ~LibraryDrained(executed) THEN {FirstNotExecuted(executed)}
  ELSE LLMScenarios \cup {Fallback(executed)}
=============================================================================
