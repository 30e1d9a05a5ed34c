----------------------------- MODULE MCPlayedGame -----------------------------
(***************************************************************************)
(* One of the first scenarios of the library, its rapid clicks cut to two, *)
(* or a bet and a cash-out as the LLM writes them, over a game whose       *)
(* multipliers pay a whole number of units and a half.                     *)
(***************************************************************************)
EXTENDS PlayedGame

MCScenarios ==
  {ScenarioLibrary[k].actions : k \in {1, 2}}
  \cup {<<"place-bet", "place-bet">>, <<"place-bet", "cash-out">>}

MCWordings == {"cash out", "collect"}
MCScreens == {}
MCCurrencies == {"EUR"}
MCMultipliers == {50, 150}
=============================================================================
