-------------------------- MODULE MCScenarioRunner --------------------------
(***************************************************************************)
(* Two scenarios out of a set with bets, waits, the network taken away and *)
(* restored and an action the driver cannot translate; screens on which    *)
(* the balance falls, rises or changes currency.                           *)
(***************************************************************************)
EXTENDS ScenarioRunner

MCCurrencies == {"EUR", "USD"}

Screen(amount, currency) ==
  [balance |-> [amount |-> amount, currency |-> currency], round |-> Null,
   elements |-> << >>, dismissHint |-> FALSE]

MCScreens == {Screen(90, "EUR"), Screen(100, "EUR"), Screen(100, "USD")}

MCScenarios ==
  {<<"place-bet", "place-bet">>,
   <<"throttle-network:offline", "throttle-network:restore", "wait">>,
   <<"wait", "set-bet">>}
=============================================================================
