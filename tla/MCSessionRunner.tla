--------------------------- MODULE MCSessionRunner ---------------------------
(***************************************************************************)
(* A session with a library of two short scenarios and one the LLM may     *)
(* generate; screens with and without an overlay.  The first scenario has  *)
(* a second action, so that an adapter may throw after a failure was found.*)
(***************************************************************************)
EXTENDS SessionRunner

MCCurrencies == {"EUR"}

Screen(amount, hint) ==
  [balance |-> [amount |-> amount, currency |-> "EUR"], round |-> Null,
   elements |-> << >>, dismissHint |-> hint]

MCScreens == {Screen(90, FALSE), Screen(100, TRUE)}

MCLibrary == <<[id |-> "one-spin", actions |-> <<"place-bet", "wait">>],
               [id |-> "observe", actions |-> <<"wait">>]>>
MCLLMScenarios == {[id |-> "generated", actions |-> <<"set-bet">>]}
MCScenarios == {<<"place-bet", "wait">>, <<"wait">>, <<"set-bet">>}
=============================================================================
