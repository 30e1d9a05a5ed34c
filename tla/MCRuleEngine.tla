---------------------------- MODULE MCRuleEngine ----------------------------
(***************************************************************************)
(* RuleEngine over contexts that reach every branch of every rule: two     *)
(* currencies, balances that fall, rise and stay, payouts around the       *)
(* tolerance, every state of the cash-out control.                         *)
(***************************************************************************)
EXTENDS RuleEngine

MCCurrencies == {"EUR", "USD"}

EUR(n) == [amount |-> n, currency |-> "EUR"]

MCBalances == {Null, EUR(90), EUR(100), [amount |-> 100, currency |-> "USD"]}

\* 10 x 1.05 and 10 x 1.15 are exact halves, 10 x 1.07 is just above one; 0.05 x 3 rounds to zero.
MCRounds ==
  {Null}
  \cup [outcome : {"pending", "win"}, betAmount : {Null}, multiplier : {Null}, payout : {Null}]
  \cup [outcome : {"cashed-out"}, betAmount : {Null, EUR(3), EUR(10), EUR(-10)},
        multiplier : {Null, 0, 5, 105, 107, 115, 250},
        payout : {Null} \cup {EUR(n) : n \in {-12, 0, 1, 2, 9, 10, 12, 13, 25, 27}}]

Control(enabled) == [label |-> {"cash out"}, enabled |-> enabled]
OtherControl == [label |-> {"spin"}, enabled |-> FALSE]

MCElements == {<< >>, <<OtherControl>>, <<OtherControl, Control(TRUE)>>,
               <<Control(Null)>>, <<Control(FALSE), Control(TRUE)>>}

State(b, r, es) == [balance |-> b, round |-> r, elements |-> es]

\* Each rule reads its own part of the context: the parts vary one group at a
\* time around a transition that breaks nothing else.
MCContexts ==
  LET actions == {"place-bet", "cash-out", "wait"}
      transition(b, s, a) == [before |-> State(b, Null, << >>), after |-> s, action |-> a] IN
  {transition(b1, State(b2, r, es), a) :
     b1 \in MCBalances, b2 \in MCBalances, a \in actions, es \in MCElements,
     r \in {Null, [outcome |-> "pending", betAmount |-> Null, multiplier |-> Null, payout |-> Null],
            [outcome |-> "cashed-out", betAmount |-> EUR(10), multiplier |-> 105, payout |-> EUR(13)]}}
  \cup {transition(EUR(100), State(b2, r, << >>), a) :
          b2 \in {EUR(90), [amount |-> 100, currency |-> "USD"]}, r \in MCRounds, a \in actions}
=============================================================================
