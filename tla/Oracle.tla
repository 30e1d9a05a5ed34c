------------------------------- MODULE Oracle -------------------------------
(***************************************************************************)
(* The four default rules of packages/oracle and the verdict the engine    *)
(* gives on one observed transition.  A rule either throws or returns at   *)
(* most one violation.  A game state is the record the rules read; an      *)
(* element's label is the set of the fragments it contains.                *)
(***************************************************************************)
EXTENDS Domain, Money, Sequences, FiniteSetsExt

Violation(ruleId, severity) == [ruleId |-> ruleId, severity |-> severity]

Throws == [threw |-> TRUE, violations |-> << >>]
Returns(vs) == [threw |-> FALSE, violations |-> vs]
Silent == Returns(<< >>)

MoneyActions == {"place-bet", "cash-out"}

BothBalances(ctx) == ctx.before.balance # Null /\ ctx.after.balance # Null
BalanceDelta(ctx) == SubMoney(ctx.after.balance, ctx.before.balance).amount

\* Mutant: a cash-out is not counted as a money action.
StableForgetsCashOut(ctx) ==
  IF ~BothBalances(ctx) THEN Silent
  ELSE IF ~SameCurrency(ctx.before.balance, ctx.after.balance)
    THEN Returns(<<Violation("balance-stable-without-money-action", "critical")>>)
  ELSE IF BalanceDelta(ctx) # 0 /\ ctx.action # "place-bet"
    THEN Returns(<<Violation("balance-stable-without-money-action", "high")>>)
  ELSE Silent

BalanceStableWithoutMoneyAction(ctx) ==
  IF ~BothBalances(ctx) THEN Silent
  ELSE IF ~SameCurrency(ctx.before.balance, ctx.after.balance)
    THEN Returns(<<Violation("balance-stable-without-money-action", "critical")>>)
  ELSE IF BalanceDelta(ctx) # 0 /\ ctx.action \notin MoneyActions
    THEN Returns(<<Violation("balance-stable-without-money-action", "high")>>)
  ELSE Silent

\* Mutant: the early return for other actions comes after the subtraction.
DecreasesSubtractsFirst(ctx) ==
  IF ~BothBalances(ctx) THEN Silent
  ELSE IF ~SameCurrency(ctx.before.balance, ctx.after.balance) THEN Throws
  ELSE IF ctx.action = "place-bet" /\ BalanceDelta(ctx) > 0
    THEN Returns(<<Violation("balance-decreases-on-bet", "critical")>>)
  ELSE Silent

BalanceDecreasesOnBet(ctx) ==
  IF ctx.action # "place-bet" \/ ~BothBalances(ctx) THEN Silent
  ELSE IF ~SameCurrency(ctx.before.balance, ctx.after.balance) THEN Throws
  ELSE IF BalanceDelta(ctx) > 0
    THEN Returns(<<Violation("balance-decreases-on-bet", "critical")>>)
  ELSE Silent

PayoutToleranceUnits == 1

CashedOutWithAmounts(round) ==
  /\ round.outcome = "cashed-out"
  /\ round.betAmount # Null
  /\ round.payout # Null
  /\ round.multiplier # Null

\* Mutant: a payout at the tolerance is already wrong.
PayoutWithinTolerance(ctx) ==
  LET round == ctx.after.round IN
  IF round = Null THEN Silent
  ELSE IF ~CashedOutWithAmounts(round) THEN Silent
  ELSE IF Abs(round.payout.amount - MulMoney(round.betAmount, round.multiplier).amount)
            >= PayoutToleranceUnits
    THEN Returns(<<Violation("payout-matches-multiplier", "critical")>>)
  ELSE Silent

PayoutMatchesMultiplier(ctx) ==
  LET round == ctx.after.round IN
  IF round = Null THEN Silent
  ELSE IF ~CashedOutWithAmounts(round) THEN Silent
  ELSE IF Abs(round.payout.amount - MulMoney(round.betAmount, round.multiplier).amount)
            > PayoutToleranceUnits
    THEN Returns(<<Violation("payout-matches-multiplier", "critical")>>)
  ELSE Silent

\* The elements whose label includes "cash out".
CashOutControls(state) ==
  {k \in DOMAIN state.elements : "cash out" \in state.elements[k].label}

CashOutAvailableMidRound(ctx) ==
  LET elements == ctx.after.elements
      controls == CashOutControls(ctx.after) IN
  IF ctx.action # "place-bet" \/ ctx.after.round = Null THEN Silent
  ELSE IF ctx.after.round.outcome # "pending" THEN Silent
  ELSE IF controls = {} \/ elements[Min(controls)].enabled = FALSE   \* elements.find
    THEN Returns(<<Violation("cash-out-available-mid-round", "high")>>)
  ELSE Silent

DefaultRules == <<"balance-stable-without-money-action", "balance-decreases-on-bet",
                  "payout-matches-multiplier", "cash-out-available-mid-round">>

\* rule.evaluate(ctx) of the k-th default rule.
EvaluateRule(k, ctx) ==
  <<BalanceStableWithoutMoneyAction(ctx), BalanceDecreasesOnBet(ctx),
    PayoutMatchesMultiplier(ctx), CashOutAvailableMidRound(ctx)>>[k]

OracleErr == [is |-> "err", violations |-> << >>]
OracleOk(vs) == [is |-> "ok", violations |-> vs]

\* What createDefaultOracle().evaluate(ctx) returns (RuleEngine.tla is the loop).
Evaluate(ctx) ==
  LET result(k) == EvaluateRule(k, ctx) IN
  IF \E k \in DOMAIN DefaultRules : result(k).threw THEN OracleErr
  ELSE OracleOk(result(1).violations \o result(2).violations
                \o result(3).violations \o result(4).violations)
=============================================================================
