----------------------------- MODULE RuleEngine -----------------------------
(***************************************************************************)
(* RuleEngine.evaluate as the loop it is: one step per rule, a rule that   *)
(* throws is noted and the loop goes on, and a single noted error turns    *)
(* the whole verdict into Err.                                             *)
(***************************************************************************)
EXTENDS Oracle, FiniteSets, TLC

CONSTANT Contexts        \* the rule contexts evaluate is called with

\* Amounts are integers of a currency, as MoneySchema has it, or not there.
ASSUME ContextsAssumption ==
  \A c \in Contexts :
    /\ {c.before.balance, c.after.balance} \subseteq MoneyValues \cup {Null}
    /\ c.after.round # Null =>
         /\ {c.after.round.betAmount, c.after.round.payout} \subseteq MoneyValues \cup {Null}
         /\ c.after.round.multiplier \in Int \cup {Null}

VARIABLES ctx, next, ruleViolations, ruleErrors, verdict

engineVars == <<ctx, next, ruleViolations, ruleErrors, verdict>>

NoVerdict == [is |-> "pending", violations |-> << >>]

EngineInit ==
  /\ ctx \in Contexts
  /\ next = 1
  /\ ruleViolations = << >>
  /\ ruleErrors = << >>
  /\ verdict = NoVerdict

\* Mutant: a rule's violations replace the earlier ones.
RunRuleKeepsLast ==
  /\ next <= Len(DefaultRules)
  /\ LET result == EvaluateRule(next, ctx) IN
     IF result.threw
       THEN ruleErrors' = Append(ruleErrors, DefaultRules[next]) /\ UNCHANGED ruleViolations
       ELSE ruleViolations' = result.violations /\ UNCHANGED ruleErrors
  /\ next' = next + 1
  /\ UNCHANGED <<ctx, verdict>>

\* One iteration of `for (const rule of this.rules)`.
RunRule ==
  /\ next <= Len(DefaultRules)
  /\ LET result == EvaluateRule(next, ctx) IN
     IF result.threw
       THEN /\ ruleErrors' = Append(ruleErrors, DefaultRules[next])
            /\ UNCHANGED ruleViolations
       ELSE /\ ruleViolations' = ruleViolations \o result.violations
            /\ UNCHANGED ruleErrors
  /\ next' = next + 1
  /\ UNCHANGED <<ctx, verdict>>

ReturnVerdict ==
  /\ next > Len(DefaultRules)
  /\ verdict = NoVerdict
  /\ verdict' = IF ruleErrors # << >> THEN OracleErr ELSE OracleOk(ruleViolations)
  /\ UNCHANGED <<ctx, next, ruleViolations, ruleErrors>>

EngineNext == RunRule \/ ReturnVerdict

EngineSpec == EngineInit /\ [][EngineNext]_engineVars

-----------------------------------------------------------------------------
\* What the rules before the n-th returned, in their order.
FoundBefore(n) ==
  LET found(k) == IF k < n THEN EvaluateRule(k, ctx).violations ELSE << >>
  IN found(1) \o found(2) \o found(3) \o found(4)

\* The loop's invariant: everything returned so far was collected, and an error was
\* noted if and only if a rule threw.
EngineInv ==
  /\ ctx \in Contexts /\ next \in 1..Len(DefaultRules) + 1
  /\ ruleViolations = FoundBefore(next)
  /\ ruleErrors \in Seq({DefaultRules[k] : k \in DOMAIN DefaultRules})
  /\ ruleErrors = << >> <=> \A k \in 1..next - 1 : ~EvaluateRule(k, ctx).threw
  /\ verdict # NoVerdict => next = Len(DefaultRules) + 1 /\ verdict = Evaluate(ctx)

Done == verdict # NoVerdict
Reported == {verdict.violations[k].ruleId : k \in DOMAIN verdict.violations}

\* The loop returns what the closed form Evaluate says, which is what the
\* scenario runner's model calls.
VerdictIsEvaluate == Done => verdict = Evaluate(ctx)

\* The engine gives up on a transition exactly when a bet is placed and the two
\* balances are in different currencies: the only input on which a rule throws.
ErrOnlyOnCurrencyChangeDuringBet ==
  Done => (verdict = OracleErr <=>
             /\ ctx.action = "place-bet"
             /\ BothBalances(ctx)
             /\ ctx.before.balance.currency # ctx.after.balance.currency)

\* The two balance rules split the work: on a verdict that is Ok, a visible
\* change of the balance is reported by exactly one of them, unless it is a debit
\* on a bet or any change on a cash-out.
BalanceChangeReportedOnce ==
  Done /\ verdict.is = "ok" /\ BothBalances(ctx) =>
    LET explained == \/ ctx.before.balance = ctx.after.balance
                     \/ /\ SameCurrency(ctx.before.balance, ctx.after.balance)
                        /\ \/ ctx.action = "cash-out"
                           \/ ctx.action = "place-bet" /\ BalanceDelta(ctx) < 0
        reports == {k \in DOMAIN verdict.violations :
                      verdict.violations[k].ruleId \in {DefaultRules[1], DefaultRules[2]}}
    IN Cardinality(reports) = IF explained THEN 0 ELSE 1

\* A payout more than a unit and a half away from bet x multiplier is always
\* reported, one less than that away never is: the rounding of mulMoney and the
\* tolerance of one unit add up to no more than that.
PayoutTolerance ==
  LET round == ctx.after.round IN
  Done /\ verdict.is = "ok" /\ round # Null =>
    IF ~CashedOutWithAmounts(round)
    THEN DefaultRules[3] \notin Reported
    ELSE LET twiceOff == 2 * Abs(Hundredths * round.payout.amount
                                   - round.betAmount.amount * round.multiplier)
         IN /\ twiceOff > 3 * Hundredths => DefaultRules[3] \in Reported
            /\ twiceOff < 3 * Hundredths => DefaultRules[3] \notin Reported

=============================================================================
