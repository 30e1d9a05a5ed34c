---------------------------- MODULE OracleProofs ----------------------------
(***************************************************************************)
(* For every set of contexts with amounts of any size: the engine's loop   *)
(* returns what Evaluate says, gives up exactly on a change of currency    *)
(* during a bet, reports an unexplained change of the balance once, and    *)
(* judges a payout right up to a unit and a half.  Over a game, for every  *)
(* stake and set of multipliers: its verdicts on the balance are what the  *)
(* game did, and a correct game is accused for good reasons only.          *)
(***************************************************************************)
EXTENDS RuleEngine, PlayedGame, SequenceTheorems, FiniteSetTheorems, TLAPS

Rules == {DefaultRules[k] : k \in 1..4}
Reports == [ruleId : Rules, severity : {"critical", "high"}]

\* What the k-th rule finds in a context.
Found(k, c) == EvaluateRule(k, c).violations
Threw(k, c) == EvaluateRule(k, c).threw

-----------------------------------------------------------------------------
(* What the four rules return.                                             *)

LEMMA FourRules ==
  /\ Len(DefaultRules) = 4 /\ DOMAIN DefaultRules = 1..4
  /\ DefaultRules[1] = "balance-stable-without-money-action"
  /\ DefaultRules[2] = "balance-decreases-on-bet"
  /\ DefaultRules[3] = "payout-matches-multiplier"
  /\ DefaultRules[4] = "cash-out-available-mid-round"
BY DEF DefaultRules

LEMMA FourResults ==
  ASSUME NEW c
  PROVE  /\ EvaluateRule(1, c) = BalanceStableWithoutMoneyAction(c)
         /\ EvaluateRule(2, c) = BalanceDecreasesOnBet(c)
         /\ EvaluateRule(3, c) = PayoutMatchesMultiplier(c)
         /\ EvaluateRule(4, c) = CashOutAvailableMidRound(c)
BY DEF EvaluateRule

\* One violation, or none.
LEMMA OneOrNone ==
  ASSUME NEW id, NEW severity
  PROVE  /\ Silent.threw = FALSE /\ Silent.violations = << >>
         /\ Throws.threw = TRUE /\ Throws.violations = << >>
         /\ Returns(<<Violation(id, severity)>>).threw = FALSE
         /\ Returns(<<Violation(id, severity)>>).violations = <<Violation(id, severity)>>
         /\ <<Violation(id, severity)>> # << >>
<1>1. Silent.threw = FALSE /\ Silent.violations = << >> /\ Throws.threw = TRUE /\ Throws.violations = << >>
  BY Zenon DEF Silent, Throws, Returns
<1>2. /\ Returns(<<Violation(id, severity)>>).threw = FALSE
      /\ Returns(<<Violation(id, severity)>>).violations = <<Violation(id, severity)>>
  BY Zenon DEF Returns
<1>3. <<Violation(id, severity)>> # << >>
  OBVIOUS
<1> QED
  BY <1>1, <1>2, <1>3

\* The first rule reports a balance that changes its currency, or its amount without a
\* money action.
LEMMA StableRule ==
  ASSUME NEW c
  PROVE  LET unexplained == /\ BothBalances(c)
                            /\ ~SameCurrency(c.before.balance, c.after.balance)
                                 \/ (BalanceDelta(c) # 0 /\ c.action \notin MoneyActions)
         IN /\ ~Threw(1, c)
            /\ unexplained => \E severity \in {"critical", "high"} :
                                Found(1, c) = <<Violation(DefaultRules[1], severity)>>
            /\ ~unexplained => Found(1, c) = << >>
BY FourRules, FourResults, OneOrNone, ZenonT(30) DEF Threw, Found, BalanceStableWithoutMoneyAction

\* The second one throws on a bet across currencies, and reports one that adds to the balance.
LEMMA DecreasesRule ==
  ASSUME NEW c
  PROVE  LET bet == c.action = "place-bet" /\ BothBalances(c)
             same == SameCurrency(c.before.balance, c.after.balance)
         IN /\ Threw(2, c) <=> bet /\ ~same
            /\ bet /\ same /\ BalanceDelta(c) > 0 =>
                 Found(2, c) = <<Violation(DefaultRules[2], "critical")>>
            /\ ~(bet /\ same /\ BalanceDelta(c) > 0) => Found(2, c) = << >>
BY FourRules, FourResults, OneOrNone, ZenonT(30) DEF Threw, Found, BalanceDecreasesOnBet

\* The third one reports a payout more than the tolerance away from the rounded product.
LEMMA PayoutRule ==
  ASSUME NEW c
  PROVE  LET played == c.after.round
             wrong == /\ played # Null /\ CashedOutWithAmounts(played)
                      /\ Abs(played.payout.amount - MulMoney(played.betAmount, played.multiplier).amount)
                           > PayoutToleranceUnits
         IN /\ ~Threw(3, c)
            /\ wrong => Found(3, c) = <<Violation(DefaultRules[3], "critical")>>
            /\ ~wrong => Found(3, c) = << >>
BY FourRules, FourResults, OneOrNone, ZenonT(30) DEF Threw, Found, PayoutMatchesMultiplier

\* The fourth one reports a bet's pending round whose first cash-out control is disabled,
\* or that has none.
LEMMA CashOutRule ==
  ASSUME NEW c
  PROVE  LET controls == CashOutControls(c.after)
             stuck == /\ c.action = "place-bet" /\ c.after.round # Null
                      /\ c.after.round.outcome = "pending"
                      /\ controls = {} \/ c.after.elements[Min(controls)].enabled = FALSE
         IN /\ ~Threw(4, c)
            /\ stuck => Found(4, c) = <<Violation(DefaultRules[4], "high")>>
            /\ ~stuck => Found(4, c) = << >>
BY FourRules, FourResults, OneOrNone, ZenonT(30) DEF Threw, Found, CashOutAvailableMidRound

\* Each rule finds nothing or one violation under its own name, and nothing when it throws.
LEMMA RuleShape ==
  ASSUME NEW c, NEW k \in 1..4
  PROVE  /\ Found(k, c) \in Seq(Reports)
         /\ \/ Found(k, c) = << >>
            \/ ~Threw(k, c) /\ \E severity \in {"critical", "high"} :
                                 Found(k, c) = <<Violation(DefaultRules[k], severity)>>
<1>1. \A severity \in {"critical", "high"} :
        <<Violation(DefaultRules[k], severity)>> \in Seq(Reports)
  <2> SUFFICES ASSUME NEW severity \in {"critical", "high"}
               PROVE  <<Violation(DefaultRules[k], severity)>> \in Seq(Reports)
    OBVIOUS
  <2>1. Violation(DefaultRules[k], severity) \in Reports
    BY Zenon DEF Violation, Reports, Rules
  <2> QED
    BY <2>1
<1>2. << >> \in Seq(Reports)
  OBVIOUS
<1>3. \/ Found(k, c) = << >>
      \/ ~Threw(k, c) /\ \E severity \in {"critical", "high"} :
                           Found(k, c) = <<Violation(DefaultRules[k], severity)>>
  <2>1. k = 1 \/ k = 2 \/ k = 3 \/ k = 4
    OBVIOUS
  <2> QED
    BY <2>1, StableRule, DecreasesRule, PayoutRule, CashOutRule, ZenonT(30)
<1> QED
  BY <1>1, <1>2, <1>3, Zenon

-----------------------------------------------------------------------------
(* EngineInv is inductive.                                                 *)

LEMMA Concatenations ==
  ASSUME NEW S, NEW a \in Seq(S), NEW b \in Seq(S)
  PROVE  a \o b \in Seq(S) /\ a \o << >> = a /\ << >> \o a = a
OBVIOUS

\* One more rule, one more contribution.
LEMMA FoundSoFar ==
  /\ FoundBefore(1) = << >>
  /\ \A n \in 1..4 : FoundBefore(n + 1) = FoundBefore(n) \o Found(n, ctx)
  /\ FoundBefore(5) = Found(1, ctx) \o Found(2, ctx) \o Found(3, ctx) \o Found(4, ctx)
<1> DEFINE a == Found(1, ctx) b == Found(2, ctx) c == Found(3, ctx) d == Found(4, ctx)
<1>1. a \in Seq(Reports) /\ b \in Seq(Reports) /\ c \in Seq(Reports) /\ d \in Seq(Reports)
  BY RuleShape
<1>2. << >> \in Seq(Reports)
  OBVIOUS
<1>3. /\ FoundBefore(1) = << >> \o << >> \o << >> \o << >>
      /\ FoundBefore(2) = a \o << >> \o << >> \o << >>
      /\ FoundBefore(3) = a \o b \o << >> \o << >>
      /\ FoundBefore(4) = a \o b \o c \o << >>
      /\ FoundBefore(5) = a \o b \o c \o d
  BY DEF FoundBefore, Found
<1> HIDE DEF a, b, c, d
<1>4. a \o b \in Seq(Reports) /\ a \o b \o c \in Seq(Reports)
  BY <1>1, Concatenations
<1>5. /\ << >> \o << >> \o << >> \o << >> = << >>
      /\ a \o << >> \o << >> \o << >> = a /\ << >> \o a = a
      /\ a \o b \o << >> \o << >> = a \o b
      /\ a \o b \o c \o << >> = a \o b \o c
  BY <1>1, <1>2, <1>4, Concatenations
<1>6. /\ FoundBefore(1) = << >> /\ FoundBefore(2) = FoundBefore(1) \o a
      /\ FoundBefore(3) = FoundBefore(2) \o b /\ FoundBefore(4) = FoundBefore(3) \o c
      /\ FoundBefore(5) = FoundBefore(4) \o d
  BY <1>3, <1>5
<1>7. ASSUME NEW n \in 1..4 PROVE FoundBefore(n + 1) = FoundBefore(n) \o Found(n, ctx)
  <2>1. Found(1, ctx) = a /\ Found(2, ctx) = b /\ Found(3, ctx) = c /\ Found(4, ctx) = d
    BY DEF a, b, c, d
  <2>2. n = 1 \/ n = 2 \/ n = 3 \/ n = 4
    OBVIOUS
  <2>3. CASE n = 1
    BY <1>6, <2>1, <2>3
  <2>4. CASE n = 2
    BY <1>6, <2>1, <2>4
  <2>5. CASE n = 3
    BY <1>6, <2>1, <2>5
  <2>6. CASE n = 4
    BY <1>6, <2>1, <2>6
  <2> QED
    BY <2>2, <2>3, <2>4, <2>5, <2>6
<1> QED
  BY <1>3, <1>6, <1>7 DEF a, b, c, d

LEMMA EngineInitInv == EngineInit => EngineInv
BY FourRules, FoundSoFar DEF EngineInit, EngineInv

LEMMA RunRuleInv ==
  ASSUME EngineInv, RunRule
  PROVE  EngineInv'
<1>1. /\ next \in 1..4 /\ next' = next + 1 /\ ctx' = ctx /\ verdict' = verdict
      /\ IF Threw(next, ctx)
           THEN ruleErrors' = Append(ruleErrors, DefaultRules[next]) /\ ruleViolations' = ruleViolations
           ELSE ruleViolations' = ruleViolations \o Found(next, ctx) /\ ruleErrors' = ruleErrors
  BY FourRules DEF EngineInv, RunRule, Threw, Found
<1>2. ruleViolations' = FoundBefore(next)'
  <2>1. FoundBefore(next)' = FoundBefore(next + 1)
    BY <1>1 DEF FoundBefore
  <2>2. FoundBefore(next + 1) = FoundBefore(next) \o Found(next, ctx)
    BY <1>1, FoundSoFar
  <2>3. Threw(next, ctx) => FoundBefore(next) \o Found(next, ctx) = FoundBefore(next)
    <3>1. Threw(next, ctx) => Found(next, ctx) = << >>
      BY <1>1, RuleShape
    <3>2. FoundBefore(next) \in Seq(Reports)
      BY RuleShape DEF FoundBefore, Found
    <3> QED
      BY <3>1, <3>2, Concatenations
  <2> QED
    BY <1>1, <2>1, <2>2, <2>3 DEF EngineInv
<1>3. /\ ruleErrors' \in Seq(Rules)
      /\ ruleErrors' = << >> <=> ruleErrors = << >> /\ ~Threw(next, ctx)
  <2>1. ruleErrors \in Seq(Rules) /\ DefaultRules[next] \in Rules
    BY <1>1, FourRules DEF EngineInv, Rules
  <2>2. Append(ruleErrors, DefaultRules[next]) \in Seq(Rules) /\ Append(ruleErrors, DefaultRules[next]) # << >>
    BY <2>1
  <2> QED
    BY <1>1, <2>1, <2>2
<1>4. (\A k \in 1..next' - 1 : ~Threw(k, ctx)) <=> (\A k \in 1..next - 1 : ~Threw(k, ctx)) /\ ~Threw(next, ctx)
  BY <1>1
<1> QED
  BY <1>1, <1>2, <1>3, <1>4, FourRules DEF EngineInv, Threw, Rules

LEMMA ReturnVerdictInv ==
  ASSUME EngineInv, ReturnVerdict
  PROVE  EngineInv'
<1>1. /\ next = 5 /\ UNCHANGED <<ctx, next, ruleViolations, ruleErrors>>
      /\ verdict' = IF ruleErrors # << >> THEN OracleErr ELSE OracleOk(ruleViolations)
  BY FourRules DEF EngineInv, ReturnVerdict
<1>2. 1..next - 1 = 1..4
  BY <1>1
<1>3. ruleErrors # << >> <=> \E k \in 1..4 : Threw(k, ctx)
  BY <1>2 DEF EngineInv, Threw
<1>4. ruleViolations = Found(1, ctx) \o Found(2, ctx) \o Found(3, ctx) \o Found(4, ctx)
  <2>1. ruleViolations = FoundBefore(5)
    BY <1>1 DEF EngineInv
  <2> QED
    BY <2>1, FoundSoFar
<1>5. verdict' = Evaluate(ctx)
  BY <1>1, <1>3, <1>4, FourRules DEF Evaluate, Threw, Found
<1>6. Evaluate(ctx)' = Evaluate(ctx) /\ FoundBefore(next)' = FoundBefore(next)
  BY <1>1 DEF FoundBefore
<1> QED
  BY <1>1, <1>5, <1>6, FourRules DEF EngineInv

\* The loop collects what every rule returns, in the order of the rules.
THEOREM EngineInvariant == EngineSpec => []EngineInv
<1>1. EngineInv /\ [EngineNext]_engineVars => EngineInv'
  <2> SUFFICES ASSUME EngineInv, [EngineNext]_engineVars PROVE EngineInv'
    OBVIOUS
  <2>1. CASE UNCHANGED engineVars
    BY <2>1 DEF engineVars, EngineInv, FoundBefore
  <2> QED
    BY <2>1, RunRuleInv, ReturnVerdictInv DEF EngineNext
<1> QED
  BY EngineInitInv, <1>1, PTL DEF EngineSpec

\* RuleEngine.evaluate returns what the closed form says that the scenario runner's
\* model uses for it.
THEOREM LoopIsEvaluate == EngineSpec => []VerdictIsEvaluate
<1>1. EngineInv => VerdictIsEvaluate
  BY DEF EngineInv, VerdictIsEvaluate, Done
<1> QED
  BY EngineInvariant, <1>1, PTL

-----------------------------------------------------------------------------
(* What the verdict says.                                                  *)

\* What the closed form says of a context: Err if a rule throws, otherwise all that is found.
LEMMA ClosedForm ==
  ASSUME NEW c
  PROVE  /\ Evaluate(c) = OracleErr <=> Threw(2, c)
         /\ Evaluate(c).is = "ok" <=> ~Threw(2, c)
         /\ ~Threw(2, c) =>
              Evaluate(c).violations = Found(1, c) \o Found(2, c) \o Found(3, c) \o Found(4, c)
<1>1. (\E k \in DOMAIN DefaultRules : EvaluateRule(k, c).threw) <=> Threw(2, c)
  <2>1. ~Threw(1, c) /\ ~Threw(3, c) /\ ~Threw(4, c)
    BY StableRule, PayoutRule, CashOutRule
  <2> QED
    BY <2>1, FourRules DEF Threw
<1>2. CASE Threw(2, c)
  <2>1. Evaluate(c) = OracleErr
    BY <1>1, <1>2 DEF Evaluate
  <2> QED
    BY <1>2, <2>1 DEF OracleErr
<1>3. CASE ~Threw(2, c)
  <2>1. Evaluate(c) = OracleOk(Found(1, c) \o Found(2, c) \o Found(3, c) \o Found(4, c))
    BY <1>1, <1>3 DEF Evaluate, Found
  <2>2. Evaluate(c).is = "ok" /\ OracleErr.is = "err"
    BY <2>1 DEF OracleOk, OracleErr
  <2> QED
    BY <1>3, <2>1, <2>2 DEF OracleOk
<1> QED
  BY <1>2, <1>3

\* A verdict that was returned.
LEMMA Verdicts ==
  ASSUME EngineInv, Done
  PROVE  /\ verdict = OracleErr <=> Threw(2, ctx)
         /\ verdict.is = "ok" <=> ~Threw(2, ctx)
         /\ ~Threw(2, ctx) =>
              verdict.violations = Found(1, ctx) \o Found(2, ctx) \o Found(3, ctx) \o Found(4, ctx)
<1>1. verdict = Evaluate(ctx)
  BY DEF EngineInv, Done
<1> QED
  BY <1>1, ClosedForm

\* The engine gives up exactly when a bet meets two balances in different currencies,
\* and then loses what the other rules found.
THEOREM GivesUp == EngineSpec => []ErrOnlyOnCurrencyChangeDuringBet
<1>1. EngineInv => ErrOnlyOnCurrencyChangeDuringBet
  <2> SUFFICES ASSUME EngineInv, Done
               PROVE  verdict = OracleErr <=>
                        /\ ctx.action = "place-bet" /\ BothBalances(ctx)
                        /\ ctx.before.balance.currency # ctx.after.balance.currency
    BY DEF ErrOnlyOnCurrencyChangeDuringBet
  <2> QED
    BY Verdicts, DecreasesRule DEF SameCurrency
<1> QED
  BY EngineInvariant, <1>1, PTL

LEMMA Joined ==
  ASSUME NEW S, NEW a \in Seq(S), NEW b \in Seq(S)
  PROVE  /\ a \o b \in Seq(S) /\ Len(a) \in Nat /\ Len(b) \in Nat
         /\ DOMAIN (a \o b) = 1..Len(a) + Len(b) /\ Len(a \o b) = Len(a) + Len(b)
         /\ \A k \in 1..Len(a) : (a \o b)[k] = a[k]
         /\ \A k \in Len(a) + 1..Len(a) + Len(b) : (a \o b)[k] = b[k - Len(a)]
OBVIOUS

\* A rule reports once at most, under its own name.
LEMMA OwnName ==
  ASSUME NEW c, NEW j \in 1..4
  PROVE  /\ Found(j, c) \in Seq(Reports) /\ Len(Found(j, c)) \in {0, 1}
         /\ \A k \in 1..Len(Found(j, c)) : Found(j, c)[k].ruleId = DefaultRules[j]
         /\ Len(Found(j, c)) = 0 <=> Found(j, c) = << >>
<1>1. Found(j, c) \in Seq(Reports)
  BY RuleShape
<1>2. CASE Found(j, c) = << >>
  BY <1>1, <1>2
<1>3. ASSUME NEW severity \in {"critical", "high"}, Found(j, c) = <<Violation(DefaultRules[j], severity)>>
      PROVE  /\ Len(Found(j, c)) = 1 /\ Found(j, c) # << >>
             /\ \A k \in 1..1 : Found(j, c)[k].ruleId = DefaultRules[j]
  <2>1. Violation(DefaultRules[j], severity).ruleId = DefaultRules[j]
    BY DEF Violation
  <2> QED
    BY <1>3, <2>1
<1> QED
  BY <1>1, <1>2, <1>3, RuleShape

LEMMA JoinedNames ==
  ASSUME NEW a \in Seq(Reports), NEW b \in Seq(Reports), NEW P, NEW Q,
         \A k \in 1..Len(a) : a[k].ruleId \in P, \A k \in 1..Len(b) : b[k].ruleId \in Q
  PROVE  /\ a \o b \in Seq(Reports) /\ Len(a) \in Nat /\ Len(b) \in Nat
         /\ DOMAIN (a \o b) = 1..Len(a) + Len(b) /\ Len(a \o b) = Len(a) + Len(b)
         /\ \A k \in 1..Len(a) : (a \o b)[k].ruleId = a[k].ruleId
         /\ \A k \in 1..Len(a) : (a \o b)[k].ruleId \in P
         /\ \A k \in Len(a) + 1..Len(a) + Len(b) : (a \o b)[k].ruleId \in Q
<1> DEFINE n == Len(a) m == Len(b) ab == a \o b
<1>1. /\ ab \in Seq(Reports) /\ n \in Nat /\ m \in Nat /\ DOMAIN ab = 1..n + m /\ Len(ab) = n + m
      /\ \A k \in 1..n : ab[k] = a[k]
      /\ \A k \in n + 1..n + m : ab[k] = b[k - n]
  BY Joined
<1>2. \A k \in 1..m : b[k].ruleId \in Q
  OBVIOUS
<1> HIDE DEF n, m, ab
<1>3. \A k \in n + 1..n + m : k - n \in 1..m
  BY <1>1
<1>4. \A k \in n + 1..n + m : ab[k].ruleId \in Q
  BY <1>1, <1>2, <1>3
<1> QED
  BY <1>1, <1>4 DEF n, m, ab

\* The contributions to a verdict, by their places in it.
LEMMA Places ==
  ASSUME NEW c
  PROVE  LET vs == Found(1, c) \o Found(2, c) \o Found(3, c) \o Found(4, c)
             two == Len(Found(1, c)) + Len(Found(2, c))
             payout == two + Len(Found(3, c))
         IN /\ two \in Nat /\ payout \in Nat /\ DOMAIN vs = 1..payout + Len(Found(4, c))
            /\ \A k \in 1..two : vs[k].ruleId \in {DefaultRules[1], DefaultRules[2]}
            /\ \A k \in two + 1..payout : vs[k].ruleId \in {DefaultRules[3]}
            /\ \A k \in payout + 1..payout + Len(Found(4, c)) : vs[k].ruleId \in {DefaultRules[4]}
<1> DEFINE f1 == Found(1, c) f2 == Found(2, c) f3 == Found(3, c) f4 == Found(4, c)
           P == {DefaultRules[1], DefaultRules[2]} Q == {DefaultRules[3]} R == {DefaultRules[4]}
<1>1. /\ f1 \in Seq(Reports) /\ f2 \in Seq(Reports) /\ f3 \in Seq(Reports) /\ f4 \in Seq(Reports)
      /\ \A k \in 1..Len(f1) : f1[k].ruleId \in P
      /\ \A k \in 1..Len(f2) : f2[k].ruleId \in P
      /\ \A k \in 1..Len(f3) : f3[k].ruleId \in Q
      /\ \A k \in 1..Len(f4) : f4[k].ruleId \in R
  BY OwnName
<1> HIDE DEF f1, f2, f3, f4, P, Q, R
<1> DEFINE head == f1 \o f2 three == head \o f3 all == three \o f4
<1>2. /\ head \in Seq(Reports) /\ Len(head) = Len(f1) + Len(f2) /\ Len(head) \in Nat
      /\ \A k \in 1..Len(head) : head[k].ruleId \in P
  <2>1. /\ head \in Seq(Reports) /\ Len(f1) \in Nat /\ Len(f2) \in Nat /\ Len(head) = Len(f1) + Len(f2)
        /\ \A k \in 1..Len(f1) : head[k].ruleId \in P
        /\ \A k \in Len(f1) + 1..Len(f1) + Len(f2) : head[k].ruleId \in P
    BY <1>1, JoinedNames
  <2> HIDE DEF head
  <2> QED
    BY <2>1
<1> HIDE DEF head
<1>3. /\ three \in Seq(Reports) /\ Len(three) = Len(head) + Len(f3) /\ Len(f3) \in Nat
      /\ \A k \in 1..Len(head) : three[k].ruleId \in P
      /\ \A k \in Len(head) + 1..Len(head) + Len(f3) : three[k].ruleId \in Q
  BY <1>1, <1>2, JoinedNames
<1> HIDE DEF three
<1>4. /\ Len(f4) \in Nat /\ DOMAIN all = 1..Len(three) + Len(f4)
      /\ \A k \in 1..Len(three) : all[k].ruleId = three[k].ruleId
      /\ \A k \in Len(three) + 1..Len(three) + Len(f4) : all[k].ruleId \in R
  <2> DEFINE PQ == P \cup Q
  <2>1. \A k \in 1..Len(three) : three[k].ruleId \in PQ
    BY <1>2, <1>3
  <2> HIDE DEF PQ
  <2> QED
    BY <1>1, <1>3, <2>1, JoinedNames
<1> HIDE DEF all
<1>5. \A k \in 1..Len(head) : all[k].ruleId \in P
  BY <1>2, <1>3, <1>4
<1>6. \A k \in Len(head) + 1..Len(three) : all[k].ruleId \in Q
  BY <1>2, <1>3, <1>4
<1>7. /\ Len(head) \in Nat /\ Len(three) \in Nat
      /\ Len(head) = Len(f1) + Len(f2) /\ Len(three) = Len(f1) + Len(f2) + Len(f3)
  BY <1>2, <1>3
<1> QED
  BY <1>4, <1>5, <1>6, <1>7 DEF all, three, head, f1, f2, f3, f4, P, Q, R

\* In an Ok verdict the first places are those of the two balance rules, and the third
\* rule is among the reported ones exactly when it found something.
LEMMA Reporters ==
  ASSUME EngineInv, Done, verdict.is = "ok"
  PROVE  LET two == Len(Found(1, ctx)) + Len(Found(2, ctx))
         IN /\ two \in Nat
            /\ {k \in DOMAIN verdict.violations :
                  verdict.violations[k].ruleId \in {DefaultRules[1], DefaultRules[2]}} = 1..two
            /\ DefaultRules[3] \in Reported <=> Found(3, ctx) # << >>
<1> DEFINE vs == verdict.violations
           two == Len(Found(1, ctx)) + Len(Found(2, ctx))
           third == Len(Found(3, ctx)) fourth == Len(Found(4, ctx))
           P == {DefaultRules[1], DefaultRules[2]}
<1>1. vs = Found(1, ctx) \o Found(2, ctx) \o Found(3, ctx) \o Found(4, ctx)
  BY Verdicts
<1>2. /\ two \in Nat /\ two + third \in Nat /\ DOMAIN vs = 1..two + third + fourth
      /\ \A k \in 1..two : vs[k].ruleId \in P
      /\ \A k \in two + 1..two + third : vs[k].ruleId \in {DefaultRules[3]}
      /\ \A k \in two + third + 1..two + third + fourth : vs[k].ruleId \in {DefaultRules[4]}
  BY <1>1, Places
<1>3. third \in {0, 1} /\ fourth \in {0, 1} /\ (third = 0 <=> Found(3, ctx) = << >>)
  BY OwnName
<1>4. DefaultRules[3] \notin P /\ DefaultRules[4] \notin P /\ DefaultRules[3] # DefaultRules[4]
  BY FourRules
<1>5. Reported = {vs[k].ruleId : k \in DOMAIN vs}
  BY DEF Reported
<1> HIDE DEF vs, two, third, fourth, P
<1>6. {k \in DOMAIN vs : vs[k].ruleId \in P} = 1..two
  <2>1. \A k \in 1..two + third + fourth :
          \/ k \in 1..two
          \/ k \in two + 1..two + third
          \/ k \in two + third + 1..two + third + fourth
    BY <1>2, <1>3
  <2>2. \A k \in DOMAIN vs : k \in 1..two <=> vs[k].ruleId \in P
    BY <1>2, <1>4, <2>1
  <2>3. 1..two \subseteq DOMAIN vs
    BY <1>2, <1>3
  <2> QED
    BY <2>2, <2>3
<1>7. CASE third = 0
  <2>1. \A k \in DOMAIN vs : vs[k].ruleId # DefaultRules[3]
    <3>1. \A k \in 1..two + third + fourth :
            k \in 1..two \/ k \in two + third + 1..two + third + fourth
      BY <1>2, <1>3, <1>7
    <3> QED
      BY <1>2, <1>4, <3>1
  <2> QED
    BY <1>2, <1>3, <1>5, <1>6, <1>7, <2>1 DEF two, vs, P
<1>8. CASE third = 1
  <2>1. two + 1 \in DOMAIN vs /\ vs[two + 1].ruleId = DefaultRules[3]
    BY <1>2, <1>3, <1>8
  <2> QED
    BY <1>2, <1>3, <1>5, <1>6, <1>8, <2>1 DEF two, vs, P
<1> QED
  BY <1>3, <1>7, <1>8

\* Two amounts of money are the same when the currency is and the difference is nothing.
LEMMA SameMoney ==
  ASSUME NEW a \in MoneyValues, NEW b \in MoneyValues
  PROVE  /\ SubMoney(b, a).amount \in Int
         /\ a = b <=> SameCurrency(a, b) /\ SubMoney(b, a).amount = 0
<1>1. SubMoney(b, a).amount = b.amount - a.amount /\ a.amount \in Int /\ b.amount \in Int
  BY DEF SubMoney, MoneyValues
<1>2. a = b <=> a.currency = b.currency /\ a.amount = b.amount
  BY DEF MoneyValues
<1> QED
  BY <1>1, <1>2 DEF SameCurrency

\* On a verdict that is Ok, a visible change of the balance is reported by exactly one of
\* the two balance rules, unless it is a debit on a bet or any change on a cash-out.
THEOREM ChangeReportedOnce == EngineSpec => []BalanceChangeReportedOnce
<1>1. EngineInv => BalanceChangeReportedOnce
  <2> DEFINE b == ctx.before.balance
             a == ctx.after.balance
             same == SameCurrency(b, a)
             delta == BalanceDelta(ctx)
             explained == b = a \/ (same /\ (ctx.action = "cash-out" \/ (ctx.action = "place-bet" /\ delta < 0)))
             reports == {k \in DOMAIN verdict.violations :
                           verdict.violations[k].ruleId \in {DefaultRules[1], DefaultRules[2]}}
             first == Len(Found(1, ctx))
             second == Len(Found(2, ctx))
  <2> SUFFICES ASSUME EngineInv, Done, verdict.is = "ok", BothBalances(ctx)
               PROVE  Cardinality(reports) = IF explained THEN 0 ELSE 1
    BY Zenon DEF BalanceChangeReportedOnce
  <2>1. a \in MoneyValues /\ b \in MoneyValues
    BY ContextsAssumption DEF EngineInv, BothBalances
  <2>2. delta \in Int /\ (b = a <=> same /\ delta = 0)
    BY <2>1, SameMoney DEF BalanceDelta
  <2>3. ~(ctx.action = "place-bet" /\ ~same)
    BY Verdicts, DecreasesRule
  <2>4. first + second \in Nat /\ reports = 1..first + second
    BY Reporters
  <2>5. first = IF ~same \/ (delta # 0 /\ ctx.action \notin MoneyActions) THEN 1 ELSE 0
    <3>1. ~same \/ (delta # 0 /\ ctx.action \notin MoneyActions) => Found(1, ctx) # << >>
      BY StableRule, OneOrNone, Zenon
    <3>2. ~(~same \/ (delta # 0 /\ ctx.action \notin MoneyActions)) => Found(1, ctx) = << >>
      BY StableRule, Zenon
    <3> QED
      BY <3>1, <3>2, OwnName
  <2>6. second = IF ctx.action = "place-bet" /\ same /\ delta > 0 THEN 1 ELSE 0
    <3>1. ctx.action = "place-bet" /\ same /\ delta > 0 => Found(2, ctx) # << >>
      BY DecreasesRule, OneOrNone, Zenon
    <3>2. ~(ctx.action = "place-bet" /\ same /\ delta > 0) => Found(2, ctx) = << >>
      BY DecreasesRule, Zenon
    <3> QED
      BY <3>1, <3>2, OwnName
  <2> HIDE DEF a, b, same, delta, reports, first, second
  <2>7. first + second = IF explained THEN 0 ELSE 1
    BY <2>2, <2>3, <2>5, <2>6 DEF MoneyActions
  <2>8. Cardinality(reports) = first + second
    BY <2>4, FS_Interval
  <2> QED
    BY <2>7, <2>8
<1> QED
  BY EngineInvariant, <1>1, PTL

\* mulMoney's rounding is half a unit off at most.
LEMMA Rounding ==
  ASSUME NEW p \in Int
  PROVE  RoundHalfAway(p) \in Int /\ 200 * RoundHalfAway(p) - 2 * p \in -100..100
<1> DEFINE q == (2 * Abs(p) + 100) \div 200
<1>1. Abs(p) \in Nat /\ (p >= 0 => Abs(p) = p) /\ (p < 0 => Abs(p) = -p)
  BY DEF Abs
<1>2. q \in Int /\ 200 * q <= 2 * Abs(p) + 100 /\ 2 * Abs(p) + 100 < 200 * q + 200
  <2> DEFINE n == 2 * Abs(p) + 100
  <2>1. n \in Nat
    BY <1>1
  <2> HIDE DEF n
  <2>2. n \div 200 \in Int /\ 200 * (n \div 200) <= n /\ n < 200 * (n \div 200) + 200
    BY <2>1
  <2> QED
    BY <2>2 DEF n
<1>3. RoundHalfAway(p) = Sign(p) * q
  BY DEF RoundHalfAway, Hundredths
<1> HIDE DEF q
<1>4. CASE p > 0
  BY <1>1, <1>2, <1>3, <1>4 DEF Sign
<1>5. CASE p = 0
  BY <1>1, <1>2, <1>3, <1>5 DEF Sign
<1>6. CASE p < 0
  <2>1. RoundHalfAway(p) = -q
    BY <1>2, <1>3, <1>6 DEF Sign
  <2> QED
    BY <1>1, <1>2, <1>6, <2>1
<1> QED
  BY <1>4, <1>5, <1>6

\* With half a unit of rounding and a unit of tolerance, a payout more than a unit and a
\* half away from the exact product is always reported, and one less than that never is.
THEOREM PayoutJudged == EngineSpec => []PayoutTolerance
<1>1. EngineInv => PayoutTolerance
  <2> DEFINE played == ctx.after.round
             exact == played.betAmount.amount * played.multiplier
             rounded == RoundHalfAway(exact)
             paid == played.payout.amount
             twiceOff == 2 * Abs(Hundredths * paid - exact)
             told == DefaultRules[3] \in Reported
  <2> SUFFICES ASSUME EngineInv, Done, verdict.is = "ok", played # Null
               PROVE  IF ~CashedOutWithAmounts(played) THEN ~told
                      ELSE /\ twiceOff > 3 * Hundredths => told
                           /\ twiceOff < 3 * Hundredths => ~told
    BY Zenon DEF PayoutTolerance
  <2>1. told <=> CashedOutWithAmounts(played) /\ Abs(paid - rounded) > 1
    <3>1. MulMoney(played.betAmount, played.multiplier).amount = rounded /\ PayoutToleranceUnits = 1
      BY DEF MulMoney, PayoutToleranceUnits
    <3>2. told <=> Found(3, ctx) # << >>
      BY Reporters
    <3> QED
      BY <3>1, <3>2, PayoutRule, OneOrNone, Zenon
  <2>2. CASE ~CashedOutWithAmounts(played)
    BY <2>1, <2>2
  <2>3. CASE CashedOutWithAmounts(played)
    <3>1. paid \in Int /\ played.betAmount.amount \in Int /\ played.multiplier \in Int
      BY <2>3, ContextsAssumption DEF EngineInv, CashedOutWithAmounts, MoneyValues
    <3>2. exact \in Int
      BY <3>1
    <3>3. rounded \in Int /\ 200 * rounded - 2 * exact \in -100..100
      BY <3>2, Rounding
    <3> HIDE DEF exact, rounded, paid, told
    <3>4. /\ twiceOff > 300 => Abs(paid - rounded) > 1
          /\ twiceOff < 300 => ~(Abs(paid - rounded) > 1)
      BY <3>1, <3>2, <3>3 DEF Abs, Hundredths
    <3> QED
      BY <2>1, <2>3, <3>4 DEF Hundredths
  <2> QED
    BY <2>2, <2>3
<1> QED
  BY EngineInvariant, <1>1, PTL

-----------------------------------------------------------------------------
(* The oracle over a game: GameInv is inductive for PlayedGame.            *)

Ids(vs) == {vs[k].ruleId : k \in DOMAIN vs}

\* The names in a sequence of violations, and in two of them one after the other.
LEMMA IdsJoined ==
  ASSUME NEW a \in Seq(Reports), NEW b \in Seq(Reports)
  PROVE  a \o b \in Seq(Reports) /\ Ids(a \o b) = Ids(a) \cup Ids(b)
<1> DEFINE n == Len(a) m == Len(b) ab == a \o b
<1>1. /\ ab \in Seq(Reports) /\ n \in Nat /\ m \in Nat /\ DOMAIN ab = 1..n + m
      /\ DOMAIN a = 1..n /\ DOMAIN b = 1..m
      /\ \A k \in 1..n : ab[k] = a[k]
      /\ \A k \in n + 1..n + m : ab[k] = b[k - n]
  BY Joined
<1> HIDE DEF n, m, ab
<1>2. \A k \in DOMAIN a : k \in DOMAIN ab /\ ab[k] = a[k]
  BY <1>1
<1>3. \A k \in DOMAIN b : k + n \in DOMAIN ab /\ ab[k + n] = b[k]
  <2> SUFFICES ASSUME NEW k \in DOMAIN b
               PROVE  k + n \in DOMAIN ab /\ ab[k + n] = b[k]
    OBVIOUS
  <2>1. k + n \in n + 1..n + m /\ (k + n) - n = k
    BY <1>1
  <2> QED
    BY <1>1, <2>1
<1>4. \A k \in DOMAIN ab : k \in DOMAIN a \/ (k - n \in DOMAIN b /\ ab[k] = b[k - n])
  BY <1>1
<1>5. Ids(ab) = Ids(a) \cup Ids(b)
  BY <1>2, <1>3, <1>4 DEF Ids
<1> QED
  BY <1>1, <1>5 DEF ab

\* A verdict names the rules that found something, each under its own name.
LEMMA NamesFound ==
  ASSUME NEW c, ~Threw(2, c), NEW j \in 1..4
  PROVE  DefaultRules[j] \in Ids(Evaluate(c).violations) <=> Found(j, c) # << >>
<1> DEFINE f1 == Found(1, c) f2 == Found(2, c) f3 == Found(3, c) f4 == Found(4, c)
<1>1. f1 \in Seq(Reports) /\ f2 \in Seq(Reports) /\ f3 \in Seq(Reports) /\ f4 \in Seq(Reports)
  BY OwnName
<1>2. \A k \in 1..4 : Ids(Found(k, c)) = IF Found(k, c) = << >> THEN {} ELSE {DefaultRules[k]}
  <2> SUFFICES ASSUME NEW k \in 1..4
               PROVE  Ids(Found(k, c)) = IF Found(k, c) = << >> THEN {} ELSE {DefaultRules[k]}
    OBVIOUS
  <2> DEFINE f == Found(k, c)
  <2>1. /\ f \in Seq(Reports) /\ Len(f) \in {0, 1} /\ (Len(f) = 0 <=> f = << >>)
        /\ \A n \in 1..Len(f) : f[n].ruleId = DefaultRules[k]
    BY OwnName
  <2> HIDE DEF f
  <2>0. DOMAIN f = 1..Len(f)
    BY <2>1
  <2>2. Len(f) = 0 => Ids(f) = {}
    <3>1. Len(f) = 0 => \A n : n \notin DOMAIN f
      BY <2>0
    <3> QED
      BY <3>1 DEF Ids
  <2>3. Len(f) = 1 => Ids(f) = {DefaultRules[k]}
    <3>1. Len(f) = 1 => \A n : n \in DOMAIN f <=> n = 1
      BY <2>0
    <3>2. Len(f) = 1 => f[1].ruleId = DefaultRules[k]
      BY <2>1
    <3> QED
      BY <3>1, <3>2 DEF Ids
  <2>4. Ids(f) = IF f = << >> THEN {} ELSE {DefaultRules[k]}
    BY <2>1, <2>2, <2>3
  <2> QED
    BY <2>4 DEF f
<1>3. Ids(f1 \o f2 \o f3 \o f4) = Ids(f1) \cup Ids(f2) \cup Ids(f3) \cup Ids(f4)
  <2> HIDE DEF f1, f2, f3, f4
  <2> DEFINE head == f1 \o f2 three == head \o f3
  <2>1. head \in Seq(Reports) /\ Ids(head) = Ids(f1) \cup Ids(f2)
    BY <1>1, IdsJoined
  <2> HIDE DEF head
  <2>2. three \in Seq(Reports) /\ Ids(three) = Ids(head) \cup Ids(f3)
    BY <1>1, <2>1, IdsJoined
  <2> HIDE DEF three
  <2>3. Ids(three \o f4) = Ids(three) \cup Ids(f4)
    BY <1>1, <2>2, IdsJoined
  <2> QED
    BY <2>1, <2>2, <2>3 DEF three, head
<1>4. Evaluate(c).violations = f1 \o f2 \o f3 \o f4
  BY ClosedForm
<1>5. \A k, n \in 1..4 : DefaultRules[k] = DefaultRules[n] => k = n
  BY FourRules
<1>6. j = 1 \/ j = 2 \/ j = 3 \/ j = 4
  OBVIOUS
<1>7. \A k \in 1..4 : DefaultRules[j] \in Ids(Found(k, c)) <=> k = j /\ Found(j, c) # << >>
  BY <1>2, <1>5
<1>8. 1 \in 1..4 /\ 2 \in 1..4 /\ 3 \in 1..4 /\ 4 \in 1..4
  OBVIOUS
<1> QED
  BY <1>3, <1>4, <1>6, <1>7, <1>8

\* The parts of GameInv about the game, and those about the oracle, which only Judge touches.
LEMMA VerdictKept ==
  ASSUME GameInv, UNCHANGED <<wording, judged>>, MovesInv', ShotInv'
  PROVE  GameInv'
BY DEF GameInv, VerdictMatchesGame, JustAccusations, Accused

LEMMA GameInitInv == GameInit => GameInv
<1> SUFFICES ASSUME GameInit PROVE GameInv
  OBVIOUS
<1> USE GameAssumption
<1>1. current.balance = Euros(balance - captured.sum - later.sum)
  BY DEF GameInit, FinalizeState, Shown, Still, Euros
<1>2. MovesInv
  BY <1>1 DEF GameInit, MovesInv, Accounted, Still
<1>3. Genuine(Shown)
  BY DEF GameInit, Genuine, Shown
<1>4. ShotInv
  BY <1>3 DEF GameInit, ShotInv, Idle, Stages
<1>5. VerdictMatchesGame /\ JustAccusations
  BY DEF GameInit, VerdictMatchesGame, JustAccusations
<1> QED
  BY <1>2, <1>4, <1>5 DEF GameInv

\* Money moves; what the runner looks at does not.
LEMMA MoveInv ==
  ASSUME GameInv, NEW kind, NEW amount \in Int, Move(kind, amount),
         kind \in {"paid", "refund", "fault"} \/ amount <= 0,
         stake' \in {0, Stake}, Genuine(Shown)'
  PROVE  GameInv'
<1>1. /\ balance' = balance + amount /\ later' = Moved(later, kind, amount)
      /\ UNCHANGED <<runVars, wording, shot, captured, judged>>
  BY DEF Move
<1>2. UNCHANGED <<obs, pc, before, current>>
  BY <1>1 DEF runVars, obsVars, scnVars
<1>3. /\ balance \in Int /\ captured.sum \in Int /\ later.sum \in Int
      /\ later'.sum = later.sum + amount /\ later'.kinds = later.kinds \cup {kind}
  BY <1>1 DEF GameInv, MovesInv, Accounted, Moved
<1>4. Accounted(later)'
  BY <1>3 DEF GameInv, MovesInv, Accounted
<1>5. balance' - captured'.sum - later'.sum = balance - captured.sum - later.sum
  BY <1>1, <1>3
<1>6. balance' - later'.sum = balance - later.sum
  BY <1>1, <1>3
<1>7. MovesInv'
  BY <1>1, <1>2, <1>3, <1>4, <1>5 DEF GameInv, MovesInv, Accounted
<1>8. ShotInv'
  BY <1>1, <1>2, <1>6 DEF GameInv, ShotInv, Genuine
<1> QED
  BY <1>1, <1>7, <1>8, VerdictKept

\* Any way of rounding pays a whole number of units.
LEMMA PayoutType ==
  ASSUME NEW m \in Multipliers, NEW payout \in Payouts(m)
  PROVE  m \in Int /\ Stake * m \in Int /\ payout \in Int
<1>1. m \in Int /\ Stake * m \in Int
  BY GameAssumption
<1> DEFINE x == Stake * m
<1>2. payout = x \div 100 \/ payout = (x + 99) \div 100
  BY <1>1 DEF Payouts, Hundredths
<1> HIDE DEF x
<1>3. x \in Int
  BY <1>1 DEF x
<1> QED
  BY <1>1, <1>2, <1>3

LEMMA GameStepInv ==
  ASSUME GameInv, GameStep
  PROVE  GameInv'
<1> USE GameAssumption
<1>0. stake \in {0, Stake} /\ Genuine(Shown)
  BY DEF GameInv, MovesInv, ShotInv
<1>1. CASE TakeBet
  <2>1. Move("bet", -Stake) /\ stake' = Stake /\ shownRound' = Round("pending", Null, Null) /\ wording' = wording
    BY <1>1 DEF TakeBet, Move
  <2>2. Genuine(Shown)'
    <3>1. stake' > 0
      BY <2>1
    <3>2. Shown'.round = shownRound' /\ Shown'.elements = <<[label |-> {wording}, enabled |-> TRUE]>>
      BY <2>1, <3>1 DEF Shown
    <3>3. shownRound'.outcome = "pending" /\ shownRound'.betAmount = Euros(Stake)
      BY <2>1 DEF Round
    <3> QED
      BY <2>1, <3>2, <3>3 DEF Genuine
  <2>3. -Stake \in Int /\ -Stake <= 0
    OBVIOUS
  <2> QED
    BY <2>1, <2>2, <2>3, MoveInv
<1>2. CASE DropClicks
  <2>1. UNCHANGED <<runVars, wording, balance, shownRound, stake, shot, faulty, captured, later, judged>>
    BY <1>2 DEF DropClicks
  <2>2. UNCHANGED <<obs, pc, before, current>>
    BY <2>1 DEF runVars, obsVars, scnVars
  <2>3. MovesInv' /\ ShotInv'
    BY <2>1, <2>2 DEF GameInv, MovesInv, ShotInv, Accounted, Genuine, Shown
  <2> QED
    BY <2>1, <2>3, VerdictKept
<1>3. CASE Pay
  <2>1. PICK m \in Multipliers : \E payout \in Payouts(m) :
          /\ Move("paid", payout)
          /\ shownRound' = Round(IF cashClick THEN "cashed-out" ELSE "win", m, Euros(payout))
    BY <1>3 DEF Pay
  <2>2. PICK payout \in Payouts(m) :
          /\ Move("paid", payout)
          /\ shownRound' = Round(IF cashClick THEN "cashed-out" ELSE "win", m, Euros(payout))
    BY <2>1
  <2>3. stake' = 0 /\ payout \in Int
    BY <1>3, PayoutType DEF Pay
  <2>4. /\ shownRound'.outcome \in {"cashed-out", "win"} /\ shownRound'.betAmount = Euros(Stake)
        /\ shownRound'.multiplier = m /\ shownRound'.payout = Euros(payout)
    BY <2>2 DEF Round
  <2>5. Shown'.round = shownRound'
    BY DEF Shown
  <2>6. Genuine(Shown)'
    BY <2>4, <2>5 DEF Genuine
  <2> QED
    BY <2>2, <2>3, <2>6, MoveInv
<1>4. CASE Lose
  <2>1. Move("lost", 0) /\ stake' = 0 /\ shownRound' = Round("loss", Null, Null)
    BY <1>4 DEF Lose
  <2>2. Genuine(Shown)'
    BY <2>1 DEF Genuine, Shown, Round
  <2> QED
    BY <2>1, <2>2, MoveInv
<1>5. CASE Refund
  <2>1. Move("refund", Stake) /\ stake' = 0 /\ shownRound' = Null
    BY <1>5 DEF Refund
  <2>2. Genuine(Shown)'
    BY <2>1 DEF Genuine, Shown
  <2> QED
    BY <2>1, <2>2, MoveInv
<1>6. CASE CreditFromNowhere
  <2>1. Move("fault", 1) /\ UNCHANGED <<shownRound, stake>> /\ wording' = wording
    BY <1>6 DEF CreditFromNowhere, Move
  <2>2. Genuine(Shown)'
    BY <1>0, <2>1 DEF Genuine, Shown
  <2> QED
    BY <1>0, <2>1, <2>2, MoveInv
<1> QED
  BY <1>1, <1>2, <1>3, <1>4, <1>5, <1>6 DEF GameStep

LEMMA ExecuteInv ==
  ASSUME GameInv, Execute
  PROVE  GameInv'
<1>1. UNCHANGED <<wording, balance, shownRound, stake, shot, captured, later, judged, current>>
  BY DEF Execute, ExecuteOk, ExecuteErr
<1>2. /\ pc' = "observe" => before' = current
      /\ \/ obs' = obs
         \/ obs'.at = "screenshot" /\ DOMAIN obs' = {"at", "key", "state"}
  BY DEF Execute, ExecuteOk, ExecuteErr, Observing, obsVars
<1>3. MovesInv'
  BY <1>1, <1>2 DEF GameInv, MovesInv, Accounted
<1>4. Genuine(Shown)' /\ (Genuine(shot) => Genuine(shot)')
  BY <1>1 DEF GameInv, ShotInv, Genuine, Shown
<1>5. ShotInv'
  BY <1>1, <1>2, <1>4 DEF GameInv, ShotInv, Stages
<1> QED
  BY <1>1, <1>3, <1>5, VerdictKept

\* The money that moved up to the screenshot is accounted for at the screenshot.
LEMMA TakeScreenshotInv ==
  ASSUME GameInv, TakeScreenshot
  PROVE  GameInv'
<1>1. /\ shot' = Shown /\ captured' = Both(captured, later) /\ later' = Still
      /\ obs' = [obs EXCEPT !.at = "put"]
      /\ UNCHANGED <<wording, balance, shownRound, stake, judged, pc, before, current>>
  BY DEF TakeScreenshot, Screenshot, scnVars
<1>2. /\ captured.sum \in Int /\ later.sum \in Int /\ balance \in Int
      /\ captured'.sum = captured.sum + later.sum /\ captured'.kinds = captured.kinds \cup later.kinds
      /\ later'.sum = 0
  BY <1>1 DEF GameInv, MovesInv, Accounted, Both, Still
<1>3. Accounted(captured)' /\ Accounted(later)'
  BY <1>2 DEF GameInv, MovesInv, Accounted
<1>4. balance' - captured'.sum - later'.sum = balance - captured.sum - later.sum /\ balance' - later'.sum = balance
  BY <1>1, <1>2
<1>5. MovesInv'
  BY <1>1, <1>3, <1>4 DEF GameInv, MovesInv
<1>6. Genuine(Shown)' /\ Genuine(shot)'
  BY <1>1 DEF GameInv, ShotInv, Genuine, Shown
<1>7. shot'.balance = Euros(balance)
  BY <1>1 DEF Shown
<1>8. DOMAIN obs' = {"at", "key", "state"} /\ obs'.at = "put"
  BY <1>1 DEF GameInv, ShotInv
<1>9. ShotInv'
  BY <1>4, <1>6, <1>7, <1>8 DEF ShotInv, Stages
<1> QED
  BY <1>1, <1>5, <1>9, VerdictKept

\* What follows the screenshot works on it, whatever the game has done since.
LEMMA ObservationInv ==
  ASSUME GameInv, ReadScreen \/ ObservationGoesOn
  PROVE  GameInv'
<1>1. UNCHANGED <<wording, balance, shownRound, stake, shot, captured, later, judged, pc, before, current>>
  BY DEF ReadScreen, ObservationGoesOn, Untouched, gameVars, scnVars
<1>2. DOMAIN obs = {"at", "key", "state"}
  BY DEF GameInv, ShotInv
<1>3. \/ /\ obs.at = "llm" /\ obs' = [obs EXCEPT !.at = "ok", !.state = FinalizeState(shot, obs.key)]
      \/ /\ obs.at \in {"screenshot", "put", "ocr", "llm"}
         /\ \E to \in {"ocr", "llm", "throw", "err"} : obs' = [obs EXCEPT !.at = to]
         /\ obs'.at \in {"ocr", "llm"} => obs.at \in {"put", "ocr"}
  <2>1. CASE ReadScreen
    BY <2>1 DEF ReadScreen
  <2>2. CASE PutArtifact \/ ExtractText \/ ExtractStateThrows
    BY <1>2, <2>2 DEF PutArtifact, ExtractText, ExtractStateThrows
  <2>3. ASSUME NEW at \in {"screenshot", "put", "ocr", "llm"}, Fail(at)
        PROVE  /\ obs.at \in {"screenshot", "put", "ocr", "llm"} /\ obs' = [obs EXCEPT !.at = "err"]
               /\ obs'.at = "err"
    BY <1>2, <2>3 DEF Fail
  <2> QED
    BY <2>1, <2>2, <2>3 DEF ObservationGoesOn
<1>4. MovesInv'
  BY <1>1 DEF GameInv, MovesInv, Accounted
<1>5. Genuine(Shown)' /\ (Genuine(shot) => Genuine(shot)')
  BY <1>1 DEF GameInv, ShotInv, Genuine, Shown
<1>6. /\ DOMAIN obs' = {"at", "key", "state"} /\ obs'.at \in Stages
      /\ obs'.at \in {"put", "ocr", "llm", "ok"} => obs.at \in {"put", "ocr", "llm", "ok"}
      /\ obs'.at = "ok" => obs'.state = FinalizeState(shot, obs'.key)
  BY <1>2, <1>3 DEF Stages
<1>7. ShotInv'
  BY <1>1, <1>5, <1>6 DEF GameInv, ShotInv
<1> QED
  BY <1>1, <1>4, <1>7, VerdictKept

LEMMA RunnerGoesOnInv ==
  ASSUME GameInv, RunnerGoesOn
  PROVE  GameInv'
<1>1. UNCHANGED <<wording, balance, shownRound, stake, shot, captured, later, judged>>
  BY DEF RunnerGoesOn, Untouched, gameVars
<1>2. current' = current /\ (obs' = obs \/ obs' = Idle) /\ (pc' = "observe" => pc = "observe" /\ before' = before)
  <2>1. ASSUME NEW s \in Scenarios, Run(s)
        PROVE  current' = current /\ obs' = obs /\ pc' = "act"
    BY <2>1 DEF Run, obsVars
  <2>2. CASE NotObserved \/ ObservationThrows \/ Return
    BY <2>2 DEF NotObserved, ObservationThrows, Return, obsVars
  <2>3. ASSUME NEW ok \in WriteOutcomes, Persist(ok)
        PROVE  /\ current' = current /\ obs' = obs /\ pc' # "observe"
    BY <2>3 DEF Persist, obsVars
  <2> QED
    BY <2>1, <2>2, <2>3 DEF RunnerGoesOn
<1>3. MovesInv'
  BY <1>1, <1>2 DEF GameInv, MovesInv, Accounted
<1>4. Genuine(Shown)' /\ (Genuine(shot) => Genuine(shot)')
  BY <1>1 DEF GameInv, ShotInv, Genuine, Shown
<1>5. ShotInv'
  BY <1>1, <1>2, <1>4 DEF GameInv, ShotInv, Idle, Stages
<1> QED
  BY <1>1, <1>3, <1>5, VerdictKept

\* Whichever way the game rounds, its payout is within the tolerance of the rounded product.
LEMMA PayoutsTolerated ==
  ASSUME NEW m \in Multipliers, NEW payout \in Payouts(m)
  PROVE  ~(Abs(payout - RoundHalfAway(Stake * m)) > PayoutToleranceUnits)
<1> DEFINE x == Stake * m r == RoundHalfAway(x)
<1>1. x \in Int /\ payout \in Int
  BY PayoutType
<1>2. r \in Int /\ 200 * r - 2 * x \in -100..100
  BY <1>1, Rounding
<1>3. payout = x \div 100 \/ payout = (x + 99) \div 100
  BY DEF Payouts, Hundredths
<1> HIDE DEF x, r
<1>4. 100 * payout <= x + 99 /\ x - 99 <= 100 * payout
  BY <1>1, <1>3
<1>5. payout - r <= 1 /\ r - payout <= 1
  BY <1>1, <1>2, <1>4
<1> QED
  BY <1>1, <1>2, <1>5 DEF Abs, PayoutToleranceUnits, r, x

\* The transition that is judged: its balances differ by what moved in between, and its
\* last state is a screen of the game.
Judged == [before |-> before, after |-> obs.state, action |-> actions[i]]

LEMMA JudgedTransition ==
  ASSUME GameInv, pc = "observe", obs.at = "ok"
  PROVE  /\ BothBalances(Judged) /\ SameCurrency(Judged.before.balance, Judged.after.balance)
         /\ BalanceDelta(Judged) = captured.sum /\ captured.sum \in Int
         /\ Judged.action = actions[i] /\ Judged.after = obs.state
         /\ obs.state.round = shot.round /\ obs.state.elements = shot.elements
         /\ Genuine(shot) /\ Accounted(captured)
<1>1. /\ balance \in Int /\ captured.sum \in Int /\ later.sum \in Int /\ Accounted(captured)
      /\ before.balance = Euros(balance - captured.sum - later.sum)
      /\ shot.balance = Euros(balance - later.sum) /\ Genuine(shot)
      /\ obs.state = FinalizeState(shot, obs.key)
  BY DEF GameInv, MovesInv, ShotInv, Accounted
<1>2. /\ obs.state.balance = shot.balance /\ obs.state.round = shot.round
      /\ obs.state.elements = shot.elements
  BY <1>1 DEF FinalizeState
<1>3. \A n \in Int : /\ Euros(n) \in [amount : Int, currency : {"EUR"}] /\ Euros(n) # Null
                     /\ Euros(n).amount = n /\ Euros(n).currency = "EUR"
  BY NullMoneyAssumption DEF Euros
<1>4. Judged.before = before /\ Judged.after = obs.state /\ Judged.action = actions[i]
  BY DEF Judged
<1>5. BothBalances(Judged) /\ SameCurrency(Judged.before.balance, Judged.after.balance)
  BY <1>1, <1>2, <1>3, <1>4 DEF BothBalances, SameCurrency
<1>6. BalanceDelta(Judged) = (balance - later.sum) - (balance - captured.sum - later.sum)
  BY <1>1, <1>2, <1>3, <1>4 DEF BalanceDelta, SubMoney
<1>7. BalanceDelta(Judged) = captured.sum
  BY <1>1, <1>6
<1> QED
  BY <1>1, <1>2, <1>4, <1>5, <1>7

\* Which rules the verdict on it names.
LEMMA JudgedRules ==
  ASSUME GameInv, Judge
  PROVE  /\ judged'.action = actions[i] /\ judged'.moves = captured
         /\ \A j \in 1..4 : DefaultRules[j] \in judged'.rules <=> Found(j, Judged) # << >>
<1> DEFINE vs == Evaluate(Judged).violations
<1>1. /\ pc = "observe" /\ obs.at = "ok" /\ todo' = [k \in DOMAIN vs |-> OracleFailure(vs[k])]
      /\ judged' = [action |-> actions[i], moves |-> captured,
                    rules |-> {todo'[k].ruleId : k \in DOMAIN todo'}]
  BY DEF Judge, Observed, Verdict, Judged
<1>2. \A v : OracleFailure(v).ruleId = v.ruleId
  BY DEF OracleFailure
<1>3. judged'.action = actions[i] /\ judged'.moves = captured /\ judged'.rules = {todo'[k].ruleId : k \in DOMAIN todo'}
  BY <1>1
<1> HIDE DEF vs
<1>4. judged'.rules = Ids(vs)
  BY <1>1, <1>2, <1>3 DEF Ids
<1>5. ~Threw(2, Judged)
  BY <1>1, JudgedTransition, DecreasesRule
<1> QED
  BY <1>3, <1>4, <1>5, NamesFound DEF vs

LEMMA JudgeInv ==
  ASSUME GameInv, Judge
  PROVE  GameInv'
<1>1. /\ pc = "observe" /\ obs.at = "ok" /\ obs' = Idle /\ pc' \in {"act", "persist"}
      /\ current' = obs.state /\ captured' = Still
      /\ UNCHANGED <<wording, balance, shownRound, stake, later>>
  BY DEF Judge, Observed
<1>2. /\ judged'.action = actions[i] /\ judged'.moves = captured
      /\ \A j \in 1..4 : DefaultRules[j] \in judged'.rules <=> Found(j, Judged) # << >>
  BY JudgedRules
<1>3. /\ BothBalances(Judged) /\ SameCurrency(Judged.before.balance, Judged.after.balance)
      /\ BalanceDelta(Judged) = captured.sum /\ captured.sum \in Int
      /\ Judged.action = actions[i] /\ Judged.after = obs.state
      /\ obs.state.round = shot.round /\ obs.state.elements = shot.elements
      /\ Genuine(shot) /\ Accounted(captured)
  BY <1>1, JudgedTransition
<1>4. Accused("balance-stable-without-money-action")'
        <=> captured.sum # 0 /\ actions[i] \notin MoneyActions
  <2>1. Found(1, Judged) # << >> <=> captured.sum # 0 /\ actions[i] \notin MoneyActions
    <3>1. captured.sum # 0 /\ actions[i] \notin MoneyActions => Found(1, Judged) # << >>
      <4>1. captured.sum # 0 /\ actions[i] \notin MoneyActions =>
              \E severity \in {"critical", "high"} :
                Found(1, Judged) = <<Violation(DefaultRules[1], severity)>>
        BY <1>3, StableRule, Zenon
      <4> QED
        BY <4>1, OneOrNone, Zenon
    <3>2. ~(captured.sum # 0 /\ actions[i] \notin MoneyActions) => Found(1, Judged) = << >>
      BY <1>3, StableRule, Zenon
    <3> QED
      BY <3>1, <3>2
  <2> QED
    BY <1>2, <2>1, FourRules DEF Accused
<1>5. Accused("balance-decreases-on-bet")' <=> captured.sum > 0 /\ actions[i] = "place-bet"
  <2>1. Found(2, Judged) # << >> <=> captured.sum > 0 /\ actions[i] = "place-bet"
    BY <1>3, DecreasesRule, OneOrNone, Zenon
  <2> QED
    BY <1>2, <2>1, FourRules DEF Accused
<1>6. ~Accused("payout-matches-multiplier")'
  <2>1. ASSUME shot.round # Null, CashedOutWithAmounts(shot.round)
        PROVE  ~(Abs(shot.round.payout.amount
                       - MulMoney(shot.round.betAmount, shot.round.multiplier).amount)
                   > PayoutToleranceUnits)
    <3>1. /\ shot.round.betAmount = Euros(Stake) /\ shot.round.multiplier \in Multipliers
          /\ \E payout \in Payouts(shot.round.multiplier) : shot.round.payout = Euros(payout)
      BY <1>3, <2>1 DEF Genuine, CashedOutWithAmounts
    <3>2. PICK payout \in Payouts(shot.round.multiplier) : shot.round.payout = Euros(payout)
      BY <3>1
    <3>3. /\ MulMoney(shot.round.betAmount, shot.round.multiplier).amount
               = RoundHalfAway(Stake * shot.round.multiplier)
          /\ shot.round.payout.amount = payout
      BY <3>1, <3>2 DEF MulMoney, Euros
    <3> QED
      BY <3>1, <3>3, PayoutsTolerated
  <2>2. Found(3, Judged) = << >>
    BY <1>3, <2>1, PayoutRule, Zenon
  <2> QED
    BY <1>2, <2>2, FourRules DEF Accused
<1>7. Accused("cash-out-available-mid-round")' => wording # "cash out"
  <2>1. ASSUME wording = "cash out", shot.round # Null, shot.round.outcome = "pending"
        PROVE  /\ CashOutControls(obs.state) = {1}
               /\ obs.state.elements[1].enabled = TRUE
    <3> DEFINE control == [label |-> {"cash out"}, enabled |-> TRUE]
    <3>1. obs.state.elements = <<control>>
      BY <1>3, <2>1 DEF Genuine
    <3>2. control.label = {"cash out"} /\ control.enabled = TRUE
      OBVIOUS
    <3> HIDE DEF control
    <3>3. DOMAIN <<control>> = {1} /\ <<control>>[1] = control
      OBVIOUS
    <3>4. DOMAIN obs.state.elements = {1} /\ obs.state.elements[1] = control
      BY <3>1, <3>3
    <3> QED
      BY <3>2, <3>4 DEF CashOutControls
  <2>2. Min({1}) = 1
    BY DEF Min
  <2>3. wording = "cash out" => Found(4, Judged) = << >>
    BY <1>3, <2>1, <2>2, CashOutRule, Zenon
  <2>4. Accused("cash-out-available-mid-round")' <=> Found(4, Judged) # << >>
    BY <1>2, FourRules DEF Accused
  <2> QED
    BY <2>3, <2>4, Zenon
<1>8. VerdictMatchesGame'
  BY <1>2, <1>4, <1>5 DEF VerdictMatchesGame
<1>9. JustAccusations'
  <2>1. Accused("balance-decreases-on-bet")' /\ "fault" \notin captured.kinds =>
          {"paid", "refund"} \cap captured.kinds # {}
    BY <1>3, <1>5 DEF Accounted
  <2> QED
    BY <1>1, <1>2, <1>6, <1>7, <2>1 DEF JustAccusations
<1>10. MovesInv'
  <2>1. /\ Still.sum = 0 /\ Accounted(captured)'
        /\ obs.state.balance = Euros(balance - later.sum) /\ balance \in Int /\ later.sum \in Int
    BY <1>1 DEF GameInv, MovesInv, ShotInv, FinalizeState, Accounted, Still
  <2>2. balance' - captured'.sum - later'.sum = balance - later.sum
    BY <1>1, <2>1
  <2> QED
    BY <1>1, <2>1, <2>2 DEF GameInv, MovesInv, Accounted
<1>11. ShotInv'
  BY <1>1 DEF GameInv, ShotInv, Genuine, Shown, Idle, Stages
<1> QED
  BY <1>8, <1>9, <1>10, <1>11 DEF GameInv

\* GameInv holds of every run of the runner over a game.
THEOREM GameInvariant == Spec => []GameInv
<1>1. GameInv /\ [Next]_vars => GameInv'
  <2> SUFFICES ASSUME GameInv, [Next]_vars PROVE GameInv'
    OBVIOUS
  <2>1. CASE UNCHANGED vars
    <3>1. UNCHANGED <<runVars, gameVars>>
      BY <2>1 DEF vars
    <3>2. UNCHANGED <<wording, balance, shownRound, stake, shot, captured, later, judged, obs, pc,
                      before, current>>
      BY <3>1 DEF runVars, obsVars, scnVars, gameVars
    <3>3. MovesInv' /\ ShotInv'
      BY <3>2 DEF GameInv, MovesInv, ShotInv, Accounted, Genuine, Shown
    <3> QED
      BY <3>2, <3>3, VerdictKept
  <2> QED
    BY <2>1, GameStepInv, ExecuteInv, TakeScreenshotInv, ObservationInv, JudgeInv, RunnerGoesOnInv
    DEF Next
<1> QED
  BY GameInitInv, <1>1, PTL DEF Spec

\* For every stake, every set of multipliers and every scenario: a balance is reported to
\* have changed without a money action, or to have grown on a bet, exactly when it did
\* between the two screenshots the oracle compared.
THEOREM VerdictSound == Spec => []VerdictMatchesGame
<1>1. GameInv => VerdictMatchesGame
  BY DEF GameInv
<1> QED
  BY GameInvariant, <1>1, PTL

\* A game that credits nothing out of nowhere is accused of growing on a bet only when it
\* paid or refunded a round meanwhile, of hiding its cash-out control only when it calls
\* it something else, and never of a wrong payout, whichever way it rounds.
THEOREM AccusationsJust == Spec => []JustAccusations
<1>1. GameInv => JustAccusations
  BY DEF GameInv
<1> QED
  BY GameInvariant, <1>1, PTL
=============================================================================
