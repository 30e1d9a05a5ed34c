------------------------ MODULE ScenarioRunnerProofs ------------------------
(***************************************************************************)
(* For every set of scenarios, of screens and of currencies, and with or   *)
(* without storage errors: ScnInv is inductive for ScenarioRunner, and     *)
(* with it the blame of a violation, its evidence and the uniqueness of    *)
(* artifact keys.                                                          *)
(***************************************************************************)
EXTENDS ScenarioRunner, SequenceTheorems, TLAPS

Violations == [ruleId : RuleIds, severity : {"critical", "high"}]

\* The shape Returns builds.
LEMMA SingletonSeq == \A S : \A x \in S : <<x>> \in Seq(S)
OBVIOUS

\* A rule returns a sequence of violations with ids of the default rules.
LEMMA RuleResultType ==
  ASSUME NEW k \in DOMAIN DefaultRules, NEW ctx
  PROVE  EvaluateRule(k, ctx).violations \in Seq(Violations)
<1>1. k \in {1, 2, 3, 4}
  BY DEF DefaultRules
<1>2. /\ "balance-stable-without-money-action" \in RuleIds
      /\ "balance-decreases-on-bet" \in RuleIds
      /\ "payout-matches-multiplier" \in RuleIds
      /\ "cash-out-available-mid-round" \in RuleIds
  <2>1. DOMAIN DefaultRules = 1..4
    BY DEF DefaultRules
  <2>2. \A j \in 1..4 : DefaultRules[j] \in RuleIds
    BY <2>1 DEF RuleIds
  <2>3. /\ DefaultRules[1] = "balance-stable-without-money-action"
        /\ DefaultRules[2] = "balance-decreases-on-bet"
        /\ DefaultRules[3] = "payout-matches-multiplier"
        /\ DefaultRules[4] = "cash-out-available-mid-round"
    BY DEF DefaultRules
  <2>4. 1 \in 1..4 /\ 2 \in 1..4 /\ 3 \in 1..4 /\ 4 \in 1..4
    OBVIOUS
  <2> QED
    BY <2>2, <2>3, <2>4, Zenon
<1>3. Silent.violations \in Seq(Violations) /\ Throws.violations \in Seq(Violations)
  BY DEF Silent, Throws, Returns
<1>4. \A id \in RuleIds, severity \in {"critical", "high"} :
        Returns(<<Violation(id, severity)>>).violations \in Seq(Violations)
  <2> SUFFICES ASSUME NEW id \in RuleIds, NEW severity \in {"critical", "high"}
               PROVE  Returns(<<Violation(id, severity)>>).violations \in Seq(Violations)
    OBVIOUS
  <2>1. Violation(id, severity) \in Violations
    BY Zenon DEF Violation, Violations
  <2>2. <<Violation(id, severity)>> \in Seq(Violations)
    BY <2>1, SingletonSeq, Zenon
  <2> QED
    BY <2>2 DEF Returns
<1>5. BalanceStableWithoutMoneyAction(ctx).violations \in Seq(Violations)
  <2>1. Returns(<<Violation("balance-stable-without-money-action", "critical")>>).violations \in Seq(Violations)
    BY <1>2, <1>4, Zenon
  <2>2. Returns(<<Violation("balance-stable-without-money-action", "high")>>).violations \in Seq(Violations)
    BY <1>2, <1>4, Zenon
  <2> QED
    BY <2>1, <2>2, <1>3, ZenonT(30) DEF BalanceStableWithoutMoneyAction
<1>6. BalanceDecreasesOnBet(ctx).violations \in Seq(Violations)
  <2>1. Returns(<<Violation("balance-decreases-on-bet", "critical")>>).violations \in Seq(Violations)
    BY <1>2, <1>4, Zenon
  <2> QED
    BY <2>1, <1>3, ZenonT(30) DEF BalanceDecreasesOnBet
<1>7. PayoutMatchesMultiplier(ctx).violations \in Seq(Violations)
  <2>1. Returns(<<Violation("payout-matches-multiplier", "critical")>>).violations \in Seq(Violations)
    BY <1>2, <1>4, Zenon
  <2> QED
    BY <2>1, <1>3, ZenonT(30) DEF PayoutMatchesMultiplier
<1>8. CashOutAvailableMidRound(ctx).violations \in Seq(Violations)
  <2>1. Returns(<<Violation("cash-out-available-mid-round", "high")>>).violations \in Seq(Violations)
    BY <1>2, <1>4, Zenon
  <2> QED
    BY <2>1, <1>3, ZenonT(30) DEF CashOutAvailableMidRound
<1> QED
  BY <1>1, <1>5, <1>6, <1>7, <1>8 DEF EvaluateRule

\* The verdict's violations are a sequence, empty on an oracle error.
LEMMA VerdictType ==
  ASSUME NEW ctx
  PROVE  Evaluate(ctx).violations \in Seq(Violations)
<1>1. \A k \in {1, 2, 3, 4} : EvaluateRule(k, ctx).violations \in Seq(Violations)
  BY RuleResultType DEF DefaultRules
<1>2. EvaluateRule(1, ctx).violations \o EvaluateRule(2, ctx).violations
        \o EvaluateRule(3, ctx).violations \o EvaluateRule(4, ctx).violations \in Seq(Violations)
  BY <1>1
<1> QED
  BY <1>2 DEF Evaluate, OracleErr, OracleOk

-----------------------------------------------------------------------------
(* Facts on the values the actions build.                                  *)

\* Artifact keys: the initial one and the one of the i-th action.
LEMMA KeyTypes ==
  /\ InitialKey \in Keys
  /\ \A r \in Nat, k \in Nat, a \in Actions : Key(r, k, a) \in Keys
BY DEF InitialKey, Key, Keys, Labels

\* The reference of a finalized screen is its key.
LEMMA FinalizeStateType ==
  ASSUME NEW screen \in Screens, NEW key \in Keys
  PROVE  /\ FinalizeState(screen, key) \in States
         /\ FinalizeState(screen, key).screenshotRef = key
BY DEF FinalizeState, States

\* The entries of a sequence, one more and one less.
LEMMA ToSetFacts ==
  ASSUME NEW S, NEW seq \in Seq(S)
  PROVE  /\ ToSet(<< >>) = {}
         /\ \A e \in S : ToSet(<<e>>) = {e}
         /\ \A e \in S : ToSet(Append(seq, e)) = ToSet(seq) \cup {e}
         /\ seq # << >> => /\ Head(seq) \in S /\ Head(seq) \in ToSet(seq)
                           /\ Tail(seq) \in Seq(S) /\ ToSet(Tail(seq)) \subseteq ToSet(seq)
<1>1. ToSet(<< >>) = {} /\ \A e \in S : ToSet(<<e>>) = {e}
  BY DEF ToSet
<1>2. ASSUME NEW e \in S
      PROVE  ToSet(Append(seq, e)) = ToSet(seq) \cup {e}
  <2>1. DOMAIN Append(seq, e) = DOMAIN seq \cup {Len(seq) + 1}
    OBVIOUS
  <2>2. /\ \A k \in DOMAIN seq : Append(seq, e)[k] = seq[k]
        /\ Append(seq, e)[Len(seq) + 1] = e
    OBVIOUS
  <2> QED
    BY <2>1, <2>2 DEF ToSet
<1>3. ASSUME seq # << >>
      PROVE  /\ Head(seq) \in S /\ Head(seq) \in ToSet(seq)
             /\ Tail(seq) \in Seq(S) /\ ToSet(Tail(seq)) \subseteq ToSet(seq)
  BY <1>3 DEF ToSet
<1> QED
  BY <1>1, <1>2, <1>3

\* What the two safety properties ask of one failure.
Blamed(f, unseen) == IsOracleFailure(f) => f.action \in f.window /\ f.window \ {f.action} \subseteq unseen
Evident(f, artifacts) == f.before \in artifacts /\ f.after \in artifacts \cup {Null} /\ f.before # f.after

\* Artifacts and unobserved actions are never taken back: a step keeps both
\* properties when every failure it adds satisfies them.
LEMMA SafetyStep ==
  ASSUME BlameWindow, EvidenceStored, stored \subseteq stored', blind \subseteq blind',
         \A f \in Failures' : f \in Failures \/ (Blamed(f, blind') /\ Evident(f, stored'))
  PROVE  BlameWindow' /\ EvidenceStored'
BY DEF BlameWindow, EvidenceStored, Blamed, Evident

-----------------------------------------------------------------------------
(* ScnInv holds initially and is kept by every step: one lemma per action. *)

LEMMA InitInv == ScnInit => ScnInv
<1> SUFFICES ASSUME ScnInit PROVE ScnInv
  OBVIOUS
<1>1. PICK screen \in Screens : current = FinalizeState(screen, InitialKey)
  BY DEF ScnInit
<1>2. current \in States /\ current.screenshotRef = InitialKey
  BY <1>1, KeyTypes, FinalizeStateType
<1>3. Failures = {}
  BY DEF ScnInit, Failures, ToSet
<1>4. ScnTypeOK
  <2>1. << >> \in Seq(FailureRecords) /\ << >> \in Seq(Actions)
    OBVIOUS
  <2>2. obs \in Observations
    BY DEF ScnInit, Idle, Observations, Stages
  <2>3. halted \in BOOLEAN
    BY Zenon DEF ScnInit
  <2> QED
    BY <1>2, <2>1, <2>2, <2>3, KeyTypes DEF ScnInit, ScnTypeOK
<1>5. ObserverInv
  BY DEF ScnInit, ObserverInv
<1>6. KeysInv
  BY DEF ScnInit, KeysInv, Earlier, InitialKey, Key
<1>7. RefsInv
  BY <1>2 DEF ScnInit, RefsInv
<1>8. WindowInv
  BY DEF ScnInit, WindowInv
<1> QED
  BY <1>3, <1>4, <1>5, <1>6, <1>7, <1>8 DEF ScnInv, BlameWindow, EvidenceStored

LEMMA RunInv ==
  ASSUME ScnInv, NEW s \in Scenarios, Run(s)
  PROVE  ScnInv'
<1> USE DEF ScnInv, Run, obsVars
<1>1. ScnTypeOK'
  <2>1. << >> \in Seq(FailureRecords)
    OBVIOUS
  <2>2. halted' \in BOOLEAN
    BY Zenon
  <2> QED
    BY <2>1, <2>2, ScenariosAssumption DEF ScnTypeOK
<1>2. ObserverInv'
  BY DEF ObserverInv
<1>3. KeysInv'
  BY DEF KeysInv, Earlier, ScnTypeOK, Keys
<1>4. RefsInv' /\ WindowInv'
  BY DEF RefsInv, WindowInv
<1>5. Failures' \subseteq Failures
  BY DEF Failures, ToSet
<1>6. BlameWindow' /\ EvidenceStored'
  BY <1>5, SafetyStep
<1> QED
  BY <1>1, <1>2, <1>3, <1>4, <1>6

LEMMA ExecuteOkInv ==
  ASSUME ScnInv, ExecuteOk
  PROVE  ScnInv'
<1> USE DEF ScnInv, ExecuteOk, InLoop
<1>1. /\ actions[i] \in Actions
      /\ Key(round, i, actions[i]) \in Keys
  BY KeyTypes DEF ScnTypeOK
<1>2. ScnTypeOK'
  <2>1. obs' \in Observations
    BY <1>1 DEF Observing, Observations, Stages
  <2>2. network' \in {"none"} \cup Throttles
    BY DEF NetworkAfter, ScnTypeOK
  <2> QED
    BY <2>1, <2>2 DEF ScnTypeOK
<1>3. ObserverInv'
  BY DEF ObserverInv, Observing
<1>4. KeysInv'
  BY DEF KeysInv, Earlier
<1>5. RefsInv'
  BY DEF RefsInv, KeysInv, Earlier
<1>6. WindowInv'
  BY DEF WindowInv, ScnTypeOK
<1>7. Failures' = Failures
  BY DEF Failures
<1>8. BlameWindow' /\ EvidenceStored'
  BY <1>7, SafetyStep
<1> QED
  BY <1>2, <1>3, <1>4, <1>5, <1>6, <1>8

LEMMA ExecuteErrInv ==
  ASSUME ScnInv, ExecuteErr
  PROVE  ScnInv'
<1> USE DEF ScnInv, ExecuteErr, InLoop, obsVars
<1>1. ExecutionFailure \in FailureRecords
  BY DEF ExecutionFailure, FailureRecords, RuleIds, ScnTypeOK, States
<1>2. ScnTypeOK'
  BY <1>1 DEF ScnTypeOK
<1>3. ObserverInv'
  BY DEF ObserverInv
<1>4. KeysInv'
  BY DEF KeysInv, ObserverInv, Idle, Earlier
<1>5. RefsInv'
  BY DEF RefsInv
<1>6. WindowInv'
  BY DEF WindowInv, ScnTypeOK
<1>7. Failures' \subseteq Failures \cup {ExecutionFailure}
  BY <1>1, ToSetFacts DEF Failures, ScnTypeOK
<1>8. Blamed(ExecutionFailure, blind') /\ Evident(ExecutionFailure, stored')
  BY NullAssumption DEF Blamed, Evident, IsOracleFailure, ExecutionFailure, RefsInv, ScnTypeOK
<1>9. BlameWindow' /\ EvidenceStored'
  BY <1>7, <1>8, SafetyStep
<1> QED
  BY <1>2, <1>3, <1>4, <1>5, <1>6, <1>9

\* The observer's steps: the screenshot is stored under the key of the current
\* action, before anything refers to it.
LEMMA ObserverStepInv ==
  ASSUME ScnInv, ObserverStep
  PROVE  ScnInv'
<1> USE DEF ScnInv, ObserverStep
<1>1. /\ pc = "observe" /\ UNCHANGED scnVars
      /\ obs \in Observations /\ obs.key = Key(round, i, actions[i]) /\ obs.key \in Keys
      /\ stored \subseteq stored'
  <2>1. pc = "observe" /\ UNCHANGED scnVars
    OBVIOUS
  <2>2. obs \in Observations /\ obs.key = Key(round, i, actions[i]) /\ obs.key \in Keys
    BY <2>1, KeyTypes DEF ScnTypeOK, ObserverInv
  <2>3. stored \subseteq stored'
    BY DEF ObsNext, Screenshot, PutArtifact, ExtractText, ExtractState, ExtractStateThrows, Fail
  <2> QED
    BY <2>1, <2>2, <2>3
<1>2. Failures' = Failures
  BY <1>1 DEF scnVars, Failures
<1>3. BlameWindow' /\ EvidenceStored'
  BY <1>1, <1>2, SafetyStep DEF scnVars
<1>4. WindowInv'
  BY <1>1 DEF scnVars, WindowInv
<1>5. RefsInv'
  BY <1>1 DEF scnVars, RefsInv, Earlier
<1>6. ScnTypeOK' /\ ObserverInv' /\ KeysInv'
      <=> /\ obs' \in Observations /\ stored' \subseteq Keys /\ puts' \in Nat
          /\ ObserverInv' /\ KeysInv'
  BY <1>1 DEF scnVars, ScnTypeOK
<1>7. CASE PutArtifact
  <2>1. /\ obs' \in Observations /\ obs'.at = "ocr" /\ obs'.key = obs.key
        /\ stored' = stored \cup {obs.key} /\ puts' = puts + 1
    BY <1>1, <1>7 DEF PutArtifact, Observations, Stages
  <2>2. stored' \subseteq Keys /\ puts' \in Nat
    BY <1>1, <2>1 DEF ScnTypeOK
  <2>3. ObserverInv'
    BY <1>1, <2>1 DEF ObserverInv, scnVars
  <2>4. KeysInv'
    BY <1>1, <2>1 DEF KeysInv, Earlier, Key, scnVars
  <2> QED
    BY <1>3, <1>4, <1>5, <1>6, <2>1, <2>2, <2>3, <2>4
<1>8. CASE Screenshot \/ ExtractText \/ ExtractStateThrows
  BY <1>1, <1>3, <1>4, <1>5, <1>6, <1>8
     DEF Screenshot, ExtractText, ExtractStateThrows, ScnTypeOK, scnVars, Observations, Stages,
         ObserverInv, KeysInv, Earlier
<1>9. CASE ExtractState
  <2>1. PICK screen \in Screens :
           obs' = [obs EXCEPT !.at = "ok", !.state = FinalizeState(screen, obs.key)]
    BY <1>9 DEF ExtractState
  <2>2. /\ obs' \in Observations /\ obs'.at = "ok" /\ obs'.key = obs.key
        /\ obs'.state \in States /\ obs'.state.screenshotRef = obs.key
    BY <1>1, <2>1, FinalizeStateType DEF Observations, Stages
  <2> QED
    BY <1>1, <1>3, <1>4, <1>5, <1>6, <1>9, <2>2
       DEF ExtractState, ScnTypeOK, scnVars, ObserverInv, KeysInv, Earlier
<1>10. ASSUME NEW stage \in {"screenshot", "put", "ocr", "llm"}, Fail(stage)
       PROVE  ScnInv'
  BY <1>1, <1>3, <1>4, <1>5, <1>6, <1>10
     DEF Fail, ScnTypeOK, scnVars, Observations, Stages, ObserverInv, KeysInv, Earlier
<1> QED
  BY <1>7, <1>8, <1>9, <1>10 DEF ObsNext

LEMMA OracleFailureType ==
  ASSUME ScnInv, pc = "observe", obs.at = "ok", NEW v \in Violations
  PROVE  /\ OracleFailure(v) \in FailureRecords
         /\ Blamed(OracleFailure(v), blind)
         /\ Evident(OracleFailure(v), stored)
<1> USE DEF ScnInv
<1>1. /\ v.ruleId \in RuleIds /\ before.screenshotRef \in Keys /\ obs.state.screenshotRef = obs.key
      /\ obs.key \in stored /\ stored \subseteq Keys
      /\ dispatched \in Nat /\ beforeAt \in Nat /\ round \in Nat
  BY DEF Violations, ScnTypeOK, States, ObserverInv
<1>2. OracleFailure(v) \in FailureRecords
  BY <1>1 DEF OracleFailure, FailureRecords
<1>3. Blamed(OracleFailure(v), blind)
  <2>1. beforeAt < dispatched /\ (beforeAt + 1)..(dispatched - 1) \subseteq blind
    BY DEF WindowInv
  <2> QED
    BY <1>1, <2>1 DEF Blamed, OracleFailure
<1>4. Evident(OracleFailure(v), stored)
  <2>1. before.screenshotRef \in stored /\ Earlier(before.screenshotRef)
    BY DEF RefsInv
  <2>2. ~Earlier(obs.key)
    BY <1>1 DEF ObserverInv, Earlier, Key, ScnTypeOK
  <2> QED
    BY <1>1, <2>1, <2>2 DEF Evident, OracleFailure
<1> QED
  BY <1>2, <1>3, <1>4

LEMMA ObservedInv ==
  ASSUME ScnInv, Observed
  PROVE  ScnInv'
<1> DEFINE found == Verdict.violations
<1> USE DEF ScnInv
<1>1. pc = "observe" /\ obs.at = "ok" /\ found \in Seq(Violations)
  BY VerdictType DEF Observed, Verdict
<1>2. /\ obs' = Idle /\ current' = obs.state /\ currentAt' = dispatched
      /\ todo' = [k \in DOMAIN found |-> OracleFailure(found[k])]
      /\ IF found = << >> THEN pc' = "act" /\ i' = i + 1 ELSE pc' = "persist" /\ i' = i
      /\ UNCHANGED <<stored, puts, round, actions, prior, before, beforeAt, halted, violations,
                     recorded, network, dispatched, blind>>
  BY DEF Observed
<1> HIDE DEF found
<1>3. \A k \in DOMAIN found : /\ OracleFailure(found[k]) \in FailureRecords
                             /\ Blamed(OracleFailure(found[k]), blind)
                             /\ Evident(OracleFailure(found[k]), stored)
  BY <1>1, OracleFailureType
<1>4. todo' \in Seq(FailureRecords) /\ (todo' = << >> <=> found = << >>)
  BY <1>1, <1>2, <1>3
<1>5. /\ obs.state \in States /\ obs.state.screenshotRef = obs.key /\ obs.key \in stored
      /\ obs.key = Key(round, i, actions[i])
  BY <1>1 DEF ObserverInv
<1>6. Idle \in Observations
  BY DEF Idle, Observations, Stages
<1>7. ScnTypeOK'
  BY <1>1, <1>2, <1>4, <1>5, <1>6 DEF ScnTypeOK
<1>8. ObserverInv'
  BY <1>2 DEF ObserverInv
<1>9. KeysInv'
  BY <1>1, <1>2 DEF KeysInv, Earlier, Idle, ScnTypeOK, Keys
<1>10. RefsInv'
  BY <1>2, <1>5 DEF RefsInv
<1>11. WindowInv'
  BY <1>2 DEF WindowInv, ScnTypeOK
<1>12. \A f \in Failures' : f \in Failures \/ (Blamed(f, blind') /\ Evident(f, stored'))
  BY <1>2, <1>3 DEF Failures, ToSet
<1>13. BlameWindow' /\ EvidenceStored'
  BY <1>2, <1>12, SafetyStep
<1> QED
  BY <1>7, <1>8, <1>9, <1>10, <1>11, <1>13

\* Leaving the observation without a new state.
LEMMA UnobservedInv ==
  ASSUME ScnInv, NotObserved \/ ObservationThrows
  PROVE  ScnInv'
<1> USE DEF ScnInv
<1>1. /\ pc = "observe" /\ obs' = Idle
      /\ UNCHANGED <<stored, puts, round, actions, prior, before, beforeAt, current, currentAt, todo,
                     halted, violations, recorded, network, dispatched>>
      /\ \/ blind' = blind \cup {dispatched} /\ pc' = "act" /\ i' = i + 1
         \/ blind' = blind /\ pc' = "thrown" /\ i' = i
  BY DEF NotObserved, ObservationThrows
<1>2. Idle \in Observations /\ Idle.at = "idle"
  BY DEF Idle, Observations, Stages
<1>3. ScnTypeOK'
  <2>1. i' \in Nat \ {0} /\ blind' \subseteq Nat /\ todo = << >>
    <3>1. i' \in Nat \ {0}
      BY <1>1 DEF ScnTypeOK
    <3>2. blind' \subseteq Nat
      BY <1>1 DEF ScnTypeOK
    <3>3. todo = << >>
      BY <1>1 DEF ScnTypeOK
    <3> QED
      BY <3>1, <3>2, <3>3
  <2>2. pc' \in {"act", "thrown"}
    BY <1>1
  <2> QED
    BY <1>1, <1>2, <2>1, <2>2 DEF ScnTypeOK
<1>4. ObserverInv'
  BY <1>1 DEF ObserverInv
<1>5. KeysInv'
  BY <1>1, <1>2 DEF KeysInv, Earlier, ScnTypeOK, Keys
<1>6. RefsInv'
  BY <1>1 DEF RefsInv
<1>7. WindowInv'
  <2>1. CASE pc' = "thrown"
    BY <2>1 DEF WindowInv
  <2>2. CASE pc' = "act"
    <3>1. /\ dispatched \in Nat /\ currentAt \in Nat /\ currentAt = beforeAt
          /\ (beforeAt + 1)..(dispatched - 1) \subseteq blind
      BY <1>1 DEF ScnTypeOK, WindowInv
    <3>2. (currentAt + 1)..dispatched \subseteq blind \cup {dispatched}
      BY <3>1
    <3> QED
      BY <1>1, <2>2, <3>2 DEF WindowInv
  <2> QED
    BY <1>1, <2>1, <2>2
<1>8. Failures' = Failures
  BY <1>1 DEF Failures
<1>9. BlameWindow' /\ EvidenceStored'
  BY <1>1, <1>8, SafetyStep
<1> QED
  BY <1>3, <1>4, <1>5, <1>6, <1>7, <1>9

LEMMA PersistInv ==
  ASSUME ScnInv, NEW ok \in BOOLEAN, Persist(ok)
  PROVE  ScnInv'
<1> DEFINE failure == [Head(todo) EXCEPT !.saved = ok]
<1> USE DEF ScnInv
<1>1. /\ pc = "persist" /\ todo # << >> /\ todo \in Seq(FailureRecords)
      /\ violations \in Seq(FailureRecords) /\ recorded \in Seq(FailureRecords)
  BY DEF Persist, ScnTypeOK
<1>2. /\ recorded' \in {recorded, Append(recorded, failure)}
      /\ violations' = Append(violations, failure) /\ todo' = Tail(todo)
      /\ IF Len(todo) > 1 THEN pc' = "persist" /\ i' = i ELSE pc' = "act" /\ i' = i + 1
      /\ UNCHANGED <<obs, stored, puts, round, actions, prior, before, beforeAt, current, currentAt,
                     halted, network, dispatched, blind>>
  BY <1>1 DEF Persist, obsVars
<1>3. /\ Head(todo) \in FailureRecords /\ Head(todo) \in Failures
      /\ Tail(todo) \in Seq(FailureRecords) /\ ToSet(Tail(todo)) \subseteq ToSet(todo)
      /\ Tail(todo) # << >> <=> Len(todo) > 1
  <2>1. /\ Head(todo) \in FailureRecords /\ Head(todo) \in ToSet(todo)
        /\ Tail(todo) \in Seq(FailureRecords) /\ ToSet(Tail(todo)) \subseteq ToSet(todo)
    BY <1>1, ToSetFacts
  <2>2. Tail(todo) # << >> <=> Len(todo) > 1
    <3>1. Len(Tail(todo)) = Len(todo) - 1 /\ Tail(todo) \in Seq(FailureRecords)
      BY <1>1
    <3>2. Len(todo) \in Nat /\ Len(todo) # 0
      BY <1>1, EmptySeq
    <3>3. Tail(todo) = << >> <=> Len(Tail(todo)) = 0
      BY <3>1, EmptySeq
    <3> QED
      BY ONLY <3>1, <3>2, <3>3
  <2> QED
    BY <2>1, <2>2 DEF Failures
<1>4. /\ failure \in FailureRecords
      /\ failure.ruleId = Head(todo).ruleId /\ failure.action = Head(todo).action
      /\ failure.window = Head(todo).window
      /\ failure.before = Head(todo).before /\ failure.after = Head(todo).after
  BY <1>3 DEF FailureRecords
<1>5. Blamed(failure, blind) /\ Evident(failure, stored)
  <2>1. Blamed(Head(todo), blind) /\ Evident(Head(todo), stored)
    BY <1>3 DEF BlameWindow, EvidenceStored, Blamed, Evident
  <2> QED
    BY <1>4, <2>1 DEF Blamed, Evident, IsOracleFailure
<1>6. ToSet(Append(violations, failure)) = ToSet(violations) \cup {failure}
  BY <1>1, <1>4, ToSetFacts
<1>7. ToSet(Append(recorded, failure)) = ToSet(recorded) \cup {failure}
  BY <1>1, <1>4, ToSetFacts
<1> HIDE DEF failure
<1>8. Failures' \subseteq Failures \cup {failure}
  BY <1>2, <1>3, <1>6, <1>7 DEF Failures
<1>9. BlameWindow' /\ EvidenceStored'
  BY <1>2, <1>5, <1>8, SafetyStep
<1>10. ScnTypeOK'
  <2>1. /\ violations' \in Seq(FailureRecords) /\ recorded' \in Seq(FailureRecords)
        /\ todo' \in Seq(FailureRecords)
    <3>1. /\ Append(violations, failure) \in Seq(FailureRecords)
          /\ Append(recorded, failure) \in Seq(FailureRecords)
      BY <1>1, <1>4
    <3> QED
      BY <1>1, <1>2, <1>3, <3>1
  <2>2. i' \in Nat \ {0} /\ pc' \in {"persist", "act"} /\ (pc' = "persist" <=> todo' # << >>)
    BY <1>2, <1>3 DEF ScnTypeOK
  <2> QED
    BY <1>2, <2>1, <2>2 DEF ScnTypeOK
<1>11. ObserverInv'
  BY <1>1, <1>2 DEF ObserverInv
<1>12. KeysInv'
  BY <1>1, <1>2 DEF KeysInv, ObserverInv, Idle, Earlier, ScnTypeOK, Keys
<1>13. RefsInv'
  BY <1>2 DEF RefsInv
<1>14. WindowInv'
  BY <1>1, <1>2 DEF WindowInv
<1> QED
  BY <1>9, <1>10, <1>11, <1>12, <1>13, <1>14

LEMMA ReturnInv ==
  ASSUME ScnInv, Return
  PROVE  ScnInv'
<1> USE DEF ScnInv, Return, obsVars
<1>1. ScnTypeOK' /\ ObserverInv' /\ KeysInv' /\ RefsInv' /\ WindowInv'
  BY DEF ScnTypeOK, ObserverInv, KeysInv, Earlier, RefsInv, WindowInv
<1>2. Failures' = Failures
  BY DEF Failures
<1>3. BlameWindow' /\ EvidenceStored'
  BY <1>2, SafetyStep
<1> QED
  BY <1>1, <1>3

LEMMA StutterInv ==
  ASSUME ScnInv, UNCHANGED runVars
  PROVE  ScnInv'
<1>1. ScnTypeOK' /\ ObserverInv' /\ KeysInv' /\ RefsInv' /\ WindowInv'
  BY DEF ScnInv, runVars, obsVars, scnVars, ScnTypeOK, ObserverInv, KeysInv, Earlier, RefsInv, WindowInv
<1>2. BlameWindow' /\ EvidenceStored'
  BY DEF ScnInv, runVars, obsVars, scnVars, BlameWindow, EvidenceStored, Failures
<1> QED
  BY <1>1, <1>2 DEF ScnInv

\* Every step of run() itself, whoever calls it.
LEMMA StepInv ==
  ASSUME ScnInv, Step
  PROVE  ScnInv'
<1>1. CASE ExecuteOk
  BY <1>1, ExecuteOkInv
<1>2. CASE ExecuteErr
  BY <1>2, ExecuteErrInv
<1>3. CASE ObserverStep
  BY <1>3, ObserverStepInv
<1>4. CASE Observed
  BY <1>4, ObservedInv
<1>5. CASE NotObserved \/ ObservationThrows
  BY <1>5, UnobservedInv
<1>6. ASSUME NEW ok \in WriteOutcomes, Persist(ok) PROVE ScnInv'
  <2>1. ok \in BOOLEAN
    BY Zenon DEF WriteOutcomes
  <2> QED
    BY <1>6, <2>1, PersistInv
<1> QED
  BY <1>1, <1>2, <1>3, <1>4, <1>5, <1>6 DEF Step

-----------------------------------------------------------------------------
\* ScnInv is an invariant of the scenario runner for every set of scenarios,
\* screens and currencies, with and without storage errors.
THEOREM ScnInvariant == ScnSpec => []ScnInv
<1>1. ScnInv /\ [ScnNext]_runVars => ScnInv'
  <2> SUFFICES ASSUME ScnInv, [ScnNext]_runVars PROVE ScnInv'
    OBVIOUS
  <2>1. ASSUME NEW s \in Scenarios, Run(s) PROVE ScnInv'
    BY <2>1, RunInv
  <2>2. CASE Step
    BY <2>2, StepInv
  <2>3. CASE Return
    BY <2>3, ReturnInv
  <2>4. CASE UNCHANGED runVars
    BY <2>4, StutterInv
  <2> QED
    BY <2>1, <2>2, <2>3, <2>4 DEF ScnNext
<1> QED
  BY InitInv, <1>1, PTL DEF ScnSpec

\* Type correctness.
THEOREM ScnTypes == ScnSpec => []ScnTypeOK
<1>1. ScnInv => ScnTypeOK
  BY DEF ScnInv
<1> QED
  BY ScnInvariant, <1>1, PTL

\* A violation blames an action that was handed to the browser between its two
\* screenshots, next to actions that could not be observed only.
THEOREM BlameSound == ScnSpec => []BlameWindow
<1>1. ScnInv => BlameWindow
  BY DEF ScnInv
<1> QED
  BY ScnInvariant, <1>1, PTL

\* No failure refers to a screenshot that is not in the store.
THEOREM EvidenceSound == ScnSpec => []EvidenceStored
<1>1. ScnInv => EvidenceStored
  BY DEF ScnInv
<1> QED
  BY ScnInvariant, <1>1, PTL

\* The key of a screenshot is new when it is stored: no artifact is overwritten.
THEOREM KeysUnique == ScnSpec => ArtifactsWrittenOnce
<1>1. ScnInv /\ [ScnNext]_runVars => [stored' = stored => puts' = puts]_runVars
  <2> SUFFICES ASSUME ScnInv, ScnNext, stored' = stored PROVE puts' = puts
    BY DEF runVars, obsVars
  <2>1. CASE ObserverStep
    <3>1. ~PutArtifact
      <4>1. ASSUME PutArtifact PROVE obs.key \notin stored
        BY <2>1, <4>1 DEF ObserverStep, PutArtifact, ScnInv, ObserverInv, KeysInv, Earlier, Key, ScnTypeOK
      <4> QED
        BY <4>1 DEF PutArtifact
    <3> QED
      BY <2>1, <3>1 DEF ObserverStep, ObsNext, Screenshot, ExtractText, ExtractState, ExtractStateThrows, Fail
  <2>2. CASE ~ObserverStep
    BY <2>2 DEF ScnNext, Step, Run, ExecuteOk, ExecuteErr, Observed, NotObserved, ObservationThrows,
                Persist, Return, obsVars
  <2> QED
    BY <2>1, <2>2
<1> QED
  BY ScnInvariant, <1>1, PTL DEF ScnSpec, ArtifactsWrittenOnce

-----------------------------------------------------------------------------
(* The emulated network, for scenarios that restore what they throttle.    *)

\* No action but ExecuteOk changes the network, and none but Return ends a scenario.
LEMMA NetworkFrame ==
  ASSUME ScnInv, Step, ~ExecuteOk, blind' = {}
  PROVE  /\ UNCHANGED <<network, actions, halted>> /\ blind = {} /\ pc # "idle" /\ pc' # "idle"
         /\ \A k \in Nat : Executed(k)' <=> Executed(k)
<1>1. i \in Nat \ {0}
  BY DEF ScnInv, ScnTypeOK
<1>2. ~ExecuteErr /\ ~NotObserved
  BY DEF ExecuteErr, NotObserved
<1>3. CASE ObserverStep
  BY <1>3 DEF ObserverStep, scnVars, Executed
<1>4. CASE Observed \/ ObservationThrows
  BY <1>1, <1>4 DEF Observed, ObservationThrows, Executed
<1>5. ASSUME NEW ok \in WriteOutcomes, Persist(ok)
      PROVE  /\ UNCHANGED <<network, actions, halted, blind>> /\ pc = "persist"
             /\ (pc' = "persist" /\ i' = i) \/ (pc' = "act" /\ i' = i + 1)
  BY <1>5 DEF Persist
<1>6. CASE \E ok \in WriteOutcomes : Persist(ok)
  BY <1>1, <1>5, <1>6 DEF Executed
<1> QED
  BY <1>2, <1>3, <1>4, <1>6 DEF Step

LEMMA NetworkStep ==
  ASSUME \A s \in Scenarios : Restores(s), ScnInv, NetworkInv, [ScnNext]_runVars
  PROVE  NetworkInv'
<1>1. i \in Nat \ {0} /\ actions \in Seq(Actions) /\ DOMAIN actions = 1..Len(actions) /\ Len(actions) \in Nat
  BY LenProperties DEF ScnInv, ScnTypeOK
<1>2. ASSUME NEW s \in Scenarios, Run(s) PROVE NetworkInv'
  BY <1>2 DEF Run, NetworkInv, Restores
<1>3. CASE ExecuteOk
  <2> DEFINE a == actions[i]
  <2>1. /\ i \in DOMAIN actions /\ pc = "act" /\ pc' = "observe" /\ ~halted /\ network' = NetworkAfter(a)
        /\ UNCHANGED <<actions, i, halted, blind>>
    BY <1>1, <1>3 DEF ExecuteOk, InLoop
  <2>2. \A k \in DOMAIN actions : (Executed(k) <=> k < i) /\ (Executed(k)' <=> k < i \/ k = i)
    BY <1>1, <2>1 DEF Executed
  <2>3. CASE blind # {} \/ network' = "none"
    BY <2>1, <2>3 DEF NetworkInv, Restores
  <2>4. CASE a \in Throttles
    <3>1. Executed(i)' /\ \A j \in DOMAIN actions : ~(i < j /\ Executed(j)')
      BY <1>1, <2>1, <2>2
    <3> QED
      BY <2>1, <2>4, <3>1 DEF NetworkInv, Restores
  <2>5. CASE blind = {} /\ network' # "none" /\ a \notin Throttles
    <3>1. a # Restore /\ network' = network
      BY <2>1, <2>5 DEF NetworkAfter
    <3>2. PICK k \in DOMAIN actions :
            /\ Executed(k) /\ actions[k] \in Throttles
            /\ \A j \in DOMAIN actions : k < j /\ Executed(j) => actions[j] # Restore
      BY <2>5, <3>1 DEF NetworkInv
    <3>3. Executed(k)' /\ \A j \in DOMAIN actions : k < j /\ Executed(j)' => actions[j] # Restore
      BY <2>2, <3>1, <3>2
    <3> QED
      BY <2>1, <3>2, <3>3 DEF NetworkInv, Restores
  <2> QED
    BY <2>3, <2>4, <2>5
<1>4. CASE Step /\ ~ExecuteOk
  <2>1. CASE blind' = {}
    <3>1. /\ UNCHANGED <<network, actions, halted>> /\ blind = {} /\ pc # "idle" /\ pc' # "idle"
          /\ \A k \in DOMAIN actions : Executed(k)' <=> Executed(k)
      BY <1>1, <1>4, <2>1, NetworkFrame
    <3> QED
      BY <2>1, <3>1 DEF NetworkInv, Restores
  <2>2. CASE blind' # {}
    <3>1. actions' = actions
      BY <1>4 DEF Step, ExecuteErr, ObserverStep, scnVars, Observed, NotObserved, ObservationThrows, Persist
    <3> QED
      BY <2>2, <3>1 DEF NetworkInv, Restores
  <2> QED
    BY <2>1, <2>2
<1>5. CASE Return
  <2>1. /\ pc = "act" /\ (halted \/ i > Len(actions)) /\ UNCHANGED <<actions, halted, blind, network>>
    BY <1>5 DEF Return
  <2>2. ASSUME blind = {}, network # "none" PROVE FALSE
    <3>1. i > Len(actions)
      BY <2>1, <2>2 DEF NetworkInv
    <3>2. \A j \in DOMAIN actions : Executed(j)
      BY <1>1, <3>1 DEF Executed
    <3> QED
      BY <2>2, <3>2 DEF NetworkInv, Restores
  <2> QED
    BY <2>1, <2>2 DEF NetworkInv, Restores
<1>6. CASE UNCHANGED runVars
  BY <1>6 DEF runVars, scnVars, NetworkInv, Restores, Executed
<1> QED
  BY <1>2, <1>3, <1>4, <1>5, <1>6 DEF ScnNext

\* If every scenario restores what it throttles, the next one starts on the network as
\* it is, unless an action failed or could not be observed before.
THEOREM NetworkFresh ==
  ASSUME \A s \in Scenarios : Restores(s)
  PROVE  ScnSpec => []FreshUnlessBrokenOff
<1>1. ScnInit => NetworkInv
  BY DEF ScnInit, NetworkInv, Restores
<1>2. ScnInv /\ NetworkInv /\ [ScnNext]_runVars => NetworkInv'
  BY NetworkStep
<1>3. NetworkInv => FreshUnlessBrokenOff
  BY DEF NetworkInv, FreshUnlessBrokenOff
<1> QED
  BY ScnInvariant, <1>1, <1>2, <1>3, PTL DEF ScnSpec
=============================================================================
