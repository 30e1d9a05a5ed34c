--------------------------- MODULE ScenarioRunner ---------------------------
(***************************************************************************)
(* ScenarioRunner.run (apps/worker/src/session/scenario-runner.ts), called *)
(* for one scenario after the other as the session runner does: execute an *)
(* action, observe, let the oracle judge the transition, persist what it   *)
(* reports.  Every awaited call is a step of its own.  resolveAction only  *)
(* chooses where the browser clicks and is left to the driver's outcome.   *)
(***************************************************************************)
EXTENDS Oracle, StateObserver, SequencesExt

CONSTANTS Scenarios,       \* the action sequences the planner may hand over
          MaxRounds,       \* spec.maxRounds
          StorageMayFail   \* whether a write of the repository may fail

ASSUME StorageAssumption == StorageMayFail \in BOOLEAN
ASSUME RoundsAssumption == MaxRounds \in Nat
ASSUME ScenariosAssumption == \A s \in Scenarios : s \in Seq(Actions)

VARIABLES
  pc,            \* "idle" between calls, "act", "observe", "persist", "thrown"
  round,         \* input.roundIndex of the last call
  actions,       \* input.scenario.actions
  i,             \* loop index, from 1
  prior,         \* input.priorState
  before,        \* state the current action started from
  current,       \* last state observed
  todo,          \* failures of this action still to be persisted
  halted,        \* the scenario was broken off by an execution error
  violations,    \* the result under construction
  recorded,      \* failures.json
  network,       \* profile the driver emulates
  (* History: actions handed to the browser so far, and what is known of them. *)
  dispatched,    \* how many
  blind,         \* those that were not followed by an observation
  beforeAt,      \* dispatched when `before` was captured
  currentAt      \* dispatched when `current` was captured

scnVars == <<pc, round, actions, i, prior, before, current, todo, halted, violations,
             recorded, network, dispatched, blind, beforeAt, currentAt>>
runVars == <<obsVars, scnVars>>

WriteOutcomes == IF StorageMayFail THEN BOOLEAN ELSE {TRUE}

ExecutionFailed == "action-execution-failed"

\* `wait` is a timer; `set-bet` has no translator and always fails
\* (playwright-driver.ts:101-108).
MayFail(action) == action # "wait"
MaySucceed(action) == action # "set-bet"

\* Mutant: restore does not reset the emulated conditions.
NetworkNotRestored(action) == IF action \in Throttles THEN action ELSE network

\* setNetworkProfile: the emulated conditions last until the next throttle-network.
NetworkAfter(action) ==
  IF action = Restore THEN "none" ELSE IF action \in Throttles THEN action ELSE network

InitialKey == Key(0, 0, "initial")

ScnInit ==
  /\ obs = Idle /\ stored = {InitialKey} /\ puts = 1
  /\ pc = "idle" /\ round = 0 /\ actions = << >> /\ i = 1
  /\ \E screen \in Screens : current = FinalizeState(screen, InitialKey)
  /\ prior = current /\ before = current
  /\ todo = << >> /\ halted = FALSE /\ violations = << >> /\ recorded = << >>
  /\ network = "none"
  /\ dispatched = 0 /\ blind = {} /\ beforeAt = 0 /\ currentAt = 0

\* A call of run(): priorState is the stateAfter of the previous one.
Run(s) ==
  /\ pc = "idle"
  /\ pc' = "act" /\ round' = round + 1 /\ actions' = s /\ i' = 1
  /\ prior' = current /\ before' = current /\ beforeAt' = currentAt
  /\ todo' = << >> /\ halted' = FALSE /\ violations' = << >>
  /\ UNCHANGED <<obsVars, current, recorded, network, dispatched, blind, currentAt>>

InLoop == pc = "act" /\ ~halted /\ i <= Len(actions)

\* Mutant: the artifact label is the action type without its index.
ExecuteOkSameLabel ==
  /\ InLoop /\ MaySucceed(actions[i])
  /\ before' = current /\ beforeAt' = currentAt
  /\ network' = NetworkAfter(actions[i])
  /\ dispatched' = dispatched + 1
  /\ obs' = Observing(Key(round, 1, actions[i])) /\ pc' = "observe"
  /\ UNCHANGED <<stored, puts, round, actions, i, prior, current, todo, halted,
                 violations, recorded, blind, currentAt>>

ExecuteOk ==
  /\ InLoop /\ MaySucceed(actions[i])
  /\ before' = current /\ beforeAt' = currentAt
  /\ network' = NetworkAfter(actions[i])
  /\ dispatched' = dispatched + 1
  /\ obs' = Observing(Key(round, i, actions[i])) /\ pc' = "observe"
  /\ UNCHANGED <<stored, puts, round, actions, i, prior, current, todo, halted,
                 violations, recorded, blind, currentAt>>

\* toExecutionFailure: the screenshot is the one of the scenario's prior state.
ExecutionFailure ==
  [ruleId |-> ExecutionFailed, round |-> round, action |-> dispatched + 1,
   before |-> prior.screenshotRef, after |-> Null, window |-> {}, saved |-> FALSE]

ExecuteErr ==
  /\ InLoop /\ MayFail(actions[i])
  /\ before' = current /\ beforeAt' = currentAt
  /\ dispatched' = dispatched + 1 /\ blind' = blind \cup {dispatched + 1}
  /\ todo' = <<ExecutionFailure>> /\ halted' = TRUE /\ pc' = "persist"
  /\ UNCHANGED <<obsVars, round, actions, i, prior, current, violations,
                 recorded, network, currentAt>>

OracleFailure(v) ==
  [ruleId |-> v.ruleId, round |-> round, action |-> dispatched,
   before |-> before.screenshotRef, after |-> obs.state.screenshotRef,
   window |-> (beforeAt + 1)..dispatched, saved |-> FALSE]

Verdict == Evaluate([before |-> before, after |-> obs.state, action |-> actions[i]])

\* Mutant: the observed state is judged but not kept as the next `before`.
ObservedKeepsCurrent ==
  /\ pc = "observe" /\ obs.at = "ok"
  /\ obs' = Idle
  /\ LET found == Verdict.violations IN
     /\ todo' = [k \in DOMAIN found |-> OracleFailure(found[k])]
     /\ IF found = << >> THEN pc' = "act" /\ i' = i + 1 ELSE pc' = "persist" /\ UNCHANGED i
  /\ UNCHANGED <<stored, puts, round, actions, prior, before, beforeAt, halted, violations,
                 recorded, network, dispatched, blind, current, currentAt>>

\* The observation succeeded: the oracle judges the transition; an oracle error
\* skips the check.
Observed ==
  /\ pc = "observe" /\ obs.at = "ok"
  /\ obs' = Idle
  /\ current' = obs.state /\ currentAt' = dispatched
  /\ LET found == Verdict.violations IN
     /\ todo' = [k \in DOMAIN found |-> OracleFailure(found[k])]
     /\ IF found = << >> THEN pc' = "act" /\ i' = i + 1 ELSE pc' = "persist" /\ UNCHANGED i
  /\ UNCHANGED <<stored, puts, round, actions, prior, before, beforeAt, halted, violations,
                 recorded, network, dispatched, blind>>

\* The observation failed: the loop goes on with the prior state.
NotObserved ==
  /\ pc = "observe" /\ obs.at = "err"
  /\ obs' = Idle
  /\ blind' = blind \cup {dispatched}
  /\ pc' = "act" /\ i' = i + 1
  /\ UNCHANGED <<stored, puts, round, actions, prior, before, beforeAt, current, currentAt, todo,
                 halted, violations, recorded, network, dispatched>>

\* An adapter threw: run() rejects and its caller never sees `violations`.
ObservationThrows ==
  /\ pc = "observe" /\ obs.at = "throw"
  /\ obs' = Idle /\ pc' = "thrown"
  /\ UNCHANGED <<stored, puts, round, actions, i, prior, before, beforeAt, current, currentAt, todo,
                 halted, violations, recorded, network, dispatched, blind>>

\* Mutant: failures.json is rewritten with the new failure only.
PersistOverwrites(ok) ==
  /\ pc = "persist"
  /\ LET failure == [Head(todo) EXCEPT !.saved = ok] IN
     /\ recorded' = IF ok THEN <<failure>> ELSE recorded
     /\ violations' = Append(violations, failure)
  /\ todo' = Tail(todo)
  /\ IF Len(todo) > 1 THEN UNCHANGED <<pc, i>>
     ELSE pc' = "act" /\ i' = i + 1
  /\ UNCHANGED <<obsVars, round, actions, prior, before, beforeAt, current, currentAt, halted,
                 network, dispatched, blind>>

\* persistFailure, whose storage error is only logged, then violations.push.
Persist(ok) ==
  /\ pc = "persist"
  /\ LET failure == [Head(todo) EXCEPT !.saved = ok] IN
     /\ recorded' = IF ok THEN Append(recorded, failure) ELSE recorded
     /\ violations' = Append(violations, failure)
  /\ todo' = Tail(todo)
  /\ IF Len(todo) > 1 THEN UNCHANGED <<pc, i>>
     ELSE pc' = "act" /\ i' = i + 1
  /\ UNCHANGED <<obsVars, round, actions, prior, before, beforeAt, current, currentAt, halted,
                 network, dispatched, blind>>

\* The loop is over or was broken off.
Return ==
  /\ pc = "act" /\ (halted \/ i > Len(actions))
  /\ pc' = "idle"
  /\ UNCHANGED <<obsVars, round, actions, i, prior, before, beforeAt, current, currentAt, todo,
                 halted, violations, recorded, network, dispatched, blind>>

\* A step of the observer while run() awaits it.
ObserverStep == pc = "observe" /\ ObsNext /\ UNCHANGED scnVars

Step ==
  \/ ExecuteOk \/ ExecuteErr \/ ObserverStep
  \/ Observed \/ NotObserved \/ ObservationThrows
  \/ \E ok \in WriteOutcomes : Persist(ok)

ScnNext ==
  \/ \E s \in Scenarios : round < MaxRounds /\ Run(s)
  \/ Step
  \/ Return

ScnSpec == ScnInit /\ [][ScnNext]_runVars

-----------------------------------------------------------------------------
Failures == ToSet(violations) \cup ToSet(recorded) \cup ToSet(todo)
IsOracleFailure(f) == f.ruleId # ExecutionFailed

RuleIds == {ExecutionFailed} \cup {DefaultRules[k] : k \in DOMAIN DefaultRules}
FailureRecords ==
  [ruleId : RuleIds, round : Nat, action : Nat, before : Keys, after : Keys \cup {Null},
   window : SUBSET Nat, saved : BOOLEAN]

ScnTypeOK ==
  /\ pc \in {"idle", "act", "observe", "persist", "thrown"}
  /\ obs \in Observations /\ {prior, before, current} \subseteq States
  /\ stored \subseteq Keys /\ puts \in Nat
  /\ round \in Nat /\ i \in Nat \ {0} /\ actions \in Seq(Actions)
  /\ halted \in BOOLEAN /\ network \in {"none"} \cup Throttles
  /\ todo \in Seq(FailureRecords) /\ violations \in Seq(FailureRecords)
  /\ recorded \in Seq(FailureRecords)
  /\ pc = "persist" <=> todo # << >>
  /\ dispatched \in Nat /\ beforeAt \in Nat /\ currentAt \in 0..dispatched
  /\ blind \subseteq Nat

\* The blame a violation puts on its action is limited to what could not be
\* seen: between its two screenshots the browser was handed that action and
\* otherwise only actions whose execution or observation failed.
BlameWindow ==
  \A f \in Failures : IsOracleFailure(f) =>
     f.action \in f.window /\ f.window \ {f.action} \subseteq blind

\* Every screenshot a failure refers to is in the artifact store, and a
\* violation's two screenshots are different ones.
EvidenceStored ==
  \A f \in Failures :
     /\ f.before \in stored
     /\ f.after \in stored \cup {Null}
     /\ f.before # f.after

\* state-observer.ts:23-24: "multiple observations inside a round don't overwrite
\* each other" -- an artifact key is written once.
ArtifactsWrittenOnce == [][stored' = stored => puts' = puts]_runVars

\* The parts of the inductive invariant behind the three properties above.

\* The observer works for the scenario runner only while run() awaits it, on the
\* key of the current action, and hands over a state that refers to that key.
ObserverInv ==
  IF pc = "observe"
  THEN /\ obs.at # "idle" /\ i <= Len(actions)
       /\ obs.key = Key(round, i, actions[i])
       /\ obs.at \in {"ocr", "llm", "ok", "throw"} => obs.key \in stored
       /\ obs.at = "ok" => obs.state \in States /\ obs.state.screenshotRef = obs.key
  ELSE obs = Idle

\* A key of an earlier action than the i-th of this round.
Earlier(key) == key.round < round \/ (key.round = round /\ key.index < i)

KeysInv ==
  \A key \in stored :
    /\ Earlier(key) \/ (key.round = round /\ key.index = i)
    /\ (pc \in {"idle", "act"} \/ obs.at \in {"screenshot", "put"}) => Earlier(key)

\* The states the runner holds refer to stored screenshots, `before` to an earlier one.
RefsInv ==
  /\ {prior.screenshotRef, before.screenshotRef, current.screenshotRef} \subseteq stored
  /\ pc = "observe" => Earlier(before.screenshotRef)

\* What was handed to the browser after `current` was captured went unobserved.
WindowInv ==
  /\ pc \in {"idle", "act", "persist"} => (currentAt + 1)..dispatched \subseteq blind
  /\ pc = "observe" => /\ beforeAt = currentAt /\ beforeAt < dispatched
                       /\ (beforeAt + 1)..(dispatched - 1) \subseteq blind

ScnInv == ScnTypeOK /\ ObserverInv /\ KeysInv /\ RefsInv /\ WindowInv /\ BlameWindow /\ EvidenceStored

\* A throttle outlives its scenario only when something went wrong, if the scenarios
\* restore what they throttle (what the LLM makes up need not): as long as every
\* action was executed and observed, the next scenario starts on the network as it is.
\* After a break between throttle and restore it does not, whatever
\* scenario-runner.ts:214 says of a "fresh attempt".
FreshUnlessBrokenOff == pc = "idle" /\ blind = {} => network = "none"

\* A scenario that restores what it throttles, as those of the library do.
Restores(s) ==
  \A k \in DOMAIN s : s[k] \in Throttles => \E j \in DOMAIN s : k < j /\ s[j] = Restore

\* The k-th action of the scenario was executed.
Executed(k) == k < i \/ (k = i /\ pc \notin {"idle", "act"})

\* An emulated network was asked for in this scenario and not taken back so far.
NetworkInv ==
  /\ Restores(actions)
  /\ halted => blind # {}
  /\ blind = {} /\ network # "none" =>
       /\ pc # "idle"
       /\ \E k \in DOMAIN actions :
            /\ Executed(k) /\ actions[k] \in Throttles
            /\ \A j \in DOMAIN actions : k < j /\ Executed(j) => actions[j] # Restore
=============================================================================
