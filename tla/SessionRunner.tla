---------------------------- MODULE SessionRunner ----------------------------
(***************************************************************************)
(* SessionRunner.run (apps/worker/src/session/session-runner.ts): open a   *)
(* browser, navigate, observe, dismiss overlays, run scenarios up to       *)
(* maxRounds or maxDurationMs, and on every path write the terminal status *)
(* and close the driver.  The scenario runner's steps are those of         *)
(* ScenarioRunner; an awaited call that fails or throws takes the branch   *)
(* the code takes.                                                         *)
(***************************************************************************)
EXTENDS ScenarioRunner, ScenarioPlanner

ASSUME PlannedAssumption ==
  {Library[k].actions : k \in DOMAIN Library} \cup {s.actions : s \in LLMScenarios} \subseteq Scenarios

VARIABLES
  phase,            \* the await run() is at
  attempt,          \* dismissOverlays: loop counter
  driver,           \* "null", "open", "closed"
  scenarioId,       \* id of the scenario being run
  executed,         \* executedScenarioIds
  failures,         \* failures in memory
  roundsCompleted,
  stoppedReason,
  cleanly,          \* completedCleanly
  rec               \* session.json: [status, roundsCompleted, failureCount]

sesVars == <<phase, attempt, driver, scenarioId, executed, failures, roundsCompleted,
             stoppedReason, cleanly, rec>>
vars == <<runVars, sesVars>>

MaxAttempts == 3

Init ==
  /\ ObsInit
  /\ pc = "idle" /\ round = 0 /\ actions = << >> /\ i = 1
  /\ current = Null /\ prior = Null /\ before = Null
  /\ todo = << >> /\ halted = FALSE /\ violations = << >> /\ recorded = << >>
  /\ network = "none" /\ dispatched = 0 /\ blind = {} /\ beforeAt = 0 /\ currentAt = 0
  /\ phase = "start" /\ attempt = 0 /\ driver = "null" /\ scenarioId = Null
  /\ executed = << >> /\ failures = << >> /\ roundsCompleted = 0
  /\ stoppedReason = "max-rounds" /\ cleanly = TRUE
  /\ rec = [status |-> "queued", roundsCompleted |-> 0, failureCount |-> 0]

\* updateStatus('running'): a storage error is ignored.
MarkRunning ==
  /\ phase = "start" /\ phase' = "create"
  /\ \E ok \in WriteOutcomes : rec' = IF ok THEN [rec EXCEPT !.status = "running"] ELSE rec
  /\ UNCHANGED <<runVars, attempt, driver, scenarioId, executed, failures, roundsCompleted,
                 stoppedReason, cleanly>>

CreateDriver ==
  /\ phase = "create" /\ phase' = "navigate" /\ driver' = "open"
  /\ UNCHANGED <<runVars, attempt, scenarioId, executed, failures, roundsCompleted,
                 stoppedReason, cleanly, rec>>

\* Mutant: the early return leaves run() without passing through `finally`.
AbortReturns ==
  /\ stoppedReason' = "fatal-error" /\ cleanly' = FALSE /\ phase' = "done"
  /\ UNCHANGED <<attempt, driver, scenarioId, executed, failures, roundsCompleted, rec>>

\* Mutant: the catch block forgets completedCleanly = false.
AbortCleanly ==
  /\ stoppedReason' = "fatal-error" /\ phase' = "finally"
  /\ UNCHANGED <<attempt, driver, scenarioId, executed, failures, roundsCompleted, cleanly, rec>>

\* The fatal branches and the catch block: on to `finally`.
Abort ==
  /\ stoppedReason' = "fatal-error" /\ cleanly' = FALSE /\ phase' = "finally"
  /\ UNCHANGED <<attempt, driver, scenarioId, executed, failures, roundsCompleted, rec>>

CreateThrows == phase = "create" /\ Abort /\ UNCHANGED runVars

NavigateFails == phase = "navigate" /\ Abort /\ UNCHANGED runVars

\* A call of observer.observe with this key.
ObserveWith(key) ==
  /\ obs' = Observing(key)
  /\ UNCHANGED <<stored, puts, scnVars>>

Navigate ==
  /\ phase = "navigate" /\ phase' = "initial"
  /\ ObserveWith(InitialKey)
  /\ UNCHANGED <<attempt, driver, scenarioId, executed, failures, roundsCompleted,
                 stoppedReason, cleanly, rec>>

ObserverAwaited ==
  /\ phase \in {"initial", "after-dismiss"} /\ ObsNext
  /\ UNCHANGED <<scnVars, sesVars>>

\* lastState = the observed state.
AdoptObserved ==
  /\ obs.at = "ok" /\ obs' = Idle
  /\ current' = obs.state
  /\ UNCHANGED <<stored, puts, pc, round, actions, i, prior, before, todo, halted, violations,
                 recorded, network, dispatched, blind, beforeAt, currentAt>>

InitialObserved ==
  /\ phase = "initial" /\ phase' = "dismiss" /\ attempt' = 1
  /\ AdoptObserved
  /\ UNCHANGED <<driver, scenarioId, executed, failures, roundsCompleted, stoppedReason, cleanly, rec>>

DropObservation == obs' = Idle /\ UNCHANGED <<stored, puts, scnVars>>

\* Err and a throw end alike, one by the early return and one by the catch block.
InitialObservationFails ==
  /\ phase = "initial" /\ obs.at \in {"err", "throw"}
  /\ DropObservation /\ Abort

StartRounds ==
  /\ phase' = "round"
  /\ UNCHANGED <<attempt, driver, scenarioId, executed, failures, roundsCompleted,
                 stoppedReason, cleanly, rec>>

\* dismissOverlays returns: no hint, attempts used up, or the click failed.
PreflightOver ==
  /\ phase = "dismiss"
  /\ StartRounds /\ UNCHANGED runVars

\* Mutant: pre-flight screenshots share round 0 whatever the attempt.
DismissClickSameRound ==
  /\ phase = "dismiss" /\ current.dismissHint /\ attempt <= MaxAttempts
  /\ phase' = "after-dismiss"
  /\ ObserveWith(Key(-1, 0, "after-dismiss"))
  /\ UNCHANGED <<attempt, driver, scenarioId, executed, failures, roundsCompleted,
                 stoppedReason, cleanly, rec>>

\* Mutant: the attempts are counted from zero.
DismissOnceMore ==
  /\ phase = "dismiss" /\ current.dismissHint /\ attempt <= MaxAttempts + 1
  /\ phase' = "after-dismiss"
  /\ ObserveWith(Key(-attempt, 0, "after-dismiss"))
  /\ UNCHANGED <<attempt, driver, scenarioId, executed, failures, roundsCompleted,
                 stoppedReason, cleanly, rec>>

DismissClick ==
  /\ phase = "dismiss" /\ current.dismissHint /\ attempt <= MaxAttempts
  /\ phase' = "after-dismiss"
  /\ ObserveWith(Key(-attempt, 0, "after-dismiss"))
  /\ UNCHANGED <<attempt, driver, scenarioId, executed, failures, roundsCompleted,
                 stoppedReason, cleanly, rec>>

AfterDismiss ==
  /\ phase = "after-dismiss" /\ phase' = "dismiss" /\ attempt' = attempt + 1
  /\ AdoptObserved
  /\ UNCHANGED <<driver, scenarioId, executed, failures, roundsCompleted, stoppedReason, cleanly, rec>>

AfterDismissFails ==
  /\ phase = "after-dismiss" /\ obs.at = "err"
  /\ DropObservation /\ StartRounds

AfterDismissThrows ==
  /\ phase = "after-dismiss" /\ obs.at = "throw"
  /\ DropObservation /\ Abort

\* The loop ends, or its clock check breaks it.
RoundsOver ==
  /\ phase = "round" /\ phase' = "finally"
  /\ \/ roundsCompleted = MaxRounds /\ UNCHANGED stoppedReason
     \/ roundsCompleted < MaxRounds /\ stoppedReason' = "max-duration"
  /\ UNCHANGED <<runVars, attempt, driver, scenarioId, executed, failures, roundsCompleted,
                 cleanly, rec>>

StartScenario(s) ==
  /\ phase = "round" /\ phase' = "scenario" /\ roundsCompleted < MaxRounds
  /\ scenarioId' = s.id
  /\ Run(s.actions)
  /\ UNCHANGED <<attempt, driver, executed, failures, roundsCompleted, stoppedReason, cleanly, rec>>

\* generateScenario throws; it is only called when the library is drained.
PlannerThrows ==
  /\ phase = "round" /\ roundsCompleted < MaxRounds /\ LibraryDrained(executed)
  /\ Abort /\ UNCHANGED runVars

ScenarioStep == phase = "scenario" /\ Step /\ UNCHANGED sesVars

\* Mutant: a scenario that was broken off is not counted as executed.
ScenarioReturnsUnlessHalted ==
  /\ phase = "scenario" /\ Return /\ phase' = "round"
  /\ executed' = IF halted THEN executed ELSE Append(executed, scenarioId)
  /\ failures' = failures \o violations
  /\ roundsCompleted' = round
  /\ UNCHANGED <<attempt, driver, scenarioId, stoppedReason, cleanly, rec>>

ScenarioReturns ==
  /\ phase = "scenario" /\ Return /\ phase' = "round"
  /\ executed' = Append(executed, scenarioId)
  /\ failures' = failures \o violations
  /\ roundsCompleted' = round
  /\ UNCHANGED <<attempt, driver, scenarioId, stoppedReason, cleanly, rec>>

ScenarioThrows ==
  /\ phase = "scenario" /\ pc = "thrown"
  /\ Abort /\ UNCHANGED runVars

FinalStatus == IF cleanly THEN "completed" ELSE "failed"

\* Mutant: the status is written before the counters are known.
FinalizeStale ==
  /\ phase = "finally" /\ phase' = "close"
  /\ \E ok \in WriteOutcomes : rec' = IF ok THEN [rec EXCEPT !.status = FinalStatus] ELSE rec
  /\ UNCHANGED <<runVars, attempt, driver, scenarioId, executed, failures, roundsCompleted,
                 stoppedReason, cleanly>>

\* The finally block: updateStatus, whose storage error is ignored ...
Finalize ==
  /\ phase = "finally" /\ phase' = "close"
  /\ \E ok \in WriteOutcomes :
       rec' = IF ok THEN [status |-> FinalStatus, roundsCompleted |-> roundsCompleted,
                          failureCount |-> Len(failures)]
              ELSE rec
  /\ UNCHANGED <<runVars, attempt, driver, scenarioId, executed, failures, roundsCompleted,
                 stoppedReason, cleanly>>

\* Mutant: only a clean run closes its driver.
CloseDriverIfClean ==
  /\ phase = "close" /\ phase' = "done"
  /\ driver' = IF cleanly THEN "closed" ELSE driver
  /\ UNCHANGED <<runVars, attempt, scenarioId, executed, failures, roundsCompleted,
                 stoppedReason, cleanly, rec>>

\* ... and `if (driver) await driver.close()`.
CloseDriver ==
  /\ phase = "close" /\ phase' = "done"
  /\ driver' = IF driver = "null" THEN "null" ELSE "closed"
  /\ UNCHANGED <<runVars, attempt, scenarioId, executed, failures, roundsCompleted,
                 stoppedReason, cleanly, rec>>

Next ==
  \/ MarkRunning \/ CreateDriver \/ CreateThrows \/ Navigate \/ NavigateFails
  \/ ObserverAwaited \/ InitialObserved \/ InitialObservationFails
  \/ PreflightOver \/ DismissClick \/ AfterDismiss \/ AfterDismissFails \/ AfterDismissThrows
  \/ RoundsOver \/ PlannerThrows \/ \E s \in Planned(executed) : StartScenario(s)
  \/ ScenarioStep \/ ScenarioReturns \/ ScenarioThrows
  \/ Finalize \/ CloseDriver

Spec == Init /\ [][Next]_vars

\* Every awaited call settles: browser calls and waits have timeouts, the LLM client
\* a bounded number of attempts.  One LLM request and one OCR pass have no timeout
\* of their own: that they settle is assumed.
FairSpec == Spec /\ WF_vars(Next)

-----------------------------------------------------------------------------
Preflight == {"start", "create", "navigate", "initial", "dismiss", "after-dismiss"}
Closing == {"finally", "close", "done"}

ScenarioIds == {Library[k].id : k \in DOMAIN Library} \cup {s.id : s \in LLMScenarios}

TypeOK ==
  /\ phase \in Preflight \cup {"round", "scenario"} \cup Closing
  /\ attempt \in 0..MaxAttempts + 1 /\ driver \in {"null", "open", "closed"}
  /\ executed \in Seq(ScenarioIds) /\ failures \in Seq(FailureRecords)
  /\ stoppedReason \in {"max-rounds", "max-duration", "fatal-error"} /\ cleanly \in BOOLEAN
  /\ roundsCompleted \in 0..MaxRounds
  /\ rec \in [status : {"queued", "running"} \cup Terminal, roundsCompleted : 0..MaxRounds,
               failureCount : Nat]
  /\ phase = "scenario" => scenarioId \in ScenarioIds

\* The record tells the story of the run: a completed session used up its rounds
\* or its time and counts every failure it stored; anything else is failed.
OutcomeConsistent ==
  rec.status \in Terminal =>
    /\ rec.status = "failed" <=> stoppedReason = "fatal-error"
    /\ rec.roundsCompleted = Len(executed)
    /\ rec.status = "completed" =>
         /\ rec.roundsCompleted = MaxRounds \/ stoppedReason = "max-duration"
         /\ rec.failureCount >= Len(recorded)

\* The failures run() has in memory, and which of them were saved.
InMemory == failures \o (IF phase = "scenario" THEN violations ELSE << >>)
Saved(fs) == {k \in DOMAIN fs : fs[k].saved}

\* As long as no adapter throws, failures.json is what was saved of the failures
\* in memory, across scenarios and in order.
RecordedIsSaved ==
  pc # "thrown" =>
    LET saved == Saved(InMemory) IN
    /\ Len(recorded) = Cardinality(saved)
    /\ \A k \in saved : recorded[Cardinality({j \in saved : j <= k})] = InMemory[k]

\* The library is drained first, each scenario once and in order, whether it was
\* broken off or not.
LibraryFirst ==
  \A k \in DOMAIN executed : k <= Len(Library) => executed[k] = Library[k].id

\* The parts of the inductive invariant behind these, the two refinements and
\* SessionArtifactsWrittenOnce below.

\* The key of a pre-flight observation.
PreflightKey == IF phase = "initial" THEN InitialKey ELSE Key(-attempt, 0, "after-dismiss")

\* Nothing but observations before the first scenario, each under a key of its own
\* that a key of the rounds cannot equal.
PreflightInv ==
  round = 0 =>
    /\ pc = "idle" /\ todo = << >> /\ halted = FALSE /\ violations = << >> /\ recorded = << >>
    /\ actions = << >> /\ i = 1 /\ network = "none"
    /\ dispatched = 0 /\ currentAt = 0 /\ beforeAt = 0 /\ blind = {}
    /\ obs \in Observations /\ stored \subseteq Keys /\ puts \in Nat
    /\ IF phase \in {"initial", "after-dismiss"}
         THEN /\ obs.at # "idle" /\ obs.key = PreflightKey
              /\ obs.at \in {"screenshot", "put"} => obs.key \notin stored
              /\ obs.at \in {"ocr", "llm", "ok", "throw"} => obs.key \in stored
              /\ obs.at = "ok" => obs.state \in States /\ obs.state.screenshotRef = obs.key
         ELSE obs = Idle
    /\ phase \in {"dismiss", "after-dismiss", "round"} =>
         current \in States /\ current.screenshotRef \in stored
    /\ phase \in {"start", "create", "navigate"} => stored = {}
    /\ phase = "initial" => stored \subseteq {InitialKey}
    /\ phase = "dismiss" => \A key \in stored : key.round > -attempt
    /\ phase = "after-dismiss" => attempt <= MaxAttempts /\ \A key \in stored : key.round >= -attempt
    /\ \A key \in stored : key.round <= 0

\* The scenario runner works while run() awaits it, and run() counts its calls.
RoundInv ==
  /\ phase \in Preflight => round = 0
  /\ phase = "scenario" => pc # "idle" /\ roundsCompleted < MaxRounds
  /\ phase # "scenario" => pc = "idle" \/ (pc = "thrown" /\ phase \in Closing /\ ~cleanly)
  /\ roundsCompleted = Len(executed)
  /\ round = IF phase = "scenario" \/ pc = "thrown" THEN roundsCompleted + 1 ELSE roundsCompleted

\* What the record will tell is settled when run() enters its `finally` block.
OutcomeInv ==
  /\ cleanly <=> stoppedReason # "fatal-error"
  /\ ~cleanly => phase \in Closing
  /\ cleanly /\ phase \in Closing => roundsCompleted = MaxRounds \/ stoppedReason = "max-duration"
  /\ phase = "start" => rec.status = "queued"
  /\ rec.status \in Terminal =>
       /\ phase \in {"close", "done"}
       /\ rec = [status |-> FinalStatus, roundsCompleted |-> roundsCompleted,
                 failureCount |-> Len(failures)]

\* The scenario being run is the next of the library as long as there is one.
LibraryInv ==
  /\ LibraryFirst
  /\ phase = "scenario" /\ Len(executed) < Len(Library) => scenarioId = Library[Len(executed) + 1].id

SesInv ==
  /\ TypeOK /\ PreflightInv /\ (round > 0 => ScnInv) /\ RoundInv /\ OutcomeInv
  /\ RecordedIsSaved /\ LibraryInv

\* README.md:150 "terminal session status on every exit path": unless the write of
\* the `finally` block itself fails, every run ends with a terminal status ...
FinalWriteWorks == phase = "close" => rec.status \in Terminal
TerminalStatus == []FinalWriteWorks => <>[](rec.status \in Terminal)

\* ... and whatever storage does no driver stays open.
DriverReleased == <>[](phase = "done" /\ driver # "open")

\* The record and the failures keep the promise of SessionLifecycle.
Lifecycle == INSTANCE SessionLifecycle
  WITH status <- rec.status, rounds <- rec.roundsCompleted, count <- rec.failureCount, log <- recorded

ImplementsLifecycle == Lifecycle!Spec

\* Whoever watches the session through its repository sees the calls of
\* WorkerProtocol in their order, one after the other, with a final status and
\* counters that fit what was handed to recordFailure before.
Stage ==
  CASE phase = "start" -> "created"
    [] phase = "finally" -> "finishing"
    [] phase \in {"close", "done"} -> "ended"
    [] phase = "scenario" /\ pc = "persist" -> "recording"
    [] OTHER -> "running"

HandedOver ==
  Len(failures) + (IF phase = "scenario" \/ pc = "thrown" THEN Len(violations) ELSE 0)

FinalPatch ==
  IF phase \in {"finally", "close", "done"}
  THEN [status |-> FinalStatus, count |-> Len(failures)] ELSE Null

Protocol == INSTANCE WorkerProtocol
  WITH at <- Stage, found <- HandedOver, saved <- Len(recorded), final <- FinalPatch

FollowsProtocol == Protocol!Spec

\* A key is written once in a whole session, pre-flight included.
SessionArtifactsWrittenOnce == [][stored' = stored => puts' = puts]_vars
=============================================================================
