# CACQA: a TLA+ model of the session pipeline

CACQA tests browser casino games: a session opens a game, looks at it through
screenshots, OCR and a vision LLM, plays scripted or LLM-made scenarios, and lets
an oracle judge every observed transition. This directory holds a specification
of that pipeline, the model-checking runs and the machine-checked proofs.
Paths are relative to the repository root.

## 1. Inventory

| Component | State it keeps | Operations | What is hard |
|---|---|---|---|
| Scenario runner (`apps/worker/src/session/scenario-runner.ts`) | current state, violations of the scenario | `run`: per action resolve, execute, observe, judge, persist | each await may fail; a state kept after a failed observation is stale; a break leaves the browser as it is |
| State observer (`state-observer.ts`) | none; writes artifacts | `observe`: screenshot, put, OCR, LLM | four stages that fail separately, the artifact already stored; the LLM adapter may throw |
| Session runner (`session-runner.ts`) | failures, executed ids, rounds, stop reason, driver | `run`, `dismissOverlays` | early returns, throws and a `finally` that must agree on the outcome |
| Scenario planner (`scenario-planner.ts`, `scenarios/library.ts`) | none | `nextScenario` | library first, then LLM, then replay |
| Oracle (`packages/oracle`) and money (`packages/core/src/domain/money.ts`) | none | four rules, the engine's loop | a throwing rule; rounding and tolerance; rules that share one event |
| Session repository (`packages/storage`) | `session.json`, `failures.json` | create, updateStatus, recordFailure, findById, listFailures, list | no locks, read-modify-write, truncate-then-fill writes that may overlap; `list` reads many files at different moments and takes an I/O error for an absent file |
| API (`apps/api/src/sessions`) | none besides the files | create a session and spawn its worker; read endpoints | a detached process nobody watches, readers concurrent with the writer |
| run-once (`apps/worker/src/cli/run-once.ts`) | the process | create, run, shut down | creates the record a second time; may die anywhere |
| Dashboard page (`apps/dashboard/src/app/sessions/[id]`) | what is on the page | poll, render | parallel reads at different moments; an error ends the polling |
| Queue worker (`apps/worker/src/index.ts`, `composition.ts`) | active jobs, shutdown flag | take a job, shut down | sessions share a browser and an OCR worker; signals, to which Playwright listens as well; a job handed out twice |
| Browser factory and driver (`packages/browser`) | cached launch promise, contexts, network profile | create, executeAction (clickPoint, clickByLabel, clickIfPresent, ...), close, shutdown | a cached rejected promise; a context without a driver; a click sent three times, in parts that fail separately; a click that times out after it was sent |
| OCR service (`packages/vision`) | worker, initialization promise | extractText, dispose | concurrent first callers |
| Gemini adapter (`packages/llm`) | none | extractState, generateScenario over `callJson` | retries, error classification, throws outside the try block |

Interaction: the API writes the record and spawns run-once, which runs a session
runner; that calls driver, observer, planner and scenario runner in sequence, one
await after the other. API, worker process and page share only the two JSON
files. In the queue worker several session runners run interleaved in one process
and share the browser and the OCR worker. The queue has no producer in this
repository; its jobs are the worker's input.

What makes the parts correct: a failure report blames the right action and
carries evidence that exists; a session ends, says how, and counts what it
stored; a reader never stops on something untrue; nothing acknowledged is lost;
shared resources are started once, never taken away from a user, and released.
`PROJECT.json` lists every hazard with its line.

## 2. Modules

| Module | Models | State and actions |
|---|---|---|
| `Domain`, `Money` | action types, money arithmetic | constant operators; a multiplier is a whole number of hundredths |
| `Oracle` | the four rules, `Evaluate` as a closed form | constant operators |
| `RuleEngine` | the engine's loop | `RunRule` per rule, `ReturnVerdict` |
| `StateObserver` | `observe()` | `obs.at` is the await it stands at; one action per stage and outcome |
| `ScenarioRunner` | `run()` for one scenario after the other; uses `Oracle`, `StateObserver` | `pc`: `act`, `observe`, `persist`; `before`, `current`, `violations` are the locals of `run()`, `recorded` is `failures.json`; history variables count the actions handed to the browser |
| `ScenarioPlanner` | `nextScenario()` | operators of the ids already executed |
| `SessionRunner` | a whole session; extends `ScenarioRunner` and `ScenarioPlanner` | `phase` is the await of `run()`; the locals, and `rec` for `session.json` |
| `SessionLifecycle` | abstract: what a session promises its readers | `Start`, `Record`, `Finish` |
| `WorkerProtocol` | abstract: the repository calls one run makes | `MarkRunning`, `Record`, `Count`, `Finish`, `End` |
| `SessionStore` | the repository for one session, at the grain of file system calls | files are absent, empty, torn or whole; `call[w]` is the call of each process |
| `SessionRuns` | runs of one session: the calls of `WorkerProtocol` carried out on `SessionStore`, a process that dies | `run[w]` is where a run stands, what it found and what was acknowledged |
| `SessionSystem` | API, worker process, page; extends `SessionRuns` with one run | one action per call, result, spawn, crash, fetch and render |
| `JobDelivery` | a queue job, its lock and its second delivery; extends `SessionRuns` with two runs | `job`, `holder` and `delivered` are BullMQ's; `Deliver`, `LockExpires`, `Stalled`, `Report` |
| `SessionListing` | `GET /sessions`: `list()`, its sort, limit and offset, while workers write | `disk` holds every `session.json`; `List` and `ReadFile` per file may meet an I/O error, `Reply` sorts and cuts |
| `WorkerPool` | queue worker, browser factory, OCR service, shutdown; Playwright's handlers of the same signals are external | `job[j]` is the await of each session, `stop` that of `shutdown()`, `closing` what Playwright is about |
| `LLMClient` | `callJson` and `generateWithRetry` | request, back off, parse |
| `ActionResolution` | `resolveAction`, `findMatchingElement` | one step per candidate wording |
| `BrowserDriver` | `clickPoint`, `clickByLabel`, `clickIfPresent` of the driver; extends `ActionResolution` | `stage` is the await of the driver; one action per call to the page and outcome |
| `PlayedGame` | `ScenarioRunner` and `Oracle` over a game, which is external; the library's action sequences | the game's steps interleave with the runner's; `shot` is the screen in the last screenshot |
| `*Proofs` | theorems of the module of that name; `OracleProofs` those of `RuleEngine` and `PlayedGame`, `AdapterProofs` those of `BrowserDriver`, `LLMClient` and `SessionListing` | see section 4 |
| `MC*` | small constants for TLC | |

The session is modelled once in full and used reduced elsewhere. `SessionRunner` has
all its control, with the repository reduced to a write that succeeds or does not,
and refines two abstractions: `SessionLifecycle`, what readers are promised
(`status <- rec.status`, `rounds <- rec.roundsCompleted`, `count <-
rec.failureCount`, `log <- recorded`), and `WorkerProtocol`, the order of its
repository calls and what the last one may be called with (`at <- Stage`, `found <-
HandedOver`, `saved <- Len(recorded)`, `final <- FinalPatch`). `SessionRuns` performs
just that protocol on the files of `SessionStore`, so `SessionSystem` and
`JobDelivery` put nothing but what a session can do in front of torn files, crashes
and readers. `WorkerPool` reduces a session to its use of the shared services.

Definitions named "Mutant" in their comment are never used by a specification:
each is a plausible bug of the definition next to it, kept to show that the
property it belongs to would notice. `PROJECT.json` pairs them.

Modelling decisions:

- JavaScript runs to the next await, so a step of a model is the code between two
  awaits. A `ResultAsync` may resolve to `Err` wherever its call touches browser,
  disk, OCR or LLM; it rejects where the code can throw inside `andThen`
  (`gemini-provider.ts:196`).
- `wait` does not fail, `set-bet` always does (`playwright-driver.ts:101-116`),
  every other action may.
- A failed `throttle-network` leaves the profile as it was.
- The clock is nondeterminism: `RoundsOver` may take the `max-duration` break at
  each check. `maxDurationMs` is looked at nowhere else.
- `writeFile` is an open with truncation and a write: in between the file is empty. A
  disk failure may hit any call; one that breaks a write off, like the death of the
  process, leaves the file empty or torn. Two writes that overlap each start at
  offset 0, so the file they leave may be the content of either one or torn
  (`Written`). The `mkdir` before it changes nothing the model sees.
- `list()` swallows what its `readdir` and its reads throw, and so does the model; a
  history variable remembers the sessions that were missed for it.
- `chromium.launch` is called without `handleSIGINT` and `handleSIGTERM`
  (`playwright-driver.ts:362-368`), so Playwright has handlers of its own while a
  browser process is there: it closes the browser on both signals and then ends the
  process on SIGINT. They are external actions of `WorkerPool`, which run beside
  `shutdown()`; a SIGHUP, which Playwright alone hears, is one of the ways in which a
  browser dies. `JobDelivery` has the process that ends among the deaths of a run, and
  `SessionRunner` the closed browser among the calls that fail.
- A `click()` of a locator may time out after its events were sent, when the click
  started a navigation that is slow to come. `BrowserDriver` lets any click that times
  out have been made or not, and the page be another one by the next candidate.
- A click is what the game may hear of it. `PlayedGame` lets a click reach the game
  not at all, once or twice whatever the driver reports, which is what
  `BrowserDriver` says can happen. A listener is one event type, and whether it
  insists on trusted events; after a tap a browser may or may not send mouse events
  of its own.
- In `PlayedGame` the LLM reads a screenshot correctly; in `ScenarioRunner` it may
  read anything.
- A repository write in `SessionRunner` either happens or does not. A write that
  tears the file is in `SessionStore`.

## 3. Runs

`tlc -config <cfg> <module>`; a run asks one question of the system, and a passing
run checks the safety and the liveness side of it together. `ScnInv`, `SesInv`,
`SystemInv` and `PoolInv` in the configurations are the inductive invariants of the
proofs; each has the type correctness of its module as a part.

| Run (cfg) | Shows |
|---|---|
| `MCRuleEngine` | the loop returns the closed form; it gives up exactly on a currency change during a bet; each unexplained balance change is reported once; the payout rule is exact up to a unit and a half |
| `MCScenarioRunner` | blame, evidence, unique artifact names and the emulated network under all failures |
| `MCSessionRunner` | outcome, counters, failures kept in order, library order and artifact names over a whole session; refinement of `SessionLifecycle` and `WorkerProtocol`; every session ends, terminal unless the last write fails, with its context closed |
| `MCSessionSystem` | no two writers, no acknowledged failure lost while the file is readable, a page that stopped polling is right, all with crashes and disk failures; without any, the files end terminal and consistent |
| `MCJobDelivery` | two deliveries of one job write one after the other and lose nothing acknowledged unless a live process lost its lock; a terminal record is touched only after a stall; the job ends, and its record is terminal unless a run died or the disk failed, or torn if two writes overlapped |
| `MCSessionListing` | a list assembled while files change is in the order of its dates and made of records the files had; only limit, offset, torn files and I/O errors withhold a session |
| `MCWorkerPool` | browser and OCR worker are started once and released, and `shutdown()` never takes them from a session, though Playwright may after a signal; a signal ends the process, and the sessions come first unless Playwright does |
| `MCLLMClient` | what the retry loop survives, and after which errors it stops |
| `MCBrowserDriver` | which element is clicked on every small screen, what a listener hears of it, a second ARIA node only after a click that timed out too late, a best-effort click that only a malformed label fails |
| `MCPlayedGame` | the balance rules report exactly what the game did between the screenshots; a correct game is only accused where windows and wordings allow |

Two runs end in a violation: they show where the code does something else than the
repository says of it (quotes in `PROJECT.json`, "findings"):

| Run (cfg) | Claim | What happens |
|---|---|---|
| `MCSessionSystemPage` | the page refreshes until the run finishes | one poll that meets a torn file ends the polling |
| `MCBrowserDriverOnce` | of tap and mouse, the one the game does not listen for is dropped harmlessly | a control that listens for clicks or pointers is activated up to three times by one click |

Each has a counterpart that holds and says how far the claim goes: `FinalPageTruth`
(what a page that stopped on a terminal status shows is right), `ClickHeard` (a click
reported as done was heard at least once) and `JustAccusations` (a second bet from one
click is no reason to accuse a game).

Other divergences met while modelling, which the models take as the code has them:

- `scenario-runner.ts:169-170` says the oracle can pinpoint the culprit; after a failed
  observation several actions share a window and the last is blamed (`BlameWindow`
  says how far).
- `scenario-runner.ts:214` gives the next scenario a fresh attempt; after a break
  between throttle and restore it inherits the throttled network
  (`FreshUnlessBrokenOff` says when it does not).
- `sessions.service.ts:51-52` has the worker update the record the API stored;
  `run-once.ts:49` creates it anew with limits of its own, and those of the request
  are lost (`RecordReachesTerminal` asks for the worker's).
- `gemini-provider.ts:137-138`: 429 errors are not retried; they are when the message
  names 500 or a like token, which is all `isRetryable` reads (`TransientSurvived`
  takes its word for what is transient).
- `rule-engine.ts:18-19` wants maximum signal, but one throwing rule drops what the
  others found; `ErrOnlyOnCurrencyChangeDuringBet` says when.
- `failure.ts:9-11` promises the state before a failure; `scenario-runner.ts:280`
  gives the state at the start of the scenario for a failed action.
- `README.md:150` promises a terminal status on every exit path; it is lost when
  the write of `session-runner.ts:161` fails (`TerminalStatus` says only then).
- `filesystem-session-repository.ts:43-44` calls its writes atomic; a reader can find
  a truncated file, as the counterexample of `MCSessionSystemPage` does. It calls the
  worker the single writer; a job that is handed out again while its first process
  lives makes two (`KeptUnlessOvertaken` says that nothing else does), and their
  overlapping writes can leave `session.json` torn for good (`JobSettles`).
- A session that failed because an adapter threw may count fewer failures than it
  lists: those of the scenario it was in.
- A job handed out again starts the session from the beginning: a record that was
  terminal goes back to running, failures are appended to the first run's, and
  screenshots of the same names are overwritten.
- `playwright-driver.ts:275-276` and `:300`: click-if-present never fails; it does for a
  label that is no regular expression, which the visual look-up before it tolerates
  (`scenario-runner.ts:138`).
- `filesystem-session-repository.ts:102` sorts the most recently updated first; a
  queued session has no date and comes last, behind every finished one, so that a
  limit hides the newest; and a session that runs again still has the end of the run
  before, by which it is sorted until it ends again. A `limit` that is no number gives an empty list rather than
  the default one.
- The 404 `Sessions store unavailable` of `sessions.controller.ts:93` cannot be
  reached: `list()` turns every read error into an empty or shorter list, and the
  answer is a 200 (`NothingWithheld` excepts what was missed for one).
- `index.ts:63`: "drain in-flight jobs, kill the browser". Playwright hears the signal
  too and closes the browser under the jobs; on SIGINT it ends the process with 130
  before they are drained (`NothingPulledAway` and `SignalEndsProcess` say what is left
  of it).
- `library.ts:54` expects the balance to decrement at most once over five rapid
  bets; no rule compares more than two screens, and the clicks are not rapid, each
  is followed by an observation.
- `scenario-runner.ts:92` cashes out by `collect` or `take win`; `ui-rules.ts:18` only
  knows `cash out` and accuses a game that uses the other words (`JustAccusations`).
- `gemini-provider.ts:50` wraps all errors; `text()` at line 196 rejects instead.
- `action.ts:15` picks by `occurrence`; `scenario-runner.ts:57` takes the first match,
  so an element found visually is clicked whatever the occurrence, and only the
  driver's own look-up counts (`RetriedWhenLateOnly`).
- `playwright-driver.ts:294-297` takes a candidate that timed out for one that was not
  clicked; click-if-present may click up to three nodes (`RetriedWhenLateOnly`).

### Bounds

- `MCRuleEngine`: three balances in two currencies and none, amounts and
  multipliers on both sides of a half unit and of the tolerance, every state of
  the cash-out control. The rules read nothing else.
- `MCScenarioRunner`: two scenarios (`MaxRounds`) of up to three actions. A window
  of several actions, a stale state carried into the next scenario, a throttle left
  behind and an overwritten name each need two actions or two scenarios.
- `MCSessionRunner`: two library scenarios and one from the LLM; three rounds,
  as many as it takes to drain the library and ask the LLM or replay. The first
  scenario has two actions, so that an adapter may throw after a failure was found.
- `MCSessionSystem`: one session, since sessions share no file; `MaxFailures = 3`
  so that a lost write lies between two that succeed.
- `MCWorkerPool`: three jobs, two at a time: two race for the first launch, the
  third meets what they left. No symmetry, since the run checks liveness too.
- `MCJobDelivery`: two deliveries, which is BullMQ's default (`maxStalledCount` 1),
  and one failure each, so that the second run appends to what the first left.
- `MCSessionListing`: three sessions, one write during the life of a request, and
  every limit and offset around the length of the list: the write makes two sessions
  swap places, a third is torn, queued or missed. Each file is read once, so a second
  write could only change what a read finds, which the initial states vary already.
- `MCBrowserDriver`: three elements suffice for a control, a readout that comes
  before it, and a second match; two nodes for a click that goes to the first of two or
  to a link or a text, three for two buttons of the same name with something between.
  Each candidate may find another tree.
- `MCLLMClient`: an error of each class of tokens and one without, every kind of
  response; the attempts are bounded by the code.
- `MCPlayedGame`: one scenario, the first two of the library, its rapid bets cut to
  two, and a bet followed by a cash-out. Multipliers that pay a half unit; two words
  for the cash-out control; one fault at most.

All runs say `CHECK_DEADLOCK FALSE`: what they model ends, a call that has
returned, a session that is over, a process that has exited. That it does not stop
earlier is what the liveness properties say.

### Fairness

- `SessionRunner`: weak fairness of the whole step. `run()` is one sequential async
  function, so some step follows as long as its awaited call settles. Browser
  calls, waits and retries are bounded; that a single LLM request and a single OCR
  pass settle is an assumption, neither has a timeout.
- `SessionSystem`: weak fairness of the API's, the worker's and the page's steps and
  of each process's repository call: running processes run on, file system calls
  return, the interval fires. None for crashes and disk failures.
- `JobDelivery`: Redis keeps its clock, so the lock of a dead process runs out; some
  worker is there to look for stalled jobs and to take a waiting one; processes that
  live run on. None for deaths, disk failures or a lock lost by a live process.
- `WorkerPool`: weak fairness of jobs, shared promises and shutdown, none for
  signals, Playwright's handlers of them, crashes of the browser or a failing drain. Strong fairness of
  `EndSession`: a session makes finitely many observations, which the module does
  not count.

## 4. Proofs

`tlapm <module>` checks the proofs of a module. The theorems are properties that the
runs check, unless marked *(inv)* for an inductive invariant, *(types)* or *(safety)*
for the safety side of a liveness property.

| Module | Theorem | States |
|---|---|---|
| `ScenarioRunnerProofs` | `ScnInvariant` | `ScnInv` *(inv)* |
| | `ScnTypes` | `ScnTypeOK` *(types)* |
| | `BlameSound` | `BlameWindow` |
| | `EvidenceSound` | `EvidenceStored` |
| | `KeysUnique` | `ArtifactsWrittenOnce` |
| | `NetworkFresh` | `FreshUnlessBrokenOff` |
| `SessionRunnerProofs` | `SessionInvariant` | `SesInv` *(inv)* |
| | `SessionTypes` | `TypeOK` *(types)* |
| | `RecordTellsTheStory` | `OutcomeConsistent` |
| | `FileMatchesMemory` | `RecordedIsSaved` |
| | `LibraryDrainedFirst` | `LibraryFirst` |
| | `SessionKeysUnique` | `SessionArtifactsWrittenOnce` |
| | `RunnerImplementsLifecycle` | refinement of `SessionLifecycle` |
| | `RunnerFollowsProtocol` | refinement of `WorkerProtocol` |
| `SessionRunsProofs` | (lemmas) | the parts that the next two share |
| `SessionSystemProofs` | `SystemInvariant` | `SystemInv` *(inv)* |
| | `SystemTypes` | `TypeOK` *(types)* |
| | `OneWriterAtATime` | `OneWriter` |
| | `AcknowledgedStays` | `AcknowledgedKept` |
| | `LastWord` | `FinalPageTruth` |
| | `EndsWithTheStory` | as long as `NothingFails`, an ended run satisfies the `StoryTold` of `RecordReachesTerminal` *(safety)* |
| `JobDeliveryProofs` | `JobInvariant` | `JobInv` *(inv)* |
| | `KeptAcrossDeliveries` | `KeptUnlessOvertaken` |
| | `TerminalIsLast` | `TerminalIsLastUnlessStalled` |
| `WorkerPoolProofs` | `PoolInvariant` | `PoolInv` *(inv)* |
| | `PoolTypes` | `TypeOK` *(types)* |
| | `OneBrowserOneWorker` | `SharedOnce` |
| | `AwaitedIsThere` | `NothingPulledAway` |
| | `NothingLeftBehind` | `CleanExit` |
| `OracleProofs` | `EngineInvariant` | `EngineInv` *(inv)* |
| | `LoopIsEvaluate` | `VerdictIsEvaluate` |
| | `GivesUp` | `ErrOnlyOnCurrencyChangeDuringBet` |
| | `ChangeReportedOnce` | `BalanceChangeReportedOnce` |
| | `PayoutJudged` | `PayoutTolerance` |
| | `GameInvariant` | `GameInv` *(inv)* |
| | `VerdictSound` | `VerdictMatchesGame` |
| | `AccusationsJust` | `JustAccusations` |
| `AdapterProofs` | `DriverInvariant` | `DriverInv` *(inv)* |
| | `HeardIfReported` | `ClickHeard` |
| | `FailsOnMalformedOnly` | `BestEffort` |
| | `BestMatch` | `BestMatchClicked` |
| | `OneClickUnlessLate` | `RetriedWhenLateOnly` |
| | `CallInvariant` | `CallInv` *(inv)* |
| | `TransientsSurvived` | `TransientSurvived` |
| | `ListingInvariant` | `ListingInv` *(inv)* |
| | `ListTruthful` | `ReplyTruthful` |
| | `ListComplete` | `NothingWithheld` |

In each module there is one lemma per action or group of actions that touch the same
parts, the step of the whole next-state relation on top of them, and the theorems at
the end.

**Assumptions.** They are named `ASSUME`s of the modules that declare the constants,
and TLC evaluates them in the runs:

- a nullish field is none of the values that can stand in its place
  (`NullAssumption`, `OutcomesAssumption`, `ResponsesAssumption`, `NullMoneyAssumption`,
  and in `ElementsAssumption` and `QueriesAssumption`, where `NaN` is no integer either);
- scenarios are sequences of the domain's actions and a library scenario has an id of
  its own (`ScenariosAssumption`, `LibraryAssumption`, `PlannedAssumption`);
- `maxRounds` and the bound on failures are numbers, the concurrency is a positive
  one, storage may or may not fail (`RoundsAssumption`, `RunsAssumption`,
  `ConcurrencyAssumption`, `StorageAssumption`);
- who writes: API and worker, or the deliveries of a job, numbered from 1
  (`ProcessesAssumption`, `DeliveriesAssumption`);
- amounts are integers of a currency, multipliers whole hundredths, as `MoneySchema`
  and the display have them (`ContextsAssumption`); a game's stake is positive, its
  balance and its multipliers are integers (`GameAssumption`);
- screens and ARIA trees are sequences, an occurrence is a natural number as
  `ActionSchema` has it (`ElementsAssumption`, `TreesAssumption`,
  `OccurrencesAssumption`);
- the session directories have distinct names; limit and offset of a query are an
  integer, absent or `NaN` (`SessionsAssumption`, `QueriesAssumption`).

`NetworkFresh` has a hypothesis of its own, that every scenario which throttles the
network restores it (`Restores`). Those of the library do; one the LLM makes up need
not, and then the next scenario does inherit its network.

**The scenario runner.** Neither `BlameWindow` nor `EvidenceStored` is inductive
alone. A failure is built from the states the runner holds and from the observer's
result, so `ScnInv` also says: the observer is busy exactly while `run()` awaits it,
on the key of the current action, and hands over a state that carries that key
(`ObserverInv`); stored keys are those of earlier actions, and of the current one
once it is put (`KeysInv`), which is why a new put is of a new key; the states held
refer to stored screenshots, `before` to one of an earlier action (`RefsInv`),
which is why a violation's two screenshots differ; whatever was handed to the
browser after `current` was captured is in `blind` (`WindowInv`). `NetworkInv` says
for the network that it is as the actions executed so far left it, until one fails.

**The session.** `SesInv` carries `ScnInv` through the rounds. Before them nothing
but observations happens, each under a key that no round can produce
(`PreflightInv`), so the first scenario starts in a state `ScnInv` allows. `RoundInv`
ties what `run()` counts to what the scenario runner has done, `OutcomeInv` fixes
what the record will tell when `finally` is entered, and `RecordedIsSaved` relates
the failures in memory to the file until an adapter throws. The refinements follow
from it: each step of the session is a step of the abstract module or leaves its
variables alone. `RecordedIsSaved` speaks of the set of places at which a failure
was saved, since filtering a sequence is a recursion the provers do not see through.

**The files.** `OneWriter` and `AcknowledgedKept` need to know where each process
stands between two file system calls: `RunsInv` says which repository call a run is
in and with what it was called, `ApiInv` that the worker exists only after the API's
last write, `ListedInv` that every list anyone has read or is about to write is no
shorter than what was acknowledged and longer by one at most, `LastWordInv` that
nothing is written after a terminal record and that its count covers every list, and
`PageInv` that a terminal record the page has read is still on disk. For a job,
`KeptInv` says the same of all deliveries together as long as no process at work was
overtaken, and `DeliveryInv` that then only the holder of the lock is at work. Both
need `OpenedInv`: who has a file open and is alone with it finds it empty, so that
what it writes is whole.

`EndsWithTheStory` is the part of `RecordReachesTerminal` that needs no fairness.
`FaithfulInv` follows the data through the run: what the call under way carries
comes from the files and is what it leaves in them, so that a call that was Ok can be
taken at its word. Every step between two states in which nothing has failed keeps it,
which is why the theorem has `[]NothingFails` as its hypothesis. That the run does end
is left to TLC.

**The shared services.** `SharedOnce` and `CleanExit` count calls and look at the end
only. `CountInv` ties the counts to the cached promises, `AwaitedInv` finds for every
pending promise a session that waits for it, and `ReleaseInv` orders shutdown after
the last session: `dispose()` does not wait for an initialization, and need not.
`NothingPulledAway` is a part of the invariant as well: contexts live in the browser
that is up only, so a session between `newContext` and `driver.close()` has one
while that browser is there.

**The oracle.** `EngineInv` says that what was collected are the findings of the
rules run so far, in their order, and that an error is noted exactly when one of them
threw. A rule finds at most one violation, under its own name, so the places of a
verdict tell the rules apart, which gives `BalanceChangeReportedOnce`; rounding is
off by half a unit at most for every product, which with a tolerance of one gives
the unit and a half of `PayoutTolerance`.

**The game.** The runner may lose observations, and the game goes on while a screenshot
is looked at, so `MovesInv` splits the money that moved since the state the runner
holds: what the last screenshot shows of it (`captured`) and what came later
(`later`). Their sum is the difference between the game's balance and the one the
runner knows, which makes the balance rules right about the window between two
screenshots (`VerdictMatchesGame`). `Accounted` says that only a payment, a refund or
a fault makes a balance grow, and `ShotInv` carries the screen from the game to the
state the oracle is given (`Genuine`: a round is paid by its multiplier, a pending one
offers its control), from which `JustAccusations` follows with the payout lemmas.

**The clicks.** `ResolveInv` remembers that the wordings before the current one found
nothing. `HeardInv` says what the listener must have heard by each await of
`clickPoint`, whichever part of it was dropped; `StageInv` ties the awaits to the
actions that reach them. `ClicksInv` adds that there are fewer clicks than
candidates tried and that none but the last one ended in time. That the node is the occurrence asked for is a count: in a finite set under a
strict order, the ranks are distinct and none is left out (`Ranks`, by the pigeonhole
principle).

**The retries.** `CallInv` ties the attempt to the errors met: those of earlier
attempts were transient, and a call that settled without a response met one that was
not, or had no attempt left.

**The list.** `FilesInv` has the disk hold nothing but what a repository writes.
`RequestInv` has what a request reads be something the file was while it was served,
and a file it does not read be one that was absent at some time, unless the session
is among those missed for an I/O error. The reply is a slice
of the sorted files; the place of each is its rank in the order of dates and
directories, so by `Ranks` places are distinct and without a gap, which gives
`ReplyTruthful`. There are at least as many files as sessions that could be read all
the time and were not missed, and no more than sessions that ever had one, which
gives `NothingWithheld`.

**With TLC.** `ScnInv`, `SesInv`, `SystemInv` and `PoolInv` are invariants of their
runs. `NetworkInv`, `JobInv`, `EngineInv`, `GameInv`, `DriverInv` and `ClicksInv`,
`CallInv` and `ListingInv` hold as well when added to the `INVARIANTS` of
`MCScenarioRunner.cfg`, `MCJobDelivery.cfg`, `MCRuleEngine.cfg`, `MCPlayedGame.cfg`,
`MCBrowserDriver.cfg`, `MCLLMClient.cfg` and `MCSessionListing.cfg`; that of the engine
takes some minutes, since it evaluates the closed form in every state. `FaithfulInv`
holds in `MCSessionSystem.cfg` with `DiskMayFail` and `WorkerMayCrash` false.

**Only model-checked.** Liveness, since fairness is out of the provers' reach:
`TerminalStatus`, `DriverReleased`, `RecordReachesTerminal` (but for its safety side),
`JobSettles`, `SignalEndsProcess`. All other properties of the passing runs, the two
refinements among them, are proved.

## 5. Not modelled

- Prompts, schemas, the mock provider, configuration, logging, DTO validation,
  page layout: text, declarations and wiring.
- The session form and the home page: one request each, no state beyond the form's.
- The rounds and screenshots endpoints: a directory scan and a file that is
  streamed, on whose answers nothing depends. The detail page fetches the rounds
  beside what the model has it fetch, and shows none when that fails.
- Geometry of clicks: a point is the element it is the middle of. Image
  preprocessing, OCR blocks.
- `typeByLabel`, `reload`, `openNewTab`: single calls that succeed or fail.
- IEEE-754 rounding of `amount * multiplier`: multipliers are exact hundredths.
- `analyzeFailure` of the LLM port and `extraRules` of the oracle: no caller.
- The category bias of the planner: it reaches the LLM's prompt only.
- The full session over torn files in one module: `SessionRunner` and `SessionStore`
  meet through `WorkerProtocol` instead, which keeps both small enough to check.

## 6. Plan

The order was: the failure report first (observer, scenario runner, oracle), then the
session, then the files and their readers, then the shared services, then what joins
them (the protocol between session and files, redelivery, listing, clicks, the
game). These are done, and so are the proofs of section 4: first the inductive
invariants of the cores and what follows from them, then the refinements, then the
adapters and the game. The liveness properties are left for a prover that knows
fairness. Changes of the code that should bring one back here: a timeout of the LLM
request or of the OCR pass (the fairness of `SessionRunner` would then need no
assumption about them), a listener for the worker's `error` event (`SpawnFails`), a
write to a temporary file and a rename (no torn files, and `MCSessionSystemPage`
should pass).
