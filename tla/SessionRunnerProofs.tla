-------------------------- MODULE SessionRunnerProofs --------------------------
(***************************************************************************)
(* For every library, every set of scenarios an LLM may add, every bound   *)
(* on the rounds, with or without storage errors: SesInv is inductive for  *)
(* SessionRunner, and with it the record tells the story of the run, the   *)
(* file of failures matches the memory, no artifact is overwritten, and    *)
(* the run implements SessionLifecycle and WorkerProtocol.                 *)
(***************************************************************************)
EXTENDS SessionRunner, ScenarioRunnerProofs, FiniteSetTheorems

-----------------------------------------------------------------------------
(* Which failures of a sequence were saved.                                *)

LEMMA SavedType ==
  ASSUME NEW fs \in Seq(FailureRecords)
  PROVE  /\ Saved(fs) \subseteq 1..Len(fs) /\ IsFiniteSet(Saved(fs))
         /\ Cardinality(Saved(fs)) \in Nat /\ Cardinality(Saved(fs)) <= Len(fs)
<1>1. Saved(fs) \in SUBSET (1..Len(fs)) /\ Len(fs) \in Nat
  BY DEF Saved
<1>2. IsFiniteSet(1..Len(fs)) /\ Cardinality(1..Len(fs)) = Len(fs)
  <2>1. 1 \in Int /\ Len(fs) \in Int /\ (1 > Len(fs) => Len(fs) = 0)
    BY <1>1
  <2>2. IsFiniteSet(1..Len(fs)) /\ Cardinality(1..Len(fs)) = IF 1 > Len(fs) THEN 0 ELSE Len(fs) - 1 + 1
    BY <2>1, FS_Interval
  <2> QED
    BY <1>1, <2>1, <2>2
<1>3. IsFiniteSet(Saved(fs)) /\ Cardinality(Saved(fs)) <= Cardinality(1..Len(fs))
  BY <1>1, <1>2, FS_Subset
<1> QED
  BY <1>1, <1>2, <1>3, FS_CardinalityType

\* The place of a saved failure in the file.
Place(k, fs) == Cardinality({j \in Saved(fs) : j <= k})

LEMMA PlaceType ==
  ASSUME NEW fs \in Seq(FailureRecords), NEW k \in Saved(fs)
  PROVE  Place(k, fs) \in 1..Cardinality(Saved(fs))
<1> DEFINE T == {j \in Saved(fs) : j <= k}
<1>1. T \in SUBSET Saved(fs) /\ k \in T /\ T # {}
  BY SavedType
<1> HIDE DEF T
<1>2. IsFiniteSet(T) /\ Cardinality(T) <= Cardinality(Saved(fs)) /\ Cardinality(T) \in Nat
  BY <1>1, SavedType, FS_Subset, FS_CardinalityType
<1>3. Cardinality(T) # 0
  BY <1>1, <1>2, FS_EmptySet
<1> QED
  BY <1>2, <1>3, SavedType DEF Place, T

\* One more failure comes last, and takes the last place if it was saved.
LEMMA SavedAppend ==
  ASSUME NEW fs \in Seq(FailureRecords), NEW f \in FailureRecords
  PROVE  /\ f.saved = FALSE => Saved(Append(fs, f)) = Saved(fs)
         /\ f.saved = TRUE => /\ Saved(Append(fs, f)) = Saved(fs) \cup {Len(fs) + 1}
                              /\ Cardinality(Saved(Append(fs, f))) = Cardinality(Saved(fs)) + 1
                              /\ Place(Len(fs) + 1, Append(fs, f)) = Cardinality(Saved(fs)) + 1
         /\ \A k \in Saved(fs) : Place(k, Append(fs, f)) = Place(k, fs)
<1> DEFINE n == Len(fs) + 1
           longer == Append(fs, f)
<1>1. /\ n \in Nat \ {0} /\ DOMAIN fs = 1..(n - 1) /\ DOMAIN longer = 1..n
      /\ longer[n] = f /\ \A k \in 1..(n - 1) : longer[k] = fs[k]
  <2>1. /\ longer \in Seq(FailureRecords) /\ Len(longer) = Len(fs) + 1 /\ Len(fs) \in Nat
        /\ longer[n] = f /\ \A k \in 1..Len(fs) : longer[k] = fs[k]
    BY AppendProperties, LenProperties
  <2>2. DOMAIN fs = 1..Len(fs) /\ DOMAIN longer = 1..Len(longer)
    BY <2>1, LenProperties
  <2> QED
    BY <2>1, <2>2
<1>2. Saved(fs) \subseteq 1..(n - 1) /\ IsFiniteSet(Saved(fs)) /\ Cardinality(Saved(fs)) \in Nat
  BY <1>1, SavedType DEF Saved
<1> HIDE DEF n, longer
<1>3. DOMAIN longer = DOMAIN fs \cup {n} /\ n \notin DOMAIN fs
  BY <1>1
<1>4. CASE f.saved = FALSE
  <2>1. Saved(longer) = Saved(fs)
    BY <1>1, <1>3, <1>4 DEF Saved
  <2> QED
    BY <1>4, <2>1 DEF longer, Place
<1>5. CASE f.saved = TRUE
  <2>1. Saved(longer) = Saved(fs) \cup {n}
    BY <1>1, <1>3, <1>5 DEF Saved
  <2>2. Cardinality(Saved(longer)) = Cardinality(Saved(fs)) + 1
    <3>1. n \notin Saved(fs)
      BY <1>1, <1>2
    <3> QED
      BY <1>2, <2>1, <3>1, FS_AddElement
  <2>3. {j \in Saved(longer) : j <= n} = Saved(longer)
    BY <1>1, <1>2, <2>1
  <2>4. \A k \in Saved(fs) : {j \in Saved(longer) : j <= k} = {j \in Saved(fs) : j <= k}
    BY <1>1, <1>2, <2>1
  <2>5. Place(n, longer) = Cardinality(Saved(fs)) + 1 /\ \A k \in Saved(fs) : Place(k, longer) = Place(k, fs)
    BY <2>2, <2>3, <2>4 DEF Place
  <2> QED
    BY <1>5, <2>1, <2>2, <2>5 DEF longer, n
<1> QED
  BY <1>4, <1>5 DEF FailureRecords

\* What Persist appends to memory it appends to the file if it could be stored.
LEMMA SavedStep ==
  ASSUME NEW fs \in Seq(FailureRecords), NEW file \in Seq(FailureRecords), NEW f \in FailureRecords,
         NEW larger,
         Len(file) = Cardinality(Saved(fs)), \A k \in Saved(fs) : file[Place(k, fs)] = fs[k],
         \/ f.saved = TRUE /\ larger = Append(file, f)
         \/ f.saved = FALSE /\ larger = file
  PROVE  /\ Len(larger) = Cardinality(Saved(Append(fs, f)))
         /\ \A k \in Saved(Append(fs, f)) : larger[Place(k, Append(fs, f))] = Append(fs, f)[k]
<1> DEFINE more == Append(fs, f)
<1>1. /\ Len(fs) \in Nat /\ Len(file) \in Nat
      /\ \A k \in 1..Len(fs) : more[k] = fs[k]
      /\ more[Len(fs) + 1] = f
      /\ \A k \in 1..Len(file) : Append(file, f)[k] = file[k]
      /\ Append(file, f)[Len(file) + 1] = f /\ Len(Append(file, f)) = Len(file) + 1
  BY AppendProperties, LenProperties
<1>2. \A k \in Saved(fs) :
        k \in 1..Len(fs) /\ Place(k, fs) \in 1..Len(file) /\ Place(k, more) = Place(k, fs)
  BY SavedType, PlaceType, SavedAppend
<1> HIDE DEF more
<1>3. CASE f.saved = TRUE /\ larger = Append(file, f)
  <2>1. /\ Saved(more) = Saved(fs) \cup {Len(fs) + 1}
        /\ Cardinality(Saved(more)) = Cardinality(Saved(fs)) + 1
        /\ Place(Len(fs) + 1, more) = Cardinality(Saved(fs)) + 1
    BY <1>3, SavedAppend DEF more
  <2> QED
    BY <1>1, <1>2, <1>3, <2>1 DEF more
<1>4. CASE f.saved = FALSE /\ larger = file
  <2>1. Saved(more) = Saved(fs)
    BY <1>4, SavedAppend DEF more
  <2> QED
    BY <1>1, <1>2, <1>4, <2>1 DEF more
<1> QED
  BY <1>3, <1>4

-----------------------------------------------------------------------------
(* What the planner hands over.                                            *)

LEMMA LibraryShape ==
  /\ Len(Library) \in Nat \ {0} /\ DOMAIN Library = 1..Len(Library)
  /\ \A k \in 1..Len(Library) : Library[k].id \in ScenarioIds /\ Library[k].actions \in Scenarios
  /\ \A s \in LLMScenarios : s.id \in ScenarioIds /\ s.actions \in Scenarios
<1>1. Len(Library) \in Nat \ {0} /\ DOMAIN Library = 1..Len(Library)
  BY LibraryAssumption, LenProperties, EmptySeq
<1> QED
  BY <1>1, PlannedAssumption DEF ScenarioIds

\* While the library lasts, the planner hands over the next of it.
LEMMA PlannedNext ==
  ASSUME executed \in Seq(ScenarioIds), LibraryFirst, NEW s \in Planned(executed)
  PROVE  /\ s.id \in ScenarioIds /\ s.actions \in Scenarios
         /\ Len(executed) < Len(Library) => s = Library[Len(executed) + 1]
<1> DEFINE n == Len(executed)
<1>1. n \in Nat /\ DOMAIN executed = 1..n
  BY LenProperties
<1>2. \A j \in 1..n : j <= Len(Library) => executed[j] = Library[j].id
  BY <1>1 DEF LibraryFirst
<1> HIDE DEF n
<1>3. NotExecuted(executed) \subseteq (n + 1)..Len(Library)
  BY <1>1, <1>2, LibraryShape DEF NotExecuted
<1>4. CASE n < Len(Library)
  <2>1. n + 1 \in NotExecuted(executed)
    <3>1. n + 1 \in DOMAIN Library
      BY <1>1, <1>4, LibraryShape
    <3>2. ASSUME NEW j \in 1..n PROVE executed[j] # Library[n + 1].id
      <4>1. j \in DOMAIN Library /\ j # n + 1 /\ executed[j] = Library[j].id
        BY <1>1, <1>2, <1>4, LibraryShape
      <4> QED
        BY <3>1, <4>1, LibraryAssumption
    <3> QED
      BY <1>1, <3>1, <3>2 DEF NotExecuted
  <2>2. (CHOOSE k \in NotExecuted(executed) : \A j \in NotExecuted(executed) : k <= j) = n + 1
    <3>1. \A k \in NotExecuted(executed) : k \in Nat /\ k >= n + 1
      BY <1>1, <1>3, LibraryShape
    <3>2. \A k \in NotExecuted(executed) :
            (\A j \in NotExecuted(executed) : k <= j) <=> k = n + 1
      BY <1>1, <2>1, <3>1
    <3> QED
      BY <2>1, <3>2
  <2>3. s = Library[n + 1]
    BY <2>1, <2>2 DEF Planned, LibraryDrained, FirstNotExecuted
  <2> QED
    BY <1>1, <1>4, <2>3, LibraryShape DEF n
<1>5. CASE n >= Len(Library)
  <2>1. NotExecuted(executed) = {}
    BY <1>1, <1>3, <1>5, LibraryShape
  <2>2. s \in LLMScenarios \/ s = Library[(n % Len(Library)) + 1]
    BY <2>1 DEF Planned, LibraryDrained, Fallback, n
  <2>3. (n % Len(Library)) + 1 \in 1..Len(Library)
    BY <1>1, LibraryShape
  <2> QED
    BY <1>1, <1>5, <2>2, <2>3, LibraryShape DEF n
<1> QED
  BY <1>1, <1>4, <1>5, LibraryShape

-----------------------------------------------------------------------------
(* SesInv holds initially and is kept by every step.                       *)

LEMMA SessionInitInv == Init => SesInv
<1> SUFFICES ASSUME Init PROVE SesInv
  OBVIOUS
<1>1. MaxRounds \in Nat /\ << >> \in Seq(FailureRecords) /\ << >> \in Seq(ScenarioIds)
  BY RoundsAssumption
<1>2. cleanly \in BOOLEAN /\ cleanly /\ halted = FALSE
  BY Zenon DEF Init
<1>3. TypeOK
  BY <1>1, <1>2 DEF Init, TypeOK, Preflight, MaxAttempts
<1>4. PreflightInv
  <2>1. Idle \in Observations
    BY DEF Idle, Observations, Stages
  <2> QED
    BY <1>2, <2>1 DEF Init, ObsInit, PreflightInv
<1>5. RoundInv
  BY DEF Init, RoundInv, Preflight
<1>6. OutcomeInv
  BY <1>2 DEF Init, OutcomeInv, Closing, Terminal
<1>7. RecordedIsSaved
  <2>1. Saved(InMemory) = {}
    <3>1. InMemory = << >>
      BY <1>1 DEF Init, InMemory
    <3> QED
      BY <3>1 DEF Saved
  <2> QED
    BY <2>1, FS_EmptySet DEF Init, RecordedIsSaved
<1>8. LibraryInv
  BY DEF Init, LibraryInv, LibraryFirst
<1> QED
  BY <1>3, <1>4, <1>5, <1>6, <1>7, <1>8 DEF SesInv, Init

\* Before the first scenario only observations happen, and there is no story yet.
LEMMA NoStoryYet ==
  ASSUME SesInv, phase \in Preflight, phase' \in (Preflight \ {"start"}) \cup {"round"},
         UNCHANGED <<pc, round, violations, recorded, executed, failures, roundsCompleted, stoppedReason, cleanly>>,
         rec' = rec \/ rec' = [rec EXCEPT !.status = "running"]
  PROVE  RoundInv' /\ OutcomeInv' /\ RecordedIsSaved' /\ LibraryInv'
<1> USE DEF SesInv
<1>1. phase # "scenario" /\ phase' # "scenario" /\ phase \notin Closing /\ phase' \notin Closing /\ cleanly
  BY DEF Preflight, Closing, OutcomeInv
<1>2. RoundInv'
  BY <1>1 DEF RoundInv
<1>3. rec'.status \notin Terminal
  BY <1>1 DEF OutcomeInv, TypeOK, Terminal, Closing
<1>4. OutcomeInv'
  BY <1>1, <1>3 DEF OutcomeInv, Preflight
<1>5. InMemory' = InMemory
  BY <1>1 DEF InMemory
<1>6. RecordedIsSaved'
  BY <1>5 DEF RecordedIsSaved
<1>7. LibraryInv'
  BY <1>1 DEF LibraryInv, LibraryFirst
<1> QED
  BY <1>2, <1>4, <1>6, <1>7

\* The start of run(), up to navigate().
LEMMA StartInv ==
  ASSUME SesInv, MarkRunning \/ CreateDriver \/ Navigate
  PROVE  SesInv'
<1> USE DEF SesInv
<1>1. /\ phase \in {"start", "create", "navigate"} /\ phase' \in {"create", "navigate", "initial"}
      /\ UNCHANGED <<stored, puts, scnVars, attempt, scenarioId, executed, failures, roundsCompleted,
                     stoppedReason, cleanly>>
      /\ driver' \in {driver, "open"}
      /\ rec' = rec \/ rec' = [rec EXCEPT !.status = "running"]
      /\ IF phase' = "initial" THEN obs' = Observing(InitialKey) ELSE obs' = obs
  <2>1. CASE MarkRunning
    BY <2>1 DEF MarkRunning, runVars, obsVars
  <2>2. CASE CreateDriver
    BY <2>2 DEF CreateDriver, runVars, obsVars
  <2>3. CASE Navigate
    BY <2>3 DEF Navigate, ObserveWith
  <2> QED
    BY <2>1, <2>2, <2>3
<1>2. RoundInv' /\ OutcomeInv' /\ RecordedIsSaved' /\ LibraryInv'
  BY <1>1, NoStoryYet DEF Preflight, scnVars
<1>3. TypeOK'
  BY <1>1 DEF TypeOK, Preflight, Terminal
<1>4. round = 0
  BY <1>1 DEF RoundInv, Preflight
<1>5. /\ stored = {} /\ obs = Idle
  BY <1>1, <1>4 DEF PreflightInv
<1>6. PreflightInv'
  <2>1. Observing(InitialKey) \in Observations /\ Observing(InitialKey).at = "screenshot"
        /\ Observing(InitialKey).key = InitialKey
    BY KeyTypes DEF Observing, Observations, Stages
  <2> QED
    BY <1>1, <1>4, <1>5, <2>1 DEF PreflightInv, PreflightKey, scnVars
<1> QED
  BY <1>1, <1>2, <1>3, <1>4, <1>6 DEF scnVars

\* An observation before the first scenario, awaited.
LEMMA ObserverAwaitedInv ==
  ASSUME SesInv, ObserverAwaited
  PROVE  SesInv'
<1> USE DEF SesInv
<1>1. /\ phase \in {"initial", "after-dismiss"} /\ ObsNext
      /\ UNCHANGED <<scnVars, phase, attempt, driver, scenarioId, executed, failures, roundsCompleted,
                     stoppedReason, cleanly, rec>>
  BY DEF ObserverAwaited, sesVars
<1>2. RoundInv' /\ OutcomeInv' /\ RecordedIsSaved' /\ LibraryInv'
  BY <1>1, NoStoryYet DEF Preflight, scnVars
<1>3. TypeOK'
  BY <1>1 DEF TypeOK
<1>4. /\ round = 0 /\ obs \in Observations /\ obs.key = PreflightKey /\ PreflightKey \in Keys
      /\ PreflightKey' = PreflightKey /\ puts \in Nat /\ stored \subseteq Keys
      /\ PreflightKey.round <= 0 /\ (phase = "initial" => PreflightKey = InitialKey)
      /\ (phase = "after-dismiss" => PreflightKey.round = -attempt)
  <2>1. round = 0 /\ attempt \in Nat
    BY <1>1 DEF RoundInv, Preflight, TypeOK, MaxAttempts
  <2>2. PreflightKey \in Keys /\ PreflightKey.round <= 0
        /\ (phase = "after-dismiss" => PreflightKey.round = -attempt)
    BY <2>1 DEF PreflightKey, InitialKey, Key, Keys, Labels
  <2>3. PreflightKey' = PreflightKey
    BY <1>1 DEF PreflightKey
  <2> QED
    BY <1>1, <2>1, <2>2, <2>3 DEF PreflightInv, PreflightKey
<1> DEFINE Progress ==
             /\ obs' \in Observations /\ obs'.key = obs.key /\ obs'.at # "idle"
             /\ \/ obs.at = "screenshot" /\ obs'.at = "put" /\ UNCHANGED <<stored, puts>>
                \/ obs.at = "put" /\ obs'.at = "ocr" /\ stored' = stored \cup {obs.key} /\ puts' = puts + 1
                \/ obs.at = "ocr" /\ obs'.at = "llm" /\ UNCHANGED <<stored, puts>>
                \/ obs.at = "llm" /\ obs'.at = "throw" /\ UNCHANGED <<stored, puts>>
                \/ /\ obs.at = "llm" /\ obs'.at = "ok" /\ UNCHANGED <<stored, puts>>
                   /\ obs'.state \in States /\ obs'.state.screenshotRef = obs.key
                \/ obs'.at = "err" /\ UNCHANGED <<stored, puts>>
<1>5. Progress
  <2>1. CASE Screenshot \/ PutArtifact \/ ExtractText \/ ExtractStateThrows
    BY <1>4, <2>1 DEF Screenshot, PutArtifact, ExtractText, ExtractStateThrows, Observations, Stages
  <2>2. CASE ExtractState
    <3>1. PICK screen \in Screens :
             obs' = [obs EXCEPT !.at = "ok", !.state = FinalizeState(screen, obs.key)]
      BY <2>2 DEF ExtractState
    <3>2. FinalizeState(screen, obs.key) \in States /\ FinalizeState(screen, obs.key).screenshotRef = obs.key
      BY <1>4, FinalizeStateType
    <3> QED
      BY <1>4, <2>2, <3>1, <3>2 DEF ExtractState, Observations, Stages
  <2>3. ASSUME NEW stage \in {"screenshot", "put", "ocr", "llm"}, Fail(stage) PROVE Progress
    BY <1>4, <2>3 DEF Fail, Observations, Stages
  <2> QED
    BY <1>1, <2>1, <2>2, <2>3 DEF ObsNext
<1>6. /\ obs'.key = PreflightKey' /\ obs'.at # "idle"
      /\ obs'.at \in {"screenshot", "put"} => obs'.key \notin stored'
      /\ obs'.at \in {"ocr", "llm", "ok", "throw"} => obs'.key \in stored'
      /\ obs'.at = "ok" => obs'.state \in States /\ obs'.state.screenshotRef = obs'.key
  BY <1>1, <1>4, <1>5 DEF PreflightInv
<1>7. /\ stored' \subseteq Keys /\ puts' \in Nat /\ stored' \subseteq stored \cup {PreflightKey}
      /\ stored \subseteq stored'
  BY <1>4, <1>5
<1> HIDE DEF Progress
<1>8. PreflightInv'
  <2>1. PreflightInv
    OBVIOUS
  <2>2. /\ pc' = pc /\ todo' = todo /\ halted' = halted /\ violations' = violations /\ recorded' = recorded
        /\ actions' = actions /\ i' = i /\ network' = network /\ dispatched' = dispatched
        /\ currentAt' = currentAt /\ beforeAt' = beforeAt /\ blind' = blind /\ current' = current
        /\ phase' = phase /\ attempt' = attempt /\ round' = round
    BY <1>1 DEF scnVars
  <2>3. obs' \in Observations
    BY <1>5 DEF Progress
  <2>4. phase = "after-dismiss" => attempt \in Nat
    BY DEF TypeOK
  <2> QED
    BY <1>1, <1>4, <1>6, <1>7, <2>1, <2>2, <2>3, <2>4 DEF PreflightInv
<1> QED
  BY <1>1, <1>2, <1>3, <1>4, <1>8 DEF scnVars

\* The observed state becomes the last one, and its key is stored.
LEMMA AdoptInv ==
  ASSUME SesInv, InitialObserved \/ AfterDismiss
  PROVE  SesInv'
<1> USE DEF SesInv
<1>1. /\ phase \in {"initial", "after-dismiss"} /\ phase' = "dismiss"
      /\ attempt' = IF phase = "initial" THEN 1 ELSE attempt + 1
      /\ obs.at = "ok" /\ obs' = Idle /\ current' = obs.state
      /\ UNCHANGED <<stored, puts, pc, round, actions, i, prior, before, todo, halted, violations, recorded,
                     network, dispatched, blind, beforeAt, currentAt>>
      /\ UNCHANGED <<driver, scenarioId, executed, failures, roundsCompleted, stoppedReason, cleanly, rec>>
  BY DEF InitialObserved, AfterDismiss, AdoptObserved
<1>2. RoundInv' /\ OutcomeInv' /\ RecordedIsSaved' /\ LibraryInv'
  BY <1>1, NoStoryYet DEF Preflight
<1>3. round = 0 /\ attempt \in Nat /\ (phase = "after-dismiss" => attempt <= MaxAttempts)
  BY <1>1 DEF RoundInv, Preflight, TypeOK, PreflightInv
<1>4. TypeOK'
  BY <1>1, <1>3 DEF TypeOK, Preflight, MaxAttempts
<1>5. /\ current' \in States /\ current'.screenshotRef \in stored /\ stored \subseteq Keys
      /\ \A key \in stored : key.round > -attempt'
  <2>1. /\ obs.state \in States /\ obs.state.screenshotRef = obs.key /\ obs.key \in stored
        /\ stored \subseteq Keys
        /\ phase = "initial" => stored \subseteq {InitialKey}
        /\ phase = "after-dismiss" => \A key \in stored : key.round >= -attempt
    BY <1>1, <1>3 DEF PreflightInv
  <2>2. InitialKey.round = 0 /\ \A key \in stored : key.round \in Int
    BY <2>1 DEF InitialKey, Key, Keys
  <2> QED
    BY <1>1, <1>3, <2>1, <2>2
<1>6. Idle \in Observations
  BY DEF Idle, Observations, Stages
<1>7. PreflightInv'
  BY <1>1, <1>3, <1>5, <1>6 DEF PreflightInv
<1> QED
  BY <1>1, <1>2, <1>3, <1>4, <1>7

\* A click on an overlay is observed under the key of its attempt, a new one.
LEMMA DismissClickInv ==
  ASSUME SesInv, DismissClick
  PROVE  SesInv'
<1> USE DEF SesInv
<1>1. /\ phase = "dismiss" /\ attempt <= MaxAttempts /\ phase' = "after-dismiss"
      /\ obs' = Observing(Key(-attempt, 0, "after-dismiss"))
      /\ UNCHANGED <<stored, puts, scnVars, attempt, driver, scenarioId, executed, failures, roundsCompleted,
                     stoppedReason, cleanly, rec>>
  BY DEF DismissClick, ObserveWith
<1>2. RoundInv' /\ OutcomeInv' /\ RecordedIsSaved' /\ LibraryInv'
  BY <1>1, NoStoryYet DEF Preflight, scnVars
<1>3. round = 0 /\ attempt \in Nat
  BY <1>1 DEF RoundInv, Preflight, TypeOK
<1>4. TypeOK'
  BY <1>1 DEF TypeOK, Preflight
<1> DEFINE key == Key(-attempt, 0, "after-dismiss")
<1>5. /\ key \in Keys /\ key.round = -attempt /\ stored \subseteq Keys
      /\ \A k \in stored : k.round \in Int /\ k.round > -attempt
  BY <1>1, <1>3 DEF PreflightInv, Key, Keys, Labels
<1>6. key \notin stored /\ \A k \in stored : k.round >= -attempt
  BY <1>3, <1>5
<1>7. /\ obs' \in Observations /\ obs'.at = "screenshot" /\ obs'.key = key /\ PreflightKey' = key
  BY <1>1, <1>5 DEF Observing, Observations, Stages, PreflightKey
<1> HIDE DEF key
<1>8. PreflightInv'
  BY <1>1, <1>3, <1>6, <1>7 DEF PreflightInv, scnVars
<1> QED
  BY <1>1, <1>2, <1>3, <1>4, <1>8 DEF scnVars

\* The pre-flight is over, with the last state observed.
LEMMA RoundsBeginInv ==
  ASSUME SesInv, PreflightOver \/ AfterDismissFails
  PROVE  SesInv'
<1> USE DEF SesInv
<1>1. /\ phase \in {"dismiss", "after-dismiss"} /\ phase' = "round"
      /\ phase = "dismiss" => obs' = obs
      /\ phase = "after-dismiss" => obs' = Idle
      /\ UNCHANGED <<stored, puts, scnVars, attempt, driver, scenarioId, executed, failures, roundsCompleted,
                     stoppedReason, cleanly, rec>>
  BY DEF PreflightOver, AfterDismissFails, StartRounds, DropObservation, runVars, obsVars
<1>2. RoundInv' /\ OutcomeInv' /\ RecordedIsSaved' /\ LibraryInv'
  BY <1>1, NoStoryYet DEF Preflight, scnVars
<1>3. round = 0
  BY <1>1 DEF RoundInv, Preflight
<1>4. TypeOK'
  BY <1>1 DEF TypeOK
<1>5. obs' = Idle /\ Idle \in Observations
  BY <1>1, <1>3 DEF PreflightInv, Idle, Observations, Stages
<1>6. PreflightInv'
  BY <1>1, <1>3, <1>5 DEF PreflightInv, scnVars
<1> QED
  BY <1>1, <1>2, <1>3, <1>4, <1>6 DEF scnVars

\* What run() does once there is nothing more to run, in `finally` or on its way there.
LEMMA ClosingInv ==
  ASSUME SesInv, phase' \in Closing,
         UNCHANGED <<stored, puts, scnVars, executed, failures, roundsCompleted>>,
         obs' = IF phase \in Preflight THEN Idle ELSE obs,
         phase = "scenario" => pc = "thrown",
         TypeOK', OutcomeInv', pc = "thrown" => ~cleanly'
  PROVE  SesInv'
<1> USE DEF SesInv
<1>1. phase' # "scenario" /\ phase' \notin Preflight /\ phase' \notin {"round", "initial", "after-dismiss"}
  BY DEF Closing, Preflight
<1>2. PreflightInv'
  <2>1. CASE round = 0
    <3>1. obs' = Idle /\ Idle \in Observations
      BY <2>1 DEF PreflightInv, Preflight, Idle, Observations, Stages
    <3> QED
      BY <1>1, <2>1, <3>1 DEF PreflightInv, scnVars, Closing
  <2>2. CASE round # 0
    BY <2>2 DEF PreflightInv, scnVars
  <2> QED
    BY <2>1, <2>2
<1>3. round > 0 => ScnInv'
  <2>1. round > 0 => UNCHANGED runVars
    BY DEF RoundInv, runVars, obsVars
  <2> QED
    BY <2>1, StutterInv
<1>4. RoundInv'
  BY <1>1 DEF RoundInv, scnVars
<1>5. RecordedIsSaved'
  <2>1. CASE pc = "thrown"
    BY <2>1 DEF RecordedIsSaved, scnVars
  <2>2. CASE pc # "thrown"
    <3>1. InMemory' = InMemory
      BY <1>1, <2>2 DEF InMemory, scnVars
    <3> QED
      BY <3>1 DEF RecordedIsSaved, scnVars
  <2> QED
    BY <2>1, <2>2
<1>6. LibraryInv'
  BY <1>1 DEF LibraryInv, LibraryFirst
<1> QED
  BY <1>2, <1>3, <1>4, <1>5, <1>6 DEF scnVars

LEMMA AbortInv ==
  ASSUME SesInv,
         CreateThrows \/ NavigateFails \/ InitialObservationFails \/ AfterDismissThrows
         \/ PlannerThrows \/ ScenarioThrows
  PROVE  SesInv'
<1>1. /\ phase \notin Closing /\ Abort /\ UNCHANGED <<stored, puts, scnVars>>
      /\ phase = "scenario" => pc = "thrown"
      /\ obs' = obs \/ (phase \in {"initial", "after-dismiss"} /\ obs' = Idle)
      /\ phase \in {"initial", "after-dismiss"} => obs' = Idle
  BY DEF CreateThrows, NavigateFails, InitialObservationFails, AfterDismissThrows, PlannerThrows,
         ScenarioThrows, DropObservation, runVars, obsVars, Closing
<1>2. /\ stoppedReason' = "fatal-error" /\ cleanly' = FALSE /\ phase' = "finally"
      /\ UNCHANGED <<attempt, driver, scenarioId, executed, failures, roundsCompleted, rec>>
  BY <1>1 DEF Abort
<1>3. obs' = IF phase \in Preflight THEN Idle ELSE obs
  BY <1>1 DEF SesInv, RoundInv, PreflightInv, Preflight
<1>4. cleanly' \in BOOLEAN /\ ~cleanly'
  BY <1>2, Zenon
<1>5. TypeOK'
  BY <1>2, <1>4 DEF SesInv, TypeOK, Closing
<1>6. OutcomeInv'
  <2>1. rec'.status \notin Terminal
    BY <1>1, <1>2 DEF SesInv, OutcomeInv, Closing
  <2> QED
    BY <1>2, <1>4, <2>1 DEF OutcomeInv, Closing
<1> QED
  BY <1>1, <1>2, <1>3, <1>4, <1>5, <1>6, ClosingInv DEF Closing

\* The rounds are over, the terminal status is written, the driver closed.
LEMMA FinallyInv ==
  ASSUME SesInv, RoundsOver \/ Finalize \/ CloseDriver
  PROVE  SesInv'
<1>1. /\ phase \in {"round", "finally", "close"} /\ phase' \in Closing
      /\ UNCHANGED <<runVars, attempt, scenarioId, executed, failures, roundsCompleted, cleanly>>
      /\ driver' \in {driver, "closed", "null"}
      /\ cleanly \in BOOLEAN /\ RoundInv /\ OutcomeInv /\ TypeOK
  BY DEF SesInv, TypeOK, RoundsOver, Finalize, CloseDriver, Closing
<1>2. obs' = IF phase \in Preflight THEN Idle ELSE obs
  BY <1>1 DEF Preflight, runVars, obsVars
<1>3. TypeOK' /\ OutcomeInv'
  <2>1. CASE RoundsOver
    <3>1. /\ phase = "round" /\ phase' = "finally" /\ rec' = rec /\ driver' = driver
          /\ \/ roundsCompleted = MaxRounds /\ stoppedReason' = stoppedReason
             \/ stoppedReason' = "max-duration"
      BY <2>1 DEF RoundsOver
    <3>2. cleanly /\ rec.status \notin Terminal
      BY <1>1, <3>1 DEF OutcomeInv, Closing
    <3>3. TypeOK'
      BY <1>1, <3>1 DEF TypeOK
    <3> QED
      BY <1>1, <3>1, <3>2, <3>3 DEF OutcomeInv, Closing
  <2>2. CASE Finalize
    <3>1. /\ phase = "finally" /\ phase' = "close" /\ stoppedReason' = stoppedReason /\ driver' = driver
          /\ \/ rec' = rec
             \/ rec' = [status |-> FinalStatus, roundsCompleted |-> roundsCompleted,
                        failureCount |-> Len(failures)]
      BY <2>2 DEF Finalize
    <3>2. FinalStatus \in Terminal /\ FinalStatus' = FinalStatus /\ rec.status \notin Terminal
      BY <1>1, <3>1, Zenon DEF FinalStatus, Terminal, OutcomeInv
    <3>3. Len(failures) \in Nat
      BY <1>1 DEF TypeOK
    <3>4. TypeOK'
      BY <1>1, <3>1, <3>2, <3>3 DEF TypeOK, Closing
    <3> QED
      BY <1>1, <3>1, <3>2, <3>4 DEF OutcomeInv, Closing
  <2>3. CASE CloseDriver
    <3>1. phase = "close" /\ phase' = "done" /\ UNCHANGED <<stoppedReason, rec>> /\ driver' \in {"null", "closed"}
      BY <2>3 DEF CloseDriver
    <3>2. FinalStatus' = FinalStatus
      BY <1>1 DEF FinalStatus
    <3> QED
      BY <1>1, <3>1, <3>2 DEF TypeOK, OutcomeInv, Closing
  <2> QED
    BY <2>1, <2>2, <2>3
<1>4. pc = "thrown" => ~cleanly'
  BY <1>1 DEF RoundInv
<1> QED
  BY <1>1, <1>2, <1>3, <1>4, ClosingInv DEF runVars, obsVars

\* The first scenario finds what the pre-flight left: screenshots of round 0.
LEMMA FirstRunInv ==
  ASSUME PreflightInv, round = 0, phase = "round", NEW s \in Scenarios, Run(s)
  PROVE  ScnInv'
<1> USE DEF Run, obsVars
<1>1. /\ current \in States /\ current.screenshotRef \in stored /\ obs = Idle /\ obs \in Observations
      /\ stored \subseteq Keys /\ puts \in Nat /\ \A key \in stored : key.round <= 0
      /\ recorded = << >> /\ network = "none" /\ dispatched = 0 /\ currentAt = 0 /\ blind = {}
  BY DEF PreflightInv
<1>2. ScnTypeOK'
  <2>1. << >> \in Seq(FailureRecords)
    OBVIOUS
  <2>2. halted' \in BOOLEAN
    BY Zenon
  <2> QED
    BY <1>1, <2>1, <2>2, ScenariosAssumption DEF ScnTypeOK
<1>3. ObserverInv'
  BY <1>1 DEF ObserverInv
<1>4. KeysInv'
  BY <1>1 DEF KeysInv, Earlier, Keys
<1>5. RefsInv' /\ WindowInv'
  BY <1>1 DEF RefsInv, WindowInv
<1>6. Failures' = {}
  BY <1>1 DEF Failures, ToSet
<1> QED
  BY <1>2, <1>3, <1>4, <1>5, <1>6 DEF ScnInv, BlameWindow, EvidenceStored

LEMMA StartScenarioInv ==
  ASSUME SesInv, NEW s \in Planned(executed), StartScenario(s)
  PROVE  SesInv'
<1> USE DEF SesInv
<1>1. /\ phase = "round" /\ phase' = "scenario" /\ roundsCompleted < MaxRounds
      /\ scenarioId' = s.id /\ Run(s.actions)
      /\ UNCHANGED <<attempt, driver, executed, failures, roundsCompleted, stoppedReason, cleanly, rec>>
  BY DEF StartScenario
<1>2. /\ pc = "idle" /\ pc' = "act" /\ round' = round + 1 /\ violations' = << >> /\ recorded' = recorded
  BY <1>1 DEF Run
<1>3. /\ s.id \in ScenarioIds /\ s.actions \in Scenarios
      /\ Len(executed) < Len(Library) => s.id = Library[Len(executed) + 1].id
  BY PlannedNext DEF TypeOK, LibraryInv
<1>4. round = roundsCompleted /\ roundsCompleted \in Nat
  BY <1>1, <1>2, RoundsAssumption DEF RoundInv, TypeOK
<1>5. TypeOK'
  BY <1>1, <1>3 DEF TypeOK
<1>6. PreflightInv'
  BY <1>2, <1>4 DEF PreflightInv
<1>7. ScnInv'
  <2>1. CASE round = 0
    BY <1>1, <1>3, <2>1, FirstRunInv
  <2>2. CASE round > 0
    BY <1>1, <1>3, <2>2, RunInv
  <2> QED
    BY <1>4, <2>1, <2>2
<1>8. RoundInv'
  BY <1>1, <1>2, <1>4 DEF RoundInv, Preflight
<1>9. OutcomeInv'
  BY <1>1 DEF OutcomeInv, Closing, Preflight
<1>10. RecordedIsSaved'
  <2>1. InMemory' = InMemory
    <3>1. failures \o << >> = failures
      BY DEF TypeOK
    <3> QED
      BY <1>1, <1>2, <3>1 DEF InMemory
  <2> QED
    BY <1>2, <2>1 DEF RecordedIsSaved
<1>11. LibraryInv'
  BY <1>1, <1>3 DEF LibraryInv, LibraryFirst
<1> QED
  BY <1>5, <1>6, <1>7, <1>8, <1>9, <1>10, <1>11

\* Only Persist touches what is found and what is stored.
LEMMA StepFrame ==
  ASSUME Step
  PROVE  /\ UNCHANGED round /\ pc \notin {"idle", "thrown"} /\ pc' # "idle"
         /\ \/ pc # "persist" /\ UNCHANGED <<violations, recorded>>
            \/ pc' # "thrown" /\ \E ok \in WriteOutcomes : Persist(ok)
<1>1. CASE ExecuteOk \/ ExecuteErr
  BY <1>1 DEF ExecuteOk, ExecuteErr, InLoop
<1>2. CASE ObserverStep
  BY <1>2 DEF ObserverStep, scnVars
<1>3. CASE Observed
  BY <1>3 DEF Observed
<1>4. CASE NotObserved \/ ObservationThrows
  BY <1>4 DEF NotObserved, ObservationThrows
<1>5. ASSUME NEW ok \in WriteOutcomes, Persist(ok)
      PROVE  UNCHANGED round /\ pc = "persist" /\ pc' \in {"persist", "act"}
  BY <1>5 DEF Persist
<1> QED
  BY <1>1, <1>2, <1>3, <1>4, <1>5 DEF Step

LEMMA ScenarioStepInv ==
  ASSUME SesInv, ScenarioStep
  PROVE  SesInv'
<1> USE DEF SesInv
<1>1. phase = "scenario" /\ Step /\ UNCHANGED sesVars
  BY DEF ScenarioStep
<1>2. /\ phase' = phase /\ round' = round /\ roundsCompleted \in Nat /\ round = roundsCompleted + 1
      /\ cleanly /\ pc \notin {"idle", "thrown"} /\ pc' # "idle"
  BY <1>1, StepFrame, RoundsAssumption DEF sesVars, RoundInv, TypeOK, OutcomeInv, Closing
<1>3. ScnInv /\ ScnInv'
  BY <1>1, <1>2, StepInv
<1>4. TypeOK' /\ OutcomeInv' /\ LibraryInv'
  BY <1>1 DEF sesVars, TypeOK, OutcomeInv, FinalStatus, LibraryInv, LibraryFirst
<1>5. PreflightInv'
  BY <1>2 DEF PreflightInv
<1>6. RoundInv'
  BY <1>1, <1>2 DEF sesVars, RoundInv, Preflight
<1>7. RecordedIsSaved'
  <2>1. CASE UNCHANGED <<violations, recorded>>
    <3>1. InMemory' = InMemory
      BY <1>1, <2>1 DEF InMemory, sesVars
    <3> QED
      BY <1>2, <2>1, <3>1 DEF RecordedIsSaved
  <2>2. ASSUME NEW ok \in WriteOutcomes, Persist(ok), pc' # "thrown" PROVE RecordedIsSaved'
    <3> DEFINE f == [Head(todo) EXCEPT !.saved = ok]
    <3>1. /\ pc = "persist" /\ violations' = Append(violations, f)
          /\ recorded' = IF ok THEN Append(recorded, f) ELSE recorded
      BY <2>2 DEF Persist
    <3>2. ok \in BOOLEAN
      BY Zenon DEF WriteOutcomes
    <3>3. /\ todo # << >> /\ Head(todo) \in FailureRecords
          /\ violations \in Seq(FailureRecords) /\ recorded \in Seq(FailureRecords)
          /\ failures \in Seq(FailureRecords)
      BY <1>3, <3>1 DEF ScnInv, ScnTypeOK, TypeOK
    <3>4. f \in FailureRecords /\ f.saved = ok
      BY <3>2, <3>3 DEF FailureRecords
    <3> HIDE DEF f
    <3>5. /\ InMemory \in Seq(FailureRecords)
          /\ InMemory = failures \o violations
          /\ InMemory' = Append(InMemory, f)
      <4>1. failures \o Append(violations, f) = Append(failures \o violations, f)
        BY <3>3, <3>4
      <4> QED
        BY <1>1, <3>1, <3>3, <4>1 DEF InMemory, sesVars
    <3>6. /\ Len(recorded) = Cardinality(Saved(InMemory))
          /\ \A k \in Saved(InMemory) : recorded[Place(k, InMemory)] = InMemory[k]
      BY <1>2 DEF RecordedIsSaved, Place
    <3>7. \/ f.saved = TRUE /\ recorded' = Append(recorded, f)
          \/ f.saved = FALSE /\ recorded' = recorded
      BY <3>1, <3>2, <3>4, Zenon
    <3> DEFINE mem == InMemory
               larger == recorded'
    <3>8. /\ Len(larger) = Cardinality(Saved(Append(mem, f)))
          /\ \A k \in Saved(Append(mem, f)) : larger[Place(k, Append(mem, f))] = Append(mem, f)[k]
      <4>1. mem \in Seq(FailureRecords) /\ recorded \in Seq(FailureRecords) /\ f \in FailureRecords
        BY <3>3, <3>4, <3>5
      <4>2. Len(recorded) = Cardinality(Saved(mem)) /\ \A k \in Saved(mem) : recorded[Place(k, mem)] = mem[k]
        BY <3>6
      <4>3. \/ f.saved = TRUE /\ larger = Append(recorded, f)
            \/ f.saved = FALSE /\ larger = recorded
        BY <3>7
      <4> HIDE DEF mem, larger
      <4> QED
        BY <4>1, <4>2, <4>3, SavedStep
    <3>9. /\ Len(recorded') = Cardinality(Saved(InMemory'))
          /\ \A k \in Saved(InMemory') : recorded'[Place(k, InMemory')] = InMemory'[k]
      BY <3>5, <3>8
    <3> QED
      BY <3>9 DEF RecordedIsSaved, Place, Saved
  <2> QED
    BY <1>1, <2>1, <2>2, StepFrame
<1> QED
  BY <1>3, <1>4, <1>5, <1>6, <1>7

\* run() takes over what the scenario found.
LEMMA ScenarioReturnsInv ==
  ASSUME SesInv, ScenarioReturns
  PROVE  SesInv'
<1> USE DEF SesInv
<1>1. /\ phase = "scenario" /\ Return /\ phase' = "round"
      /\ executed' = Append(executed, scenarioId) /\ failures' = failures \o violations
      /\ roundsCompleted' = round
      /\ UNCHANGED <<attempt, driver, scenarioId, stoppedReason, cleanly, rec>>
  BY DEF ScenarioReturns
<1>2. /\ pc = "act" /\ pc' = "idle" /\ UNCHANGED <<round, violations, recorded>>
  BY <1>1 DEF Return
<1>3. roundsCompleted \in 0..MaxRounds /\ MaxRounds \in Nat /\ round = roundsCompleted + 1
      /\ roundsCompleted = Len(executed)
  BY <1>1, RoundsAssumption DEF TypeOK, RoundInv
<1>4. ScnInv /\ ScnInv'
  BY <1>1, <1>3, ReturnInv
<1>5. executed' \in Seq(ScenarioIds) /\ Len(executed') = Len(executed) + 1
      /\ executed'[Len(executed) + 1] = scenarioId
      /\ DOMAIN executed' = 1..Len(executed) + 1 /\ DOMAIN executed = 1..Len(executed)
      /\ \A k \in 1..Len(executed) : executed'[k] = executed[k]
  <2>1. executed \in Seq(ScenarioIds) /\ scenarioId \in ScenarioIds
    BY <1>1 DEF TypeOK
  <2> QED
    BY <1>1, <2>1, AppendProperties, LenProperties
<1>6. failures' \in Seq(FailureRecords)
  BY <1>1, <1>4 DEF ScnInv, ScnTypeOK, TypeOK
<1>7. TypeOK'
  <2>1. phase' = "round" /\ roundsCompleted' \in 0..MaxRounds
    BY <1>1, <1>3 DEF RoundInv
  <2> QED
    BY <1>1, <1>5, <1>6, <2>1 DEF TypeOK
<1>8. PreflightInv'
  BY <1>2, <1>3 DEF PreflightInv
<1>9. RoundInv'
  BY <1>1, <1>2, <1>3, <1>5 DEF RoundInv, Preflight
<1>10. OutcomeInv'
  BY <1>1 DEF OutcomeInv, Closing
<1>11. RecordedIsSaved'
  <2>1. InMemory' = InMemory
    <3>1. InMemory = failures \o violations
      BY <1>1 DEF InMemory
    <3>2. InMemory' = failures' \o << >>
      BY <1>1 DEF InMemory
    <3>3. failures' \o << >> = failures'
      BY <1>6
    <3> QED
      BY <1>1, <3>1, <3>2, <3>3
  <2> QED
    BY <1>2, <2>1 DEF RecordedIsSaved
<1>12. LibraryInv'
  <2>1. Len(Library) \in Nat /\ Len(executed) \in Nat
    BY LibraryShape DEF TypeOK
  <2>2. ASSUME NEW k \in 1..Len(executed) + 1, k <= Len(Library)
        PROVE  executed'[k] = Library[k].id
    BY <1>1, <1>5, <2>1, <2>2 DEF LibraryInv, LibraryFirst
  <2> QED
    BY <1>1, <1>5, <2>2 DEF LibraryInv, LibraryFirst
<1> QED
  BY <1>1, <1>2, <1>3, <1>4, <1>7, <1>8, <1>9, <1>10, <1>11, <1>12

\* Every step keeps the invariant.
LEMMA SesNextInv == SesInv /\ [Next]_vars => SesInv'
<1> SUFFICES ASSUME SesInv, [Next]_vars PROVE SesInv'
  OBVIOUS
<1>1. CASE UNCHANGED vars
  <2>1. UNCHANGED runVars /\ UNCHANGED sesVars
    BY <1>1 DEF vars
  <2>2. TypeOK' /\ OutcomeInv' /\ LibraryInv'
    BY <2>1 DEF SesInv, sesVars, TypeOK, OutcomeInv, FinalStatus, LibraryInv, LibraryFirst
  <2>3. round > 0 => ScnInv'
    BY <2>1, StutterInv DEF SesInv
  <2>4. PreflightInv' /\ RoundInv' /\ RecordedIsSaved' /\ round' = round
    BY <2>1 DEF SesInv, runVars, obsVars, scnVars, sesVars, PreflightInv, PreflightKey, RoundInv,
                RecordedIsSaved, InMemory
  <2> QED
    BY <2>2, <2>3, <2>4 DEF SesInv
<1>2. CASE MarkRunning \/ CreateDriver \/ Navigate
  BY <1>2, StartInv
<1>3. CASE ObserverAwaited
  BY <1>3, ObserverAwaitedInv
<1>4. CASE InitialObserved \/ AfterDismiss
  BY <1>4, AdoptInv
<1>5. CASE DismissClick
  BY <1>5, DismissClickInv
<1>6. CASE PreflightOver \/ AfterDismissFails
  BY <1>6, RoundsBeginInv
<1>7. CASE CreateThrows \/ NavigateFails \/ InitialObservationFails \/ AfterDismissThrows
           \/ PlannerThrows \/ ScenarioThrows
  BY <1>7, AbortInv
<1>8. CASE RoundsOver \/ Finalize \/ CloseDriver
  BY <1>8, FinallyInv
<1>9. CASE \E s \in Planned(executed) : StartScenario(s)
  BY <1>9, StartScenarioInv
<1>10. CASE ScenarioStep
  BY <1>10, ScenarioStepInv
<1>11. CASE ScenarioReturns
  BY <1>11, ScenarioReturnsInv
<1> QED
  BY <1>1, <1>2, <1>3, <1>4, <1>5, <1>6, <1>7, <1>8, <1>9, <1>10, <1>11 DEF Next

-----------------------------------------------------------------------------
\* SesInv is an invariant of the session runner, whatever the library, the screens,
\* the answers of the planner and the outcomes of storage.
THEOREM SessionInvariant == Spec => []SesInv
BY SessionInitInv, SesNextInv, PTL DEF Spec

\* Type correctness.
THEOREM SessionTypes == Spec => []TypeOK
<1>1. SesInv => TypeOK
  BY DEF SesInv
<1> QED
  BY SessionInvariant, <1>1, PTL

\* Outside a scenario memory holds every failure that was saved by a run without throws.
LEMMA NoFailureForgotten ==
  ASSUME SesInv, phase # "scenario", cleanly
  PROVE  Len(recorded) \in Nat /\ Len(recorded) <= Len(failures)
<1>1. pc # "thrown" /\ failures \in Seq(FailureRecords)
  BY DEF SesInv, RoundInv, TypeOK
<1>2. InMemory = failures
  BY <1>1 DEF InMemory
<1>3. Len(recorded) = Cardinality(Saved(failures))
  BY <1>1, <1>2 DEF SesInv, RecordedIsSaved
<1> QED
  BY <1>1, <1>3, SavedType

\* A terminal record tells the story of the run: failed means a fatal error, completed
\* means that the rounds or the time were used up and every stored failure counted.
THEOREM RecordTellsTheStory == Spec => []OutcomeConsistent
<1>1. SesInv => OutcomeConsistent
  <2> SUFFICES ASSUME SesInv, rec.status \in Terminal PROVE OutcomeConsistent
    BY DEF OutcomeConsistent
  <2>1. /\ phase \in {"close", "done"}
        /\ rec.status = FinalStatus /\ rec.roundsCompleted = roundsCompleted
        /\ rec.failureCount = Len(failures) /\ roundsCompleted = Len(executed)
        /\ cleanly \in BOOLEAN /\ (cleanly <=> stoppedReason # "fatal-error")
        /\ cleanly => roundsCompleted = MaxRounds \/ stoppedReason = "max-duration"
    BY DEF SesInv, OutcomeInv, RoundInv, TypeOK, Closing
  <2>2. CASE cleanly
    <3>1. rec.status = "completed"
      BY <2>1, <2>2 DEF FinalStatus
    <3>2. Len(recorded) <= Len(failures) /\ Len(failures) \in Nat /\ Len(recorded) \in Nat
      BY <2>1, <2>2, NoFailureForgotten DEF SesInv, TypeOK
    <3> QED
      BY <2>1, <2>2, <3>1, <3>2 DEF OutcomeConsistent
  <2>3. CASE ~cleanly
    <3>1. rec.status = "failed"
      BY <2>1, <2>3 DEF FinalStatus
    <3> QED
      BY <2>1, <2>3, <3>1 DEF OutcomeConsistent
  <2> QED
    BY <2>2, <2>3
<1> QED
  BY SessionInvariant, <1>1, PTL

\* failures.json holds what was saved of the failures in memory, in their order.
THEOREM FileMatchesMemory == Spec => []RecordedIsSaved
<1>1. SesInv => RecordedIsSaved
  BY DEF SesInv
<1> QED
  BY SessionInvariant, <1>1, PTL

\* No scenario is generated or repeated before every one of the library has run.
THEOREM LibraryDrainedFirst == Spec => []LibraryFirst
<1>1. SesInv => LibraryFirst
  BY DEF SesInv, LibraryInv
<1> QED
  BY SessionInvariant, <1>1, PTL

\* No screenshot of a session overwrites another, pre-flight and rounds together.
THEOREM SessionKeysUnique == Spec => SessionArtifactsWrittenOnce
<1>1. SesInv /\ [Next]_vars => [stored' = stored => puts' = puts]_vars
  <2> SUFFICES ASSUME SesInv, Next, stored' = stored PROVE puts' = puts
    BY DEF vars, runVars, obsVars
  <2>1. ASSUME phase \in {"initial", "after-dismiss"} \/ (phase = "scenario" /\ pc = "observe"), PutArtifact
        PROVE  obs.key \notin stored
    <3>1. CASE phase \in {"initial", "after-dismiss"}
      BY <2>1, <3>1 DEF PutArtifact, SesInv, PreflightInv, RoundInv, Preflight
    <3>2. CASE phase = "scenario" /\ pc = "observe"
      <4>1. ScnInv
        BY <3>2, RoundsAssumption DEF SesInv, RoundInv, TypeOK
      <4> QED
        BY <2>1, <3>2, <4>1 DEF PutArtifact, ScnInv, ObserverInv, KeysInv, Earlier, Key, ScnTypeOK
    <3> QED
      BY <2>1, <3>1, <3>2
  <2>2. ASSUME ObsNext, phase \in {"initial", "after-dismiss"} \/ (phase = "scenario" /\ pc = "observe")
        PROVE  puts' = puts
    <3>1. ~PutArtifact
      BY <2>1, <2>2 DEF PutArtifact
    <3> QED
      BY <2>2, <3>1 DEF ObsNext, Screenshot, ExtractText, ExtractState, ExtractStateThrows, Fail
  <2>3. CASE ObserverAwaited
    BY <2>2, <2>3 DEF ObserverAwaited
  <2>4. CASE ScenarioStep
    <3>1. CASE ObserverStep
      BY <2>2, <2>4, <3>1 DEF ScenarioStep, ObserverStep
    <3>2. CASE ~ObserverStep
      BY <2>4, <3>2 DEF ScenarioStep, Step, ExecuteOk, ExecuteErr, Observed, NotObserved, ObservationThrows,
                        Persist, obsVars
    <3> QED
      BY <3>1, <3>2
  <2>5. CASE ~ObserverAwaited /\ ~ScenarioStep
    BY <2>5 DEF Next, MarkRunning, CreateDriver, CreateThrows, Navigate, NavigateFails, InitialObserved,
                InitialObservationFails, PreflightOver, DismissClick, AfterDismiss, AfterDismissFails,
                AfterDismissThrows, RoundsOver, PlannerThrows, StartScenario, Run, ScenarioReturns, Return,
                ScenarioThrows, Finalize, CloseDriver, ObserveWith, AdoptObserved, DropObservation,
                StartRounds, runVars, obsVars
  <2> QED
    BY <2>3, <2>4, <2>5
<1> QED
  BY SessionInvariant, <1>1, PTL DEF Spec, SessionArtifactsWrittenOnce

-----------------------------------------------------------------------------
(* The two refinements.                                                    *)

\* Nothing but these touches the record or the file of failures.
LEMMA StoryFrame ==
  ASSUME Next
  PROVE  \/ UNCHANGED <<rec, recorded>>
         \/ MarkRunning \/ Finalize
         \/ phase = "scenario" /\ rec' = rec /\ \E ok \in WriteOutcomes : Persist(ok)
<1>1. CASE ScenarioStep
  BY <1>1, StepFrame DEF ScenarioStep, sesVars
<1>2. CASE ~ScenarioStep
  BY <1>2 DEF Next, CreateDriver, CreateThrows, Navigate, NavigateFails, ObserverAwaited, InitialObserved,
              InitialObservationFails, PreflightOver, DismissClick, AfterDismiss, AfterDismissFails,
              AfterDismissThrows, RoundsOver, PlannerThrows, StartScenario, Run, ScenarioReturns, Return,
              ScenarioThrows, CloseDriver, ObserveWith, AdoptObserved, DropObservation,
              StartRounds, Abort, runVars, scnVars, sesVars
<1> QED
  BY <1>1, <1>2

\* One more failure leaves the earlier ones as they are.
LEMMA PrefixOfAppend ==
  ASSUME NEW S, NEW seq \in Seq(S), NEW e \in S
  PROVE  Len(Append(seq, e)) = Len(seq) + 1 /\ SubSeq(Append(seq, e), 1, Len(seq)) = seq
OBVIOUS

\* The record and the failures of a session keep the promise of SessionLifecycle:
\* each step of the runner is a step of it or leaves both alone.
THEOREM RunnerImplementsLifecycle == Spec => ImplementsLifecycle
<1> USE DEF Lifecycle!lifecycle
<1>1. Init => Lifecycle!Init
  BY DEF Init, Lifecycle!Init
<1>2. SesInv /\ [Next]_vars => [Lifecycle!Next]_<<rec.status, rec.roundsCompleted, rec.failureCount, recorded>>
  <2> SUFFICES ASSUME SesInv, [Next]_vars
               PROVE  \/ UNCHANGED <<rec, recorded>>
                      \/ Lifecycle!Start \/ Lifecycle!Record \/ Lifecycle!Finish
    BY DEF Lifecycle!Next
  <2>1. CASE UNCHANGED <<rec, recorded>> \/ UNCHANGED vars
    BY <2>1 DEF vars, runVars, scnVars, sesVars
  <2>2. CASE MarkRunning
    <3>1. /\ rec.status = "queued" /\ recorded' = recorded
          /\ \/ rec' = rec
             \/ rec' = [rec EXCEPT !.status = "running"]
      BY <2>2 DEF MarkRunning, SesInv, OutcomeInv, runVars, scnVars
    <3>2. rec \in [status : {"queued", "running"} \cup Terminal, roundsCompleted : 0..MaxRounds,
                   failureCount : Nat]
      BY DEF SesInv, TypeOK
    <3> QED
      BY <3>1, <3>2 DEF Lifecycle!Start
  <2>3. ASSUME phase = "scenario", rec' = rec, NEW ok \in WriteOutcomes, Persist(ok)
        PROVE  recorded' = recorded \/ Lifecycle!Record
    <3>1. rec.status \notin Terminal
      BY <2>3 DEF SesInv, OutcomeInv
    <3>2. ScnInv
      BY <2>3, RoundsAssumption DEF SesInv, RoundInv, TypeOK
    <3> DEFINE f == [Head(todo) EXCEPT !.saved = ok]
    <3>3. recorded' = recorded \/ recorded' = Append(recorded, f)
      BY <2>3 DEF Persist
    <3>4. recorded \in Seq(FailureRecords) /\ f \in FailureRecords
      <4>1. ok \in BOOLEAN
        BY Zenon DEF WriteOutcomes
      <4>2. Head(todo) \in FailureRecords
        BY <2>3, <3>2 DEF ScnInv, ScnTypeOK, Persist
      <4> QED
        BY <3>2, <4>1, <4>2 DEF ScnInv, ScnTypeOK, FailureRecords
    <3> HIDE DEF f
    <3>5. recorded' = Append(recorded, f) =>
            Len(recorded') = Len(recorded) + 1 /\ SubSeq(recorded', 1, Len(recorded)) = recorded
      BY <3>4, PrefixOfAppend
    <3> QED
      BY <2>3, <3>1, <3>3, <3>5 DEF Lifecycle!Record, Lifecycle!Terminal, Terminal
  <2>4. CASE Finalize
    <3>1. /\ phase = "finally" /\ recorded' = recorded
          /\ \/ rec' = rec
             \/ rec' = [status |-> FinalStatus, roundsCompleted |-> roundsCompleted,
                        failureCount |-> Len(failures)]
      BY <2>4 DEF Finalize, runVars, scnVars
    <3>2. /\ rec.status \notin Terminal /\ roundsCompleted \in Nat /\ Len(failures) \in Nat
          /\ FinalStatus \in Terminal /\ (FinalStatus = "completed" => cleanly)
      BY <3>1, RoundsAssumption DEF SesInv, OutcomeInv, TypeOK, FinalStatus, Terminal
    <3>3. cleanly => Len(recorded) \in Nat /\ Len(failures) >= Len(recorded)
      BY <3>1, <3>2, NoFailureForgotten
    <3> QED
      BY <3>1, <3>2, <3>3 DEF Lifecycle!Finish, Lifecycle!Terminal, Terminal
  <2> QED
    BY <2>1, <2>2, <2>3, <2>4, StoryFrame
<1> QED
  BY SessionInvariant, <1>1, <1>2, PTL DEF Spec, ImplementsLifecycle, Lifecycle!Spec

\* What the runner is doing as WorkerProtocol sees it, step by step.
ProtocolVars == <<Stage, HandedOver, Len(recorded), FinalPatch>>

LEMMA SameForTheRepository ==
  ASSUME SesInv, phase \in (Preflight \ {"start"}) \cup {"round"},
         phase' \in (Preflight \ {"start"}) \cup {"round"},
         UNCHANGED <<pc, violations, recorded, failures>>
  PROVE  UNCHANGED ProtocolVars
<1>1. pc = "idle" /\ phase \notin {"start", "finally", "close", "done", "scenario"}
      /\ phase' \notin {"start", "finally", "close", "done", "scenario"}
  BY DEF SesInv, RoundInv, Preflight, Closing
<1> QED
  BY <1>1 DEF ProtocolVars, Stage, HandedOver, FinalPatch

LEMMA EndsWithFinalPatch ==
  ASSUME SesInv, phase \notin {"start", "finally", "close", "done"}, phase' = "finally",
         phase = "scenario" => pc = "thrown",
         UNCHANGED <<pc, violations, recorded, failures>>,
         cleanly' \in BOOLEAN, cleanly' => cleanly /\ phase # "scenario"
  PROVE  Protocol!Finish
<1>1. Stage = "running" /\ Stage' = "finishing"
  BY DEF Stage
<1>2. HandedOver' = HandedOver
  BY DEF HandedOver, SesInv, RoundInv, Closing
<1>3. /\ Len(failures) \in Nat /\ Len(violations) \in Nat
      /\ HandedOver \in Nat /\ Len(failures) <= HandedOver
      /\ cleanly' => HandedOver = Len(failures)
  <2>1. failures \in Seq(FailureRecords) /\ violations \in Seq(FailureRecords)
    <3>1. CASE round = 0
      BY <3>1 DEF SesInv, TypeOK, PreflightInv
    <3>2. CASE round # 0
      BY <3>2, RoundsAssumption DEF SesInv, TypeOK, RoundInv, ScnInv, ScnTypeOK
    <3> QED
      BY <3>1, <3>2
  <2>2. Len(failures) \in Nat /\ Len(violations) \in Nat
    BY <2>1
  <2>3. cleanly' => phase # "scenario" /\ pc # "thrown"
    BY DEF SesInv, RoundInv
  <2> QED
    BY <2>2, <2>3 DEF HandedOver
<1>4. FinalPatch' \in FinalPatches(HandedOver)
  <2>1. FinalPatch' = [status |-> FinalStatus', count |-> Len(failures)]
    BY DEF FinalPatch, FinalStatus
  <2>2. CASE cleanly'
    <3>1. FinalStatus' = "completed"
      BY <2>2 DEF FinalStatus
    <3> QED
      BY <1>3, <2>1, <2>2, <3>1 DEF FinalPatches
  <2>3. CASE ~cleanly'
    <3>1. FinalStatus' = "failed"
      BY <2>3 DEF FinalStatus
    <3> QED
      BY <1>3, <2>1, <3>1 DEF FinalPatches
  <2> QED
    BY <2>2, <2>3
<1> QED
  BY <1>1, <1>2, <1>4 DEF Protocol!Finish, Protocol!FinalPatches, FinalPatches

\* A scenario at work.
LEMMA StageOfScenario ==
  ASSUME phase = "scenario"
  PROVE  /\ Stage = IF pc = "persist" THEN "recording" ELSE "running"
         /\ HandedOver = Len(failures) + Len(violations)
         /\ FinalPatch = Null
BY DEF Stage, HandedOver, FinalPatch

LEMMA ScenarioFollowsProtocol ==
  ASSUME SesInv, ScenarioStep
  PROVE  UNCHANGED ProtocolVars \/ Protocol!Record \/ Protocol!Count
<1>1. /\ phase = "scenario" /\ phase' = "scenario" /\ failures' = failures /\ Step
      /\ pc \notin {"idle", "thrown"} /\ pc' # "idle"
  BY StepFrame DEF ScenarioStep, sesVars
<1>2. /\ failures \in Seq(FailureRecords) /\ violations \in Seq(FailureRecords)
      /\ recorded \in Seq(FailureRecords) /\ (pc = "persist" => todo # << >> /\ todo \in Seq(FailureRecords))
  BY <1>1, RoundsAssumption DEF SesInv, TypeOK, RoundInv, ScnInv, ScnTypeOK
<1>3. /\ Stage = IF pc = "persist" THEN "recording" ELSE "running"
      /\ HandedOver = Len(failures) + Len(violations) /\ FinalPatch = Null
  BY <1>1, StageOfScenario
<1>4. /\ Stage' = IF pc' = "persist" THEN "recording" ELSE "running"
      /\ HandedOver' = Len(failures) + Len(violations') /\ FinalPatch' = Null
  BY <1>1 DEF Stage, HandedOver, FinalPatch
<1>5. CASE pc # "persist" /\ UNCHANGED <<violations, recorded>>
  <2>1. HandedOver' = HandedOver /\ FinalPatch' = FinalPatch /\ Len(recorded') = Len(recorded)
    BY <1>3, <1>4, <1>5
  <2>2. CASE pc' = "persist"
    BY <1>3, <1>4, <1>5, <2>1, <2>2 DEF Protocol!Record
  <2>3. CASE pc' # "persist"
    BY <1>3, <1>4, <1>5, <2>1, <2>3 DEF ProtocolVars
  <2> QED
    BY <2>2, <2>3
<1>6. ASSUME NEW ok \in WriteOutcomes, Persist(ok)
      PROVE  Protocol!Count
  <2> DEFINE f == [Head(todo) EXCEPT !.saved = ok]
  <2>1. /\ pc = "persist" /\ violations' = Append(violations, f)
        /\ recorded' = recorded \/ recorded' = Append(recorded, f)
    BY <1>6 DEF Persist
  <2>2. f \in FailureRecords
    <3>1. ok \in BOOLEAN
      BY Zenon DEF WriteOutcomes
    <3>2. Head(todo) \in FailureRecords
      BY <1>2, <2>1
    <3> QED
      BY <3>1, <3>2 DEF FailureRecords
  <2> HIDE DEF f
  <2>3. Len(violations') = Len(violations) + 1 /\ Len(recorded') \in {Len(recorded), Len(recorded) + 1}
    BY <1>2, <2>1, <2>2
  <2>4. HandedOver' = HandedOver + 1
    <3>1. Len(failures) \in Nat /\ Len(violations) \in Nat
      BY <1>2
    <3> QED
      BY <1>3, <1>4, <2>3, <3>1
  <2>5. Stage = "recording" /\ Stage' \in {"running", "recording"} /\ FinalPatch' = FinalPatch
    BY <1>3, <1>4, <2>1
  <2> QED
    BY <2>3, <2>4, <2>5 DEF Protocol!Count
<1> QED
  BY <1>1, <1>5, <1>6, StepFrame

\* A scenario begins with nothing found, and what it found is taken over in one step.
LEMMA BetweenScenariosFollowsProtocol ==
  ASSUME SesInv, ScenarioReturns \/ \E s \in Planned(executed) : StartScenario(s)
  PROVE  UNCHANGED ProtocolVars
<1>1. CASE ScenarioReturns
  <2>1. /\ phase = "scenario" /\ phase' = "round" /\ pc = "act" /\ pc' = "idle"
        /\ failures' = failures \o violations /\ recorded' = recorded
    BY <1>1 DEF ScenarioReturns, Return
  <2>2. failures \in Seq(FailureRecords) /\ violations \in Seq(FailureRecords)
    BY <2>1, RoundsAssumption DEF SesInv, TypeOK, RoundInv, ScnInv, ScnTypeOK
  <2>3. Len(failures') = Len(failures) + Len(violations) /\ Len(failures') + 0 = Len(failures')
    BY <2>1, <2>2
  <2>4. Stage = "running" /\ Stage' = "running"
    BY <2>1 DEF Stage
  <2>5. HandedOver' = HandedOver /\ FinalPatch' = FinalPatch
    BY <2>1, <2>3 DEF HandedOver, FinalPatch
  <2> QED
    BY <2>1, <2>4, <2>5 DEF ProtocolVars
<1>2. ASSUME NEW s \in Planned(executed), StartScenario(s) PROVE UNCHANGED ProtocolVars
  <2>1. /\ phase = "round" /\ phase' = "scenario" /\ pc = "idle" /\ pc' = "act"
        /\ failures' = failures /\ recorded' = recorded /\ violations' = << >>
    BY <1>2 DEF StartScenario, Run
  <2>2. Len(<< >>) = 0
    OBVIOUS
  <2>3. Stage = "running" /\ Stage' = "running"
    BY <2>1 DEF Stage
  <2>4. HandedOver' = HandedOver /\ FinalPatch' = FinalPatch
    BY <2>1, <2>2 DEF HandedOver, FinalPatch
  <2> QED
    BY <2>1, <2>3, <2>4 DEF ProtocolVars
<1> QED
  BY <1>1, <1>2

LEMMA ProtocolStep == SesInv /\ [Next]_vars => [Protocol!Next]_ProtocolVars
<1> SUFFICES ASSUME SesInv, [Next]_vars PROVE Protocol!Next \/ UNCHANGED ProtocolVars
  OBVIOUS
<1>1. CASE UNCHANGED vars
  BY <1>1 DEF vars, runVars, scnVars, sesVars, ProtocolVars, Stage, HandedOver, FinalPatch, FinalStatus
<1>2. CASE MarkRunning
  <2>1. phase = "start" /\ phase' = "create" /\ UNCHANGED <<failures, pc, violations, recorded>>
    BY <1>2 DEF MarkRunning, runVars, scnVars
  <2>2. pc = "idle"
    BY <2>1 DEF SesInv, RoundInv, Closing
  <2>3. Stage = "created" /\ Stage' = "running"
    BY <2>1 DEF Stage
  <2>4. HandedOver' = HandedOver /\ FinalPatch' = FinalPatch
    BY <2>1, <2>2 DEF HandedOver, FinalPatch
  <2> QED
    BY <2>1, <2>3, <2>4 DEF Protocol!MarkRunning, Protocol!Next
<1>3. CASE CreateDriver \/ Navigate \/ ObserverAwaited \/ InitialObserved \/ AfterDismiss \/ DismissClick
           \/ PreflightOver \/ AfterDismissFails
  <2>1. /\ phase \in (Preflight \ {"start"}) \cup {"round"} /\ phase' \in (Preflight \ {"start"}) \cup {"round"}
        /\ UNCHANGED <<pc, violations, recorded, failures>>
    BY <1>3 DEF CreateDriver, Navigate, ObserverAwaited, InitialObserved, AfterDismiss, DismissClick,
                PreflightOver, AfterDismissFails, StartRounds, ObserveWith, AdoptObserved, DropObservation,
                Preflight, runVars, scnVars, sesVars
  <2> QED
    BY <2>1, SameForTheRepository
<1>4. CASE CreateThrows \/ NavigateFails \/ InitialObservationFails \/ AfterDismissThrows
           \/ PlannerThrows \/ ScenarioThrows
  <2>1. /\ phase \notin {"start", "finally", "close", "done"} /\ Abort /\ UNCHANGED scnVars
        /\ phase = "scenario" => pc = "thrown"
    BY <1>4 DEF CreateThrows, NavigateFails, InitialObservationFails, AfterDismissThrows, PlannerThrows,
                ScenarioThrows, DropObservation, runVars
  <2>2. cleanly' \in BOOLEAN /\ ~cleanly'
    BY <2>1, Zenon DEF Abort
  <2> QED
    BY <2>1, <2>2, EndsWithFinalPatch DEF Abort, scnVars, Protocol!Next
<1>5. CASE RoundsOver
  <2>1. /\ phase = "round" /\ phase' = "finally" /\ cleanly' = cleanly
        /\ UNCHANGED <<pc, violations, recorded, failures>>
    BY <1>5 DEF RoundsOver, runVars, scnVars
  <2>2. cleanly \in BOOLEAN
    BY DEF SesInv, TypeOK
  <2> QED
    BY <2>1, <2>2, EndsWithFinalPatch DEF Protocol!Next
<1>6. CASE ScenarioReturns \/ \E s \in Planned(executed) : StartScenario(s)
  BY <1>6, BetweenScenariosFollowsProtocol
<1>7. CASE ScenarioStep
  BY <1>7, ScenarioFollowsProtocol DEF Protocol!Next
<1>8. CASE Finalize \/ CloseDriver
  <2>1. /\ UNCHANGED <<pc, violations, recorded, failures, cleanly>>
        /\ \/ phase = "finally" /\ phase' = "close"
           \/ phase = "close" /\ phase' = "done"
    BY <1>8 DEF Finalize, CloseDriver, runVars, scnVars
  <2>2. HandedOver' = HandedOver /\ FinalPatch' = FinalPatch
    BY <2>1 DEF HandedOver, FinalPatch, FinalStatus
  <2>3. Stage' = "ended" /\ Stage = IF phase = "finally" THEN "finishing" ELSE "ended"
    BY <2>1 DEF Stage
  <2> QED
    BY <2>1, <2>2, <2>3 DEF ProtocolVars, Protocol!End, Protocol!Next
<1> QED
  BY <1>1, <1>2, <1>3, <1>4, <1>5, <1>6, <1>7, <1>8 DEF Next

\* Seen from the repository, a run makes the calls of WorkerProtocol in their order,
\* with a final status and counters that fit what was handed over before.
THEOREM RunnerFollowsProtocol == Spec => FollowsProtocol
<1>1. Init => Protocol!Init
  BY DEF Init, Protocol!Init, Stage, HandedOver, FinalPatch
<1>2. SesInv /\ [Next]_vars => [Protocol!Next]_<<Stage, HandedOver, Len(recorded), FinalPatch>>
  BY ProtocolStep DEF ProtocolVars
<1> QED
  BY SessionInvariant, <1>1, <1>2, PTL DEF Spec, FollowsProtocol, Protocol!Spec, Protocol!protocol
=============================================================================
