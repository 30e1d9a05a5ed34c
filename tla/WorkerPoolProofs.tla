--------------------------- MODULE WorkerPoolProofs ---------------------------
(***************************************************************************)
(* For every set of jobs, finite or not, and every concurrency: PoolInv is *)
(* inductive for WorkerPool, and with it one browser and one OCR worker    *)
(* serve all sessions, shutdown() pulls neither away, and none is left.    *)
(***************************************************************************)
EXTENDS WorkerPool, FiniteSetTheorems, TLAPS

Stages == {"queued", "start", "launch", "context", "page", "session", "ocr-init", "ocr", "close",
           "completed"}

\* A job that goes on, or ends, makes no other job active.
LEMMA ActiveShrinks ==
  ASSUME TypeOK, NEW j \in Jobs, NEW stage \in Stages \ {"queued"},
         job[j] \notin {"queued", "completed"}, Goto(j, stage)
  PROVE  /\ job' \in [Jobs -> Stages]
         /\ IsFiniteSet(Active') /\ Cardinality(Active') <= Concurrency
         /\ Active' \subseteq Active /\ j \in Active
<1>1. job \in [Jobs -> Stages] /\ IsFiniteSet(Active) /\ Cardinality(Active) <= Concurrency
  BY DEF TypeOK, Stages
<1>2. job' = [job EXCEPT ![j] = stage]
  BY DEF Goto
<1>3. job' \in [Jobs -> Stages] /\ Active' \subseteq Active /\ j \in Active
  BY <1>1, <1>2 DEF Active
<1>4. IsFiniteSet(Active') /\ Cardinality(Active') <= Cardinality(Active)
  BY <1>1, <1>3, FS_Subset
<1>5. Cardinality(Active') \in Nat /\ Cardinality(Active) \in Nat /\ Concurrency \in Nat
  BY <1>1, <1>4, FS_CardinalityType, ConcurrencyAssumption
<1> QED
  BY <1>1, <1>3, <1>4, <1>5

\* Taking a job makes it the one more that Concurrency allowed.
LEMMA TakeTypes ==
  ASSUME TypeOK, NEW j \in Jobs, Take(j)
  PROVE  /\ job' \in [Jobs -> Stages]
         /\ IsFiniteSet(Active') /\ Cardinality(Active') <= Concurrency
<1>1. /\ job \in [Jobs -> Stages] /\ IsFiniteSet(Active) /\ Cardinality(Active) < Concurrency
      /\ job[j] = "queued" /\ job' = [job EXCEPT ![j] = "start"]
  BY DEF TypeOK, Stages, Take, Goto
<1>2. job' \in [Jobs -> Stages] /\ Active' = Active \cup {j} /\ j \notin Active
  BY <1>1 DEF Active, Stages
<1>3. IsFiniteSet(Active') /\ Cardinality(Active') = Cardinality(Active) + 1
  BY <1>1, <1>2, FS_AddElement
<1>4. Cardinality(Active) \in Nat /\ Concurrency \in Nat
  BY <1>1, FS_CardinalityType, ConcurrencyAssumption
<1> QED
  BY <1>1, <1>2, <1>3, <1>4

-----------------------------------------------------------------------------
(* PoolInv holds initially and is kept by every step: a lemma per kind of  *)
(* step.                                                                   *)

LEMMA InitInv == Init => PoolInv
<1> SUFFICES ASSUME Init PROVE PoolInv
  OBVIOUS
<1>1. Active = {}
  BY DEF Init, Active
<1>2. TypeOK
  <2>1. Cardinality({}) <= Concurrency /\ IsFiniteSet({})
    BY FS_EmptySet, ConcurrencyAssumption
  <2> QED
    BY <1>1, <2>1 DEF Init, TypeOK
<1> QED
  BY <1>1, <1>2 DEF Init, PoolInv, CountInv, AwaitedInv, ReleaseInv, NothingPulledAway

LEMMA TakeInv ==
  ASSUME PoolInv, NEW j \in Jobs, Take(j)
  PROVE  PoolInv'
<1>1. TypeOK'
  BY TakeTypes DEF PoolInv, TypeOK, Stages, Take, shared, ending
<1>2. job \in [Jobs -> Stages] /\ job[j] = "queued" /\ job' = [job EXCEPT ![j] = "start"] /\ stop = "no"
  BY DEF PoolInv, TypeOK, Stages, Take, Goto
<1>3. UNCHANGED <<browser, contexts, ocr, launches, inits, stop, closing, released>>
  BY DEF Take, shared, ending
<1>4. \A k \in Jobs : k # j => job'[k] = job[k]
  BY <1>2
<1>5. AwaitedInv' /\ NothingPulledAway'
  BY <1>2, <1>3 DEF PoolInv, AwaitedInv, NothingPulledAway, Stages
<1> QED
  BY <1>1, <1>2, <1>3, <1>5 DEF PoolInv, CountInv, ReleaseInv

\* The steps of a job that go on from one await to the next.
LEMMA JobInv ==
  ASSUME PoolInv, NEW j \in Jobs, JobStep(j)
  PROVE  PoolInv'
<1>1. PICK stage \in Stages \ {"queued"} : Goto(j, stage) /\ job[j] \notin {"queued", "completed"}
  BY DEF JobStep, GetBrowser, LaunchRejected, Launched, NewContext, NewContextThrows, NewPage,
         NewPageThrows, ExtractText, OcrRejected, Recognize, Recognized, EndSession, CloseDriver, Stages
<1>2. /\ job' \in [Jobs -> Stages] /\ IsFiniteSet(Active') /\ Cardinality(Active') <= Concurrency
      /\ Active' \subseteq Active /\ j \in Active
  BY <1>1, ActiveShrinks DEF PoolInv
<1>3. stop \in {"no", "draining"} /\ released = {} /\ UNCHANGED <<stop, closing, released>>
  BY <1>2 DEF JobStep, Running, PoolInv, TypeOK, ReleaseInv, shared, ending,
         GetBrowser, LaunchRejected, Launched, NewContext, NewContextThrows, NewPage,
         NewPageThrows, ExtractText, OcrRejected, Recognize, Recognized, EndSession, CloseDriver
<1>4. job \in [Jobs -> Stages] /\ job' = [job EXCEPT ![j] = stage]
  BY <1>1 DEF PoolInv, TypeOK, Stages, Goto
<1>5. TypeOK' /\ CountInv' /\ ReleaseInv'
  <2>1. /\ browser' \in {"none", "launching", "up", "rejected", "dead", "taken"}
        /\ ocr' \in {"none", "starting", "ready", "rejected"}
        /\ contexts' \subseteq Jobs /\ CountInv' /\ (contexts' # {} => browser' = "up")
    BY <1>3 DEF JobStep, PoolInv, TypeOK, ReleaseInv, CountInv, shared,
         GetBrowser, LaunchRejected, Launched, NewContext, NewContextThrows, NewPage,
         NewPageThrows, ExtractText, OcrRejected, Recognize, Recognized, EndSession, CloseDriver
  <2> QED
    BY <1>2, <1>3, <2>1 DEF PoolInv, TypeOK, ReleaseInv, Stages
<1>6. AwaitedInv' /\ NothingPulledAway'
  <2>1. AwaitedInv'
    BY <1>4, <1>1 DEF PoolInv, AwaitedInv, JobStep, shared, Goto,
         GetBrowser, LaunchRejected, Launched, NewContext, NewContextThrows, NewPage,
         NewPageThrows, ExtractText, OcrRejected, Recognize, Recognized, EndSession, CloseDriver
  <2>2. NothingPulledAway'
    BY <1>4, <1>1, <1>3 DEF PoolInv, TypeOK, NothingPulledAway, ReleaseInv, JobStep, shared, Goto,
         GetBrowser, LaunchRejected, Launched, NewContext, NewContextThrows, NewPage,
         NewPageThrows, ExtractText, OcrRejected, Recognize, Recognized, EndSession, CloseDriver
  <2> QED
    BY <2>1, <2>2
<1> QED
  BY <1>5, <1>6 DEF PoolInv

\* What is awaited settles, the browser dies, or Playwright closes it: no job moves.
LEMMA SharedInv ==
  ASSUME PoolInv,
         SharedStep \/ (Running /\ (BrowserDies \/ PlaywrightCloses \/ PlaywrightExits))
  PROVE  PoolInv'
<1> USE DEF PoolInv, SharedStep, Running, LaunchSettles, InitSettles, BrowserDies,
       PlaywrightCloses, PlaywrightExits, ending
<1>1. Active' = Active
  BY DEF Active
<1>2. TypeOK' /\ CountInv' /\ AwaitedInv'
  BY <1>1 DEF TypeOK, CountInv, AwaitedInv
<1>3. ReleaseInv'
  <2>1. CASE SharedStep
    BY <1>1, <2>1 DEF TypeOK, AwaitedInv, ReleaseInv, Active
  <2>2. CASE BrowserDies \/ PlaywrightCloses
    <3>1. contexts' = {} /\ browser \in {"launching", "up"} /\ browser' \in {"dead", "taken", "rejected"}
      BY <2>2
    <3> QED
      BY <1>1, <2>2, <3>1 DEF TypeOK, ReleaseInv
  <2>3. CASE PlaywrightExits
    <3>1. /\ contexts' = {} /\ stop' = "interrupted"
          /\ browser \in {"launching", "up"} => browser' = "taken"
          /\ browser \notin {"launching", "up"} => browser' = browser
      BY <2>3
    <3> QED
      BY <1>1, <2>3, <3>1 DEF TypeOK, ReleaseInv
  <2> QED
    BY <2>1, <2>2, <2>3
<1>4. NothingPulledAway'
  BY DEF NothingPulledAway, ReleaseInv
<1> QED
  BY <1>2, <1>3, <1>4

LEMMA ShutdownInv ==
  ASSUME PoolInv,
         (\E signal \in {"SIGINT", "SIGTERM"} : Running /\ Signal(signal)) \/ DrainFails \/ ShutdownStep
  PROVE  PoolInv'
<1> USE DEF PoolInv, Signal, Running, DrainFails, ShutdownStep, Drained, ReleaseBrowser, ReleaseVision,
       Quit, shared, ending
<1>1. Active' = Active
  BY DEF Active
<1>2. TypeOK' /\ CountInv' /\ AwaitedInv'
  BY <1>1 DEF TypeOK, CountInv, AwaitedInv
<1>3. ReleaseInv'
  BY <1>1 DEF TypeOK, AwaitedInv, ReleaseInv, Active
<1>4. NothingPulledAway'
  BY DEF NothingPulledAway, ReleaseInv, Active
<1> QED
  BY <1>2, <1>3, <1>4

-----------------------------------------------------------------------------
\* PoolInv is an invariant of the worker process, whatever the jobs and the
\* concurrency.
THEOREM PoolInvariant == Spec => []PoolInv
<1>1. PoolInv /\ [Next]_vars => PoolInv'
  <2> SUFFICES ASSUME PoolInv, [Next]_vars PROVE PoolInv'
    OBVIOUS
  <2>1. ASSUME NEW j \in Jobs, Take(j) PROVE PoolInv'
    BY <2>1, TakeInv
  <2>2. ASSUME NEW j \in Jobs, JobStep(j) PROVE PoolInv'
    BY <2>2, JobInv
  <2>3. CASE SharedStep \/ (Running /\ (BrowserDies \/ PlaywrightCloses \/ PlaywrightExits))
    BY <2>3, SharedInv
  <2>4. CASE \/ \E signal \in {"SIGINT", "SIGTERM"} : Running /\ Signal(signal)
             \/ DrainFails \/ ShutdownStep
    BY <2>4, ShutdownInv
  <2>5. CASE UNCHANGED vars
    BY <2>5 DEF vars, PoolInv, TypeOK, CountInv, AwaitedInv, ReleaseInv, NothingPulledAway, Active
  <2> QED
    BY <2>1, <2>2, <2>3, <2>4, <2>5 DEF Next
<1> QED
  BY InitInv, <1>1, PTL DEF Spec

\* Type correctness, and never more sessions at a time than WORKER_CONCURRENCY.
THEOREM PoolTypes == Spec => []TypeOK
<1>1. PoolInv => TypeOK
  BY DEF PoolInv
<1> QED
  BY PoolInvariant, <1>1, PTL

\* One chromium.launch and one createWorker serve all the sessions of the process.
THEOREM OneBrowserOneWorker == Spec => []SharedOnce
<1>1. PoolInv => SharedOnce
  BY DEF PoolInv, CountInv, SharedOnce
<1> QED
  BY PoolInvariant, <1>1, PTL

\* shutdown() releases neither the browser nor the OCR worker under a session, from the
\* launch it awaits to the end of driver.close() (index.ts:63-80); what does take the
\* browser away is its death or, after a signal, Playwright's own handler.
THEOREM AwaitedIsThere == Spec => []NothingPulledAway
<1>1. PoolInv => NothingPulledAway
  BY DEF PoolInv
<1> QED
  BY PoolInvariant, <1>1, PTL

\* An orderly shutdown leaves no browser, no context and no OCR worker, although
\* dispose() does nothing while the worker is still being created.
THEOREM NothingLeftBehind == Spec => []CleanExit
<1>1. PoolInv => CleanExit
  BY DEF PoolInv, ReleaseInv, CleanExit
<1> QED
  BY PoolInvariant, <1>1, PTL
=============================================================================
