----------------------------- MODULE WorkerPool -----------------------------
(***************************************************************************)
(* The queue worker (apps/worker/src/index.ts): several sessions at a time *)
(* in one process share the browser of PlaywrightBrowserDriverFactory and  *)
(* the OCR worker of TesseractVisionService, each started by the first     *)
(* caller and kept as a promise; a signal drains the jobs and releases     *)
(* both.  Playwright listens to the same signals, since chromium.launch is *)
(* called with its defaults.  Of a session only its use of the two is left.*)
(***************************************************************************)
EXTENDS Integers, FiniteSets

CONSTANTS Jobs,          \* run-session jobs in the queue
          Concurrency    \* WORKER_CONCURRENCY

ASSUME ConcurrencyAssumption == Concurrency \in Nat \ {0}

VARIABLES
  job,           \* what each job awaits
  browser,       \* browserPromise and the process behind it
  contexts,      \* jobs with an open BrowserContext
  ocr,           \* the Tesseract worker and its `initializing` promise
  launches,      \* number of chromium.launch calls (history)
  inits,         \* number of createWorker calls (history)
  stop,          \* progress of shutdown()
  closing,       \* what Playwright's signal handlers are about: "no", "close", "exit"
  released       \* legs of container.shutdown() that have settled

vars == <<job, browser, contexts, ocr, launches, inits, stop, closing, released>>

shared == <<browser, contexts, ocr, launches, inits>>
ending == <<stop, closing, released>>

Active == {j \in Jobs : job[j] \notin {"queued", "completed"}}

Init ==
  /\ job = [j \in Jobs |-> "queued"]
  /\ browser = "none" /\ contexts = {} /\ ocr = "none"
  /\ launches = 0 /\ inits = 0
  /\ stop = "no" /\ closing = "no" /\ released = {}

Goto(j, stage) == job' = [job EXCEPT ![j] = stage]

\* Mutant: one job too many.
TakeOneMore(j) ==
  /\ stop = "no" /\ job[j] = "queued" /\ Cardinality(Active) <= Concurrency
  /\ Goto(j, "start")
  /\ UNCHANGED <<shared, ending>>

\* BullMQ hands a job to the processor while fewer than Concurrency are active.
Take(j) ==
  /\ stop = "no" /\ job[j] = "queued" /\ Cardinality(Active) < Concurrency
  /\ Goto(j, "start")
  /\ UNCHANGED <<shared, ending>>

-----------------------------------------------------------------------------
(* PlaywrightBrowserDriverFactory                                          *)

\* Mutant: the promise is kept only once it has resolved.
GetBrowserWhenUp(j) ==
  /\ job[j] = "start" /\ Goto(j, "launch")
  /\ IF browser \in {"none", "launching"}
       THEN browser' = "launching" /\ launches' = launches + 1
       ELSE UNCHANGED <<browser, launches>>
  /\ UNCHANGED <<contexts, ocr, inits, ending>>

\* create() up to its first await: this.browserPromise ??= chromium.launch().
GetBrowser(j) ==
  /\ job[j] = "start" /\ Goto(j, "launch")
  /\ IF browser = "none" THEN browser' = "launching" /\ launches' = launches + 1
     ELSE UNCHANGED <<browser, launches>>
  /\ UNCHANGED <<contexts, ocr, inits, ending>>

LaunchSettles ==
  /\ browser = "launching" /\ browser' \in {"up", "rejected"}
  /\ UNCHANGED <<job, contexts, ocr, launches, inits, ending>>

\* The rejected promise stays; run() has no driver to close.
LaunchRejected(j) ==
  /\ job[j] = "launch" /\ browser = "rejected" /\ Goto(j, "completed")
  /\ UNCHANGED <<shared, ending>>

Launched(j) ==
  /\ job[j] = "launch" /\ browser \in {"up", "dead", "taken"} /\ Goto(j, "context")
  /\ UNCHANGED <<shared, ending>>

NewContext(j) ==
  /\ job[j] = "context" /\ browser = "up" /\ Goto(j, "page")
  /\ contexts' = contexts \cup {j}
  /\ UNCHANGED <<browser, ocr, launches, inits, ending>>

NewContextThrows(j) ==
  /\ job[j] = "context" /\ Goto(j, "completed")
  /\ UNCHANGED <<shared, ending>>

NewPage(j) ==
  /\ job[j] = "page" /\ browser = "up" /\ Goto(j, "session")
  /\ UNCHANGED <<shared, ending>>

\* create() throws with the context open: no driver holds it any more.
NewPageThrows(j) ==
  /\ job[j] = "page" /\ Goto(j, "completed")
  /\ UNCHANGED <<shared, ending>>

\* The process dies; the resolved promise stays.
BrowserDies ==
  /\ browser = "up" /\ browser' = "dead" /\ contexts' = {}
  /\ UNCHANGED <<job, ocr, launches, inits, ending>>

-----------------------------------------------------------------------------
(* TesseractVisionService                                                  *)

\* extractText: getWorker() returns the worker or the promise being initialized.
ExtractText(j) ==
  /\ job[j] = "session" /\ Goto(j, "ocr-init")
  /\ IF ocr = "none" THEN ocr' = "starting" /\ inits' = inits + 1
     ELSE UNCHANGED <<ocr, inits>>
  /\ UNCHANGED <<browser, contexts, launches, ending>>

InitSettles ==
  /\ ocr = "starting" /\ ocr' \in {"ready", "rejected"}
  /\ UNCHANGED <<job, browser, contexts, launches, inits, ending>>

OcrRejected(j) ==
  /\ job[j] = "ocr-init" /\ ocr = "rejected" /\ Goto(j, "session")
  /\ UNCHANGED <<shared, ending>>

Recognize(j) ==
  /\ job[j] = "ocr-init" /\ ocr = "ready" /\ Goto(j, "ocr")
  /\ UNCHANGED <<shared, ending>>

\* With a text or with a VisionError.
Recognized(j) ==
  /\ job[j] = "ocr" /\ Goto(j, "session")
  /\ UNCHANGED <<shared, ending>>

-----------------------------------------------------------------------------
\* The session is over, whatever its outcome: driver.close().
EndSession(j) ==
  /\ job[j] = "session" /\ Goto(j, "close")
  /\ UNCHANGED <<shared, ending>>

CloseDriver(j) ==
  /\ job[j] = "close" /\ Goto(j, "completed")
  /\ contexts' = contexts \ {j}
  /\ UNCHANGED <<browser, ocr, launches, inits, ending>>

-----------------------------------------------------------------------------
(* shutdown(): worker.close(), container.shutdown(), connection.quit().    *)

\* SIGINT or SIGTERM; shuttingDown makes later ones return.  Playwright's handlers are
\* there while there is a browser process, which the launch has at some time started.
Signal(signal) ==
  LET handler == IF signal = "SIGINT" \/ closing = "exit" THEN "exit" ELSE "close" IN
  /\ stop' = IF stop = "no" THEN "draining" ELSE stop
  /\ closing' \in (IF browser \in {"launching", "up"} THEN {handler} ELSE {closing})
                   \cup (IF browser = "launching" THEN {closing} ELSE {})
  /\ UNCHANGED <<job, shared, released>>

\* Mutant: the jobs are not awaited.
ReleaseAtOnce ==
  /\ stop = "draining" /\ stop' = "releasing"
  /\ UNCHANGED <<job, shared, closing, released>>

\* worker.close() resolves when the active jobs have ended.
Drained ==
  /\ stop = "draining" /\ Active = {} /\ stop' = "releasing"
  /\ UNCHANGED <<job, shared, closing, released>>

\* worker.close() rejects: logged, and the process exits.
DrainFails ==
  /\ stop = "draining" /\ stop' = "aborted"
  /\ UNCHANGED <<job, shared, closing, released>>

\* Mutant: a browser that could not be launched is waited for.
ReleaseBrowserWhenUp ==
  /\ stop = "releasing" /\ "browser" \notin released /\ browser \notin {"launching", "rejected"}
  /\ released' = released \cup {"browser"}
  /\ IF browser \in {"up", "dead", "taken"} THEN browser' = "closed" /\ contexts' = {}
     ELSE UNCHANGED <<browser, contexts>>
  /\ UNCHANGED <<job, ocr, launches, inits, stop, closing>>

\* browserFactory.shutdown(): a rejected launch rejects here again.
ReleaseBrowser ==
  /\ stop = "releasing" /\ "browser" \notin released /\ browser # "launching"
  /\ released' = released \cup {"browser"}
  /\ IF browser \in {"up", "dead", "taken"} THEN browser' = "closed" /\ contexts' = {}
     ELSE UNCHANGED <<browser, contexts>>
  /\ UNCHANGED <<job, ocr, launches, inits, stop, closing>>

\* vision.dispose(): nothing to do unless the worker is there.
ReleaseVision ==
  /\ stop = "releasing" /\ "vision" \notin released
  /\ released' = released \cup {"vision"}
  /\ ocr' = IF ocr = "ready" THEN "terminated" ELSE ocr
  /\ UNCHANGED <<job, browser, contexts, launches, inits, stop, closing>>

\* Promise.allSettled, then connection.quit() and, in `finally`, process.exit.
Quit ==
  /\ stop = "releasing" /\ released = {"browser", "vision"}
  /\ stop' = "exited"
  /\ UNCHANGED <<job, shared, closing, released>>

-----------------------------------------------------------------------------
(* Playwright's handlers of a signal.                                      *)

\* gracefullyCloseAll(): the sessions lose their browser, and a launch is rejected.
PlaywrightCloses ==
  /\ closing # "no" /\ browser \in {"launching", "up"}
  /\ browser' = IF browser = "up" THEN "taken" ELSE "rejected"
  /\ contexts' = {}
  /\ UNCHANGED <<job, ocr, launches, inits, ending>>

\* process.exit(130), after SIGINT; a second one kills the browser first.
PlaywrightExits ==
  /\ closing = "exit" /\ stop' = "interrupted"
  /\ browser' = IF browser \in {"launching", "up"} THEN "taken" ELSE browser
  /\ contexts' = {}
  /\ UNCHANGED <<job, ocr, launches, inits, closing, released>>

-----------------------------------------------------------------------------
Running == stop \notin {"exited", "aborted", "interrupted"}

JobStep(j) ==
  /\ Running
  /\ \/ GetBrowser(j) \/ LaunchRejected(j) \/ Launched(j)
     \/ NewContext(j) \/ NewContextThrows(j) \/ NewPage(j) \/ NewPageThrows(j)
     \/ ExtractText(j) \/ OcrRejected(j) \/ Recognize(j) \/ Recognized(j)
     \/ EndSession(j) \/ CloseDriver(j)

SharedStep == Running /\ (LaunchSettles \/ InitSettles)
ShutdownStep == Drained \/ ReleaseBrowser \/ ReleaseVision \/ Quit

Next ==
  \/ \E j \in Jobs : Take(j) \/ JobStep(j)
  \/ SharedStep
  \/ Running /\ (BrowserDies \/ PlaywrightCloses \/ PlaywrightExits)
  \/ \E signal \in {"SIGINT", "SIGTERM"} : Running /\ Signal(signal)
  \/ DrainFails \/ ShutdownStep

Spec == Init /\ [][Next]_vars

\* Awaited calls settle, and a session observes finitely often: it does not prefer
\* one more extractText to its end for ever.
Fairness ==
  /\ WF_vars(SharedStep) /\ WF_vars(ShutdownStep)
  /\ \A j \in Jobs : WF_vars(JobStep(j)) /\ SF_vars(Running /\ EndSession(j))

FairSpec == Spec /\ Fairness

-----------------------------------------------------------------------------
TypeOK ==
  /\ job \in [Jobs -> {"queued", "start", "launch", "context", "page", "session", "ocr-init",
                        "ocr", "close", "completed"}]
  /\ browser \in {"none", "launching", "up", "rejected", "dead", "taken", "closed"}
  /\ ocr \in {"none", "starting", "ready", "rejected", "terminated"}
  /\ contexts \subseteq Jobs /\ released \subseteq {"browser", "vision"}
  /\ stop \in {"no", "draining", "releasing", "exited", "aborted", "interrupted"}
  /\ closing \in {"no", "close", "exit"}
  /\ IsFiniteSet(Active) /\ Cardinality(Active) <= Concurrency

\* However many sessions start at once, one browser process is launched and one
\* OCR worker created in the life of the process.
SharedOnce == launches <= 1 /\ inits <= 1

\* index.ts:63 "drain in-flight jobs, kill the browser": shutdown() takes nothing from
\* a session, which has its context in the browser that is up from newContext to the end
\* of driver.close(), unless the browser died or, after a signal only, Playwright's own
\* handler closed it.  What a session awaits is there, under way, or has failed.
NothingPulledAway ==
  /\ browser = "taken" => stop # "no"
  /\ \A j \in Jobs :
       /\ job[j] = "launch" => browser \in {"launching", "up", "rejected", "dead", "taken"}
       /\ job[j] = "context" => browser \in {"up", "dead", "taken"}
       /\ job[j] \in {"page", "session", "ocr-init", "ocr", "close"} =>
            (browser = "up" /\ j \in contexts) \/ browser \in {"dead", "taken"}
       /\ job[j] = "ocr-init" => ocr \in {"starting", "ready", "rejected"}
       /\ job[j] = "ocr" => ocr = "ready"

\* tesseract-service.ts:21-22, browser-driver.ts:25: after an orderly shutdown no
\* browser, no context and no OCR worker is left.
CleanExit ==
  stop = "exited" =>
    /\ browser \in {"none", "rejected", "closed"} /\ contexts = {}
    /\ ocr \in {"none", "rejected", "terminated"}

\* The parts of the inductive invariant behind the properties above.

\* A launch or an initialization is under way or over as soon as it was counted.
CountInv ==
  /\ launches = IF browser = "none" THEN 0 ELSE 1
  /\ inits = IF ocr = "none" THEN 0 ELSE 1

\* Whoever started a launch or an initialization still awaits it until it settles.
AwaitedInv ==
  /\ browser = "launching" => \E j \in Jobs : job[j] = "launch"
  /\ ocr = "starting" => \E j \in Jobs : job[j] = "ocr-init"

\* A context lives in the browser that is up, and is released after the last job only.
ReleaseInv ==
  /\ contexts # {} => browser = "up"
  /\ stop \in {"releasing", "exited"} => Active = {}
  /\ released # {} => stop \in {"releasing", "exited", "interrupted"}
  /\ closing # "no" => stop # "no"
  /\ stop = "exited" => released = {"browser", "vision"}
  /\ browser = "closed" => "browser" \in released
  /\ "browser" \in released => browser \in {"none", "rejected", "closed"}
  /\ ocr = "terminated" => "vision" \in released
  /\ "vision" \in released => ocr \in {"none", "rejected", "terminated"}

PoolInv == TypeOK /\ CountInv /\ AwaitedInv /\ ReleaseInv /\ NothingPulledAway

\* A signal ends the process, and not before the sessions it interrupted are over
\* unless the queue could not be closed or, after SIGINT, Playwright's handler was first.
SignalEndsProcess ==
  stop = "draining" ~>
    stop \in {"aborted", "interrupted"} \/ (stop = "exited" /\ Active = {})
=============================================================================
