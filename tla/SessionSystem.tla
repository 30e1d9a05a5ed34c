---------------------------- MODULE SessionSystem ----------------------------
(***************************************************************************)
(* One session from the POST that asks for it to the page that shows how   *)
(* it ended: the API creates the record and spawns the worker process      *)
(* (apps/api/src/sessions/sessions.service.ts), run-once creates the       *)
(* record again and runs the session (apps/worker/src/cli/run-once.ts),    *)
(* the detail page polls (apps/dashboard/src/app/sessions/[id]).  They     *)
(* share nothing but the two files of SessionStore.  Of the session itself *)
(* its repository calls are left (SessionRuns); SessionRunner has the rest.*)
(***************************************************************************)
EXTENDS SessionRuns, FiniteSets

CONSTANT WorkerMayCrash   \* whether the worker process may die

VARIABLES
  api,       \* "idle", "creating", "created", "rejected", "down"
  page       \* the detail page: [at, session, failures, shown]

sysVars == <<run, api, page>>
vars == <<storeVars, sysVars>>

ASSUME ProcessesAssumption == Writers = {"api", "worker"} /\ Runs = {"worker"}

Unread == [is |-> "unread", value |-> Null]

Init ==
  /\ StoreInit
  /\ run = [w \in Runs |-> NewRun("none")]
  /\ api = "idle"
  /\ page = [at |-> "closed", session |-> Unread, failures |-> Unread,
             shown |-> [status |-> Null, failures |-> << >>]]

-----------------------------------------------------------------------------
(* API: POST /sessions.  The request asks for its own limits, "requested". *)

PostSession ==
  /\ api = "idle" /\ api' = "creating"
  /\ Create("api", "requested")
  /\ UNCHANGED <<run, page>>

\* Mutant: the worker is spawned without awaiting the record.
SpawnWithoutAwait ==
  /\ api = "creating" /\ ~At("api", "err")
  /\ api' = "created" /\ Moves("worker", "none", "boot")
  /\ UNCHANGED <<storeVars, page>>

\* create() was Ok: spawn the detached process and answer 202.
SpawnWorker ==
  /\ api = "creating" /\ At("api", "ok")
  /\ Release("api") /\ api' = "created" /\ Moves("worker", "none", "boot")
  /\ UNCHANGED <<sessionFile, failuresFile, page>>

\* The command cannot be started: nobody listens to the child's `error` event, so it
\* ends the API process before it has answered.
SpawnFails ==
  /\ WorkerMayCrash
  /\ api = "creating" /\ At("api", "ok")
  /\ Release("api") /\ api' = "down"
  /\ UNCHANGED <<sessionFile, failuresFile, run, page>>

\* mkdirSync or openSync of the worker log throws: the answer is a 500, the
\* record stays queued.
LogFileFails ==
  /\ DiskMayFail
  /\ api = "creating" /\ At("api", "ok")
  /\ Release("api") /\ api' = "rejected"
  /\ UNCHANGED <<sessionFile, failuresFile, run, page>>

RejectPost ==
  /\ api = "creating" /\ At("api", "err")
  /\ Release("api") /\ api' = "rejected"
  /\ UNCHANGED <<sessionFile, failuresFile, run, page>>

-----------------------------------------------------------------------------
(* Worker process: run-once.  Its spec has limits of its own, "default".   *)

WorkerCreates ==
  /\ Moves("worker", "boot", "creating")
  /\ Create("worker", "default")
  /\ UNCHANGED <<api, page>>

\* The result of create() is not looked at.
WorkerStarts ==
  /\ Settled(call["worker"])
  /\ Moves("worker", "creating", "created") /\ Release("worker")
  /\ UNCHANGED <<sessionFile, failuresFile, api, page>>

\* run() itself.
WorkerRuns ==
  /\ RunStep("worker")
  /\ UNCHANGED <<api, page>>

\* Boot failure, kill, out of memory: nothing runs any more in the process.
WorkerCrashes ==
  /\ WorkerMayCrash
  /\ run["worker"].at \notin {"none", "ended", "dead"}
  /\ Dies("worker")
  /\ UNCHANGED <<api, page>>

-----------------------------------------------------------------------------
(* Dashboard: SessionDetailPage and AutoRefresh.                           *)

\* First navigation, or a tick of the interval: the page is rendered anew.
Fetch ==
  /\ api = "created" /\ page.at \in {"closed", "polling"}
  /\ page' = [page EXCEPT !.at = "fetching", !.session = Unread, !.failures = Unread]
  /\ UNCHANGED <<storeVars, run, api>>

\* The requests run in parallel and each reads when it gets there.
FetchSession ==
  /\ page.at = "fetching" /\ page.session = Unread
  /\ page' = [page EXCEPT !.session = sessionFile]
  /\ UNCHANGED <<storeVars, run, api>>

FetchFailures ==
  /\ page.at = "fetching" /\ page.failures = Unread
  /\ page' = [page EXCEPT !.failures = failuresFile]
  /\ UNCHANGED <<storeVars, run, api>>

\* .catch(() => [])
ListOrEmpty(answer) == IF ReadOk(answer) THEN answer.value ELSE << >>

\* No session: notFound() replaces the page, AutoRefresh with it.  Otherwise the
\* interval runs on while the status is queued or running.
Render ==
  /\ page.at = "fetching" /\ Unread \notin {page.session, page.failures}
  /\ page' = IF ~ReadOk(page.session) THEN [page EXCEPT !.at = "not-found"]
             ELSE LET status == page.session.value.status IN
                  [page EXCEPT !.at = IF status \in {"queued", "running"} THEN "polling" ELSE "final",
                               !.shown = [status |-> status,
                                          failures |-> ListOrEmpty(page.failures)]]
  /\ UNCHANGED <<storeVars, run, api>>

-----------------------------------------------------------------------------
ApiStep ==
  PostSession \/ SpawnWorker \/ SpawnFails \/ LogFileFails \/ RejectPost
WorkerStep == WorkerCreates \/ WorkerStarts \/ WorkerRuns
PageStep == Fetch \/ FetchSession \/ FetchFailures \/ Render
RepositoryStep(w) == StoreStep(w) /\ UNCHANGED sysVars

Next ==
  \/ ApiStep \/ WorkerStep \/ WorkerCrashes \/ PageStep
  \/ \E w \in Writers : RepositoryStep(w)

Spec == Init /\ [][Next]_vars

\* Processes run on, file system calls return, the interval fires again; nothing
\* is assumed of crashes and disk failures.
Fairness ==
  /\ WF_vars(ApiStep) /\ WF_vars(WorkerStep) /\ WF_vars(PageStep)
  /\ \A w \in Writers : WF_vars(RepositoryStep(w))

FairSpec == Spec /\ Fairness

-----------------------------------------------------------------------------
TypeOK ==
  /\ StoreTypeOK
  /\ api \in {"idle", "creating", "created", "rejected", "down"}
  /\ run["worker"].at # "reported"
  /\ page \in [at : {"closed", "fetching", "polling", "final", "not-found"},
               session : Answers(Records), failures : Answers(Seq(Writers)),
               shown : [status : {Null, "queued", "running"} \cup Terminal, failures : Seq(Writers)]]

\* The repository has no lock: API and worker never have a call in flight at the
\* same time.
OneWriter == call["api"] = NoCall \/ call["worker"] = NoCall

\* A failure recordFailure acknowledged is in failures.json for as long as the
\* file can be read at all, whatever writes failed before or after it.
AcknowledgedKept == ReadOk(failuresFile) => Len(failuresFile.value) >= run["worker"].saved

\* A page that stopped polling on a terminal status shows the last word: nobody
\* changes the record after it, and a completed session counts at least the failures
\* that are listed.
FinalPageTruth ==
  page.at = "final" =>
    /\ ReadOk(sessionFile)
    /\ sessionFile.value.status = page.shown.status
    /\ page.shown.status = "completed" => sessionFile.value.count >= Len(page.shown.failures)

\* The parts of the inductive invariant behind the three properties above.

\* The API creates the record before there is a worker.
ApiInv ==
  /\ call["api"].op = IF api = "creating" THEN "create" ELSE "none"
  /\ api # "created" => run["worker"].at = "none"

\* What failures.json can list at most: a worker in the middle of recordFailure, or
\* killed there, may have stored one more than it counted.
MayBeListed ==
  run["worker"].found + (IF run["worker"].at \in {"recording", "dead"} THEN 1 ELSE 0)

\* A list read from failures.json, if any.
Lists == {file \in {failuresFile, page.failures} : ReadOk(file)}

\* No list is longer than that, and the file is never shorter than what was
\* acknowledged: who records a failure appends to all of them.
ListedInv ==
  /\ \A file \in Lists : Len(file.value) <= MayBeListed
  /\ Len(page.shown.failures) <= MayBeListed
  /\ failuresFile = Absent => run["worker"].saved = 0
  /\ AcknowledgedKept
  /\ run["worker"].at = "recording" /\ call["worker"].at \in {"open-failures", "write-failures", "ok"} =>
       Len(call["worker"].failures) \in (run["worker"].saved + 1)..MayBeListed
  /\ run["worker"].at = "recording" /\ ~At("worker", "ok") /\ ReadOk(failuresFile) =>
       Len(failuresFile.value) <= run["worker"].found
  /\ run["worker"].at = "recording" /\ At("worker", "ok") => failuresFile = Json(call["worker"].failures)

\* A terminal record is the last thing the worker writes, and if it is completed
\* whatever was or will be read of the failures fits its count.
LastWordInv ==
  EndsSession(sessionFile) =>
    /\ run["worker"].at \in {"finishing", "ended", "dead"}
    /\ run["worker"].at = "finishing" => Settled(call["worker"])
    /\ sessionFile.value.status = "completed" =>
         /\ \A file \in Lists : Len(file.value) <= sessionFile.value.count
         /\ Len(page.shown.failures) <= sessionFile.value.count

\* The terminal record the page has read is still the one on disk.
PageInv ==
  /\ page.session = Unread \/ IsFile(page.session, Records)
  /\ page.failures = Unread \/ IsFile(page.failures, Seq(Writers))
  /\ EndsSession(page.session) => sessionFile = page.session
  /\ page.at = "final" => EndsSession(page.session) /\ page.shown.status = page.session.value.status

SystemInv == TypeOK /\ RunsInv /\ OpenedInv /\ ApiInv /\ ListedInv /\ LastWordInv /\ PageInv

NothingFails ==
  /\ api \notin {"rejected", "down"} /\ run["worker"].at # "dead"
  /\ \A w \in Writers : ~At(w, "err")

StoryTold ==
  /\ ReadOk(sessionFile) /\ ReadOk(failuresFile)
  /\ sessionFile.value.status \in Terminal /\ sessionFile.value.spec = "default"
  /\ LET listed == Len(failuresFile.value) IN
     /\ listed = run["worker"].found
     /\ sessionFile.value.count <= listed
     /\ sessionFile.value.status = "completed" => sessionFile.value.count = listed

\* Unless a repository call fails or a process dies, a session that was accepted
\* ends, on disk, with a terminal status and all its failures; a completed one
\* counts them all, a failed one perhaps fewer.  Its limits are those run-once.ts:42
\* makes up, whatever the request asked for.
RecordReachesTerminal == []NothingFails => <>[]StoryTold

\* What holds as long as nothing fails, and makes StoryTold true at the end: outside of
\* a write both files can be read, the list holds every failure counted so far, and the
\* call under way carries what is to follow.
FaithfulInv ==
  LET r == run["worker"]
      c == call["worker"]
  IN
  /\ r.at = "creating" =>
       /\ c.session.spec = "default"
       /\ c.at \in {"open-failures", "write-failures", "ok"} => sessionFile = Json(c.session)
       /\ c.at = "ok" => failuresFile = Json(<< >>)
  /\ r.at \in ProtocolStages =>
       /\ c.at \in {"open-session", "write-session"} => c.session.spec = "default"
       /\ c.at # "write-session" => ReadOk(sessionFile) /\ sessionFile.value.spec = "default"
       /\ r.at = "recording" /\ c.at \in {"open-failures", "write-failures", "ok"} =>
            Len(c.failures) = r.found + 1
       /\ c.at # "write-failures" => ReadOk(failuresFile)
       /\ c.at # "write-failures" =>
            Len(failuresFile.value) = r.found + (IF r.at = "recording" /\ c.at = "ok" THEN 1 ELSE 0)
  /\ r.at = "finishing" =>
       c.session.count <= r.found /\ (c.at = "ok" => sessionFile = Json(c.session))
  /\ r.at = "ended" =>
       /\ sessionFile.value.status \in Terminal /\ sessionFile.value.count <= r.found
       /\ sessionFile.value.status = "completed" => sessionFile.value.count = r.found

\* README.md:50 "auto-refreshes screenshots + status every 3 seconds until the run
\* finishes": the page of a run that finishes comes to show that it did.
PageReachesTerminal == <>(page.shown.status \in Terminal)
=============================================================================
