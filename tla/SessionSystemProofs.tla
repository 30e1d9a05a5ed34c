-------------------------- MODULE SessionSystemProofs --------------------------
(***************************************************************************)
(* For every bound on the failures, with or without disk failures and      *)
(* crashes: SystemInv is inductive for SessionSystem, and with it there is *)
(* one writer at a time, what recordFailure acknowledged stays, and the    *)
(* page that stopped polling shows the last word.  As long as nothing      *)
(* fails, FaithfulInv is kept too, and an ended run has told its story.    *)
(***************************************************************************)
EXTENDS SessionSystem, SessionRunsProofs

\* The two processes, and what is known of their calls and of the run.
LEMMA Processes ==
  ASSUME SystemInv
  PROVE  /\ "api" \in Writers /\ "worker" \in Writers /\ "worker" \in Runs
         /\ StoreTypeOK /\ CallInv("worker")
         /\ call \in [Writers -> Calls] /\ call["api"] \in Calls /\ call["worker"] \in Calls
         /\ IsFile(sessionFile, Records) /\ IsFile(failuresFile, Seq(Writers))
         /\ run \in [Runs -> [at : RunStages, found : 0..MaxFailures, saved : 0..MaxFailures]]
         /\ run["worker"].found \in Nat /\ run["worker"].saved \in Nat
         /\ run["worker"].saved <= run["worker"].found
         /\ run["worker"].at \in RunStages \ {"reported"}
<1>1. "api" \in Writers /\ "worker" \in Writers /\ "worker" \in Runs
  BY ProcessesAssumption
<1> QED
  BY <1>1, RunsAssumption DEF SystemInv, RunsInv, StoreTypeOK, TypeOK

\* API and worker take turns: the API's call is over before there is a worker.
LEMMA TakeTurns ==
  ASSUME SystemInv
  PROVE  OneWriter /\ (run["worker"].at # "none" => call["api"] = NoCall)
<1>1. /\ call["api"].op = IF api = "creating" THEN "create" ELSE "none"
      /\ api # "created" => run["worker"].at = "none"
      /\ call["worker"].op = OpAwaited(run["worker"].at)
      /\ call["api"] \in Calls /\ call["worker"] \in Calls
  BY Processes DEF SystemInv, ApiInv, CallInv
<1>2. CASE api = "creating"
  <2>1. call["worker"].op = "none" /\ run["worker"].at = "none"
    BY <1>1, <1>2 DEF OpAwaited
  <2> QED
    BY <1>1, <2>1, CallShape DEF OneWriter
<1>3. CASE api # "creating"
  BY <1>1, <1>3, CallShape DEF OneWriter
<1> QED
  BY <1>2, <1>3

LEMMA WhoCallsIsAlone ==
  ASSUME SystemInv, NEW w \in Writers, call[w] # NoCall \/ (w = "worker" /\ run["worker"].at # "none")
  PROVE  Alone(w)
BY TakeTurns, ProcessesAssumption DEF SystemInv, OneWriter, Alone

-----------------------------------------------------------------------------
(* SystemInv holds initially and is kept by every step.                    *)

LEMMA InitInv == Init => SystemInv
<1> SUFFICES ASSUME Init PROVE SystemInv
  OBVIOUS
<1>1. /\ "api" \in Writers /\ "worker" \in Writers /\ Runs = {"worker"} /\ MaxFailures \in Nat
      /\ NoCall \in Calls /\ NoCall.op = "none" /\ << >> \in Seq(Writers)
  BY ProcessesAssumption, RunsAssumption DEF Calls, NoCall
<1>2. StoreTypeOK
  BY <1>1 DEF Init, StoreInit, StoreTypeOK, IsFile, NewRun, RunStages
<1>3. RunsInv
  BY <1>1, <1>2 DEF Init, StoreInit, RunsInv, CallInv, OpAwaited, NewRun
<1>4. TypeOK
  BY <1>1, <1>2 DEF Init, TypeOK, NewRun, Answers, Unread
<1>5. ApiInv /\ PageInv
  BY <1>1 DEF Init, StoreInit, ApiInv, NewRun, PageInv, Unread, EndsSession, ReadOk
<1>6. ListedInv /\ LastWordInv
  BY <1>1 DEF Init, StoreInit, ListedInv, LastWordInv, MayBeListed, NewRun, Lists, ReadOk, Unread,
              Absent, AcknowledgedKept, EndsSession
<1>7. OpenedInv
  BY DEF Init, StoreInit, OpenedInv, At, NoCall
<1> QED
  BY <1>3, <1>4, <1>5, <1>6, <1>7 DEF SystemInv

\* A system call of the repository.
LEMMA RepositoryInv ==
  ASSUME SystemInv, NEW w \in Writers, RepositoryStep(w)
  PROVE  SystemInv'
<1> DEFINE b == call[w]
           c == call'[w]
           r == run["worker"]
<1>1. StoreStep(w) /\ UNCHANGED <<run, api, page>>
  BY DEF RepositoryStep, sysVars
<1>2. RunsInv' /\ StoreTypeOK'
  BY <1>1, StoreStepInv DEF SystemInv, RunsInv
<1>3. TypeOK'
  BY <1>1, <1>2 DEF SystemInv, TypeOK
<1>4. /\ c \in Calls /\ c.op = b.op /\ w \in {"api", "worker"}
      /\ \A v \in Writers : v # w => call'[v] = call[v]
      /\ b # NoCall /\ ~Settled(b) /\ b.op \in {"create", "update", "record"}
  BY <1>1, Processes, StoreStepCases, StoreStepEffect, CallShape, ProcessesAssumption
<1>5. ApiInv'
  BY <1>1, <1>4, Processes DEF SystemInv, ApiInv
<1>6. /\ w = "worker" => b.op = OpAwaited(r.at)
      /\ w = "api" => b.op = "create" /\ r.at = "none" /\ r.found = 0 /\ r.saved = 0
  BY <1>4, Processes DEF SystemInv, ApiInv, CallInv
<1>7. /\ b.op = "create" => r.at \in {"none", "creating"} /\ r.found = 0 /\ r.saved = 0
      /\ b.op = "update" => w = "worker" /\ r.at \in {"starting", "finishing"}
      /\ b.op = "record" => w = "worker" /\ r.at = "recording"
  BY <1>4, <1>6, Processes DEF OpAwaited, CallInv
<1>8. /\ IsFile(sessionFile, Records) /\ IsFile(failuresFile, Seq(Writers))
      /\ r.found \in Nat /\ r.saved \in Nat /\ r.saved <= r.found
      /\ r.at \in RunStages \ {"reported"} /\ "worker" \in Writers
      /\ CallInv("worker")
  BY Processes
<1>9. /\ TypeOK /\ ListedInv /\ LastWordInv /\ PageInv
      /\ page' = page /\ run' = run /\ MayBeListed' = MayBeListed
  BY <1>1 DEF SystemInv, MayBeListed
<1>10. ~EndsSession(sessionFile)
  BY <1>4, <1>7, <1>9 DEF LastWordInv
<1>11. PageInv'
  BY <1>9, <1>10 DEF PageInv, EndsSession, ReadOk
<1>12. r.at = "recording" =>
         w = "worker" /\ b.op = "record" /\ b = call["worker"] /\ c = call'["worker"]
  BY <1>4, <1>6 DEF OpAwaited
<1>a. Alone(w)
  BY <1>4, WhoCallsIsAlone
<1>b. OpenedInv'
  BY <1>1, <1>a, Processes, StoreStepOpened
<1> SUFFICES ListedInv' /\ LastWordInv'
  BY <1>2, <1>3, <1>5, <1>11, <1>b DEF SystemInv
<1> HIDE DEF b, c
<1>13. CASE SessionWasRead(b, c) \/ SessionWasOpened(b, c)
  <2>1. failuresFile' = failuresFile /\ ~EndsSession(sessionFile)' /\ r.at # "recording"
    BY <1>10, <1>12, <1>13 DEF SessionWasRead, SessionWasOpened, files, EndsSession, ReadOk, Empty
  <2> QED
    BY <1>9, <2>1 DEF ListedInv, LastWordInv, Lists, AcknowledgedKept
<1>14. CASE SessionWasWritten(b, c, w)
  <2>1. /\ failuresFile' = failuresFile /\ sessionFile' = Json(b.session) /\ b.session \in Records
        /\ r.at # "recording"
    BY <1>12, <1>14, <1>a DEF SessionWasWritten
  <2>2. ListedInv'
    BY <1>9, <2>1 DEF ListedInv, Lists, AcknowledgedKept
  <2>3. LastWordInv'
    <3> SUFFICES ASSUME b.session.status \in Terminal PROVE LastWordInv'
      BY <2>1 DEF LastWordInv, EndsSession, Json
    <3>1. b.op = "update" /\ c.at = "ok"
      BY <1>14 DEF SessionWasWritten, Terminal
    <3>2. /\ w = "worker" /\ r.at = "finishing" /\ b = call["worker"] /\ c = call'["worker"]
          /\ b.session.status = "completed" => b.session.count = r.found
      BY <1>7, <1>8, <3>1 DEF CallInv, Terminal, b, c
    <3>3. MayBeListed = r.found
      BY <1>8, <3>2 DEF MayBeListed
    <3> QED
      BY <1>9, <2>1, <3>1, <3>2, <3>3 DEF ListedInv, LastWordInv, Lists, Settled, Json
  <2> QED
    BY <2>2, <2>3
<1>15. CASE FailuresWereRead(b, c, w)
  <2>1. /\ r.at = "recording" /\ b.at = "read-failures" /\ c.at = "open-failures" /\ UNCHANGED files
        /\ failuresFile \notin {Empty, Torn} /\ c.failures = Append(Listed, w)
        /\ b = call["worker"] /\ c = call'["worker"]
    BY <1>7, <1>12, <1>15 DEF FailuresWereRead
  <2>2. Listed \in Seq(Writers) /\ Len(Listed) \in r.saved..r.found
    <3>1. CASE failuresFile = Absent
      BY <1>8, <1>9, <3>1 DEF Listed, ListedInv
    <3>2. CASE failuresFile # Absent
      BY <1>8, <1>9, <2>1, <3>2, FileShape DEF Listed, ListedInv, AcknowledgedKept, ReadOk, At
    <3> QED
      BY <3>1, <3>2
  <2>3. Len(c.failures) \in (r.saved + 1)..MayBeListed
    BY <1>8, <2>1, <2>2 DEF MayBeListed
  <2> QED
    BY <1>9, <1>10, <2>1, <2>3 DEF ListedInv, LastWordInv, Lists, AcknowledgedKept, EndsSession, files, At
<1>16. CASE FailuresWereOpened(b, c)
  <2>1. /\ failuresFile' = Empty /\ UNCHANGED sessionFile /\ c.at = "write-failures"
        /\ c.failures = b.failures /\ b.at = "open-failures"
    BY <1>16 DEF FailuresWereOpened
  <2> QED
    BY <1>9, <1>10, <1>12, <2>1
    DEF ListedInv, LastWordInv, Lists, AcknowledgedKept, EndsSession, At, ReadOk, Empty, Absent
<1>17. CASE FailuresWereWritten(b, c, w)
  <2>1. /\ failuresFile' = Json(b.failures) /\ UNCHANGED sessionFile /\ c.at = "ok"
        /\ c.failures = b.failures /\ b.at = "write-failures"
        /\ b.failures \in Seq(Writers) /\ (b.op = "create" => b.failures = << >>)
        /\ b.op \in {"create", "record"}
    BY <1>17, <1>a DEF FailuresWereWritten
  <2>2. Len(b.failures) \in r.saved..MayBeListed
    <3>1. CASE b.op = "create"
      BY <1>7, <1>8, <2>1, <3>1 DEF MayBeListed
    <3>2. CASE b.op = "record"
      BY <1>7, <1>8, <1>9, <1>12, <2>1, <3>2 DEF ListedInv, MayBeListed
    <3> QED
      BY <2>1, <3>1, <3>2
  <2>3. ReadOk(failuresFile)' /\ failuresFile' # Absent /\ failuresFile'.value = b.failures
    BY <2>1 DEF ReadOk, Json, Absent
  <2>4. LastWordInv'
    BY <1>10, <2>1 DEF LastWordInv, EndsSession
  <2>5. ListedInv'
    BY <1>8, <1>9, <1>12, <2>1, <2>2, <2>3 DEF ListedInv, Lists, AcknowledgedKept, At
  <2> QED
    BY <2>4, <2>5
<1>18. CASE CallFailed(c)
  <2>1. c.at = "err" /\ sessionFile' \in {sessionFile, Torn} /\ failuresFile' \in {failuresFile, Torn}
    BY <1>18 DEF CallFailed
  <2>2. ~EndsSession(sessionFile)' /\ Lists' \subseteq Lists /\ (failuresFile' = Absent => failuresFile = Absent)
        /\ (ReadOk(failuresFile)' => failuresFile' = failuresFile)
    BY <1>9, <1>10, <2>1 DEF EndsSession, Lists, ReadOk, Torn, Absent
  <2> QED
    BY <1>4, <1>9, <1>10, <1>12, <2>1, <2>2
    DEF ListedInv, LastWordInv, AcknowledgedKept, At, Settled, b
<1> QED
  BY <1>1, <1>13, <1>14, <1>15, <1>16, <1>17, <1>18, Processes, StoreStepCases DEF b, c

\* The API's steps: files and page stay, and the worker is not there before SpawnWorker.
LEMMA ApiStepInv ==
  ASSUME SystemInv, ApiStep
  PROVE  SystemInv'
<1> DEFINE r == run["worker"]
<1>1. UNCHANGED <<sessionFile, failuresFile, page>> /\ r.at = "none"
  BY DEF SystemInv, ApiInv, ApiStep, PostSession, SpawnWorker, SpawnFails, LogFileFails, RejectPost, Create
<1>2. /\ "api" \in Writers /\ "worker" \in Writers /\ Runs = {"worker"}
      /\ call \in [Writers -> Calls] /\ CallInv("worker") /\ StoreTypeOK
      /\ run \in [Runs -> [at : RunStages, found : 0..MaxFailures, saved : 0..MaxFailures]]
      /\ r.found = 0 /\ r.saved = 0 /\ call["worker"].op = "none"
  BY <1>1, Processes, ProcessesAssumption DEF CallInv, OpAwaited
<1>3. PICK c \in Calls :
        /\ call' = [call EXCEPT !["api"] = c]
        /\ c.op = IF api' = "creating" THEN "create" ELSE "none"
  <2>1. CASE PostSession
    <3> DEFINE c == [op |-> "create", at |-> "open-session", session |-> NewRecord("requested"),
                     failures |-> << >>]
    <3>1. call' = [call EXCEPT !["api"] = c] /\ api' = "creating"
      BY <2>1 DEF PostSession, Create
    <3>2. c \in Calls
      BY DEF Calls
    <3> QED
      BY <3>1, <3>2
  <2>2. CASE SpawnWorker \/ SpawnFails \/ LogFileFails \/ RejectPost
    <3>1. call' = [call EXCEPT !["api"] = NoCall] /\ api' # "creating"
      BY <2>2 DEF SpawnWorker, SpawnFails, LogFileFails, RejectPost, Release
    <3>2. NoCall \in Calls /\ NoCall.op = "none"
      BY DEF Calls, NoCall
    <3> QED
      BY <3>1, <3>2
  <2> QED
    BY <2>1, <2>2 DEF ApiStep
<1>4. /\ run' \in [Runs -> [at : RunStages, found : 0..MaxFailures, saved : 0..MaxFailures]]
      /\ run'["worker"].at \in {"none", "boot"} /\ run'["worker"].found = 0 /\ run'["worker"].saved = 0
      /\ run'["worker"].at # "none" => api' = "created"
  <2>1. CASE SpawnWorker
    <3>1. run' = [run EXCEPT !["worker"] = [run["worker"] EXCEPT !.at = "boot"]] /\ api' = "created"
      BY <1>2, <2>1 DEF SpawnWorker, Moves
    <3>2. [run["worker"] EXCEPT !.at = "boot"] = [at |-> "boot", found |-> 0, saved |-> 0]
      BY <1>2
    <3> QED
      BY <1>2, <3>1, <3>2, RunsAssumption DEF RunStages
  <2>2. CASE PostSession \/ SpawnFails \/ LogFileFails \/ RejectPost
    BY <1>1, <1>2, <2>2 DEF PostSession, SpawnFails, LogFileFails, RejectPost
  <2> QED
    BY <2>1, <2>2 DEF ApiStep
<1>5. RunsInv'
  <2>1. StoreTypeOK'
    BY <1>1, <1>2, <1>3, <1>4 DEF StoreTypeOK
  <2>2. CallInv("worker")'
    BY <1>2, <1>3, <1>4 DEF CallInv, OpAwaited
  <2> QED
    BY <1>2, <2>1, <2>2 DEF RunsInv
<1>6. TypeOK'
  <2>1. api' \in {"idle", "creating", "created", "rejected", "down"}
    BY DEF ApiStep, PostSession, SpawnWorker, SpawnFails, LogFileFails, RejectPost
  <2> QED
    BY <1>1, <1>4, <1>5, <2>1 DEF SystemInv, TypeOK, RunsInv
<1>7. ApiInv'
  BY <1>2, <1>3, <1>4 DEF ApiInv
<1>8. MayBeListed = 0 /\ MayBeListed' = 0
  BY <1>1, <1>2, <1>4 DEF MayBeListed
<1>9. ListedInv' /\ LastWordInv' /\ PageInv'
  BY <1>1, <1>2, <1>4, <1>8
  DEF SystemInv, ListedInv, LastWordInv, PageInv, Lists, AcknowledgedKept, EndsSession
<1>10. OpenedInv'
  <2>1. call'["api"].at \in {"open-session", "idle"} /\ call'["worker"] = call["worker"]
    BY <1>2 DEF ApiStep, PostSession, SpawnWorker, SpawnFails, LogFileFails, RejectPost, Create, Release, NoCall
  <2> QED
    BY <1>1, <2>1, OpenedSame, ProcessesAssumption DEF SystemInv, files
<1> QED
  BY <1>5, <1>6, <1>7, <1>9, <1>10 DEF SystemInv

\* The worker's steps leave files and page alone and move its run and its call.
LEMMA WorkerStepInv ==
  ASSUME SystemInv, WorkerStep
  PROVE  SystemInv'
<1> DEFINE r == run["worker"]
<1>1. UNCHANGED <<sessionFile, failuresFile, api, page>>
  BY DEF WorkerStep, WorkerCreates, WorkerStarts, WorkerRuns, RunStep, MarkRunning, Marked, FindFailure,
         CountFailure, Finish, End, UpdateStatus, RecordFailure, Create
<1>2. /\ "worker" \in Writers /\ "worker" \in Runs /\ "api" \in Writers /\ Runs = {"worker"}
      /\ call \in [Writers -> Calls] /\ CallInv("worker") /\ RunsInv
      /\ run \in [Runs -> [at : RunStages, found : 0..MaxFailures, saved : 0..MaxFailures]]
      /\ r \in [at : RunStages, found : 0..MaxFailures, saved : 0..MaxFailures]
      /\ r.found \in Nat /\ r.saved \in Nat /\ r.saved <= r.found /\ MayBeListed \in Nat
      /\ IsFile(sessionFile, Records) /\ IsFile(failuresFile, Seq(Writers))
      /\ TypeOK /\ ApiInv /\ ListedInv /\ LastWordInv /\ PageInv
  BY Processes, ProcessesAssumption DEF SystemInv, MayBeListed
<1> DEFINE moved(stage) == [at |-> stage, found |-> r.found, saved |-> r.saved]
           s == run'["worker"]
           b == call["worker"]
           c == call'["worker"]
           Elsewhere == /\ s.found = r.found /\ s.saved = r.saved
                        /\ \/ r.at = "boot" /\ s.at = "creating"
                           \/ r.at = "creating" /\ s.at = "created"
<1>a. \A from, to : Moves("worker", from, to) => r.at = from /\ run' = [run EXCEPT !["worker"] = moved(to)]
  <2>1. \A to : [run["worker"] EXCEPT !.at = to] = moved(to)
    BY <1>2
  <2> QED
    BY <1>2, <2>1 DEF Moves
\* run-once before the run.
<1>3. ASSUME ~WorkerRuns
      PROVE  RunsInv' /\ Elsewhere /\ call'["api"] = call["api"]
  <2>1. CASE WorkerCreates
    <3> DEFINE d == [op |-> "create", at |-> "open-session", session |-> NewRecord("default"),
                     failures |-> << >>]
    <3>1. /\ r.at = "boot" /\ run' = [run EXCEPT !["worker"] = moved("creating")]
          /\ call' = [call EXCEPT !["worker"] = d]
      BY <1>a, <2>1 DEF WorkerCreates, Create
    <3>2. d \in Calls /\ moved("creating") \in [at : RunStages, found : 0..MaxFailures, saved : 0..MaxFailures]
      BY <1>2 DEF Calls, RunStages
    <3>3. r.found = 0
      BY <1>2, <3>1 DEF CallInv
    <3>4. RunsInv'
      BY <1>1, <1>2, <3>1, <3>2, <3>3, OneRunInv DEF OpAwaited
    <3> QED
      BY <1>2, <3>1, <3>4
  <2>2. CASE WorkerStarts
    <3>1. /\ r.at = "creating" /\ run' = [run EXCEPT !["worker"] = moved("created")]
          /\ call' = [call EXCEPT !["worker"] = NoCall]
      BY <1>a, <2>2 DEF WorkerStarts, Release
    <3>2. /\ NoCall \in Calls /\ NoCall.op = "none"
          /\ moved("created") \in [at : RunStages, found : 0..MaxFailures, saved : 0..MaxFailures]
      BY <1>2 DEF Calls, NoCall, RunStages, ProtocolStages
    <3>3. r.found = 0
      BY <1>2, <3>1 DEF CallInv
    <3>4. RunsInv'
      BY <1>1, <1>2, <3>1, <3>2, <3>3, OneRunInv DEF OpAwaited
    <3> QED
      BY <1>2, <3>1, <3>4
  <2> QED
    BY <1>3, <2>1, <2>2 DEF WorkerStep
<1>4. ASSUME WorkerRuns
      PROVE  /\ RunsInv' /\ call'["api"] = call["api"]
             /\ Advanced(r, s, b, c) \/ FailureWasFound(r, s, c) \/ FailureWasCounted(r, s, b)
  <2>1. RunStep("worker")
    BY <1>4 DEF WorkerRuns
  <2> QED
    BY <1>2, <2>1, RunStepInv, RunStepCases
<1>5. /\ RunsInv' /\ call'["api"] = call["api"]
      /\ \/ Elsewhere \/ Advanced(r, s, b, c)
         \/ FailureWasFound(r, s, c) \/ FailureWasCounted(r, s, b)
  BY <1>3, <1>4
<1> HIDE DEF r, s, b, c
<1>6. s.at # "reported" /\ s.at # "none" /\ r.at # "none" /\ s.found \in Nat /\ s.saved \in Nat
  BY <1>2, <1>5 DEF Advanced, FailureWasFound, FailureWasCounted
<1>7. TypeOK'
  BY <1>1, <1>2, <1>5, <1>6 DEF TypeOK, RunsInv, s
<1>8. ApiInv' /\ PageInv'
  BY <1>1, <1>2, <1>5, <1>6 DEF ApiInv, PageInv, EndsSession, r
<1>9. LastWordInv'
  <2> SUFFICES ASSUME EndsSession(sessionFile) PROVE LastWordInv'
    BY <1>1 DEF LastWordInv, EndsSession
  <2>1. r.at \in {"finishing", "ended", "dead"}
    BY <1>2 DEF LastWordInv, r
  <2>2. s.at \in {"ended", "dead"}
    BY <1>5, <2>1 DEF Advanced, FailureWasFound, FailureWasCounted
  <2> QED
    BY <1>1, <1>2, <2>2 DEF LastWordInv, EndsSession, Lists, s
<1>10. ListedInv'
  <2>1. MayBeListed' \in Nat /\ MayBeListed' >= MayBeListed
    BY <1>2, <1>5, <1>6 DEF MayBeListed, Advanced, FailureWasFound, FailureWasCounted, r, s
  <2>2. Lists' = Lists /\ \A file \in Lists : Len(file.value) \in Nat
    BY <1>1, <1>2 DEF Lists, TypeOK, PageInv, ReadOk, IsFile, Absent, Empty, Torn, Unread
  <2>3. Len(page.shown.failures) \in Nat
    BY <1>2 DEF TypeOK
  <2>4. /\ \A file \in Lists' : Len(file.value) <= MayBeListed'
        /\ Len(page'.shown.failures) <= MayBeListed'
    BY <1>1, <1>2, <2>1, <2>2, <2>3 DEF ListedInv
  <2>5. s.saved = r.saved \/ (FailureWasCounted(r, s, b) /\ b.at = "ok")
    <3>1. CASE FailureWasCounted(r, s, b)
      <4>1. s.saved = IF b.at = "ok" THEN r.saved + 1 ELSE r.saved
        BY <3>1 DEF FailureWasCounted
      <4> QED
        BY <3>1, <4>1
    <3>2. CASE ~FailureWasCounted(r, s, b)
      BY <1>5, <3>2 DEF Advanced, FailureWasFound
    <3> QED
      BY <3>1, <3>2
  <2>6. (failuresFile = Absent => s.saved = 0) /\ (ReadOk(failuresFile) => Len(failuresFile.value) >= s.saved)
    <3>1. CASE s.saved = r.saved
      BY <1>2, <3>1 DEF ListedInv, AcknowledgedKept, r
    <3>2. CASE FailureWasCounted(r, s, b) /\ b.at = "ok"
      <4>1. failuresFile = Json(b.failures) /\ Len(b.failures) \in (r.saved + 1)..MayBeListed
        BY <1>2, <3>2 DEF ListedInv, FailureWasCounted, At, r, b
      <4> QED
        BY <1>2, <3>2, <4>1 DEF FailureWasCounted, Json, Absent
    <3> QED
      BY <2>5, <3>1, <3>2
  <2>7. s.at = "recording" => /\ FailureWasFound(r, s, c)
                              /\ ReadOk(failuresFile) => Len(failuresFile.value) <= s.found
    <3> SUFFICES ASSUME s.at = "recording"
                 PROVE  /\ FailureWasFound(r, s, c)
                        /\ ReadOk(failuresFile) => Len(failuresFile.value) <= s.found
      OBVIOUS
    <3>1. FailureWasFound(r, s, c)
      BY <1>5 DEF Advanced, FailureWasCounted
    <3>2. MayBeListed = s.found
      BY <1>2, <3>1 DEF MayBeListed, FailureWasFound, r
    <3> QED
      BY <1>2, <3>1, <3>2 DEF ListedInv, Lists
  <2> QED
    BY <1>1, <2>4, <2>6, <2>7 DEF ListedInv, AcknowledgedKept, FailureWasFound, At, s, c
<1>11. OpenedInv'
  <2>1. call'["worker"].at \notin {"write-session", "write-failures"}
    BY <1>2 DEF WorkerStep, WorkerCreates, WorkerStarts, WorkerRuns, RunStep, MarkRunning, Marked, FindFailure,
                CountFailure, Finish, End, UpdateStatus, RecordFailure, Create, Release, NoCall
  <2> QED
    BY <1>1, <1>5, <2>1, OpenedSame, ProcessesAssumption DEF SystemInv, files
<1> QED
  BY <1>5, <1>7, <1>8, <1>9, <1>10, <1>11 DEF SystemInv

\* The end of the worker process may tear the file it was writing, never a terminal
\* record: that one it has written.
LEMMA CrashInv ==
  ASSUME SystemInv, WorkerCrashes
  PROVE  SystemInv'
<1> DEFINE r == run["worker"]
           s == run'["worker"]
<1>1. /\ UNCHANGED <<api, page>> /\ Dies("worker") /\ r.at \notin {"none", "ended", "dead"}
      /\ BrokenOff("worker")
  BY DEF WorkerCrashes, Dies
<1>2. /\ "worker" \in Writers /\ "worker" \in Runs /\ "api" \in Writers /\ Runs = {"worker"}
      /\ call \in [Writers -> Calls] /\ RunsInv /\ StoreTypeOK
      /\ run \in [Runs -> [at : RunStages, found : 0..MaxFailures, saved : 0..MaxFailures]]
      /\ r.found \in Nat /\ MayBeListed \in Nat
      /\ IsFile(sessionFile, Records) /\ IsFile(failuresFile, Seq(Writers))
      /\ TypeOK /\ ApiInv /\ ListedInv /\ LastWordInv /\ PageInv
  BY Processes, ProcessesAssumption DEF SystemInv, MayBeListed
<1>3. RunsInv' /\ OpenedInv'
  BY <1>1, <1>2, DiesInv, DiesOpened, WhoCallsIsAlone
<1>4. s.at = "dead" /\ s.found = r.found /\ s.saved = r.saved /\ call'["api"] = call["api"]
  BY <1>1, <1>2 DEF Dies, Release
<1>5. /\ sessionFile' \in {sessionFile, Torn} /\ failuresFile' \in {failuresFile, Torn}
      /\ EndsSession(sessionFile) => sessionFile' = sessionFile
  <2>1. EndsSession(sessionFile) => ~At("worker", "write-session")
    <3>1. call["worker"].op = OpAwaited(r.at)
      BY <1>2 DEF RunsInv, CallInv
    <3>2. EndsSession(sessionFile) => r.at = "finishing" /\ Settled(call["worker"])
      BY <1>1, <1>2 DEF LastWordInv
    <3> QED
      BY <3>2 DEF At, Settled
  <2> QED
    BY <1>1, <2>1 DEF BrokenOff
<1>6. /\ EndsSession(sessionFile)' => EndsSession(sessionFile) /\ sessionFile' = sessionFile
      /\ Lists' \subseteq Lists /\ (failuresFile' = Absent => failuresFile = Absent)
      /\ ReadOk(failuresFile)' => failuresFile' = failuresFile
  BY <1>1, <1>5 DEF EndsSession, Lists, ReadOk, Torn, Absent
<1> HIDE DEF r, s
<1>7. TypeOK'
  BY <1>1, <1>2, <1>3, <1>4 DEF TypeOK, RunsInv, s
<1>8. ApiInv'
  BY <1>1, <1>2, <1>4 DEF ApiInv, r
<1>9. PageInv'
  BY <1>1, <1>2, <1>5 DEF PageInv, EndsSession
<1>10. LastWordInv'
  BY <1>1, <1>2, <1>4, <1>6 DEF LastWordInv, s
<1>11. ListedInv'
  <2>1. MayBeListed' >= MayBeListed /\ MayBeListed' \in Nat
    BY <1>2, <1>4 DEF MayBeListed, r, s
  <2>2. Len(page.shown.failures) \in Nat /\ \A file \in Lists : Len(file.value) \in Nat
    BY <1>2 DEF Lists, TypeOK, PageInv, ReadOk, IsFile, Absent, Empty, Torn, Unread
  <2> QED
    BY <1>1, <1>2, <1>4, <1>6, <2>1, <2>2 DEF ListedInv, AcknowledgedKept, r, s
<1> QED
  BY <1>3, <1>7, <1>8, <1>9, <1>10, <1>11 DEF SystemInv

\* The page reads what is there: its lists are lists of the file, then or before.
LEMMA PageStepInv ==
  ASSUME SystemInv, PageStep
  PROVE  SystemInv'
<1>1. UNCHANGED <<storeVars, run, api>>
  BY DEF PageStep, Fetch, FetchSession, FetchFailures, Render
<1>2. RunsInv' /\ StoreTypeOK' /\ ApiInv' /\ MayBeListed' = MayBeListed
  BY <1>1 DEF SystemInv, RunsInv, StoreTypeOK, CallInv, ApiInv, MayBeListed, storeVars
<1>c. OpenedInv'
  BY <1>1, OpenedSame DEF SystemInv, storeVars, files
<1>3. /\ IsFile(sessionFile, Records) /\ IsFile(failuresFile, Seq(Writers))
      /\ TypeOK /\ ListedInv /\ LastWordInv /\ PageInv
      /\ run["worker"].found \in Nat /\ MayBeListed \in Nat
  BY Processes DEF SystemInv, MayBeListed
<1> DEFINE Pages == [at : {"closed", "fetching", "polling", "final", "not-found"},
                     session : Answers(Records), failures : Answers(Seq(Writers)),
                     shown : [status : {Null, "queued", "running"} \cup Terminal,
                              failures : Seq(Writers)]]
           Shows(list) == list = page.shown.failures \/ list = << >>
                          \/ \E file \in Lists : list = file.value
<1>4. SUFFICES page' \in Pages /\ PageInv' /\ Lists' \subseteq Lists /\ Shows(page'.shown.failures)
  <2> HIDE DEF Pages
  <2> SUFFICES ASSUME page' \in Pages, PageInv', Lists' \subseteq Lists, Shows(page'.shown.failures)
               PROVE  TypeOK' /\ ListedInv' /\ LastWordInv'
    BY <1>2, <1>c DEF SystemInv
  <2>1. TypeOK'
    BY <1>1, <1>2, <1>3 DEF TypeOK, Pages
  <2>2. ListedInv'
    BY <1>1, <1>2, <1>3 DEF ListedInv, AcknowledgedKept, storeVars, At
  <2>3. LastWordInv'
    <3>1. ASSUME EndsSession(sessionFile)', sessionFile'.value.status = "completed"
          PROVE  sessionFile'.value.count \in Nat
      BY <1>1, <1>3, <3>1, RunsAssumption DEF EndsSession, ReadOk, IsFile, Records, Absent, Empty, Torn, storeVars
    <3> QED
      BY <1>1, <1>3, <3>1 DEF LastWordInv, EndsSession, storeVars
  <2> QED
    BY <2>1, <2>2, <2>3
<1>5. page \in Pages /\ page.session \in Answers(Records) /\ page.failures \in Answers(Seq(Writers))
  BY <1>3 DEF TypeOK
<1>6. \A values : \A file : IsFile(file, values) => file \in Answers(values)
  BY DEF IsFile, Answers, Absent, Empty, Torn, Json
<1>7. CASE Fetch
  <2>1. /\ page' = [page EXCEPT !.at = "fetching", !.session = Unread, !.failures = Unread]
        /\ page.at # "final"
    BY <1>7 DEF Fetch
  <2>2. page' \in Pages
    BY <1>5, <2>1 DEF Answers, Unread
  <2>3. PageInv'
    BY <1>5, <2>1 DEF PageInv, EndsSession, ReadOk, Unread
  <2>4. Lists' \subseteq Lists
    BY <1>1, <1>5, <2>1 DEF Lists, ReadOk, Unread, storeVars
  <2> QED
    BY <1>5, <2>1, <2>2, <2>3, <2>4
<1>8. CASE FetchSession
  <2>1. page' = [page EXCEPT !.session = sessionFile] /\ page.at = "fetching"
    BY <1>8 DEF FetchSession
  <2>2. page' \in Pages
    BY <1>3, <1>5, <1>6, <2>1
  <2>3. PageInv'
    BY <1>1, <1>3, <1>5, <2>1 DEF PageInv, EndsSession, storeVars
  <2>4. Lists' \subseteq Lists
    BY <1>1, <1>5, <2>1 DEF Lists, storeVars
  <2> QED
    BY <1>5, <2>1, <2>2, <2>3, <2>4
<1>9. CASE FetchFailures
  <2>1. page' = [page EXCEPT !.failures = failuresFile] /\ page.at = "fetching"
    BY <1>9 DEF FetchFailures
  <2>2. page' \in Pages
    BY <1>3, <1>5, <1>6, <2>1
  <2>3. PageInv'
    BY <1>1, <1>3, <1>5, <2>1 DEF PageInv, EndsSession, storeVars
  <2>4. Lists' \subseteq Lists
    BY <1>1, <1>5, <2>1 DEF Lists, storeVars
  <2> QED
    BY <1>5, <2>1, <2>2, <2>3, <2>4
<1>10. CASE Render
  <2>1. page.at = "fetching" /\ page.session # Unread /\ page.failures # Unread
    BY <1>10 DEF Render
  <2>2. CASE ~ReadOk(page.session)
    <3>1. page' = [page EXCEPT !.at = "not-found"]
      BY <1>10, <2>2 DEF Render
    <3> QED
      BY <1>1, <1>3, <1>5, <3>1 DEF PageInv, EndsSession, Lists, storeVars
  <2>3. CASE ReadOk(page.session)
    <3> DEFINE status == page.session.value.status
               list == ListOrEmpty(page.failures)
               stage == IF status \in {"queued", "running"} THEN "polling" ELSE "final"
    <3>1. page' = [page EXCEPT !.at = stage, !.shown = [status |-> status, failures |-> list]]
      BY <1>10, <2>3 DEF Render
    <3>2. status \in {"queued", "running"} \cup Terminal
      BY <1>3, <2>1, <2>3 DEF PageInv, IsFile, ReadOk, Absent, Empty, Torn, Records
    <3>3. list \in Seq(Writers) /\ Shows(list)
      <4>1. CASE ReadOk(page.failures)
        BY <1>3, <2>1, <4>1, FileShape DEF ListOrEmpty, Lists, PageInv, ReadOk, IsFile, Absent, Empty, Torn
      <4>2. CASE ~ReadOk(page.failures)
        BY <4>2 DEF ListOrEmpty
      <4> QED
        BY <4>1, <4>2
    <3> HIDE DEF status, list, Shows
    <3>4. page' \in Pages /\ page'.shown.failures = list /\ page'.shown.status = status
          /\ page'.session = page.session /\ page'.failures = page.failures /\ page'.at = stage
      BY <1>5, <3>1, <3>2, <3>3
    <3>5. Lists' \subseteq Lists
      BY <1>1, <3>4 DEF Lists, storeVars
    <3>6. PageInv'
      BY <1>1, <1>3, <2>3, <3>2, <3>4 DEF PageInv, EndsSession, storeVars, status
    <3> QED
      BY <3>3, <3>4, <3>5, <3>6
  <2> QED
    BY <2>2, <2>3
<1> QED
  BY <1>7, <1>8, <1>9, <1>10 DEF PageStep

-----------------------------------------------------------------------------
(* What holds of every behaviour, for all values of the constants.         *)

LEMMA NextInv ==
  ASSUME SystemInv, [Next]_vars
  PROVE  SystemInv'
<1>1. CASE UNCHANGED vars
  BY <1>1 DEF vars, sysVars, storeVars, SystemInv, TypeOK, StoreTypeOK, RunsInv, CallInv, ApiInv, ListedInv,
              LastWordInv, PageInv, MayBeListed, Lists, AcknowledgedKept, EndsSession, At, OpenedInv
<1> QED
  BY <1>1, RepositoryInv, ApiStepInv, WorkerStepInv, CrashInv, PageStepInv DEF Next

\* The inductive invariant of POST, run-once and the page over the two shared files
\* (sessions.service.ts, run-once.ts, filesystem-session-repository.ts, page.tsx).
THEOREM SystemInvariant == Spec => []SystemInv
<1>1. Init => SystemInv
  BY InitInv
<1>2. SystemInv /\ [Next]_vars => SystemInv'
  BY NextInv
<1> QED
  BY <1>1, <1>2, PTL DEF Spec

\* Files, calls, run and page are always of their types: nothing but whole records and
\* lists is ever parsed, and the page shows no status the domain does not have.
THEOREM SystemTypes == Spec => []TypeOK
<1>1. SystemInv => TypeOK
  BY DEF SystemInv
<1> QED
  BY <1>1, SystemInvariant, PTL

\* The repository takes no lock, and needs none: the API awaits create() before it
\* spawns the worker (sessions.service.ts:49) and never writes again.
THEOREM OneWriterAtATime == Spec => []OneWriter
<1>1. SystemInv => OneWriter
  BY TakeTurns
<1> QED
  BY <1>1, SystemInvariant, PTL

\* What recordFailure acknowledged is in failures.json as long as it parses: each write
\* appends to what was read, and a torn file is an error, not an empty list
\* (filesystem-session-repository.ts, readFailures).
THEOREM AcknowledgedStays == Spec => []AcknowledgedKept
<1>1. SystemInv => AcknowledgedKept
  BY DEF SystemInv, ListedInv
<1> QED
  BY <1>1, SystemInvariant, PTL

\* A page that stopped polling shows the status the record keeps for ever, and no more
\* failures than a completed record counts, although the two requests are answered at
\* different moments.
THEOREM LastWord == Spec => []FinalPageTruth
<1>1. SystemInv => FinalPageTruth
  <2> SUFFICES ASSUME SystemInv, page.at = "final" PROVE FinalPageTruth
    BY DEF FinalPageTruth
  <2>1. EndsSession(sessionFile) /\ page.shown.status = sessionFile.value.status
    BY DEF SystemInv, PageInv
  <2>2. sessionFile.value.status = "completed" => Len(page.shown.failures) <= sessionFile.value.count
    BY <2>1 DEF SystemInv, LastWordInv
  <2>3. Len(page.shown.failures) \in Nat /\ (ReadOk(sessionFile) => sessionFile.value.count \in Nat)
    <3>1. page.shown.failures \in Seq(Writers) /\ IsFile(sessionFile, Records)
      BY Processes DEF SystemInv, TypeOK
    <3>2. ReadOk(sessionFile) => sessionFile.value \in Records
      BY <3>1, FileShape DEF ReadOk
    <3> QED
      BY <3>1, <3>2, RunsAssumption DEF Records
  <2> QED
    BY <2>1, <2>2, <2>3 DEF FinalPageTruth, EndsSession
<1> QED
  BY <1>1, SystemInvariant, PTL

-----------------------------------------------------------------------------
(* What the record tells when nothing fails.                               *)

\* {...existing, ...patch} never changes the limits the record was created with.
LEMMA MergeKeepsSpec ==
  ASSUME NEW existing \in Records, NEW patch \in Patches
  PROVE  Merge(existing, patch).spec = existing.spec
<1>1. "spec" \in DOMAIN existing /\ "spec" \notin DOMAIN patch
  BY DEF Records, Patches
<1> QED
  BY <1>1 DEF Merge

\* The counters of `finally` never exceed the failures found.
LEMMA FinalCount ==
  ASSUME NEW found \in Nat, NEW patch \in FinalPatches(found)
  PROVE  patch.count \in Nat /\ patch.count <= found
BY DEF FinalPatches

\* A system call of the repository: what it read or wrote is what the next one finds.
LEMMA FaithfulRepository ==
  ASSUME SystemInv, FaithfulInv, NothingFails', NEW w \in Writers, RepositoryStep(w)
  PROVE  FaithfulInv'
<1> DEFINE r == run["worker"]
           b == call["worker"]
           c == call'["worker"]
           moved(stage) == [op |-> b.op, at |-> stage, session |-> b.session, failures |-> b.failures]
<1>1. StoreStep(w) /\ run' = run
  BY DEF RepositoryStep, sysVars
<1>2. CASE w # "worker"
  <2>1. call[w] # NoCall /\ w = "api" /\ call["api"] \in Calls
    BY <1>1, <1>2, Processes, StoreStepEffect, ProcessesAssumption
  <2>2. r.at = "none"
    BY <2>1, CallShape DEF SystemInv, ApiInv
  <2> QED
    BY <1>1, <2>2 DEF FaithfulInv, ProtocolStages
<1> SUFFICES ASSUME w = "worker" PROVE FaithfulInv'
  BY <1>2
<1>3. /\ "worker" \in Writers /\ call \in [Writers -> Calls] /\ b \in Calls /\ CallInv("worker")
      /\ IsFile(sessionFile, Records) /\ IsFile(failuresFile, Seq(Writers))
      /\ r.found \in Nat /\ StoreTypeOK
  BY Processes
<1>4. /\ b = [op |-> b.op, at |-> b.at, session |-> b.session, failures |-> b.failures]
      /\ b.at = "read-session" => b.op = "update" /\ b.session \in Patches
      /\ b.at = "read-failures" => b.op = "record"
      /\ b.at \in {"open-session", "write-session"} =>
           \/ b.op = "create" /\ b.failures = << >>
           \/ b.op = "update" /\ b.session \in Records
      /\ b.at \in {"open-failures", "write-failures"} =>
           \/ b.op = "create" /\ b.failures = << >>
           \/ b.op = "record" /\ b.failures \in Seq(Writers)
  BY <1>3, CallShape
<1>5. /\ b.op = "create" => r.at = "creating"
      /\ b.op = "update" => r.at \in {"starting", "finishing"}
      /\ b.op = "record" => r.at = "recording"
      /\ r.at = "finishing" => b.session.status \in Terminal
  BY <1>3 DEF CallInv, OpAwaited
<1>6. ASSUME NEW stage, Goto(w, stage) PROVE c = moved(stage)
  BY <1>3, <1>4, <1>6 DEF Goto
<1>7. c.at # "err"
  BY <1>3 DEF NothingFails, At
<1> HIDE DEF b, c, r
<1>8. CASE ReadSession(w)
  <2>1. b.at = "read-session" /\ UNCHANGED <<sessionFile, failuresFile>> /\ r.at \in {"starting", "finishing"}
    BY <1>4, <1>5, <1>8 DEF ReadSession, At, b
  <2>2. sessionFile.is = "json"
    <3>1. CASE Goto(w, "err")
      BY <1>6, <1>7, <3>1
    <3> QED
      BY <1>8, <3>1 DEF ReadSession
  <2> DEFINE merged == Merge(sessionFile.value, b.session)
  <2>3. c = [op |-> b.op, at |-> "open-session", session |-> merged, failures |-> b.failures]
    BY <1>3, <1>4, <1>8, <2>2 DEF ReadSession, b, c
  <2>4. /\ merged.spec = sessionFile.value.spec
        /\ r.at = "finishing" => merged.count = b.session.count
    BY <1>3, <1>4, <1>5, <2>1, <2>2, FileShape, MergeType, MergeKeepsSpec
  <2> HIDE DEF merged
  <2> QED
    BY <1>1, <2>1, <2>3, <2>4 DEF FaithfulInv, ProtocolStages, r, b, c
<1>9. CASE ReadFailures(w)
  <2>1. b.at = "read-failures" /\ UNCHANGED <<sessionFile, failuresFile>> /\ r.at = "recording"
    BY <1>4, <1>5, <1>9 DEF ReadFailures, At, b
  <2>2. ReadOk(failuresFile) /\ Len(failuresFile.value) = r.found /\ failuresFile.value \in Seq(Writers)
    BY <1>3, <2>1, FileShape DEF FaithfulInv, ProtocolStages, ReadOk, r, b
  <2>a. failuresFile \notin {Absent, Empty, Torn}
    BY <1>3, <2>2, FileShape DEF ReadOk
  <2> DEFINE list == Append(failuresFile.value, w)
  <2>3. c = [op |-> b.op, at |-> "open-failures", session |-> b.session, failures |-> list]
    BY <1>3, <1>4, <1>9, <2>a DEF ReadFailures, b, c
  <2>4. Len(list) = r.found + 1
    BY <2>2
  <2> HIDE DEF list
  <2> QED
    BY <1>1, <2>1, <2>3, <2>4 DEF FaithfulInv, ProtocolStages, r, b, c
<1>10. CASE OpenSession(w)
  <2>1. /\ b.at = "open-session" /\ r.at \in {"creating", "starting", "finishing"}
        /\ failuresFile' = failuresFile /\ c = moved("write-session")
    BY <1>4, <1>5, <1>6, <1>10 DEF OpenSession, At, b
  <2> QED
    BY <1>1, <2>1 DEF FaithfulInv, ProtocolStages, r, b, c
<1>a. /\ WriteSession(w) => sessionFile' = Json(b.session)
      /\ WriteFailures(w) => failuresFile' = Json(b.failures)
  <2>1. WriteSession(w) \/ WriteFailures(w) => call[w] # NoCall
    BY DEF WriteSession, WriteFailures, At, NoCall
  <2>2. call[w] # NoCall => Alone(w)
    BY WhoCallsIsAlone
  <2> QED
    BY <2>1, <2>2, WrittenAlone DEF WriteSession, WriteFailures, b
<1>11. CASE WriteSession(w)
  <2>1. /\ b.at = "write-session" /\ r.at \in {"creating", "starting", "finishing"}
        /\ failuresFile' = failuresFile /\ sessionFile' = Json(b.session)
        /\ c = moved(IF b.op = "create" THEN "open-failures" ELSE "ok")
    BY <1>4, <1>5, <1>6, <1>a, <1>11 DEF WriteSession, At, b
  <2>2. c.at = IF r.at = "creating" THEN "open-failures" ELSE "ok"
    BY <1>5, <1>4, <2>1
  <2> QED
    BY <1>1, <2>1, <2>2 DEF FaithfulInv, ProtocolStages, ReadOk, Json, r, b, c
<1>12. CASE OpenFailures(w)
  <2>1. /\ b.at = "open-failures" /\ r.at \in {"creating", "recording"}
        /\ sessionFile' = sessionFile /\ c = moved("write-failures")
    BY <1>4, <1>5, <1>6, <1>12 DEF OpenFailures, At, b
  <2> QED
    BY <1>1, <2>1 DEF FaithfulInv, ProtocolStages, r, b, c
<1>13. CASE WriteFailures(w)
  <2>1. /\ b.at = "write-failures" /\ r.at \in {"creating", "recording"}
        /\ r.at = "creating" => b.failures = << >>
        /\ sessionFile' = sessionFile /\ failuresFile' = Json(b.failures) /\ c = moved("ok")
    BY <1>4, <1>5, <1>6, <1>a, <1>13 DEF WriteFailures, At, b
  <2> QED
    BY <1>1, <2>1 DEF FaithfulInv, ProtocolStages, ReadOk, Json, r, b, c
<1>14. CASE DiskFails(w)
  BY <1>6, <1>7, <1>14 DEF DiskFails
<1> QED
  BY <1>1, <1>8, <1>9, <1>10, <1>11, <1>12, <1>13, <1>14 DEF StoreStep

\* The worker's own steps: what it takes from a call that was Ok is on disk.
LEMMA FaithfulWorker ==
  ASSUME SystemInv, FaithfulInv, NothingFails, NothingFails', WorkerStep \/ WorkerCrashes
  PROVE  FaithfulInv'
<1> DEFINE r == run["worker"]
           s == run'["worker"]
           b == call["worker"]
           c == call'["worker"]
           moved(stage) == [at |-> stage, found |-> r.found, saved |-> r.saved]
<1>1. /\ "worker" \in Writers /\ "worker" \in Runs /\ call \in [Writers -> Calls]
      /\ CallInv("worker")
      /\ run \in [Runs -> [at : RunStages, found : 0..MaxFailures, saved : 0..MaxFailures]]
      /\ r \in [at : RunStages, found : 0..MaxFailures, saved : 0..MaxFailures]
      /\ r.found \in Nat
  BY Processes
<1>2. Settled(b) => b.at = "ok"
  BY <1>1 DEF NothingFails, At, Settled
<1>3. ASSUME NEW from, NEW to, Moves("worker", from, to)
      PROVE  r.at = from /\ s.at = to /\ s.found = r.found
  BY <1>1, <1>3 DEF Moves
<1>4. ASSUME Release("worker") PROVE c.at = "idle"
  BY <1>1, <1>4 DEF Release, NoCall
<1>5. CASE WorkerCreates
  <2>1. s.at = "creating" /\ c.session.spec = "default" /\ c.at = "open-session"
    BY <1>1, <1>3, <1>5 DEF WorkerCreates, Create, NewRecord
  <2> QED
    BY <2>1 DEF FaithfulInv, ProtocolStages
<1>6. CASE WorkerStarts
  <2>1. /\ r.at = "creating" /\ s.at = "created" /\ s.found = 0 /\ b.at = "ok" /\ c.at = "idle"
        /\ UNCHANGED <<sessionFile, failuresFile>>
    BY <1>1, <1>2, <1>3, <1>4, <1>6 DEF WorkerStarts, CallInv
  <2>2. /\ sessionFile = Json(b.session) /\ b.session.spec = "default" /\ failuresFile = Json(<< >>)
    BY <2>1 DEF FaithfulInv
  <2> QED
    BY <2>1, <2>2 DEF FaithfulInv, ProtocolStages, ReadOk, Json
<1>7. CASE MarkRunning("worker")
  <2>1. /\ r.at = "created" /\ s.at = "starting" /\ s.found = r.found /\ c.at = "read-session"
        /\ b = NoCall /\ UNCHANGED <<sessionFile, failuresFile>>
    BY <1>1, <1>3, <1>7 DEF MarkRunning, UpdateStatus
  <2> QED
    BY <2>1 DEF FaithfulInv, ProtocolStages, NoCall
<1>8. CASE Marked("worker")
  <2>1. /\ r.at = "starting" /\ s.at = "running" /\ s.found = r.found /\ b.at = "ok" /\ c.at = "idle"
        /\ UNCHANGED <<sessionFile, failuresFile>>
    BY <1>1, <1>2, <1>3, <1>4, <1>8 DEF Marked
  <2> QED
    BY <2>1 DEF FaithfulInv, ProtocolStages
<1>9. CASE FindFailure("worker")
  <2>1. /\ r.at = "running" /\ s.at = "recording" /\ s.found = r.found /\ c.at = "read-failures"
        /\ b = NoCall /\ UNCHANGED <<sessionFile, failuresFile>>
    BY <1>1, <1>3, <1>9 DEF FindFailure, RecordFailure
  <2> QED
    BY <2>1 DEF FaithfulInv, ProtocolStages, NoCall
<1>10. CASE CountFailure("worker")
  <2>1. /\ r.at = "recording" /\ s.at = "running" /\ s.found = r.found + 1 /\ b.at = "ok" /\ c.at = "idle"
        /\ UNCHANGED <<sessionFile, failuresFile>>
    BY <1>1, <1>2, <1>4, <1>10 DEF CountFailure
  <2> QED
    BY <2>1 DEF FaithfulInv, ProtocolStages
<1>11. CASE Finish("worker")
  <2>1. PICK patch \in FinalPatches(r.found) : UpdateStatus("worker", patch)
    BY <1>11 DEF Finish
  <2>2. /\ r.at = "running" /\ s.at = "finishing" /\ s.found = r.found /\ c.at = "read-session"
        /\ c.session = patch /\ b = NoCall /\ UNCHANGED <<sessionFile, failuresFile>>
    BY <1>1, <1>3, <1>11, <2>1 DEF Finish, UpdateStatus
  <2>3. patch.count <= r.found
    BY <1>1, FinalCount
  <2> QED
    BY <2>2, <2>3 DEF FaithfulInv, ProtocolStages, NoCall
<1>12. CASE End("worker")
  <2>1. /\ r.at = "finishing" /\ s.at = "ended" /\ s.found = r.found /\ b.at = "ok" /\ c.at = "idle"
        /\ UNCHANGED <<sessionFile, failuresFile>>
    BY <1>1, <1>2, <1>3, <1>4, <1>12 DEF End
  <2>2. /\ b.session.status \in Terminal /\ b.session.count <= r.found /\ sessionFile = Json(b.session)
        /\ b.session.status = "completed" => b.session.count = r.found
    BY <1>1, <2>1 DEF CallInv, FaithfulInv
  <2> QED
    BY <2>1, <2>2 DEF FaithfulInv, ProtocolStages, Json
<1>13. CASE WorkerCrashes
  <2>1. s.at = "dead"
    BY <1>1, <1>13 DEF WorkerCrashes, Dies
  <2> QED
    BY <2>1 DEF NothingFails
<1> QED
  BY <1>5, <1>6, <1>7, <1>8, <1>9, <1>10, <1>11, <1>12, <1>13 DEF WorkerStep, WorkerRuns, RunStep

\* The API touches the worker only to spawn it, the page never.
LEMMA FaithfulNext ==
  ASSUME SystemInv, FaithfulInv, NothingFails, NothingFails', [Next]_vars
  PROVE  FaithfulInv'
<1>1. CASE ApiStep
  <2>1. /\ "worker" \in Runs /\ run["worker"].at = "none"
        /\ run \in [Runs -> [at : RunStages, found : 0..MaxFailures, saved : 0..MaxFailures]]
    BY <1>1, Processes
    DEF SystemInv, ApiInv, ApiStep, PostSession, SpawnWorker, SpawnFails, LogFileFails, RejectPost
  <2>2. run'["worker"].at \in {"none", "boot"}
    BY <1>1, <2>1
    DEF ApiStep, PostSession, SpawnWorker, SpawnFails, LogFileFails, RejectPost, Moves
  <2> QED
    BY <2>2 DEF FaithfulInv, ProtocolStages
<1>2. CASE PageStep \/ UNCHANGED vars
  <2>1. UNCHANGED <<storeVars, run>>
    BY <1>2 DEF PageStep, Fetch, FetchSession, FetchFailures, Render, vars, sysVars
  <2> QED
    BY <2>1 DEF FaithfulInv, storeVars
<1> QED
  BY <1>1, <1>2, FaithfulRepository, FaithfulWorker DEF Next

\* As long as no repository call fails and no process dies, a run that has ended left a
\* terminal record with the limits of run-once.ts:42 and all its failures listed, and a
\* completed record counts them all (session-runner.ts, run and its `finally` block).
THEOREM EndsWithTheStory ==
  Spec => ([]NothingFails => [](run["worker"].at = "ended" => StoryTold))
<1>1. Init => FaithfulInv
  BY Processes, InitInv, ProcessesAssumption DEF Init, NewRun, FaithfulInv, ProtocolStages
<1>2. SystemInv /\ FaithfulInv /\ NothingFails /\ NothingFails' /\ [Next]_vars => FaithfulInv'
  BY FaithfulNext
<1>3. SystemInv /\ FaithfulInv => (run["worker"].at = "ended" => StoryTold)
  <2> SUFFICES ASSUME SystemInv, FaithfulInv, run["worker"].at = "ended" PROVE StoryTold
    OBVIOUS
  <2>1. call["worker"].at = "idle"
    <3>1. call["worker"].op = "none" /\ call["worker"] \in Calls
      BY Processes DEF CallInv, OpAwaited
    <3> QED
      BY <3>1, CallShape DEF NoCall
  <2> QED
    BY <2>1, Processes DEF FaithfulInv, StoryTold, ProtocolStages
<1> QED
  BY <1>1, <1>2, <1>3, SystemInvariant, PTL DEF Spec
=============================================================================
