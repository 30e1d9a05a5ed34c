----------------------------- MODULE JobDelivery -----------------------------
(***************************************************************************)
(* A run-session job of the queue worker (apps/worker/src/index.ts) and    *)
(* the files of its session.  BullMQ, external, hands the job to a         *)
(* processor under a lock of 60 s that the processor's process keeps       *)
(* renewing.  When the process dies, or cannot renew the lock, the job is  *)
(* stalled: it is handed out once more, then given up.  run() starts from  *)
(* the beginning each time, over the same files.                           *)
(***************************************************************************)
EXTENDS SessionRuns, FiniteSets

CONSTANTS MaxStalled,      \* maxStalledCount: BullMQ's default is 1
          LockMayBeLost    \* whether a process that lives may fail to renew its lock

ASSUME DeliveriesAssumption ==
  /\ MaxStalled \in Nat /\ Runs = 1..MaxStalled + 1 /\ Writers = Runs /\ Null \notin Runs

VARIABLES
  job,         \* "waiting", "active", "completed", "failed"
  holder,      \* the delivery whose lock holds, or Null
  delivered,   \* deliveries so far
  (* History: *)
  overtaken,   \* a process that lived has lost its lock
  diskFailed   \* a file system call has failed

queueVars == <<job, holder, delivered>>
hisVars == <<overtaken, diskFailed>>
vars == <<runsVars, queueVars, hisVars>>

AtWork(d) == run[d].at \notin {"none", "dead", "reported"}

\* Whether the producer of the job has created the record is not in the repository.
Init ==
  /\ \/ sessionFile = Absent /\ failuresFile = Absent
     \/ sessionFile = Json(NewRecord("requested")) /\ failuresFile = Json(<< >>)
  /\ call = [d \in Runs |-> NoCall]
  /\ run = [d \in Runs |-> NewRun("none")]
  /\ job = "waiting" /\ holder = Null /\ delivered = 0
  /\ overtaken = FALSE /\ diskFailed = FALSE

-----------------------------------------------------------------------------
(* BullMQ.                                                                 *)

Deliver(d) ==
  /\ job = "waiting" /\ d = delivered + 1
  /\ job' = "active" /\ holder' = d /\ delivered' = d
  /\ Moves(d, "none", "created")
  /\ UNCHANGED <<storeVars, hisVars>>

\* The lock of a dead process runs out, and that of a live one whose event loop or
\* whose connection to Redis is blocked for a minute.
LockExpires ==
  /\ holder # Null
  /\ run[holder].at = "dead" \/ LockMayBeLost
  /\ holder' = Null
  /\ overtaken' = (overtaken \/ run[holder].at # "dead")
  /\ UNCHANGED <<runsVars, job, delivered, diskFailed>>

\* Mutant: the stalled check does not look at the lock.
StalledWhileLocked ==
  /\ job = "active"
  /\ job' = IF delivered <= MaxStalled THEN "waiting" ELSE "failed"
  /\ UNCHANGED <<runsVars, holder, delivered, hisVars>>

\* The stalled check: an active job without a lock.
Stalled ==
  /\ job = "active" /\ holder = Null
  /\ job' = IF delivered <= MaxStalled THEN "waiting" ELSE "failed"
  /\ UNCHANGED <<runsVars, holder, delivered, hisVars>>

-----------------------------------------------------------------------------
(* The processor.                                                          *)

SessionStep(d) == RunStep(d) /\ UNCHANGED <<queueVars, hisVars>>

RepositoryStep(d) ==
  /\ StoreStep(d)
  /\ diskFailed' = (diskFailed \/ DiskFails(d))
  /\ UNCHANGED <<run, queueVars, overtaken>>

\* run() has resolved, as it always does: the job is completed if the lock still
\* holds; otherwise BullMQ refuses and the `error` handler logs it.
Report(d) ==
  /\ Moves(d, "ended", "reported")
  /\ IF holder = d THEN job' = "completed" /\ holder' = Null ELSE UNCHANGED <<job, holder>>
  /\ UNCHANGED <<storeVars, delivered, hisVars>>

\* Kill, out of memory, a shutdown whose worker.close() rejected, or a SIGINT, which
\* Playwright answers by leaving the process as soon as the browser is closed.
ProcessDies(d) ==
  /\ AtWork(d) /\ Dies(d)
  /\ UNCHANGED <<queueVars, hisVars>>

Next ==
  \/ LockExpires \/ Stalled
  \/ \E d \in Runs : Deliver(d) \/ SessionStep(d) \/ RepositoryStep(d) \/ Report(d) \/ ProcessDies(d)

Spec == Init /\ [][Next]_vars

\* Redis keeps its clock and some worker process is there to take a waiting job and
\* to look for stalled ones; processes that live run on.
Fairness ==
  /\ WF_vars(LockExpires /\ run[holder].at = "dead") /\ WF_vars(Stalled)
  /\ \A d \in Runs :
       WF_vars(Deliver(d)) /\ WF_vars(SessionStep(d)) /\ WF_vars(RepositoryStep(d)) /\ WF_vars(Report(d))

FairSpec == Spec /\ Fairness

-----------------------------------------------------------------------------
TypeOK ==
  /\ StoreTypeOK
  /\ job \in {"waiting", "active", "completed", "failed"}
  /\ holder \in {Null} \cup 1..delivered /\ delivered \in 0..MaxStalled + 1
  /\ overtaken \in BOOLEAN

\* A list holds all that recordFailure acknowledged to d.
Kept(d, list) == Cardinality(RecordedBy(d, list)) >= run[d].saved

\* filesystem-session-repository.ts:43 "no locks, single-writer (the worker)": a job
\* may be handed out twice, but as long as no process that lives loses its lock one
\* run writes at a time, and what recordFailure acknowledged to either of them
\* stays in failures.json for as long as that can be read, whoever died in between.
KeptUnlessOvertaken ==
  ~overtaken =>
    /\ \A d, e \in Runs : AtWork(d) /\ AtWork(e) => d = e
    /\ ReadOk(failuresFile) => \A d \in Runs : Kept(d, failuresFile.value)

\* A terminal record is only ever written over, and a session comes back to life
\* before its readers, when its job was stalled.
TerminalIsLastUnlessStalled ==
  [][EndsSession(sessionFile) /\ sessionFile' # sessionFile => delivered > 1]_vars

\* The parts of the inductive invariant behind the two.

\* A delivery that was not made yet is not at work, no run creates the record, and
\* who is at work holds the lock unless it was overtaken.
DeliveryInv ==
  /\ \A d \in Runs : run[d].at \notin {"boot", "creating"} /\ (d > delivered => run[d].at = "none")
  /\ job = "waiting" => holder = Null
  /\ ~overtaken => \A d \in Runs : AtWork(d) => holder = d

\* What the one run at work is about to write keeps what was acknowledged to all of
\* them, and its own failure on top; what it was acknowledged is what it wrote.
KeptInv ==
  ~overtaken =>
    /\ OpenedInv
    /\ failuresFile = Absent => \A d \in Runs : run[d].saved = 0
    /\ ReadOk(failuresFile) => \A d \in Runs : Kept(d, failuresFile.value)
    /\ \A e \in Runs : run[e].at = "recording" =>
         /\ call[e].at \in {"open-failures", "write-failures", "ok"} =>
              /\ \A d \in Runs : Kept(d, call[e].failures)
              /\ Cardinality(RecordedBy(e, call[e].failures)) > run[e].saved
         /\ At(e, "ok") => failuresFile = Json(call[e].failures)

\* The first run wrote the terminal record that is there before a second delivery, and
\* writes no more.
FirstWordInv ==
  EndsSession(sessionFile) /\ delivered <= 1 =>
    /\ run[1].at \in {"finishing", "ended", "reported", "dead"}
    /\ run[1].at = "finishing" => Settled(call[1])

JobInv == TypeOK /\ RunsInv /\ DeliveryInv /\ KeptInv /\ FirstWordInv

\* A job comes to an end, and leaves the record of a session that nobody works on
\* terminal, unless it was never created, a file system call failed, the last run
\* died, or an earlier one died after somebody was overtaken; and a file that does not
\* parse is the work of a run that died in the middle of a write, or of two live ones
\* that wrote at once.
Quiet == job \in {"completed", "failed"} /\ \A d \in Runs : ~AtWork(d)

RecordTold ==
  \/ sessionFile = Absent \/ diskFailed \/ run[delivered].at = "dead"
  \/ sessionFile \in {Empty, Torn} /\ (overtaken \/ \E d \in Runs : run[d].at = "dead")
  \/ overtaken /\ \E d \in Runs : run[d].at = "dead"
  \/ EndsSession(sessionFile)

JobSettles == <>[](Quiet /\ RecordTold)
=============================================================================
