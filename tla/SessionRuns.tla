----------------------------- MODULE SessionRuns -----------------------------
(***************************************************************************)
(* Runs of one session as its files see them: the calls of WorkerProtocol, *)
(* each carried out by SessionStore and interrupted wherever the process   *)
(* may die.  SessionSystem has one run, JobDelivery two of the same        *)
(* session.                                                                *)
(***************************************************************************)
EXTENDS SessionStore

CONSTANTS Runs,           \* the writers that run the session
          MaxFailures     \* failures a run may try to record

ASSUME RunsAssumption == Runs \subseteq Writers /\ MaxFailures \in Nat

VARIABLE run     \* each run: [at, found, saved]; found is failures.length in memory, saved
                 \* how many of them recordFailure acknowledged

runsVars == <<storeVars, run>>

\* What a run may be at before and after its protocol is up to who starts it.
ProtocolStages == {"created", "starting", "running", "recording", "finishing", "ended"}

NewRun(stage) == [at |-> stage, found |-> 0, saved |-> 0]

Moves(w, from, to) ==
  /\ run[w].at = from
  /\ run' = [run EXCEPT ![w].at = to]

\* SessionRunner.run: updateStatus('running'), its result not looked at.
MarkRunning(w) == Moves(w, "created", "starting") /\ UpdateStatus(w, [status |-> "running"])

Marked(w) ==
  /\ Settled(call[w])
  /\ Moves(w, "starting", "running") /\ Release(w)
  /\ UNCHANGED <<sessionFile, failuresFile>>

FindFailure(w) ==
  /\ run[w].found < MaxFailures
  /\ Moves(w, "running", "recording") /\ RecordFailure(w)

\* Mutant: only what could not be stored is counted.
CountLostOnly(w) ==
  /\ run[w].at = "recording" /\ Settled(call[w])
  /\ run' = [run EXCEPT ![w].at = "running",
                        ![w].found = IF At(w, "ok") THEN @ ELSE @ + 1,
                        ![w].saved = IF At(w, "ok") THEN @ + 1 ELSE @]
  /\ Release(w)
  /\ UNCHANGED <<sessionFile, failuresFile>>

\* persistFailure logs an error, and the failure is counted all the same.
CountFailure(w) ==
  /\ run[w].at = "recording" /\ Settled(call[w])
  /\ run' = [run EXCEPT ![w].at = "running",
                        ![w].found = @ + 1,
                        ![w].saved = IF At(w, "ok") THEN @ + 1 ELSE @]
  /\ Release(w)
  /\ UNCHANGED <<sessionFile, failuresFile>>

\* Mutant: the terminal status is written before the last scenario is over.
FinishEarly(w) ==
  /\ Moves(w, "running", "starting")
  /\ \E patch \in FinalPatches(run[w].found) : UpdateStatus(w, patch)

\* Mutant: only a clean run gets to the `finally` block.
FinishIfClean(w) ==
  \/ /\ Moves(w, "running", "finishing")
     /\ UpdateStatus(w, [status |-> "completed", count |-> run[w].found])
  \/ Moves(w, "running", "ended") /\ UNCHANGED storeVars

\* The `finally` block: updateStatus with the counters.
Finish(w) ==
  /\ Moves(w, "running", "finishing")
  /\ \E patch \in FinalPatches(run[w].found) : UpdateStatus(w, patch)

End(w) ==
  /\ Settled(call[w])
  /\ Moves(w, "finishing", "ended") /\ Release(w)
  /\ UNCHANGED <<sessionFile, failuresFile>>

RunStep(w) ==
  \/ MarkRunning(w) \/ Marked(w) \/ FindFailure(w) \/ CountFailure(w)
  \/ Finish(w) \/ End(w)

\* The process is gone in the middle of whatever it was doing.
Dies(w) ==
  /\ run' = [run EXCEPT ![w].at = "dead"] /\ Release(w) /\ BrokenOff(w)

-----------------------------------------------------------------------------
(* What files, calls and runs are made of, and how they fit together.      *)

Records ==
  [spec : {"requested", "default"}, status : {"queued", "running"} \cup Terminal,
   count : 0..MaxFailures]
Patches == [status : {"running"}] \cup [status : Terminal, count : 0..MaxFailures]

\* A record a reader takes for the last one.
EndsSession(file) == ReadOk(file) /\ file.value.status \in Terminal

IsFile(file, values) ==
  file \in {Absent, Empty, Torn} \/ (file.value \in values /\ file = Json(file.value))

\* What a reader may have got from a file.
Answers(values) == [is : {"unread", "absent", "empty", "torn", "json"}, value : {Null} \cup values]

\* A call holds what it will write, from the moment it has read what it must.
Calls ==
  {NoCall}
  \cup [op : {"create"}, session : {NewRecord("requested"), NewRecord("default")}, failures : {<< >>},
        at : {"open-session", "write-session", "open-failures", "write-failures", "ok", "err"}]
  \cup [op : {"update"}, session : Patches, failures : {Null}, at : {"read-session", "err"}]
  \cup [op : {"update"}, session : Records, failures : {Null},
        at : {"open-session", "write-session", "ok", "err"}]
  \cup [op : {"record"}, session : {Null}, failures : {Null}, at : {"read-failures", "err"}]
  \cup [op : {"record"}, session : {Null}, failures : Seq(Writers),
        at : {"open-failures", "write-failures", "ok", "err"}]

RunStages == ProtocolStages \cup {"none", "boot", "creating", "dead", "reported"}

StoreTypeOK ==
  /\ IsFile(sessionFile, Records) /\ IsFile(failuresFile, Seq(Writers))
  /\ call \in [Writers -> Calls]
  /\ run \in [Runs -> [at : RunStages, found : 0..MaxFailures, saved : 0..MaxFailures]]
  /\ \A w \in Runs : run[w].saved <= run[w].found

\* What a run awaits at each of its stages; it writes a terminal status only when
\* it finishes.
OpAwaited(stage) ==
  CASE stage = "creating" -> "create" [] stage \in {"starting", "finishing"} -> "update"
    [] stage = "recording" -> "record" [] OTHER -> "none"

CallInv(w) ==
  /\ call[w].op = OpAwaited(run[w].at)
  /\ run[w].at = "starting" => call[w].session.status = "running"
  /\ run[w].at = "finishing" =>
       /\ call[w].session.status \in Terminal
       /\ call[w].session.status = "completed" => call[w].session.count = run[w].found
  /\ run[w].at = "recording" => run[w].found < MaxFailures
  /\ run[w].at \in {"none", "boot", "creating", "created", "starting"} => run[w].found = 0

RunsInv == StoreTypeOK /\ \A w \in Runs : CallInv(w)

\* Where one writer calls at a time, the file it is about to fill is as its open left it.
OpenedInv ==
  \A w \in Writers :
    /\ At(w, "write-session") => sessionFile = Empty
    /\ At(w, "write-failures") => failuresFile = Empty
=============================================================================
