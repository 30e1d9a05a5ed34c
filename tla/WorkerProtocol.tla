--------------------------- MODULE WorkerProtocol ---------------------------
(***************************************************************************)
(* The repository calls one run of a session makes, in their order, for    *)
(* whoever looks at the session from outside: mark it running, record      *)
(* failures one at a time, write the final status.  SessionRunner is shown *)
(* to follow it; SessionRuns performs the calls on the files.              *)
(***************************************************************************)
EXTENDS Domain

VARIABLES at,      \* "created", "running", "recording", "finishing", "ended"
          found,   \* failures handed to recordFailure
          saved,   \* how many of them it acknowledged
          final    \* what the last updateStatus is called with, Null before

protocol == <<at, found, saved, final>>

Init == at = "created" /\ found = 0 /\ saved = 0 /\ final = Null

MarkRunning ==
  /\ at = "created" /\ at' = "running"
  /\ UNCHANGED <<found, saved, final>>

Record ==
  /\ at = "running" /\ at' = "recording"
  /\ UNCHANGED <<found, saved, final>>

\* The result of recordFailure; the next call may follow at once.
Count ==
  /\ at = "recording" /\ at' \in {"running", "recording"}
  /\ found' = found + 1 /\ saved' \in {saved, saved + 1}
  /\ UNCHANGED final

Finish ==
  /\ at = "running" /\ at' = "finishing"
  /\ final' \in FinalPatches(found)
  /\ UNCHANGED <<found, saved>>

End ==
  /\ at = "finishing" /\ at' = "ended"
  /\ UNCHANGED <<found, saved, final>>

Next == MarkRunning \/ Record \/ Count \/ Finish \/ End

Spec == Init /\ [][Next]_protocol
=============================================================================
