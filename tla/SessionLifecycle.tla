-------------------------- MODULE SessionLifecycle --------------------------
(***************************************************************************)
(* What a session promises whoever reads its record and its failures: the  *)
(* status goes from queued through running to a terminal one, failures are *)
(* only ever appended, and once the status is terminal nothing changes any *)
(* more.  A completed session counts at least the failures it stored.      *)
(***************************************************************************)
EXTENDS Integers, Sequences

VARIABLES status, rounds, count, log

lifecycle == <<status, rounds, count, log>>

Terminal == {"completed", "failed"}

Init == status = "queued" /\ rounds = 0 /\ count = 0 /\ log = << >>

Start ==
  /\ status = "queued"
  /\ status' = "running"
  /\ UNCHANGED <<rounds, count, log>>

\* log' extends log by one failure.
Record ==
  /\ status \notin Terminal
  /\ Len(log') = Len(log) + 1
  /\ SubSeq(log', 1, Len(log)) = log
  /\ UNCHANGED <<status, rounds, count>>

Finish ==
  /\ status \notin Terminal
  /\ status' \in Terminal
  /\ rounds' \in Nat
  /\ count' \in Nat
  /\ status' = "completed" => count' >= Len(log)
  /\ UNCHANGED log

Next == Start \/ Record \/ Finish

Spec == Init /\ [][Next]_lifecycle
=============================================================================
