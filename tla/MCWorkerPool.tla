---------------------------- MODULE MCWorkerPool ----------------------------
(***************************************************************************)
(* Three jobs, two at a time: two race for the first launch, the third     *)
(* finds what the first two left.                                          *)
(***************************************************************************)
EXTENDS WorkerPool
=============================================================================
