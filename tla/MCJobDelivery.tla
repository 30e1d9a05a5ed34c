---------------------------- MODULE MCJobDelivery ----------------------------
(***************************************************************************)
(* One job, handed out twice at most as BullMQ does by default; each run   *)
(* may record a failure, so that the second appends to the first one's.    *)
(***************************************************************************)
EXTENDS JobDelivery

MCRuns == 1..2
=============================================================================
