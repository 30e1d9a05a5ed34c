--------------------------- MODULE MCSessionSystem ---------------------------
(***************************************************************************)
(* One API, one worker process, one page; up to three failures, so that a  *)
(* lost write can be followed by a successful one.                         *)
(***************************************************************************)
EXTENDS SessionSystem

MCWriters == {"api", "worker"}
MCRuns == {"worker"}
=============================================================================
