---------------------------- MODULE MCJobManager ----------------------------
(* JobManager on small instances, for TLC.                               *)
EXTENDS JobManager
=============================================================================
