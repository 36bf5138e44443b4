------------------------------- MODULE MCJob --------------------------------
(* Job on small instances, for TLC.                                      *)
EXTENDS Job
=============================================================================
