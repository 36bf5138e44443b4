------------------------------ MODULE MCDaemon ------------------------------
(* Daemon on small instances, for TLC.                                     *)
EXTENDS Daemon, TLC

\* The clients may be exchanged for each other (for safety only).
ClientSymmetry == Permutations(Clients)
=============================================================================
