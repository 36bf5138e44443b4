---------------------------- MODULE MCTdpManager ----------------------------
(* TdpManager on small instances, for TLC.                               *)
EXTENDS TdpManager
=============================================================================
