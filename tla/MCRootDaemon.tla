---------------------------- MODULE MCRootDaemon ----------------------------
(***************************************************************************)
(* Daemon with every fault there is, and DsInhibit, which the root daemon  *)
(* starts and stops, on small instances, for TLC. One run checks both: a   *)
(* behaviour is one of either, and the other's variables keep their first  *)
(* values.                                                                 *)
(***************************************************************************)
EXTENDS Daemon, DsInhibit, TLC

\* The clients may be exchanged for each other (for safety only).
ClientSymmetry == Permutations(Clients)

VARIABLE about           (* what the behaviour is one of *)

RootInit ==
    /\ about \in {"daemon", "inhibitor"}
    /\ Init
    /\ about = "inhibitor" => file = Empty
    /\ InhibitInit

RootNext ==
    \/ about = "daemon" /\ Next /\ UNCHANGED <<about, inhibitVars>>
    \/ about = "inhibitor" /\ InhibitNext /\ UNCHANGED <<about, vars>>

RootSpec == RootInit /\ [][RootNext]_<<about, vars, inhibitVars>>
=============================================================================
