-------------------------- MODULE MCSessionManager --------------------------
(***************************************************************************)
(* SessionManager on small instances, for TLC: a behaviour has two setters *)
(* and nothing that stops or refuses, or one setter, two desktops, a root  *)
(* daemon that may refuse and a daemon that is stopped and crashes.        *)
(***************************************************************************)
EXTENDS SessionManager

CONSTANT First           (* the setter that is alone when there are stops *)

VARIABLE quiet           (* is there nothing that stops or refuses?       *)

QuietStep ==
    /\ D!Running'
    /\ term' = "none"
    /\ \A c \in Setters :
          /\ request'[c].type = "desktop" => request'[c].value = Plasma
          /\ step[c] = "root" => step'[c] # "idle"

InstanceInit ==
    /\ Init
    /\ quiet \in BOOLEAN
    /\ IF quiet THEN state.desktop \in {None, Plasma} ELSE file = Empty

InstanceSpec ==
    /\ InstanceInit
    /\ [][/\ Next
          /\ UNCHANGED quiet
          /\ IF quiet THEN QuietStep
             ELSE \A c \in Setters \ {First} : step'[c] = "idle"]_<<vars, quiet>>
    /\ Fairness
=============================================================================
