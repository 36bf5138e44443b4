---------------------------- MODULE InputPlumber ----------------------------
(***************************************************************************)
(* DeckService (src/steamos-manager/src/inputplumber.rs): every composite  *)
(* device of InputPlumber is to have the configured target devices. The    *)
(* service listens to InterfacesAdded, and then a task goes through the    *)
(* devices that are there; every signal gets a task of its own. A task     *)
(* asks what the targets of a device are, and sets them if it is no Deck.  *)
(***************************************************************************)
EXTENDS Naturals, Sequences, FiniteSets, SequencesExt

CONSTANTS
    Devices,             (* the paths of composite devices                 *)
    MaxPlugs             (* how often devices come                         *)

ASSUME DeckAssumption ==
    IsFiniteSet(Devices) /\ MaxPlugs \in Nat

VARIABLES
    wanted,              (* the configured targets: a single Deck, or not  *)
    (* InputPlumber *)
    present,             (* the devices it has                             *)
    targets,             (* their target devices                           *)
    plugs,
    (* the service *)
    listens,             (* does the stream of InterfacesAdded exist?      *)
    added,               (* the signals in it                              *)
    enumeration,         (* the task of check_devices: "none", "begin",    *)
                         (* "devices", "failed", "ended"                   *)
    toCheck,             (* the devices it has yet to look at              *)
    checking,            (* where make_deck is for the device it looks at  *)
    makers               (* where make_deck is in the tasks of signals     *)

plumberVars == <<wanted, present, targets, plugs>>
serviceVars == <<listens, added, enumeration, toCheck, checking, makers>>
deckVars == <<plumberVars, serviceVars>>

\* make_deck: about to ask what the targets are, or to set them.
MakeDeck == {"ask", "set"}

\* The types of the devices and of the tasks.
DeckTypeOK ==
    /\ wanted \in {"deck", "configured"}
    /\ present \subseteq Devices
    /\ targets \in [Devices -> {"gamepad", "deck", "configured"}]
    /\ plugs \in 0..MaxPlugs
    /\ listens \in BOOLEAN
    /\ added \in Seq(Devices)
    /\ enumeration \in {"none", "begin", "devices", "failed", "ended"}
    /\ toCheck \in Seq(Devices)
    /\ checking \in MakeDeck \cup {"idle"}
    /\ makers \in [Devices -> [MakeDeck -> Nat]]

DeckInit ==
    /\ wanted \in {"deck", "configured"}
    /\ present \in SUBSET Devices
    /\ targets = [d \in Devices |-> "gamepad"]
    /\ plugs = 0
    /\ listens = FALSE
    /\ added = <<>>
    /\ enumeration = "none"
    /\ toCheck = <<>>
    /\ checking = "idle"
    /\ makers = [d \in Devices |-> [m \in MakeDeck |-> 0]]

-----------------------------------------------------------------------------
(* InputPlumber.                                                           *)

\* A device comes, also one that was there before; its path tells no more.
Plug(d) ==
    /\ plugs < MaxPlugs
    /\ d \notin present
    /\ plugs' = plugs + 1
    /\ present' = present \cup {d}
    /\ targets' = [targets EXCEPT ![d] = "gamepad"]
    /\ added' = IF listens THEN Append(added, d) ELSE added
    /\ UNCHANGED <<wanted, listens, enumeration, toCheck, checking, makers>>

Unplug(d) ==
    /\ present' = present \ {d}
    /\ d \in present
    /\ UNCHANGED <<wanted, targets, plugs, serviceVars>>

-----------------------------------------------------------------------------
(* DeckService::run.                                                       *)

\* receive_interfaces_added.
Listen ==
    /\ ~listens
    /\ listens' = TRUE
    /\ UNCHANGED <<plumberVars, added, enumeration, toCheck, checking, makers>>

\* MUTANT of Enumerate: the devices that are there before the service listens.
EnumerateFirst ==
    /\ enumeration = "none"
    /\ \E order \in SetToSeqs(present) : toCheck' = order
    /\ enumeration' = "devices"
    /\ UNCHANGED <<plumberVars, listens, added, checking, makers>>

\* get_managed_objects, in any order.
Enumerate ==
    /\ listens
    /\ enumeration = "none"
    /\ \E order \in SetToSeqs(present) : toCheck' = order
    /\ enumeration' = "devices"
    /\ UNCHANGED <<plumberVars, listens, added, checking, makers>>

\* The next device of check_devices; make_deck is called and waited for.
CheckNext ==
    /\ enumeration = "devices" /\ checking = "idle"
    /\ IF toCheck = <<>>
       THEN enumeration' = "ended" /\ UNCHANGED checking
       ELSE checking' = "ask" /\ UNCHANGED enumeration
    /\ UNCHANGED <<plumberVars, listens, added, toCheck, makers>>

\* is_deck: of all there is, it is a single Deck.
Asked(d) == IF targets[d] = "deck" THEN "idle" ELSE "set"

\* is_deck for the device check_devices is at.
CheckAsks ==
    /\ checking = "ask"
    /\ Head(toCheck) \in present
    /\ checking' = Asked(Head(toCheck))
    /\ toCheck' = IF Asked(Head(toCheck)) = "idle" THEN Tail(toCheck) ELSE toCheck
    /\ UNCHANGED <<plumberVars, listens, added, enumeration, makers>>

\* set_target_devices.
CheckSets ==
    /\ checking = "set"
    /\ Head(toCheck) \in present
    /\ targets' = [targets EXCEPT ![Head(toCheck)] = wanted]
    /\ checking' = "idle"
    /\ toCheck' = Tail(toCheck)
    /\ UNCHANGED <<wanted, present, plugs, listens, added, enumeration, makers>>

\* A device that has gone fails its call, and that ends the whole of
\* check_devices: the devices after it are not looked at.
CheckFails ==
    /\ checking # "idle"
    /\ Head(toCheck) \notin present
    /\ checking' = "idle"
    /\ enumeration' = "failed"
    /\ UNCHANGED <<plumberVars, listens, added, toCheck, makers>>

MoveOn(d, from, to) ==
    makers' = [makers EXCEPT
                 ![d] = [m \in MakeDeck |-> @[m] - (IF m = from THEN 1 ELSE 0)
                                                + (IF m = to THEN 1 ELSE 0)]]

\* A signal starts a task.
TakeSignal ==
    /\ added # <<>>
    /\ added' = Tail(added)
    /\ makers' = [makers EXCEPT ![Head(added)]["ask"] = @ + 1]
    /\ UNCHANGED <<plumberVars, listens, enumeration, toCheck, checking>>

MakerAsks(d) ==
    /\ makers[d]["ask"] > 0
    /\ d \in present
    /\ MoveOn(d, "ask", Asked(d))
    /\ UNCHANGED <<plumberVars, listens, added, enumeration, toCheck, checking>>

MakerSets(d) ==
    /\ makers[d]["set"] > 0
    /\ d \in present
    /\ targets' = [targets EXCEPT ![d] = wanted]
    /\ MoveOn(d, "set", "idle")
    /\ UNCHANGED <<wanted, present, plugs, listens, added, enumeration, toCheck, checking>>

\* The error of such a task is nobody's.
MakerFails(d, at) ==
    /\ d \notin present
    /\ makers[d][at] > 0
    /\ MoveOn(d, at, "idle")
    /\ UNCHANGED <<plumberVars, listens, added, enumeration, toCheck, checking>>

DeckNext ==
    \/ \E d \in Devices :
         \/ Plug(d) \/ Unplug(d)
         \/ MakerAsks(d) \/ MakerSets(d)
         \/ \E at \in MakeDeck : MakerFails(d, at)
    \/ Listen \/ Enumerate \/ CheckNext \/ CheckAsks \/ CheckSets \/ CheckFails
    \/ TakeSignal

DeckSpec == DeckInit /\ [][DeckNext]_deckVars

-----------------------------------------------------------------------------
(* What the service is for.                                                *)

\* Nothing is left to do.
DecksSettled ==
    /\ listens /\ enumeration \in {"failed", "ended"}
    /\ added = <<>>
    /\ \A d \in Devices : \A m \in MakeDeck : makers[d][m] = 0

\* When the service has nothing left to do every device has its targets, those
\* that came while it asked and those that came back included; only what an
\* enumeration that failed had not reached may be without (run, which listens
\* before it asks, and check_devices, which stops at the first error).
DevicesAreDeck ==
    DecksSettled =>
       \A d \in present :
          targets[d] = wanted \/ (enumeration = "failed" /\ Contains(toCheck, d))
=============================================================================
