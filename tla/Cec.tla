-------------------------------- MODULE Cec ---------------------------------
(***************************************************************************)
(* HDMI-CEC (src/steamos-manager/src/cec.rs, HdmiCec1 of manager/user.rs,  *)
(* the hdmi_cec properties of manager/root.rs). The setter of the state    *)
(* takes &self, so that calls of it interleave. Without cecd it masks,     *)
(* stops, unmasks and starts two units; with cecd it writes a fragment of  *)
(* configuration and has cecd read it. CecdService tells the embedded      *)
(* controller, through the root daemon, which physical address cecd has.   *)
(***************************************************************************)
EXTENDS Naturals, Sequences, SequencesExt

CONSTANTS
    CecCallers,          (* calls of set_hdmi_cec_state                    *)
    Addresses,           (* HDMI physical addresses                        *)
    MaxCecFaults,        (* how many steps fail                            *)
    MaxCecCalls,         (* how many calls are made                        *)
    MaxReplugs           (* how often the physical address changes         *)

ASSUME CecAssumption ==
    /\ {MaxCecFaults, MaxCecCalls, MaxReplugs} \subseteq Nat
    /\ Addresses # {}

CecStates == {"disabled", "control", "wake"}
CecUnits == {"plasma-remotecontrollers", "wakehook"}

\* The units that belong to a state, and the configuration of cecd.
UnitsOf(s) == CASE s = "disabled" -> {}
                [] s = "control" -> {"plasma-remotecontrollers"}
                [] s = "wake" -> CecUnits
Fragments == [wake_tv : BOOLEAN, uinput : BOOLEAN]
Fragment(s) == [wake_tv |-> s = "wake", uinput |-> s # "disabled"]

VARIABLES
    cecd,                (* is the backend cecd?                           *)
    cecStep,             (* the steps each call still has to take          *)
    cecTarget,           (* the state it is to set, or "idle"              *)
    masked,              (* the units masked on disk                       *)
    known,               (* and those that systemd knows to be             *)
    active,              (* the units that run                             *)
    unitJobs,            (* the jobs of systemd nobody waits for           *)
    fragment,            (* 99-steamos-manager.toml                        *)
    cecdHas,             (* what cecd has read of it                       *)
    cecFaults,
    cecCalls,
    (* CecdService *)
    listener,            (* where it is: "new", "read", "send", "wait" or  *)
                         (* "dead"                                         *)
    notified,            (* its stream has a change                        *)
    cached,              (* the address that its proxy has                 *)
    sending,             (* the address it is about to send                *)
    inFlight,            (* a change that has not come yet                 *)
    address,             (* the address of the device                      *)
    ecAddress,           (* and that of the embedded controller            *)
    replugs,
    (* for the properties *)
    settled              (* the state of the last call, if it succeeded    *)
                         (* and was alone; or whether calls were mixed, or *)
                         (* one failed, since none ran                     *)

cecVars == <<cecd, cecStep, cecTarget, masked, known, active, unitJobs,
             fragment, cecdHas, cecFaults, cecCalls, listener, notified, cached,
             sending, inFlight, address, ecAddress, replugs, settled>>
setterVars == <<cecd, cecStep, cecTarget, masked, known, active, unitJobs,
                fragment, cecdHas, cecFaults, cecCalls, settled>>
listenerVars == <<listener, notified, cached, sending, inFlight, address,
                  ecAddress, replugs>>

On(do, unit) == [do |-> do, unit |-> unit]
CecSteps == [do : {"mask", "unmask", "stop", "start", "reload", "write", "apply"},
             unit : CecUnits \cup {"-"}]

\* The types of the setters', the system's and the listener's state.
CecTypeOK ==
    /\ cecd \in BOOLEAN
    /\ cecStep \in [CecCallers -> Seq(CecSteps)]
    /\ cecTarget \in [CecCallers -> CecStates \cup {"idle"}]
    /\ masked \subseteq CecUnits /\ known \subseteq CecUnits /\ active \subseteq CecUnits
    /\ unitJobs \subseteq [do : {"start", "stop"}, unit : CecUnits]
    /\ {fragment, cecdHas} \subseteq Fragments
    /\ cecFaults \in 0..MaxCecFaults /\ cecCalls \in 0..MaxCecCalls
    /\ listener \in {"new", "read", "send", "wait", "dead"}
    /\ {notified, inFlight} \subseteq BOOLEAN
    /\ {cached, sending, address, ecAddress} \subseteq Addresses
    /\ replugs \in 0..MaxReplugs
    /\ settled \in CecStates \cup {"none", "mixed", "failed"}

CecInit ==
    /\ cecd \in BOOLEAN
    /\ cecStep = [c \in CecCallers |-> <<>>]
    /\ cecTarget = [c \in CecCallers |-> "idle"]
    /\ \E s \in CecStates :
          /\ masked = CecUnits \ UnitsOf(s)
          /\ active = UnitsOf(s)
          /\ fragment = Fragment(s)
    /\ known = masked
    /\ unitJobs = {}
    /\ cecdHas = fragment
    /\ cecFaults = 0
    /\ cecCalls = 0
    /\ listener = "new"
    /\ notified = FALSE
    /\ address \in Addresses
    /\ cached = address
    /\ sending = address
    /\ inFlight = FALSE
    /\ ecAddress \in Addresses
    /\ ~cecd => ecAddress = address
    /\ replugs = 0
    /\ settled = "none"

-----------------------------------------------------------------------------
(* set_enabled_state.                                                      *)

RC == "plasma-remotecontrollers"
WH == "wakehook"

CecStepsOf(s) ==
    IF cecd THEN <<On("write", "-"), On("apply", "-")>>
    ELSE CASE s = "disabled" ->
                <<On("mask", RC), On("stop", RC), On("mask", WH), On("stop", WH),
                  On("reload", "-")>>
           [] s = "control" ->
                <<On("mask", WH), On("stop", WH), On("unmask", RC), On("reload", "-"),
                  On("start", RC)>>
           [] s = "wake" ->
                <<On("unmask", RC), On("unmask", WH), On("reload", "-"),
                  On("start", RC), On("start", WH)>>

Running(c) == cecTarget[c] # "idle"

SetCecState(c, s) ==
    /\ ~Running(c)
    /\ cecCalls < MaxCecCalls
    /\ cecCalls' = cecCalls + 1
    /\ cecTarget' = [cecTarget EXCEPT ![c] = s]
    /\ cecStep' = [cecStep EXCEPT ![c] = CecStepsOf(s)]
    /\ settled' = IF \A d \in CecCallers : ~Running(d) THEN "none"
                  ELSE IF settled = "failed" THEN settled ELSE "mixed"
    /\ UNCHANGED <<cecd, masked, known, active, unitJobs, fragment, cecdHas,
                   cecFaults, listenerVars>>

\* systemd refuses to start a unit it knows to be masked, and a job that goes
\* against another one (JobMode::Fail).
Refuses(s) ==
    \/ s.do = "start" /\ (s.unit \in known \/ On("stop", s.unit) \in unitJobs)
    \/ s.do = "stop" /\ On("start", s.unit) \in unitJobs

CecStep(c) ==
    /\ cecStep[c] # <<>>
    /\ LET s == Head(cecStep[c]) IN
          /\ ~Refuses(s)
          /\ masked' = CASE s.do = "mask" -> masked \cup {s.unit}
                         [] s.do = "unmask" -> masked \ {s.unit}
                         [] OTHER -> masked
          /\ known' = IF s.do = "reload" THEN masked ELSE known
          /\ unitJobs' = IF s.do \in {"start", "stop"} THEN unitJobs \cup {s} ELSE unitJobs
          /\ fragment' = IF s.do = "write" THEN Fragment(cecTarget[c]) ELSE fragment
          /\ cecdHas' = IF s.do = "apply" THEN fragment ELSE cecdHas
    /\ cecStep' = [cecStep EXCEPT ![c] = Tail(@)]
    /\ UNCHANGED <<cecd, cecTarget, active, cecFaults, cecCalls, settled, listenerVars>>

CecFails(c) ==
    /\ cecStep[c] # <<>>
    /\ \/ cecFaults < MaxCecFaults /\ cecFaults' = cecFaults + 1
       \/ Refuses(Head(cecStep[c])) /\ cecFaults' = cecFaults
    /\ cecStep' = [cecStep EXCEPT ![c] = <<>>]
    /\ cecTarget' = [cecTarget EXCEPT ![c] = "idle"]
    /\ settled' = "failed"
    /\ UNCHANGED <<cecd, masked, known, active, unitJobs, fragment, cecdHas, cecCalls,
                   listenerVars>>

CecDone(c) ==
    /\ Running(c)
    /\ cecStep[c] = <<>>
    /\ cecTarget' = [cecTarget EXCEPT ![c] = "idle"]
    /\ settled' = IF settled = "none" THEN cecTarget[c] ELSE settled
    /\ UNCHANGED <<cecd, cecStep, masked, known, active, unitJobs, fragment, cecdHas,
                   cecFaults, cecCalls, listenerVars>>

\* systemd runs a job (external).
UnitJob ==
    \E j \in unitJobs :
        /\ unitJobs' = unitJobs \ {j}
        /\ active' = IF j.do = "start" THEN active \cup {j.unit} ELSE active \ {j.unit}
        /\ UNCHANGED <<cecd, cecStep, cecTarget, masked, known, fragment, cecdHas,
                       cecFaults, cecCalls, settled, listenerVars>>

\* get_enabled_state.
ShownCecState ==
    LET control == IF cecd THEN cecdHas.uinput ELSE RC \notin known
        wake == IF cecd THEN cecdHas.wake_tv ELSE WH \notin known
    IN  IF ~control THEN "disabled" ELSE IF wake THEN "wake" ELSE "control"

-----------------------------------------------------------------------------
(* CecdService::new, and run, which has its stream before it first reads.  *)

Replug(a) ==
    /\ cecd
    /\ replugs < MaxReplugs
    /\ replugs' = replugs + 1
    /\ address' = a
    /\ inFlight' = TRUE
    /\ UNCHANGED <<listener, notified, cached, sending, ecAddress, setterVars>>

\* PropertiesChanged comes: the proxy's cache, and the stream.
AddressChanges ==
    /\ listener # "new"
    /\ inFlight
    /\ inFlight' = FALSE
    /\ cached' = address
    /\ notified' = TRUE
    /\ UNCHANGED <<listener, sending, address, ecAddress, replugs, setterVars>>

\* The root daemon has a controller, the backend is cecd, and it has a device.
\* The proxy asks for the address when the stream is made, and the stream may
\* yield that one first; what changed before is not told to it.
CecdServiceNew ==
    /\ listener = "new"
    /\ cecd
    /\ listener' = "read"
    /\ cached' = address
    /\ notified' \in BOOLEAN
    /\ inFlight' = FALSE
    /\ UNCHANGED <<sending, address, ecAddress, replugs, setterVars>>

\* cec_hw_controller has nothing configured, or something that cannot wake the
\* display; or cecd is not there, or has no device yet: no service then.
NoCecdService ==
    /\ listener = "new"
    /\ listener' = "dead"
    /\ UNCHANGED <<notified, cached, sending, inFlight, address, ecAddress, replugs,
                   setterVars>>

ReadAddress ==
    /\ listener = "read"
    /\ sending' = cached
    /\ listener' = "send"
    /\ UNCHANGED <<notified, cached, inFlight, address, ecAddress, replugs, setterVars>>

\* MUTANT of SendAddress: the stream is made after the first reconfigure.
SendAddressFirst ==
    /\ listener = "send"
    /\ ecAddress' = sending
    /\ notified' = FALSE
    /\ listener' = "wait"
    /\ UNCHANGED <<cached, sending, inFlight, address, replugs, setterVars>>

SendAddress ==
    /\ listener = "send"
    /\ ecAddress' = sending
    /\ listener' = "wait"
    /\ UNCHANGED <<notified, cached, sending, inFlight, address, replugs, setterVars>>

\* The root daemon refuses it: the service ends.
SendFails ==
    /\ listener = "send"
    /\ cecFaults < MaxCecFaults
    /\ cecFaults' = cecFaults + 1
    /\ listener' = "dead"
    /\ UNCHANGED <<notified, cached, sending, inFlight, address, ecAddress, replugs,
                   cecd, cecStep, cecTarget, masked, known, active, unitJobs,
                   fragment, cecdHas, cecCalls, settled>>

NextAddress ==
    /\ listener = "wait"
    /\ notified
    /\ notified' = FALSE
    /\ listener' = "read"
    /\ UNCHANGED <<cached, sending, inFlight, address, ecAddress, replugs, setterVars>>

CecNext ==
    \/ \E c \in CecCallers :
          \/ \E s \in CecStates : SetCecState(c, s)
          \/ CecStep(c) \/ CecFails(c) \/ CecDone(c)
    \/ UnitJob
    \/ \E a \in Addresses : Replug(a)
    \/ CecdServiceNew \/ NoCecdService
    \/ AddressChanges \/ ReadAddress \/ SendAddress \/ SendFails \/ NextAddress

CecSpec == CecInit /\ [][CecNext]_cecVars

-----------------------------------------------------------------------------
(* Properties.                                                             *)

CecQuiet == unitJobs = {} /\ \A c \in CecCallers : ~Running(c)

\* After a call that succeeded, the state shown is the one it set, and exactly
\* the units of it run, also if earlier calls failed halfway. (Without cecd,
\* calls that overlap can leave a mixture that none of them asked for.) And
\* cecd uses what the file says, however calls overlap, unless one failed.
CecStateIsSet ==
    /\ CecQuiet /\ settled \in CecStates =>
          /\ ShownCecState = settled
          /\ ~cecd => active = UnitsOf(settled)
    /\ CecQuiet /\ cecd /\ settled # "failed" => cecdHas = fragment

\* The embedded controller has the address of the device once CecdService has
\* nothing left to do, also if the address changes while it sends another.
EcHasAddress ==
    listener = "wait" /\ ~notified /\ ~inFlight => ecAddress = address

\* What a client set, what systemd and cecd have and what the embedded
\* controller has agree once nothing is under way (both of the above).
CecInStep == CecStateIsSet /\ EcHasAddress
=============================================================================
