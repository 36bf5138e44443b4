-------------------------------- MODULE Wifi --------------------------------
(***************************************************************************)
(* Wi-Fi debug mode, backend and power management                          *)
(* (src/steamos-manager/src/wifi.rs, and the methods of manager/root.rs    *)
(* that call it). A method is a list of steps, each of which may fail and  *)
(* so end the call; the root interface has spawn = false, so that methods  *)
(* run one after another. Jobs of systemd that the code does not wait for  *)
(* run later. The daemon may be stopped between any two steps, and then    *)
(* forgets the debug mode.                                                 *)
(***************************************************************************)
EXTENDS Naturals, Sequences, SequencesExt

CONSTANTS
    ShouldTrace,         (* should_trace: is this a Galileo?               *)
    IwdDropsInterface,   (* does iwd take wlan0 with it when it stops?     *)
    MaxWifiFaults        (* how many steps fail, or daemons are stopped    *)

ASSUME WifiAssumption ==
    /\ {ShouldTrace, IwdDropsInterface} \subseteq BOOLEAN
    /\ MaxWifiFaults \in Nat

Backends == {"iwd", "wpa_supplicant"}
Other(b) == IF b = "iwd" THEN "wpa_supplicant" ELSE "iwd"
DebugModes == {"off", "tracing"}
PowerManagement == BOOLEAN
Settings == [backend : Backends, powersave : PowerManagement]

\* What /usr/lib/NetworkManager/conf.d says, and NmSettingWirelessPowersave.
Defaults == [backend |-> "iwd", powersave |-> TRUE]

WifiCalls ==
    [op : {"debug"}, value : DebugModes]
        \cup [op : {"backend"}, value : Backends]
        \cup [op : {"power"}, value : PowerManagement]
NoCall == [op |-> "none", value |-> "off"]

VARIABLES
    debug,               (* wifi_debug_mode                                *)
    wifiCall,            (* the method that runs, or ran last              *)
    todo,                (* the steps it still has to take                 *)
    result,              (* "running", or what it answered                 *)
    new,                 (* the NmWifiSettings it writes                   *)
    (* the system *)
    override,            (* is 99-valve-override.conf there?               *)
    reloaded,            (* was it when systemd last read its units?       *)
    tracing,             (* does trace-cmd trace?                          *)
    nmConf,              (* what the files of NetworkManager say           *)
    nm,                  (* the backend NetworkManager runs with, or "off" *)
    units,               (* the backend services that run                  *)
    iwdDebug,            (* does iwd run with -d?                          *)
    wlan,                (* is there an interface?                         *)
    powerSave,           (* and does it save power?                        *)
    jobs,                (* systemd's jobs nobody waits for                *)
    (* for the properties *)
    faults,
    halfway,             (* did a debug mode call fail, or did the daemon  *)
                         (* stop, since one succeeded?                     *)
    oldTaken             (* did NetworkManager start while the call ran,   *)
                         (* and take the settings of before?               *)

daemonPart == <<debug, wifiCall, todo, result, new>>
filePart == <<override, reloaded, nmConf>>
unitPart == <<tracing, nm, units, iwdDebug, wlan, powerSave, jobs>>
wifiGhosts == <<halfway, oldTaken>>
wifiVars == <<daemonPart, filePart, unitPart, faults, wifiGhosts>>

Steps == {"stop_trace", "start_trace", "remove_override", "write_override",
          "reload_systemd", "restart_iwd", "write_settings", "stop_nm",
          "stop_other", "ensure_interface", "start_nm", "reload_nm",
          "set_power_save"}

\* The types of the daemon's state and the system's.
WifiTypeOK ==
    /\ debug \in DebugModes
    /\ wifiCall \in WifiCalls \cup {NoCall}
    /\ todo \in Seq(Steps)
    /\ result \in {"running", "ok", "error"}
    /\ new \in Settings
    /\ {override, reloaded, tracing, iwdDebug, wlan, powerSave, halfway,
        oldTaken} \subseteq BOOLEAN
    /\ nmConf \in Settings
    /\ nm \in Backends \cup {"off"}
    /\ units \subseteq Backends
    /\ jobs \subseteq {"restart_iwd", "start_nm"}
    /\ faults \in 0..MaxWifiFaults

WifiInit ==
    /\ debug = "off"
    /\ wifiCall = NoCall
    /\ todo = <<>>
    /\ result = "ok"
    /\ new = Defaults
    /\ override = FALSE
    /\ reloaded = FALSE
    /\ tracing = FALSE
    /\ nmConf = Defaults
    /\ nm = nmConf.backend
    /\ units = {nm}
    /\ iwdDebug = FALSE
    /\ wlan = TRUE
    /\ powerSave = nmConf.powersave
    /\ jobs = {}
    /\ faults = 0
    /\ halfway = FALSE
    /\ oldTaken = FALSE

-----------------------------------------------------------------------------
(* The methods.                                                            *)

If(cond, step) == IF cond THEN <<step>> ELSE <<>>

\* MUTANT of StepsOf: tracing is stopped, the override is left.
StepsKeepingOverride(c) ==
    CASE c.op = "debug" /\ c.value = "off" ->
           If(ShouldTrace, "stop_trace") \o <<"reload_systemd", "restart_iwd">>
      [] c.op = "debug" /\ c.value = "tracing" ->
           <<"write_override", "reload_systemd", "restart_iwd">>
               \o If(ShouldTrace, "start_trace")
      [] c.op = "backend" ->
           <<"write_settings", "stop_nm", "stop_other", "ensure_interface", "start_nm">>
      [] c.op = "power" ->
           If(wlan, "set_power_save") \o <<"write_settings", "reload_nm">>

\* What set_wifi_debug_mode, set_nm_settings and set_wifi_power_management_state
\* do, in order.
StepsOf(c) ==
    CASE c.op = "debug" /\ c.value = "off" ->
           If(ShouldTrace, "stop_trace")
               \o <<"remove_override", "reload_systemd", "restart_iwd">>
      [] c.op = "debug" /\ c.value = "tracing" ->
           <<"write_override", "reload_systemd", "restart_iwd">>
               \o If(ShouldTrace, "start_trace")
      [] c.op = "backend" ->
           <<"write_settings", "stop_nm", "stop_other", "ensure_interface", "start_nm">>
      [] c.op = "power" ->
           If(wlan, "set_power_save") \o <<"write_settings", "reload_nm">>

\* get_nm_settings: the backend and power management of before, which those who
\* set one of them read, and write back with it.
NewSettings(c) ==
    CASE c.op = "backend" -> [nmConf EXCEPT !.backend = c.value]
      [] c.op = "power" -> [nmConf EXCEPT !.powersave = c.value]
      [] OTHER -> nmConf

\* Refused are tracing without iwd, and a backend while tracing.
WifiRefused(c) ==
    \/ c.op = "debug" /\ nmConf.backend # "iwd"
    \/ c.op = "backend" /\ debug = "tracing"

\* A method starts. Debug mode that is set already is not set again.
Accept(c) ==
    /\ result # "running"
    /\ ~(c.op = "debug" /\ c.value = debug)
    /\ wifiCall' = c
    /\ IF WifiRefused(c)
       THEN result' = "error" /\ todo' = <<>>
       ELSE result' = "running" /\ todo' = StepsOf(c)
    /\ new' = NewSettings(c)
    /\ oldTaken' = FALSE
    /\ UNCHANGED <<debug, filePart, unitPart, faults, halfway>>

\* A unit that stops. iwd may destroy the interface.
StopUnit(b) ==
    /\ units' = units \ {b}
    /\ iwdDebug' = (iwdDebug /\ b # "iwd")
    /\ wlan' = (wlan /\ ~(b = "iwd" /\ b \in units /\ IwdDropsInterface))
    /\ UNCHANGED powerSave

\* ensure_default_interface adds one if `iw dev` lists none, and waits until it
\* does; how a new one saves power is up to its driver.
EnsureInterface ==
    /\ wlan' = TRUE
    /\ powerSave' \in IF wlan THEN {powerSave} ELSE BOOLEAN
    /\ UNCHANGED <<units, iwdDebug>>

\* get_wifi_power_management_state: what `iw` says of the interfaces it lists.
ShownPower == IF wlan THEN {powerSave} ELSE {}

WifiFiles(s) ==
    /\ override' = CASE s = "write_override" -> TRUE
                     [] s = "remove_override" -> FALSE
                     [] OTHER -> override
    /\ reloaded' = IF s = "reload_systemd" THEN override ELSE reloaded
    /\ nmConf' = IF s = "write_settings" THEN new ELSE nmConf

\* The services and trace-cmd. Of NetworkManager and iwd only the stop, and
\* the reload, are waited for.
Units(s) ==
    /\ tracing' = CASE s = "start_trace" -> TRUE
                    [] s = "stop_trace" -> FALSE
                    [] OTHER -> tracing
    /\ nm' = IF s = "stop_nm" THEN "off" ELSE nm
    /\ CASE s = "stop_other" -> StopUnit(Other(new.backend))
         [] s = "ensure_interface" -> EnsureInterface
         [] s = "set_power_save" ->
              powerSave' = wifiCall.value /\ UNCHANGED <<units, iwdDebug, wlan>>
         [] OTHER -> UNCHANGED <<units, iwdDebug, wlan, powerSave>>
    /\ jobs' = CASE s \in {"restart_iwd", "start_nm"} -> jobs \cup {s}
                 [] OTHER -> jobs

\* NetworkManager cannot be reloaded when it does not run, and JobMode::Fail
\* refuses to stop a unit that is to be started.
Impossible(s) ==
    CASE s = "reload_nm" -> nm = "off" /\ "start_nm" \notin jobs
      [] s = "stop_nm" -> "start_nm" \in jobs
      [] s = "stop_other" -> Other(new.backend) = "iwd" /\ "restart_iwd" \in jobs
      [] OTHER -> FALSE

\* A reload comes after the start it finds.
Step ==
    /\ todo # <<>>
    /\ ~Impossible(Head(todo))
    /\ Head(todo) = "reload_nm" => nm # "off"
    /\ WifiFiles(Head(todo))
    /\ Units(Head(todo))
    /\ todo' = Tail(todo)
    /\ UNCHANGED <<debug, wifiCall, result, new, faults, wifiGhosts>>

\* The call ends with the error; what it has done stays done.
StepFails ==
    /\ todo # <<>>
    /\ \/ faults < MaxWifiFaults /\ faults' = faults + 1
       \/ Impossible(Head(todo)) /\ faults' = faults
    /\ todo' = <<>>
    /\ result' = "error"
    /\ halfway' = (halfway \/ wifiCall.op = "debug")
    /\ UNCHANGED <<debug, wifiCall, new, filePart, unitPart, oldTaken>>

\* Only now is the mode what was asked for.
Succeed ==
    /\ result = "running"
    /\ todo = <<>>
    /\ result' = "ok"
    /\ debug' = IF wifiCall.op = "debug" THEN wifiCall.value ELSE debug
    /\ halfway' = (halfway /\ wifiCall.op # "debug")
    /\ UNCHANGED <<wifiCall, todo, new, filePart, unitPart, faults, oldTaken>>

\* The root daemon is stopped, and started again.
RestartRoot ==
    /\ faults < MaxWifiFaults
    /\ faults' = faults + 1
    /\ halfway' = (halfway \/ debug = "tracing"
                           \/ (result = "running" /\ wifiCall.op = "debug"))
    /\ debug' = "off"
    /\ wifiCall' = NoCall
    /\ todo' = <<>>
    /\ result' = "ok"
    /\ UNCHANGED <<new, filePart, unitPart, oldTaken>>

-----------------------------------------------------------------------------
(* systemd and NetworkManager (external).                                  *)

IwdRestarts ==
    /\ "restart_iwd" \in jobs
    /\ jobs' = jobs \ {"restart_iwd"}
    /\ units' = units \cup {"iwd"}
    /\ iwdDebug' = reloaded
    /\ UNCHANGED <<daemonPart, filePart, tracing, nm, wlan, powerSave, faults, wifiGhosts>>

\* NetworkManager starts the service it is configured for, if there is an
\* interface, which then saves power as the settings say.
NmStarts ==
    /\ "start_nm" \in jobs
    /\ jobs' = jobs \ {"start_nm"}
    /\ nm' = nmConf.backend
    /\ units' = IF wlan THEN units \cup {nmConf.backend} ELSE units
    /\ powerSave' = IF wlan THEN nmConf.powersave ELSE powerSave
    /\ iwdDebug' = IF wlan /\ nmConf.backend = "iwd" /\ "iwd" \notin units
                   THEN reloaded ELSE iwdDebug
    /\ oldTaken' = (result = "running")
    /\ UNCHANGED <<daemonPart, filePart, tracing, wlan, faults, halfway>>

WifiNext ==
    \/ \E c \in WifiCalls : Accept(c)
    \/ Step \/ StepFails \/ Succeed \/ RestartRoot
    \/ IwdRestarts \/ NmStarts

WifiSpec == WifiInit /\ [][WifiNext]_wifiVars

-----------------------------------------------------------------------------
(* Properties.                                                             *)

Settled == result # "running" /\ jobs = {}

\* What the interface shows is what the system does. The files, iwd and
\* trace-cmd are as the debug mode says, also after failed calls that were
\* repeated. (One that failed or was cut short and was not repeated leaves them
\* halfway. A mode that could not be enabled is not undone by disabling it,
\* which the daemon takes for done.) And a backend that was set is the only one
\* that runs, with an interface, and with the NetworkManager that uses it, also
\* if an earlier attempt stopped halfway, and whether or not iwd takes the
\* interface along. Power management that was set is what the files say and what
\* an interface has, unless NetworkManager, which a change of the backend leaves
\* to start by itself, started meanwhile with the settings of before.
SystemIsInMode ==
    /\ Settled /\ ~halfway =>
          /\ override = (debug = "tracing")
          /\ tracing = (debug = "tracing" /\ ShouldTrace)
          /\ iwdDebug = (debug = "tracing")
          /\ debug = "tracing" => nmConf.backend = "iwd" /\ "iwd" \in units
    /\ Settled /\ wifiCall.op = "backend" /\ result = "ok" =>
          /\ nmConf.backend = wifiCall.value
          /\ nm = wifiCall.value
          /\ units = {wifiCall.value}
          /\ wlan
    /\ Settled /\ wifiCall.op = "power" /\ result = "ok" =>
          /\ nmConf.powersave = wifiCall.value
          /\ ~oldTaken => ShownPower \subseteq {wifiCall.value}
=============================================================================
