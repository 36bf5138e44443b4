--------------------------- MODULE UserInterfaces ---------------------------
(***************************************************************************)
(* Which interfaces the user daemon exports (create_interfaces of          *)
(* manager/user.rs and what it asks: hardware.rs, platform.rs, power.rs,   *)
(* audio.rs, wifi.rs). TdpLimit1 comes and goes later: PerformanceProfile. *)
(* The daemon goes through StartOrder and asks the machine one thing after *)
(* the other; only when it is through does it start its services and take  *)
(* its name. `odd` is what is not as it should be about the machine.       *)
(***************************************************************************)
EXTENDS Naturals, Sequences

CONSTANT Machines        (* the sets of troubles that a machine may have   *)

\* What the daemon can have an object for (WifiDebug1 and its neighbours come
\* in pairs), and what it starts along with them.
Exportable ==
    {"AmbientLightSensor1", "Audio1", "BatteryChargeLimit1", "CpuBoost1", "CpuScaling1",
     "CpuScheduler1", "FactoryReset1", "FanControl1", "GpuPerformanceLevel1",
     "GpuPowerProfile1", "HdmiCec1", "LowPowerMode1", "Manager2", "PerformanceProfile1",
     "RemoteInterface1", "SessionManagement1", "Storage1", "UpdateBios1", "UpdateDock1",
     "WifiBackend1", "WifiDebug1", "WifiDebugDump1", "WifiPowerManagement1"}
StartedAlong == {"TdpLimit1_task", "session_manager_service", "screen_reader_setup_service"}

Scripts == {"all", "os", "user", "start", "stop", "status", "trim", "format",
            "bios", "dock"}

\* What the configuration of a device may leave out (DeviceConfig: its Options;
\* without a TDP limit there is no download limit either, and the TDP manager
\* is the one of a remote).
ConfiguredParts == {"download_limit", "gpu_level", "gpu_profile", "profiles", "battery"}

\* What can be wrong, part by part. "absent" is also what is not configured,
\* and a fan that is a unit of systemd is no trouble, but it is no script.
Trouble ==
    (Scripts \X {"absent", "folder", "not_executable", "unreadable"})
      \cup ({"vendor", "board", "product", "scx", "audio", "session_check",
             "session_service", "wifi"} \X {"absent", "unreadable"})
      \cup ({"config_folder", "our_config", "platform_config", "cpu_boost",
             "cec_units", "cec", "remotes", "remote_owners", "session_manager"}
               \X {"unreadable"})
      \cup (ConfiguredParts \X {"absent"})
      \cup ({"tdp_method", "profiles", "battery"} \X {"unreadable"})
      \cup ({"our_config", "steam_deck", "galileo"} \X {"other"})
      \cup ({"fan_unit"} \X {"loaded", "absent", "unreadable"})

\* A part has one trouble.
ASSUME MachinesAssumption ==
    \A m \in Machines : m \subseteq Trouble /\ \A t, u \in m : t[1] = u[1] => t = u

VARIABLES
    odd,                 (* what is wrong about this machine               *)
    position,            (* how far create_interfaces is in StartOrder     *)
    startFailed,         (* it returned an error                           *)
    served,              (* the interfaces it exported, and services       *)
    named                (* the daemon has its name                        *)

interfacesVars == <<odd, position, startFailed, served, named>>

-----------------------------------------------------------------------------
(* What the machine answers: "yes", "no" or "error".                       *)

Condition(part) ==
    IF \E t \in odd : t[1] = part THEN (CHOOSE t \in odd : t[1] = part)[2] ELSE "fine"

Fine(parts) == \A p \in parts : Condition(p) = "fine"

YesNo(b) == IF b THEN "yes" ELSE "no"

\* A file or a call: not there, failing, or as it should be.
Plain(part) ==
    CASE Condition(part) = "fine" -> "yes"
      [] Condition(part) = "unreadable" -> "error"
      [] OTHER -> "no"

\* ScriptConfig::is_valid for one script after the other: the first that is
\* not valid says what they are together.
AllValid(scripts) ==
    IF \E k \in 1..Len(scripts) : Plain(scripts[k]) # "yes"
    THEN LET first == CHOOSE k \in 1..Len(scripts) :
                          /\ Plain(scripts[k]) # "yes"
                          /\ \A l \in 1..k - 1 : Plain(scripts[l]) = "yes"
         IN  Plain(scripts[first])
    ELSE "yes"

\* device_match: the vendor and one of the board and the product, but the files
\* of all three are read.
DeviceMatch(ours) ==
    CASE Condition("vendor") = "absent" -> "no"
      [] \E f \in {"vendor", "board", "product"} : Condition(f) = "unreadable" -> "error"
      [] OTHER -> YesNo(ours /\ (Fine({"board"}) \/ Fine({"product"})))

\* DeviceConfig::load: a file that cannot be read or parsed is passed over, one
\* of another device is always there, and an error of device_match ends it.
DeviceConfig ==
    IF Condition("config_folder") = "unreadable" THEN "error"
    ELSE DeviceMatch(Condition("our_config") = "fine")

\* PlatformConfig::load: a file that is not there is an error as well.
PlatformConfig == Plain("platform_config")

\* What a setting needs that the configuration of the device describes.
Configured1(part) ==
    IF DeviceConfig = "yes" THEN Plain(part) ELSE "error"

ServiceValid ==
    IF Fine({"fan_unit"}) THEN AllValid(<<"start", "stop", "status">>)
    ELSE IF Condition("fan_unit") = "loaded" THEN "yes" ELSE Plain("fan_unit")

\* StorageConfig::is_valid; a format_device is looked at like a script.
StorageValid == AllValid(<<"trim", "format">>)

\* tdp_limit_manager: without a configuration it is the one of a remote.
TdpManagerIsThere ==
    CASE DeviceConfig = "error" -> "error"
      [] DeviceConfig = "yes" -> Plain("tdp_method")
      [] OTHER -> "yes"

Checks(check) ==
    CASE check = "always" -> "yes"
      [] check = "device_config" -> DeviceConfig
      [] check = "tdp_manager" -> YesNo(TdpManagerIsThere = "yes")
      [] check = "reset_scripts" -> AllValid(<<"all", "os", "user">>)
      [] check = "fan_service" -> ServiceValid
      [] check = "storage_scripts" -> StorageValid
      [] check = "platform_config" -> PlatformConfig
      [] check = "bios_script" -> AllValid(<<"bios">>)
      [] check = "dock_script" -> AllValid(<<"dock">>)
      [] check = "steam_deck" -> YesNo(DeviceConfig = "yes" /\ Fine({"steam_deck"}))
      [] check = "galileo" -> YesNo(Fine({"vendor", "board", "galileo"}))
      [] check \in {"battery", "gpu_level", "gpu_profile"} -> Configured1(check)
      [] OTHER -> Plain(check)

-----------------------------------------------------------------------------
(* The order of create_interfaces. A step serves its interfaces when the   *)
(* check says yes; otherwise `skips` more steps are passed over, and an    *)
(* error ends the start when it is `fatal`.                                *)

Start(check, serves) == [check |-> check, serves |-> serves, skips |-> 0, fatal |-> FALSE]
Fatal(check, serves) == [Start(check, serves) EXCEPT !.fatal = TRUE]
Unless(check, skips) == [Start(check, {}) EXCEPT !.skips = skips]

\* Before anything is exported, what an error of ends the daemon.
BuildSteps ==
    <<Fatal("cec_units", {}), Fatal("remotes", {}), Fatal("session_manager", {})>>

\* MUTANT of DeviceSteps: without a TDP manager the whole group is passed over.
DeviceStepsTdpFirst ==
    <<Unless("device_config", 4), Unless("tdp_manager", 3),
      Start("download_limit", {"LowPowerMode1"}), Start("always", {"TdpLimit1_task"}),
      Start("profiles", {"PerformanceProfile1"})>>

\* TdpLimit1 is left to a task, which waits for the TDP manager.
DeviceSteps ==
    <<Unless("device_config", 4), Unless("tdp_manager", 2),
      Start("download_limit", {"LowPowerMode1"}), Start("always", {"TdpLimit1_task"}),
      Start("profiles", {"PerformanceProfile1"})>>

PlatformSteps ==
    <<Unless("platform_config", 5),
      Start("reset_scripts", {"FactoryReset1"}), Start("fan_service", {"FanControl1"}),
      Start("storage_scripts", {"Storage1"}), Start("bios_script", {"UpdateBios1"}),
      Start("dock_script", {"UpdateDock1"})>>

ChipSteps ==
    <<Start("steam_deck", {"AmbientLightSensor1"}), Start("always", {"WifiBackend1"}),
      Start("galileo", {"WifiDebug1", "WifiDebugDump1"}),
      Start("battery", {"BatteryChargeLimit1"}), Start("cpu_boost", {"CpuBoost1"}),
      Start("always", {"CpuScaling1"}), Fatal("scx", {"CpuScheduler1"}),
      Start("gpu_level", {"GpuPerformanceLevel1"}),
      Start("gpu_profile", {"GpuPowerProfile1"})>>

\* What comes last: RemoteInterface1, whose owners may not fail.
LastSteps ==
    <<Start("cec", {"HdmiCec1"}), Start("always", {"Manager2"}),
      Fatal("audio", {"Audio1"}), [Fatal("session_check", {}) EXCEPT !.skips = 2],
      Start("session_service", {"session_manager_service", "screen_reader_setup_service"}),
      Start("always", {"SessionManagement1"}), Start("wifi", {"WifiPowerManagement1"}),
      Fatal("remote_owners", {"RemoteInterface1"})>>

StartOrder == BuildSteps \o DeviceSteps \o PlatformSteps \o ChipSteps \o LastSteps

-----------------------------------------------------------------------------
InterfacesTypeOK ==
    /\ odd \subseteq Trouble
    /\ position \in 1..Len(StartOrder) + 1
    /\ startFailed \in BOOLEAN /\ named \in BOOLEAN
    /\ served \subseteq Exportable \cup StartedAlong

InterfacesInit ==
    /\ odd \in Machines
    /\ position = 1
    /\ startFailed = FALSE
    /\ served = {}
    /\ named = FALSE

\* The next step of create_interfaces.
StartStep ==
    /\ ~startFailed
    /\ position <= Len(StartOrder)
    /\ LET s == StartOrder[position]
           answer == Checks(s.check)
       IN  /\ served' = served \cup IF answer = "yes" THEN s.serves ELSE {}
           /\ position' = position + 1 + IF answer = "yes" THEN 0 ELSE s.skips
           /\ startFailed' = (s.fatal /\ answer = "error")
    /\ UNCHANGED <<odd, named>>

\* Daemon::run: the services run, and a task takes the name.
TakeName ==
    /\ ~startFailed /\ ~named
    /\ position > Len(StartOrder)
    /\ named' = TRUE
    /\ UNCHANGED <<odd, position, startFailed, served>>

InterfacesNext == StartStep \/ TakeName

InterfacesSpec == InterfacesInit /\ [][InterfacesNext]_interfacesVars

-----------------------------------------------------------------------------
(* What the interfaces promise.                                            *)

Dmi == {"vendor", "config_folder", "our_config"}
OnDevice ==
    /\ Fine(Dmi)
    /\ \A f \in {"board", "product"} : Condition(f) # "unreadable"
    /\ \E f \in {"board", "product"} : Fine({f})

\* What each interface needs to be fine; of a device those that are described
\* in its configuration.
Needs ==
    [FactoryReset1 |-> {"platform_config", "all", "os", "user"},
     Storage1 |-> {"platform_config", "trim", "format"},
     UpdateBios1 |-> {"platform_config", "bios"}, UpdateDock1 |-> {"platform_config", "dock"},
     WifiBackend1 |-> {}, WifiDebug1 |-> {"vendor", "board", "galileo"},
     WifiDebugDump1 |-> {"vendor", "board", "galileo"}, CpuBoost1 |-> {"cpu_boost"},
     CpuScaling1 |-> {}, CpuScheduler1 |-> {"scx"}, HdmiCec1 |-> {"cec"}, Manager2 |-> {},
     Audio1 |-> {"audio"}, SessionManagement1 |-> {"session_check"},
     WifiPowerManagement1 |-> {"wifi"}, RemoteInterface1 |-> {}]
NeedsOnDevice ==
    [PerformanceProfile1 |-> {"profiles"}, LowPowerMode1 |-> {"tdp_method", "download_limit"},
     AmbientLightSensor1 |-> {"steam_deck"}, BatteryChargeLimit1 |-> {"battery"},
     GpuPerformanceLevel1 |-> {"gpu_level"}, GpuPowerProfile1 |-> {"gpu_profile"}]

FanIsControlled ==
    /\ Fine({"platform_config"})
    /\ \/ Fine({"fan_unit", "start", "stop", "status"})
       \/ Condition("fan_unit") = "loaded"

\* A client that finds the daemon's name finds all the machine supports and
\* nothing else, whatever could not be read about the rest: an error in one
\* check costs no other interface its place (create_interfaces, which exports
\* everything before Daemon::run takes the name).
SupportedIsServed ==
    named =>
       /\ \A i \in DOMAIN Needs : i \in served <=> Fine(Needs[i])
       /\ \A i \in DOMAIN NeedsOnDevice :
             i \in served <=> OnDevice /\ Fine(NeedsOnDevice[i])
       /\ "FanControl1" \in served <=> FanIsControlled
       /\ "session_manager_service" \in served
            <=> Fine({"session_check", "session_service"})

=============================================================================
