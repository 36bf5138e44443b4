-------------------------- MODULE HardwareSettings --------------------------
(***************************************************************************)
(* The settings of the GPU, the TDP limit, the CPU, the fan, the sound and *)
(* waking up: a call of a client goes from the user daemon to the root     *)
(* daemon (manager/user.rs, manager/root.rs), which writes what            *)
(* HardwareDrivers says, one write after another. The kernel may refuse    *)
(* one, and what was written stays. The methods are those of an interface  *)
(* with spawn = false: they run one after another. A TDP limit is queued   *)
(* for TdpManagerService instead, and the client has its answer before     *)
(* anything is done (download mode, which has the service skip it, is in   *)
(* TdpManager). The drivers share nothing: a behaviour is about one.       *)
(***************************************************************************)
EXTENDS HardwareDrivers

CONSTANTS
    MaxHwFaults,         (* how many writes, jobs or daemons fail          *)
    MaxQueuedLimits      (* how many TDP limits wait                       *)

ASSUME HardwareAssumption == {MaxHwFaults, MaxQueuedLimits} \subseteq Nat

TdpDrivers == {"tdp_amdgpu", "tdp_firmware", "tdp_alib"}
Drivers == {"gpu_profile", "gpu_amdgpu", "gpu_intel", "tdp_amdgpu", "tdp_firmware",
            "tdp_alib", "profile", "governor", "boost", "scheduler", "fan", "audio",
            "wake"}

VARIABLES
    driver,              (* which setting this is about                    *)
    deck,                (* is the machine a Steam Deck?                   *)
    found,               (* is it configured, and there?                   *)
    file,                (* what the files say                             *)
    tdpActive,           (* is_active of the TDP limit manager             *)
    held,                (* CpuSchedulerManager::current,                  *)
                         (* AudioManager::mode, cached_limit               *)
    hwJobs,              (* systemd's jobs for the unit                    *)
    queued,              (* the TDP limits that TdpManagerService has not  *)
                         (* taken from its channel yet                     *)
    setting,             (* the call that runs, or ran last                *)
    writes,              (* what it still has to write                     *)
    answer,              (* the root daemon's: "running", "ok" or "error"  *)
    hwFaults,
    outOfStep            (* did a job fail, a daemon start, or somebody    *)
                         (* else make the setting, since a call did?       *)

hardwareVars == <<driver, deck, found, file, tdpActive, held, hwJobs, queued, setting,
                  writes, answer, hwFaults, outOfStep>>

FilesAre(names, value) == [n \in names |-> value]

\* What the firmware or the kernel's driver has set.
InitialFiles(d) ==
    CASE d = "gpu_profile" -> {FilesAre({"power_profile"}, k) : k \in KernelProfiles}
      [] d = "gpu_amdgpu" ->
           {[force_level |-> "auto", s0 |-> Lo, s1 |-> Hi, min |-> Lo, max |-> Hi]}
      [] d = "gpu_intel" -> {[min |-> Lo, max |-> Hi]}
      [] d = "tdp_amdgpu" ->
           {FilesAre(n, Lo) : n \in {{"power1_cap"}, {"power1_cap", "power2_cap"}}}
      [] d = "tdp_firmware" -> {FilesAre({"spl", "sppt", "fppt"}, Lo)}
      [] d = "tdp_alib" -> {FilesAre({"acpi_call"}, AlibPayload(Lo))}
      [] d = "profile" -> {FilesAre({"profile"}, "capped")}
      [] d = "governor" -> {FilesAre(PolicyFiles, g) : g \in KernelGovernors}
      [] d = "boost" -> {FilesAre(n, 1) : n \in {{"no_turbo"}, {"boost", "no_turbo"}}}
      [] d = "scheduler" -> {FilesAre({"unit"}, s) : s \in OfferedSchedulers(found)}
      [] d = "fan" -> {FilesAre({n}, "os") : n \in {"unit", "fan_script"}}
      [] d = "audio" -> {FilesAre({"mono_key"}, "stereo")}
      [] d = "wake" -> {FilesAre({"port0", "port1"}, 0)}

\* What the managers with a field find: the schedulers' manager asks whether
\* scx.service, if it is there, is enabled. Whether it is has nothing to do with
\* whether it runs, and no setter changes it.
Loaded ==
    CASE driver = "scheduler" -> OfferedSchedulers(found)
      [] driver = "tdp_alib" -> {Lo}
      [] driver = "audio" -> LoadedMode(file)
      [] OTHER -> {Error}

HardwareInit ==
    /\ driver \in Drivers
    /\ deck \in BOOLEAN /\ (deck => driver = "gpu_profile")
    /\ found \in BOOLEAN /\ (driver = "audio" => found)
    /\ file \in InitialFiles(driver)
    /\ tdpActive \in BOOLEAN
    /\ held \in Loaded
    /\ hwJobs = {}
    /\ queued = <<>>
    /\ setting = Is("none", 0)
    /\ writes = <<>>
    /\ answer = "ok"
    /\ hwFaults = 0
    /\ outOfStep = (driver = "scheduler" /\ held # file["unit"])

-----------------------------------------------------------------------------
(* The calls of clients, interface by interface: a client sets what it was *)
(* offered, or anything else.                                              *)

Sets(op, values) == {Is(op, v) : v \in values}

GpuPowerProfile1 ==
    Sets("power_profile", OfferedPowerProfiles(deck) \cup AmdgpuPowerProfile)
GpuPerformanceLevel1 ==
    CASE driver = "gpu_amdgpu" -> Sets("level", OfferedAmdgpuLevels(file) \cup {Unknown})
      [] driver = "gpu_intel" -> Sets("level", IntelPerformanceLevel \cup {Unknown})
GpuClocks1 == Sets("clock", AmdgpuClocks({Lo, Hi}) \cup IntelClocks \cup {0, Hi + 1})
TdpLimit1 == Sets("tdp", FirmwareRange \cup ConfiguredRange \cup {0, Hi + 1})
PerformanceProfile1 == Sets("profile", OfferedPlatformProfiles \cup {Unknown})
CpuScaling1 == Sets("governor", OfferedGovernors \cup {Unknown})
CpuBoost1 == Sets("boost", BOOLEAN)
CpuScheduler1 == Sets("scheduler", OfferedSchedulers(found) \cup {"lavd", Unknown})
FanControl1 == Sets("fan", FanControlState \cup {Unknown})
Audio1 == Sets("audio", AudioModes \cup {Unknown})
HdmiCecAwaken == Sets("wake", BOOLEAN)

HardwareCalls ==
    CASE driver = "gpu_profile" -> GpuPowerProfile1
      [] driver \in {"gpu_amdgpu", "gpu_intel"} -> GpuPerformanceLevel1
      [] driver \in TdpDrivers -> TdpLimit1
      [] driver = "profile" -> PerformanceProfile1
      [] driver = "governor" -> CpuScaling1
      [] driver = "boost" -> CpuBoost1
      [] driver = "scheduler" -> CpuScheduler1
      [] driver = "fan" -> FanControl1
      [] driver = "audio" -> Audio1
      [] driver = "wake" -> HdmiCecAwaken

\* What the getters show. GetTdpLimit waits in the channel behind the limits that
\* were set before, and is answered between two of them.
Shown(op) ==
    CASE op = "power_profile" -> ShownPowerProfile(file)
      [] op = "level" -> IF driver = "gpu_amdgpu" THEN ShownAmdgpuLevel(file)
                         ELSE ShownIntelLevel(file)
      [] op = "clock" -> ShownAmdgpuClock(file)
      [] op = "tdp" -> (CASE driver = "tdp_amdgpu" -> ShownAmdgpuLimit(file, tdpActive)
                           [] driver = "tdp_firmware" -> ShownFirmwareLimit(file, tdpActive)
                           [] driver = "tdp_alib" -> held)
      [] op = "profile" -> ShownPlatformProfile(file)
      [] op = "governor" -> ShownGovernor(file)
      [] op = "boost" -> ShownBoost(file)
      [] op \in {"scheduler", "audio"} -> held
      [] op = "fan" -> ShownFanState(file)
      [] op = "wake" -> ShownAwaken(file)

-----------------------------------------------------------------------------
(* The root daemon.                                                        *)

\* The methods parse first. The names of power profiles are read as the daemon
\* writes them, not as it offers them.
Parses(c) ==
    CASE c.op = "power_profile" -> c.value \in AmdgpuPowerProfile
      [] c.op = "level" -> c.value \in (IF driver = "gpu_amdgpu" THEN AmdgpuPerformanceLevel
                                        ELSE IntelPerformanceLevel)
      [] c.op = "governor" -> c.value \in CPUScalingGovernor
      [] c.op = "scheduler" -> c.value \in CpuScheduler
      [] c.op = "fan" -> c.value \in FanControlState
      [] c.op = "audio" -> c.value \in AudioModes
      [] OTHER -> TRUE

\* No driver; but without scx.service the scheduler can still be "none".
Missing(c) == ~found /\ (c.op = "scheduler" => c.value # "none")

\* is_active of the TDP limit managers, their range, and ALIB's arithmetic.
InvalidLimit(c) ==
    c.op = "tdp" /\ (\/ ~tdpActive
                     \/ c.value \notin Lo..Hi
                     \/ driver = "tdp_alib" /\ AlibOverflows(c.value))

WritesOf(c) ==
    CASE c.op = "power_profile" -> PowerProfileWrites(c.value)
      [] c.op = "level" -> IF driver = "gpu_amdgpu" THEN AmdgpuLevelWrites(c.value)
                           ELSE IntelLevelWrites(c.value)
      [] c.op = "clock" -> IF driver = "gpu_amdgpu" THEN AmdgpuClockWrites(c.value)
                           ELSE IntelClockWrites(c.value, file)
      [] c.op = "tdp" -> (CASE driver = "tdp_amdgpu" -> AmdgpuLimitWrites(c.value, file)
                             [] driver = "tdp_firmware" -> FirmwareLimitWrites(c.value)
                             [] driver = "tdp_alib" -> AlibLimitWrites(c.value))
      [] c.op = "profile" -> PlatformProfileWrites(c.value)
      [] c.op = "governor" -> GovernorWrites(c.value)
      [] c.op = "boost" -> BoostWrites(c.value, file)
      [] c.op = "scheduler" -> SchedulerWrites(c.value, held, found)
      [] c.op = "fan" -> FanWrites(c.value, file)
      [] c.op = "audio" -> AudioWrites(c.value, held)
      [] c.op = "wake" -> AwakenWrites(c.value)

\* The root daemon gets call c.
Begin(c) ==
    /\ answer # "running"
    /\ setting' = c
    /\ IF ~Parses(c) \/ Missing(c) \/ InvalidLimit(c)
       THEN answer' = "error" /\ writes' = <<>>
       ELSE answer' = "running" /\ writes' = WritesOf(c)
    /\ UNCHANGED <<driver, deck, found, file, tdpActive, held, hwJobs, hwFaults,
                   outOfStep>>

\* A client's call, which the user daemon passes on.
Set(c) ==
    /\ driver \notin TdpDrivers
    /\ Begin(c)
    /\ UNCHANGED queued

\* A client sets a TDP limit: it is told Ok when the limit is in the channel, and
\* never what becomes of it. Without a driver there is no such interface.
QueueLimit(c) ==
    /\ driver \in TdpDrivers /\ found
    /\ Len(queued) < MaxQueuedLimits
    /\ queued' = Append(queued, c)
    /\ UNCHANGED <<driver, deck, found, file, tdpActive, held, hwJobs, setting, writes,
                   answer, hwFaults, outOfStep>>

\* TdpManagerService takes the next one when it is done with the last.
TakeLimit ==
    /\ queued # <<>>
    /\ Begin(Head(queued))
    /\ queued' = Tail(queued)

Starts(unit) == unit \in {"lavd", "os"}

\* What the kernel, or systemd, does not take (external): a profile it does not
\* have, a minimum above the maximum, a clock out of range, a clock that is set
\* while the level is not manual, a start while a stop waits, a call of ACPI
\* whose module has gone.
WriteRefused(w) ==
    CASE w.file = "profile" -> w.value \notin OfferedPlatformProfiles
      [] driver = "gpu_intel" /\ w.file = "min" -> w.value \notin Lo .. file["max"]
      [] driver = "gpu_intel" /\ w.file = "max" -> w.value \notin file["min"] .. Hi
      [] driver = "gpu_amdgpu" /\ w.file \in {"s0", "s1", "commit"} ->
           \/ file["force_level"] # "manual"
           \/ w.file # "commit" /\ w.value \notin Lo..Hi
      [] w.file = "unit" -> (IF Starts(w.value) THEN "stop" ELSE "start") \in hwJobs
      [] w.file = "acpi_call" -> ~tdpActive
      [] OTHER -> FALSE

\* A write, or the start or stop of a unit, for which nobody waits. The commit
\* of amdgpu takes the clocks it was told. The field of a manager is last.
Put(w) ==
    /\ file' = CASE w.file = "commit" ->
                      [file EXCEPT !["min"] = file["s0"], !["max"] = file["s1"]]
                 [] w.file \in {"unit", "cached"} -> file
                 [] OTHER -> [file EXCEPT ![w.file] = w.value]
    /\ held' = IF w.file = "cached" THEN w.value ELSE held
    /\ IF w.file = "unit"
       THEN hwJobs' = hwJobs \cup {IF Starts(w.value) THEN "start" ELSE "stop"}
       ELSE hwJobs' = hwJobs
    /\ outOfStep' = (outOfStep /\ w.file \notin {"unit", "mono_key"})

WriteNext ==
    /\ writes # <<>>
    /\ ~WriteRefused(Head(writes))
    /\ Put(Head(writes))
    /\ writes' = Tail(writes)
    /\ UNCHANGED <<driver, deck, found, tdpActive, queued, setting, answer, hwFaults>>

\* The user daemon, which keeps ALIB's limit, may also lose the answer about what
\* was written.
WriteFails ==
    /\ writes # <<>>
    /\ Head(writes).file = "cached" => driver = "tdp_alib"
    /\ \/ WriteRefused(Head(writes)) /\ hwFaults' = hwFaults
       \/ hwFaults < MaxHwFaults /\ hwFaults' = hwFaults + 1
    /\ writes' = <<>>
    /\ answer' = "error"
    /\ UNCHANGED <<driver, deck, found, file, tdpActive, held, hwJobs, queued, setting,
                   outOfStep>>

SetAnswers ==
    /\ answer = "running"
    /\ writes = <<>>
    /\ answer' = "ok"
    /\ UNCHANGED <<driver, deck, found, file, tdpActive, held, hwJobs, queued, setting,
                   writes, hwFaults, outOfStep>>

-----------------------------------------------------------------------------
(* The system.                                                             *)

\* The platform profile changes to or from the one with a TDP limit, and ALIB's
\* module comes or goes; what limits there are stays (external).
ProfileChanges ==
    /\ driver \in TdpDrivers
    /\ tdpActive' = ~tdpActive
    /\ UNCHANGED <<driver, deck, found, file, held, hwJobs, queued, setting, writes,
                   answer, hwFaults, outOfStep>>

\* systemd runs a job for the unit, or fails to.
UnitJobRuns ==
    \E j \in hwJobs, ok \in BOOLEAN :
        /\ ~ok => hwFaults < MaxHwFaults
        /\ hwFaults' = hwFaults + (IF ok THEN 0 ELSE 1)
        /\ outOfStep' = (outOfStep \/ ~ok)
        /\ hwJobs' = hwJobs \ {j}
        /\ file' = IF ok
                   THEN [file EXCEPT !["unit"] =
                           IF driver = "scheduler" THEN IF j = "start" THEN "lavd" ELSE "none"
                           ELSE IF j = "start" THEN "os" ELSE "bios"]
                   ELSE file
        /\ UNCHANGED <<driver, deck, found, tdpActive, held, queued, setting, writes,
                       answer>>

\* Another program sets the sound; nobody tells the daemon.
OtherSets ==
    /\ driver = "audio"
    /\ hwFaults < MaxHwFaults
    /\ hwFaults' = hwFaults + 1
    /\ \E m \in AudioModes : file' = [file EXCEPT !["mono_key"] = m]
    /\ outOfStep' = TRUE
    /\ UNCHANGED <<driver, deck, found, tdpActive, held, hwJobs, queued, setting, writes,
                   answer>>

\* The daemon that has the field, or the channel, starts again, and loads it.
DaemonRestarts ==
    /\ driver \in {"scheduler", "audio"} \cup TdpDrivers
    /\ hwFaults < MaxHwFaults
    /\ hwFaults' = hwFaults + 1
    /\ held' \in Loaded
    /\ queued' = <<>>
    /\ writes' = <<>>
    /\ setting' = Is("none", 0)
    /\ answer' = "ok"
    /\ outOfStep' = (driver = "scheduler")
    /\ UNCHANGED <<driver, deck, found, file, tdpActive, hwJobs>>

HardwareNext ==
    \/ \E c \in HardwareCalls : Set(c) \/ QueueLimit(c)
    \/ TakeLimit
    \/ driver \in {"gpu_amdgpu", "gpu_intel"} /\ \E c \in GpuClocks1 : Set(c)
    \/ WriteNext \/ WriteFails \/ SetAnswers
    \/ ProfileChanges \/ UnitJobRuns \/ OtherSets \/ DaemonRestarts

HardwareSpec == HardwareInit /\ [][HardwareNext]_hardwareVars

-----------------------------------------------------------------------------
(* Properties.                                                             *)

\* The types of the calls' and the managers' state.
HardwareTypeOK ==
    /\ driver \in Drivers
    /\ {deck, found, tdpActive, outOfStep} \subseteq BOOLEAN
    /\ \E f \in InitialFiles(driver) : DOMAIN file = DOMAIN f
    /\ hwJobs \subseteq {"start", "stop"}
    /\ setting.op # "none" =>
          setting \in IF setting.op = "clock" THEN GpuClocks1 ELSE HardwareCalls
    /\ queued \in Seq(HardwareCalls)
    /\ \A i \in 1..Len(writes) : writes[i].file \in DOMAIN file \cup {"commit", "cached"}
    /\ answer \in {"running", "ok", "error"}
    /\ hwFaults \in 0..MaxHwFaults

HwSettled == hwJobs = {} /\ ~outOfStep

\* The value of a call is in force: every file of the setting has it.
InForce(c) ==
    CASE c.op = "clock" ->
           Shown("level") = "manual" => file["min"] = c.value /\ file["max"] = c.value
      [] c.op = "tdp" ->
           /\ c.value \in Lo..Hi
           /\ driver = "tdp_amdgpu" => \A n \in DOMAIN file : file[n] = c.value
           /\ driver = "tdp_firmware" =>
                 /\ file["spl"] <= file["sppt"] /\ file["spl"] <= file["fppt"]
                 /\ file["sppt"] >= SpptMin /\ file["fppt"] >= FpptMin
           /\ driver = "tdp_alib" => file["acpi_call"] = AlibPayload(c.value)
      [] c.op = "governor" -> \A n \in DOMAIN file : file[n] = c.value
      [] c.op = "scheduler" -> HwSettled /\ found => file["unit"] = c.value
      [] c.op = "audio" -> ~outOfStep => file["mono_key"] = c.value
      [] c.op = "wake" -> file["port1"] = 0
      [] OTHER -> TRUE

\* A setter that the root daemon has answered has set the whole setting, whatever
\* the calls before it left halfway, and the getter shows it, without looking at
\* all of it: that of the TDP limit as long as limiting is active, whoever asks
\* next. (The client that set the limit was answered when it was queued, and
\* cannot tell.) The fan's shows it when systemd has done what it was told, and
\* Intel's level is always manual where there is one clock only.
AnswerIsInForce ==
    answer = "ok" /\ setting.op # "none" =>
        /\ InForce(setting)
        /\ \/ Shown(setting.op) = setting.value
           \/ setting.op = "clock" /\ Shown("level") # "manual"
           \/ setting.op = "tdp" /\ ~tdpActive
           \/ setting.op = "level" /\ driver = "gpu_intel" /\ Lo = Hi
           \/ setting.op = "fan" /\ ~HwSettled
=============================================================================
