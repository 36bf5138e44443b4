--------------------------- MODULE HardwareDrivers ---------------------------
(***************************************************************************)
(* What each driver of a hardware setting reads and writes                 *)
(* (src/steamos-manager/src/gpu.rs, power.rs, hardware.rs, audio.rs and    *)
(* cec.rs), as operators of the files f it finds. A setter is the sequence *)
(* of the writes it makes, one after another. The drivers keep apart: each *)
(* has files of its own.                                                   *)
(***************************************************************************)
EXTENDS Integers, Sequences

CONSTANTS
    Lo, Hi,              (* the range of clocks, and of TDP limits         *)
    SpptMin, FpptMin,    (* min_value of ppt_pl2_sppt and ppt_pl3_fppt     *)
    PolicyFile,          (* cpufreq's policies, in the directory's order   *)
    PowerScale,          (* power_scale of the ALIB configuration          *)
    WordMax              (* the largest u32                                *)

PolicyFiles == {PolicyFile[i] : i \in 1..Len(PolicyFile)}

\* Every machine has policy0, and no policy has the name of another file.
ASSUME DriverAssumption ==
    /\ {Lo, Hi, SpptMin, FpptMin, PowerScale, WordMax} \subseteq Nat
    /\ 0 < Lo /\ Lo <= Hi /\ Hi <= WordMax
    /\ PolicyFile \in Seq(STRING) /\ "policy0" \in PolicyFiles
    /\ PolicyFiles \cap {"profile", "unit", "mono_key", "commit", "cached"} = {}
    /\ 0 < PowerScale

Is(op, value) == [op |-> op, value |-> value]
Write(file, value) == [file |-> file, value |-> value]

\* What a getter shows when it fails, and a value that no enum has.
Error == "error"
Unknown == "unknown"

Values == 0 .. Hi + 1
AtLeast(v, m) == IF v < m THEN m ELSE v

-----------------------------------------------------------------------------
(* gpu.rs: the power profile. The kernel's file has names in capitals, and *)
(* one that the daemon does not know.                                      *)

AmdgpuPowerProfile == {"video", "capped", "uncapped"}
LowerCase == [POWER_SAVING |-> "power_saving", VIDEO |-> "video",
              CAPPED |-> "capped", UNCAPPED |-> "uncapped"]
KernelProfiles == DOMAIN LowerCase

\* What a client is offered are the kernel's names: on a Deck two of them.
OfferedPowerProfiles(deck) ==
    IF deck THEN {"CAPPED", "UNCAPPED"} ELSE KernelProfiles

\* The line with the star; it may be one the daemon does not know.
ShownPowerProfile(f) ==
    LET name == LowerCase[f["power_profile"]]
    IN  IF name \in AmdgpuPowerProfile THEN name ELSE Error

\* The number of the profile, which is what the kernel calls it by.
PowerProfileWrites(p) ==
    <<Write("power_profile", CHOOSE k \in KernelProfiles : LowerCase[k] = p)>>

-----------------------------------------------------------------------------
(* gpu.rs: the performance level and the clock.                            *)

AmdgpuPerformanceLevel == {"auto", "low", "high", "manual", "profile_peak"}
IntelPerformanceLevel == {"auto", "manual"}

\* amdgpu offers its levels if the kernel has the file.
OfferedAmdgpuLevels(f) ==
    IF "force_level" \in DOMAIN f THEN AmdgpuPerformanceLevel ELSE {}

ShownAmdgpuLevel(f) ==
    IF f["force_level"] \in AmdgpuPerformanceLevel THEN f["force_level"] ELSE Error

AmdgpuLevelWrites(l) == <<Write("force_level", l)>>

\* The clocks offered: all from the lowest level to the highest.
AmdgpuClocks(levels) ==
    {c \in Values : \E l, h \in levels : l <= c /\ c <= h}

\* MUTANT of AmdgpuClockWrites: without the commit.
AmdgpuClockWritesStaged(c) == <<Write("s0", c), Write("s1", c)>>

\* Both ends, and then the commit.
AmdgpuClockWrites(c) == <<Write("s0", c), Write("s1", c), Write("commit", 0)>>

ShownAmdgpuClock(f) == f["min"]

\* Intel has no level: a range of more than one clock is automatic.
ShownIntelLevel(f) == IF f["min"] < f["max"] THEN "auto" ELSE "manual"

\* Automatic is the whole range, manual a range that is one clock.
IntelLevelWrites(l) ==
    LET mean == (Lo + Hi) \div 2
    IN  IF l = "auto" THEN <<Write("min", Lo), Write("max", Hi)>>
        ELSE <<Write("min", mean), Write("max", mean)>>

IntelClocks == Lo..Hi

\* The clocks are left alone unless the level is found manual.
IntelClockWrites(c, f) ==
    IF ShownIntelLevel(f) = "auto" THEN <<>> ELSE <<Write("min", c), Write("max", c)>>

-----------------------------------------------------------------------------
(* power.rs: the TDP limit.                                                *)

\* power2_cap is written if it is there.
AmdgpuLimitWrites(v, f) ==
    <<Write("power1_cap", v)>>
    \o IF "power2_cap" \in DOMAIN f THEN <<Write("power2_cap", v)>> ELSE <<>>

\* The getter refuses while limiting is not active (ensure!), which the property
\* of the interface shows as 0 (unwrap_or).
ShownAmdgpuLimit(f, active) == IF active THEN f["power1_cap"] ELSE 0

\* The slow and the fast limit have minimums of their own.
FirmwareLimitWrites(v) ==
    <<Write("spl", v), Write("sppt", AtLeast(v, SpptMin)), Write("fppt", AtLeast(v, FpptMin))>>
ShownFirmwareLimit(f, active) == IF active THEN f["spl"] ELSE 0

\* The range is what the firmware says, or the configuration.
FirmwareRange == Lo..Hi
ConfiguredRange == Lo..Hi

\* The four limits of an ALIB payload are the scaled value; one that does not
\* fit is an error (checked_mul).
AlibOverflows(v) == v * PowerScale > WordMax
AlibPayload(v) == [p \in {"stapm", "fast", "slow", "skin"} |-> v * PowerScale]

\* ALIB cannot be read: the limit is kept, and shown whether it is active or not.
AlibLimitWrites(v) == <<Write("acpi_call", AlibPayload(v)), Write("cached", v)>>

-----------------------------------------------------------------------------
(* power.rs: the CPU and the platform profile.                             *)

CPUScalingGovernor == {"powersave", "performance"}
KernelGovernors == {"powersave", "performance", Unknown}

\* The words of the kernel's list that the daemon knows.
OfferedGovernors == KernelGovernors \cap CPUScalingGovernor

\* The governor of the first policy is that of all.
ShownGovernor(f) ==
    IF f["policy0"] \in CPUScalingGovernor THEN f["policy0"] ELSE Error

GovernorWrites(g) == [i \in 1..Len(PolicyFile) |-> Write(PolicyFile[i], g)]

\* cpufreq's file comes first, intel_pstate's no_turbo is boost upside down.
BoostFile(f) == IF "boost" \in DOMAIN f THEN "boost" ELSE "no_turbo"
ShownBoost(f) == f[BoostFile(f)] = (IF BoostFile(f) = "boost" THEN 1 ELSE 0)
BoostWrites(b, f) ==
    <<Write(BoostFile(f), IF b = (BoostFile(f) = "boost") THEN 1 ELSE 0)>>

CpuScheduler == {"none", "lavd"}

\* lavd needs scx.service.
OfferedSchedulers(installed) == IF installed THEN CpuScheduler ELSE {"none"}

\* start and stop of scx.service; nothing for the scheduler that is current.
SchedulerWrites(s, current, installed) ==
    IF s = current THEN <<>>
    ELSE (IF installed THEN <<Write("unit", s)>> ELSE <<>>) \o <<Write("cached", s)>>

\* What the kernel offers is passed on, and its words are not looked at.
OfferedPlatformProfiles == {"capped", "uncapped"}
ShownPlatformProfile(f) == f["profile"]
PlatformProfileWrites(p) == <<Write("profile", p)>>

-----------------------------------------------------------------------------
(* hardware.rs: the fan. audio.rs. cec.rs: waking up.                      *)

FanControlState == {"bios", "os"}

\* The fan's control is a unit of systemd, or three scripts.
ShownFanState(f) ==
    IF "unit" \in DOMAIN f THEN f["unit"]
    ELSE IF f["fan_script"] \in FanControlState THEN f["fan_script"] ELSE Error

FanWrites(s, f) ==
    <<Write(IF "unit" \in DOMAIN f THEN "unit" ELSE "fan_script", s)>>

AudioModes == {"mono", "stereo"}

\* What the manager finds at its start; it goes on if it finds nothing.
LoadedMode(f) == {f["mono_key"], Error}

\* wpctl, unless the mode is the one the manager remembers.
AudioWrites(m, current) ==
    IF m = current THEN <<>> ELSE <<Write("mono_key", m), Write("cached", m)>>

\* The embedded controller has a line for each port, and this machine one port.
EcPort == "port0"
CanAwaken(f) == EcPort \in DOMAIN f
ShownAwaken(f) == IF CanAwaken(f) THEN f[EcPort] = 1 ELSE Error
AwakenWrites(b) == <<Write(EcPort, IF b THEN 1 ELSE 0)>>
=============================================================================
