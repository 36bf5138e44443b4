------------------------------ MODULE WifiDump ------------------------------
(***************************************************************************)
(* GenerateDebugDump (generate_wifi_dump in src/steamos-manager/src/wifi.rs*)
(* and single_poll in udev.rs): the root daemon makes the firmware of the  *)
(* Wi-Fi chip crash and copies the dump that the kernel then offers. The   *)
(* Steam log submitter takes the same dumps, unless a file blocks it.      *)
(* Methods of the root daemon run one after another, so there is one call. *)
(***************************************************************************)
EXTENDS Naturals

CONSTANTS MaxDumps, MaxCrashes      (* calls, and crashes nobody asked for *)

ASSUME DumpAssumption == MaxDumps \in Nat /\ MaxCrashes \in Nat

VARIABLES
    dumpAt,              (* where the call is                              *)
    holdsBlock,          (* did it make the file?                          *)
    poller,              (* the udev task: "none", "listens", "found"      *)
    dumps,
    (* the system *)
    submitter,           (* is the log submitter installed?                *)
    block,               (* its file: is DEVCD_BLOCK there?                *)
    crashing,            (* the firmware was told to crash                 *)
    core,                (* is there a dump in /sys?                       *)
    crashes,
    (* for the property *)
    abandoned            (* did the daemon stop in the middle of a call?   *)

dumpVars == <<dumpAt, holdsBlock, poller, dumps, submitter, block, crashing, core,
              crashes, abandoned>>

\* The types of the call and the system.
DumpTypeOK ==
    /\ dumpAt \in {"idle", "listen", "crash", "wait", "read", "free", "unblock"}
    /\ poller \in {"none", "listens", "found"}
    /\ dumps \in 0..MaxDumps
    /\ crashes \in 0..MaxCrashes
    /\ holdsBlock \in BOOLEAN /\ submitter \in BOOLEAN /\ block \in BOOLEAN
    /\ crashing \in BOOLEAN /\ core \in BOOLEAN /\ abandoned \in BOOLEAN

DumpInit ==
    /\ dumpAt = "idle"
    /\ holdsBlock = FALSE
    /\ poller = "none"
    /\ dumps = 0
    /\ submitter \in BOOLEAN
    /\ block = FALSE
    /\ crashing = FALSE
    /\ core = FALSE
    /\ crashes = 0
    /\ abandoned = FALSE

systemPart == <<submitter, block, crashing, core, crashes, abandoned>>

-----------------------------------------------------------------------------
(* The call.                                                               *)

\* The file is made, and must not be there; without the directory of the log
\* submitter there is none to make.
BeginDump ==
    /\ dumpAt = "idle" /\ dumps < MaxDumps
    /\ dumps' = dumps + 1
    /\ holdsBlock' = (submitter /\ ~block)
    /\ block' = (block \/ submitter)
    /\ dumpAt' = IF block THEN "idle" ELSE "listen"
    /\ UNCHANGED <<poller, submitter, crashing, core, crashes, abandoned>>

\* The monitor listens before the firmware crashes.
StartPoller ==
    /\ dumpAt = "listen"
    /\ poller' = "listens"
    /\ dumpAt' = "crash"
    /\ UNCHANGED <<holdsBlock, dumps, systemPart>>

\* No monitor: the error comes up only after the firmware was told to crash.
NoPoller ==
    /\ dumpAt = "listen"
    /\ dumpAt' = "crash"
    /\ UNCHANGED <<holdsBlock, poller, dumps, systemPart>>

SimulateCrash ==
    /\ dumpAt = "crash"
    /\ crashing' = TRUE
    /\ dumpAt' = IF poller = "none" THEN "unblock" ELSE "wait"
    /\ UNCHANGED <<holdsBlock, poller, dumps, submitter, block, core, crashes, abandoned>>

\* debugfs has no such file; the task of the monitor is left alone.
CrashRefused ==
    /\ dumpAt = "crash"
    /\ poller' = "none"
    /\ dumpAt' = "unblock"
    /\ UNCHANGED <<holdsBlock, dumps, systemPart>>

\* MUTANT of DumpFound: the log submitter is let in as soon as there is a dump.
DumpFoundUnblocks ==
    /\ dumpAt = "wait" /\ poller = "found"
    /\ poller' = "none"
    /\ dumpAt' = "read"
    /\ block' = FALSE
    /\ UNCHANGED <<holdsBlock, dumps, submitter, crashing, core, crashes, abandoned>>

DumpFound ==
    /\ dumpAt = "wait" /\ poller = "found"
    /\ poller' = "none"
    /\ dumpAt' = "read"
    /\ UNCHANGED <<holdsBlock, dumps, systemPart>>

\* Five seconds without an event, or an error of the monitor.
PollerFails ==
    /\ dumpAt = "wait" /\ poller = "listens"
    /\ poller' = "none"
    /\ dumpAt' = "unblock"
    /\ UNCHANGED <<holdsBlock, dumps, systemPart>>

\* The dump is copied to a temporary file; "unblock" when that fails.
CopyDump ==
    /\ dumpAt = "read"
    /\ dumpAt' \in {"free", "unblock"}
    /\ UNCHANGED <<holdsBlock, poller, dumps, systemPart>>

\* A write to its data lets the kernel drop the dump.
FreeDump ==
    /\ dumpAt = "free"
    /\ core' = FALSE
    /\ dumpAt' = "unblock"
    /\ UNCHANGED <<holdsBlock, poller, dumps, submitter, block, crashing, crashes, abandoned>>

\* Whatever came of it the file goes, if it is the call's.
Unblock ==
    /\ dumpAt = "unblock"
    /\ block' = (block /\ ~holdsBlock)
    /\ holdsBlock' = FALSE
    /\ dumpAt' = "idle"
    /\ UNCHANGED <<poller, dumps, submitter, crashing, core, crashes, abandoned>>

\* The daemon stops, or crashes: the call goes with it, the file does not.
AbandonDump ==
    /\ dumpAt # "idle"
    /\ dumpAt' = "idle"
    /\ poller' = "none"
    /\ holdsBlock' = FALSE
    /\ abandoned' = TRUE
    /\ UNCHANGED <<dumps, submitter, block, crashing, core, crashes>>

-----------------------------------------------------------------------------
(* The kernel, and the log submitter.                                      *)

\* The kernel offers one dump of a device at a time; the monitor takes the
\* first that comes, also one that nobody asked for.
OfferDump ==
    /\ core' = TRUE
    /\ poller' = IF ~core /\ poller = "listens" THEN "found" ELSE poller

CrashesAsTold ==
    /\ crashing
    /\ crashing' = FALSE
    /\ OfferDump
    /\ UNCHANGED <<dumpAt, holdsBlock, dumps, submitter, block, crashes, abandoned>>

CrashesByItself ==
    /\ crashes < MaxCrashes
    /\ crashes' = crashes + 1
    /\ OfferDump
    /\ UNCHANGED <<dumpAt, holdsBlock, dumps, submitter, block, crashing, abandoned>>

Submit1 ==
    /\ submitter /\ ~block
    /\ core
    /\ core' = FALSE
    /\ UNCHANGED <<dumpAt, holdsBlock, poller, dumps, submitter, block, crashing,
                   crashes, abandoned>>

DumpNext ==
    \/ BeginDump \/ StartPoller \/ NoPoller \/ SimulateCrash \/ CrashRefused
    \/ DumpFound \/ PollerFails \/ CopyDump \/ FreeDump \/ Unblock \/ AbandonDump
    \/ CrashesAsTold \/ CrashesByItself \/ Submit1

DumpSpec == DumpInit /\ [][DumpNext]_dumpVars

-----------------------------------------------------------------------------
(* What the file is for.                                                   *)

\* From when the monitor has found a dump until the call is done with it the
\* dump is there, whatever crashed and whenever the log submitter looks; and
\* the file outlives its call only if the daemon stopped in the middle of one,
\* after which no call succeeds any more (generate_wifi_dump).
DumpIsOurs ==
    /\ dumpAt \in {"read", "free"} \/ poller = "found" => core
    /\ block => holdsBlock \/ abandoned
=============================================================================
