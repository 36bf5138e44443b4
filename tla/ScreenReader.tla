---------------------------- MODULE ScreenReader -----------------------------
(***************************************************************************)
(* The screen reader (OrcaManager of src/steamos-manager/src/              *)
(* screenreader.rs, ScreenReader0, ScreenReader1 and                       *)
(* ScreenReaderSetupService of manager/user.rs, and SessionManagerService  *)
(* of session.rs). The calls of both interfaces, and the service that      *)
(* takes them away in the desktop mode, take their turns at one mutex. A   *)
(* setting goes into Orca's file and Orca is told to read it again; an     *)
(* enabled Orca is restarted by systemd, which only promises to do so.     *)
(***************************************************************************)
EXTENDS Naturals, Sequences

CONSTANTS
    Rates,               (* the values of a setting: rate stands for pitch *)
                         (* and volume, which are handled alike            *)
    DefaultRate,         (* RATE_DEFAULT                                   *)
    OtherRates,          (* those that other programs write                *)
    Voices,              (* init_voice_list: those that the daemon knows   *)
    OtherVoice,          (* the one that the file has at first, or a voice *)
                         (* a client asks for, and that it does not know,  *)
                         (* or none                                        *)
    ModeCapacity,        (* of the broadcast channel of the login mode     *)
    MaxReaderCalls,      (* how many calls clients make                    *)
    MaxModeChanges,      (* how often gamescope-session.service changes    *)
    MaxReaderFaults      (* how many steps fail                            *)

ASSUME ReaderAssumption ==
    /\ DefaultRate \in Rates /\ OtherRates \subseteq Rates
    /\ OtherVoice \notin Voices
    /\ ModeCapacity \in Nat \ {0}
    /\ {MaxReaderCalls, MaxModeChanges, MaxReaderFaults} \subseteq Nat

ReaderModes == {"browse", "focus"}
ReaderCalls ==
    [op : {"enabled"}, value : BOOLEAN] \cup [op : {"rate"}, value : Rates]
        \cup [op : {"voice"}, value : Voices \cup {OtherVoice}]
        \cup [op : {"mode"}, value : ReaderModes] \cup [op : {"toggle"}, value : {0}]
StopCall == [op |-> "stop", value |-> 0]

SettingsFiles == [rate : Rates, voice : Voices \cup {OtherVoice}, speech : BOOLEAN]
LoginModes == {"game", "desktop"}
UnitStates == {"active", "activating", "deactivating", "inactive", "failed"}

VARIABLES
    (* OrcaManager *)
    mutex,               (* who waits for the mutex: the first has it      *)
    readerStep,          (* what the first does next                       *)
    enabled, rate, voice, mode,
    (* the system *)
    gsetting,            (* screen-reader-enabled                          *)
    conf,                (* user-settings.conf: can it be read?            *)
    settings,            (* what it says                                   *)
    orca,                (* is Orca running?                               *)
    loaded,              (* what it last read of that file                 *)
    unitJob,             (* systemd's job for orca.service                 *)
    (* the login mode *)
    unit,                (* gamescope-session.service                      *)
    unitNotified,        (* a change the stream has not yielded            *)
    current_mode,        (* SessionManagerService                          *)
    modes,               (* the messages in the broadcast channel          *)
    setup,               (* what ScreenReaderSetupService does             *)
    exported,            (* are ScreenReader0 and ScreenReader1 there?     *)
    (* bounds, and for the properties *)
    readerCalls, modeChanges, readerFaults,
    halfEnabled,         (* did a set_enabled fail after its first step?   *)
    agreed               (* the settings that the daemon has read from the *)
                         (* file or written to it, and whether Orca has    *)
                         (* read it, since the daemon started and another  *)
                         (* program last changed it                        *)

managerVars == <<mutex, readerStep, enabled, rate, voice, mode>>
orcaVars == <<gsetting, conf, settings, orca, loaded, unitJob>>
loginVars == <<unit, unitNotified, current_mode, modes, setup, exported>>
readerBounds == <<readerCalls, modeChanges, readerFaults>>
readerVars == <<managerVars, orcaVars, loginVars, readerBounds, halfEnabled, agreed>>

\* The types of the manager's, the services' and the system's state.
ReaderTypeOK ==
    /\ mutex \in Seq(ReaderCalls \cup {StopCall})
    /\ readerStep \in {"start", "file", "unit", "reload"}
    /\ {enabled, gsetting, orca, unitNotified, exported, halfEnabled} \subseteq BOOLEAN
    /\ rate \in Rates
    /\ voice \in Voices \cup {OtherVoice}
    /\ mode \in ReaderModes
    /\ conf \in {"good", "missing", "bad"}
    /\ settings \in SettingsFiles
    /\ loaded \in SettingsFiles
    /\ unitJob \in {"none", "restart", "stop"}
    /\ unit \in UnitStates
    /\ current_mode \in LoginModes \cup {"unknown"}
    /\ modes \in Seq(LoginModes)
    /\ setup \in {"recv", "stopping", "ended"}
    /\ agreed \subseteq {"rate", "voice", "speech", "orca"}

\* A file that another program has written: nothing makes its enableSpeech follow
\* the GSetting. A setting that is not in it counts as its default.
OtherFiles == [rate : OtherRates, voice : {OtherVoice}, speech : BOOLEAN]

\* load_values: without a file there are the defaults.
LoadedRate == IF conf = "good" THEN settings.rate ELSE DefaultRate
LoadedVoice == IF conf = "good" THEN settings.voice ELSE OtherVoice
AgreedAtStart == IF conf = "good" THEN {"rate", "voice"} ELSE {}

\* OrcaManager::new has read the file, if there is one, and the GSetting.
ReaderInit ==
    /\ mutex = <<>>
    /\ readerStep = "start"
    /\ conf \in {"good", "missing"}
    /\ settings \in OtherFiles
    /\ rate = LoadedRate
    /\ voice = LoadedVoice
    /\ mode = "browse"
    /\ gsetting \in BOOLEAN
    /\ enabled = gsetting
    /\ orca \in BOOLEAN
    /\ loaded = settings
    /\ unitJob = "none"
    /\ unit \in {"active", "inactive"}
    /\ unitNotified \in BOOLEAN
    /\ current_mode = "unknown"
    /\ modes = <<>>
    /\ setup = "recv"
    /\ exported = FALSE
    /\ readerCalls = 0 /\ modeChanges = 0 /\ readerFaults = 0
    /\ halfEnabled = FALSE
    /\ agreed = AgreedAtStart

-----------------------------------------------------------------------------
(* The calls, one at a time.                                               *)

CallReader(c) ==
    /\ exported
    /\ readerCalls < MaxReaderCalls
    /\ readerCalls' = readerCalls + 1
    /\ mutex' = Append(mutex, c)
    /\ UNCHANGED <<readerStep, enabled, rate, voice, mode, orcaVars, loginVars,
                   modeChanges, readerFaults, halfEnabled, agreed>>

Holds(op) == mutex # <<>> /\ Head(mutex).op = op
Value == Head(mutex).value
Leave == mutex' = Tail(mutex) /\ readerStep' = "start"
Go(step) == readerStep' = step /\ UNCHANGED mutex

\* One more step fails.
OneMoreFault ==
    /\ readerFaults < MaxReaderFaults
    /\ readerFaults' = readerFaults + 1
ReaderFails == OneMoreFault /\ Leave

\* set_enabled: the GSetting, if the value is a new one, ...
SetGSetting ==
    /\ Holds("enabled") /\ readerStep = "start"
    /\ \/ /\ Value = enabled
          /\ Go("unit")
          /\ UNCHANGED <<gsetting, readerFaults>>
       \/ /\ Value # enabled
          /\ gsetting' = Value
          /\ Go("file")
          /\ UNCHANGED readerFaults
       \/ Value # enabled /\ ReaderFails /\ UNCHANGED gsetting
    /\ UNCHANGED <<enabled, rate, voice, mode, conf, settings, orca, loaded, unitJob,
                   loginVars, readerCalls, modeChanges, halfEnabled, agreed>>

\* The file is read, changed and written as a whole,
WriteFile(f, part) ==
    /\ conf = "good"
    /\ settings' = f
    /\ agreed' = agreed \cup {part}
    /\ UNCHANGED <<conf, readerFaults>>

\* unless it cannot be read, or a write fails, which may leave half of it.
WriteFileFails ==
    /\ \/ conf # "good" /\ Leave /\ UNCHANGED <<conf, agreed, readerFaults>>
       \/ conf = "good" /\ ReaderFails /\ UNCHANGED <<conf, agreed>>
       \/ conf = "good" /\ ReaderFails /\ conf' = "bad" /\ agreed' = {}
    /\ UNCHANGED settings

\* ... Orca's file, which need not be there (NotFound) ...
SetOrcaEnabled ==
    /\ Holds("enabled") /\ readerStep = "file"
    /\ \/ /\ WriteFile([settings EXCEPT !.speech = Value], "speech")
          /\ Go("unit")
          /\ UNCHANGED halfEnabled
       \/ /\ conf = "missing"
          /\ Go("unit")
          /\ UNCHANGED <<conf, settings, agreed, readerFaults, halfEnabled>>
       \/ conf # "missing" /\ WriteFileFails /\ halfEnabled' = TRUE
    /\ UNCHANGED <<enabled, rate, voice, mode, gsetting, orca, loaded, unitJob, loginVars,
                   readerCalls, modeChanges>>

\* JobMode::Fail: systemd refuses a job that conflicts with one it has.
Queues(j) == unitJob \in {"none", j}

\* ... and the unit. The GSetting and the file keep the new value when that
\* fails, while enabled has the old one.
RestartOrca ==
    /\ Holds("enabled") /\ readerStep = "unit"
    /\ LET job == IF Value THEN "restart" ELSE "stop"
       IN  \/ /\ Queues(job)
              /\ unitJob' = job
              /\ enabled' = Value
              /\ halfEnabled' = (halfEnabled /\ Value = enabled)
              /\ Leave
              /\ UNCHANGED readerFaults
           \/ /\ ~Queues(job) /\ Leave /\ UNCHANGED readerFaults
              /\ halfEnabled' = (halfEnabled \/ Value # enabled)
              /\ UNCHANGED <<unitJob, enabled>>
           \/ /\ ReaderFails
              /\ halfEnabled' = (halfEnabled \/ Value # enabled)
              /\ UNCHANGED <<unitJob, enabled>>
    /\ UNCHANGED <<rate, voice, mode, gsetting, conf, settings, orca, loaded, loginVars,
                   readerCalls, modeChanges, agreed>>

\* MUTANT of SetOrcaOption: the field keeps its old value.
SetOrcaOptionOnly ==
    /\ Holds("rate") /\ readerStep = "start"
    /\ \/ /\ WriteFile([settings EXCEPT !.rate = Value], "rate")
          /\ UNCHANGED rate
          /\ Go("reload")
       \/ WriteFileFails /\ UNCHANGED rate
    /\ UNCHANGED <<enabled, voice, mode, gsetting, orca, loaded, unitJob, loginVars,
                   readerCalls, modeChanges, halfEnabled>>

\* set_rate: the file and the field ...
SetOrcaOption ==
    /\ Holds("rate") /\ readerStep = "start"
    /\ \/ /\ WriteFile([settings EXCEPT !.rate = Value], "rate")
          /\ rate' = Value
          /\ Go("reload")
       \/ WriteFileFails /\ UNCHANGED rate
    /\ UNCHANGED <<enabled, voice, mode, gsetting, orca, loaded, unitJob, loginVars,
                   readerCalls, modeChanges, halfEnabled>>

\* set_voice: only one that the daemon knows; its language goes along.
SetOrcaVoice ==
    /\ Holds("voice") /\ readerStep = "start"
    /\ \/ /\ Value \in Voices
          /\ WriteFile([settings EXCEPT !.voice = Value], "voice")
          /\ voice' = Value
          /\ Go("reload")
       \/ /\ Value \notin Voices
          /\ Leave
          /\ UNCHANGED <<conf, settings, agreed, voice, readerFaults>>
       \/ Value \in Voices /\ WriteFileFails /\ UNCHANGED voice
    /\ UNCHANGED <<enabled, rate, mode, gsetting, orca, loaded, unitJob, loginVars,
                   readerCalls, modeChanges, halfEnabled>>

\* An Orca that runs reads the file, if there is one.
OrcaReads ==
    IF orca' /\ conf = "good" THEN loaded' = settings /\ agreed' = agreed \cup {"orca"}
    ELSE UNCHANGED <<loaded, agreed>>

\* ... and the signal, an error when Orca does not run.
ReloadOrca ==
    /\ Holds("rate") \/ Holds("voice")
    /\ readerStep = "reload"
    /\ UNCHANGED orca
    /\ OrcaReads
    /\ Leave
    /\ UNCHANGED <<enabled, rate, voice, mode, gsetting, conf, settings, unitJob, loginVars,
                   readerBounds, halfEnabled>>

\* set_mode and ToggleMode, which press keys on a device of their own.
SetMode ==
    /\ Holds("mode") \/ Holds("toggle")
    /\ \/ /\ mode' = IF Holds("mode") THEN Value
                     ELSE IF mode = "browse" THEN "focus" ELSE "browse"
          /\ Leave
          /\ UNCHANGED readerFaults
       \/ ReaderFails /\ UNCHANGED mode
    /\ UNCHANGED <<enabled, rate, voice, orcaVars, loginVars, readerCalls, modeChanges,
                   halfEnabled, agreed>>

-----------------------------------------------------------------------------
(* systemd, Orca and whoever else has its file.                            *)

RunJob ==
    /\ unitJob # "none"
    /\ unitJob' = "none"
    /\ orca' = (unitJob = "restart")
    /\ OrcaReads
    /\ UNCHANGED <<managerVars, gsetting, conf, settings, loginVars, readerBounds,
                   halfEnabled>>

\* orca.service has Restart=on-failure.
OrcaEnds ==
    /\ OneMoreFault
    /\ orca /\ orca' = FALSE
    /\ unitJob' \in {unitJob} \cup (IF unitJob = "none" THEN {"restart"} ELSE {})
    /\ UNCHANGED <<managerVars, gsetting, conf, settings, loaded, loginVars,
                   readerCalls, modeChanges, halfEnabled, agreed>>

\* The file goes, or a program writes one.
FileChanges ==
    /\ OneMoreFault
    /\ \/ conf # "missing" /\ conf' = "missing" /\ UNCHANGED settings
       \/ conf' = "good" /\ settings' \in OtherFiles
    /\ agreed' = {}
    /\ UNCHANGED <<managerVars, gsetting, orca, loaded, unitJob, loginVars,
                   readerCalls, modeChanges, halfEnabled>>

\* The session starts or ends; the unit's states follow each other.
Follows ==
    [active |-> {"deactivating", "failed"}, activating |-> {"active", "failed"},
     deactivating |-> {"inactive", "failed"}, inactive |-> {"activating"},
     failed |-> {"activating"}]

UnitChanges(s) ==
    /\ s \in Follows[unit]
    /\ modeChanges < MaxModeChanges
    /\ modeChanges' = modeChanges + 1
    /\ unit' = s
    /\ unitNotified' = TRUE
    /\ UNCHANGED <<managerVars, orcaVars, current_mode, modes, setup, exported,
                   readerCalls, readerFaults, halfEnabled, agreed>>

-----------------------------------------------------------------------------
(* SessionManagerService and ScreenReaderSetupService.                     *)

\* Dropped by the channel, the oldest message is an error for its receiver.
SendMode(m) ==
    /\ current_mode' = m
    /\ modes' = Append(modes, m)

\* The service listens to the unit before it asks for its state.
StartSessionManager ==
    /\ setup # "ended"
    /\ current_mode = "unknown"
    /\ SendMode(IF unit = "active" THEN "game" ELSE "desktop")
    /\ UNCHANGED <<managerVars, orcaVars, unit, unitNotified, setup, exported,
                   readerBounds, halfEnabled, agreed>>

ModeOf(s, m) ==
    IF s = "active" THEN "game" ELSE IF s = "activating" THEN m ELSE "desktop"

\* The stream yields, and the state is read then: changes may be passed over.
HandleUnit ==
    /\ setup # "ended"
    /\ current_mode # "unknown"
    /\ unitNotified
    /\ unitNotified' = FALSE
    /\ LET m == ModeOf(unit, current_mode)
       IN  IF m = current_mode THEN UNCHANGED <<current_mode, modes>> ELSE SendMode(m)
    /\ UNCHANGED <<managerVars, orcaVars, unit, setup, exported, readerBounds,
                   halfEnabled, agreed>>

\* RecvError::Lagged is an error of the service, with which Daemon::run ends: the
\* user daemon shuts down, and what its clients have called may still run.
ReceiveMode ==
    /\ setup = "recv"
    /\ modes # <<>>
    /\ IF Len(modes) > ModeCapacity
       THEN setup' = "ended" /\ UNCHANGED <<modes, exported, mutex>>
       ELSE /\ modes' = Tail(modes)
            /\ IF Head(modes) = "game"
               THEN exported' = TRUE /\ UNCHANGED <<setup, mutex>>
               ELSE /\ setup' = "stopping"
                    /\ mutex' = Append(mutex, StopCall)
                    /\ UNCHANGED exported
    /\ UNCHANGED <<readerStep, enabled, rate, voice, mode, orcaVars, unit, unitNotified,
                   current_mode, readerBounds, halfEnabled, agreed>>

\* The process exits, and systemd starts another (Restart=on-failure).
UserDaemonRestarts ==
    /\ setup = "ended" /\ setup' = "recv"
    /\ mutex' = <<>> /\ readerStep' = "start"
    /\ enabled' = gsetting
    /\ rate' = LoadedRate
    /\ voice' = LoadedVoice
    /\ mode' = "browse"
    /\ current_mode' = "unknown" /\ modes' = <<>> /\ exported' = FALSE
    /\ unitNotified' \in BOOLEAN
    /\ halfEnabled' = FALSE
    /\ agreed' = AgreedAtStart
    /\ UNCHANGED <<orcaVars, unit, readerBounds>>

\* Whatever systemd says to stop_orca, the interfaces go.
StopOrca ==
    /\ Holds("stop")
    /\ \/ Queues("stop") /\ unitJob' = "stop"
       \/ ~Queues("stop") /\ UNCHANGED unitJob
    /\ Leave
    /\ exported' = FALSE
    /\ setup' = "recv"
    /\ UNCHANGED <<enabled, rate, voice, mode, gsetting, conf, settings, orca, loaded, unit,
                   unitNotified, current_mode, modes, readerBounds, halfEnabled, agreed>>

ReaderNext ==
    \/ \E c \in ReaderCalls : CallReader(c)
    \/ SetGSetting \/ SetOrcaEnabled \/ RestartOrca
    \/ SetOrcaOption \/ SetOrcaVoice \/ ReloadOrca \/ SetMode
    \/ RunJob \/ OrcaEnds \/ FileChanges
    \/ \E s \in UnitStates : UnitChanges(s)
    \/ StartSessionManager \/ HandleUnit \/ ReceiveMode \/ StopOrca
    \/ UserDaemonRestarts

ReaderSpec == ReaderInit /\ [][ReaderNext]_readerVars

-----------------------------------------------------------------------------
(* Properties.                                                             *)

Midway == mutex # <<>> /\ readerStep # "start"

\* What the interfaces show of a file that the daemon has read, or of a setting
\* that it has written since, is what the file says, and what a running Orca has
\* read since: also when Orca was not there to be told, was starting just then, or
\* the call failed. Enabled and the GSetting agree, and so does the file once a
\* call has written it, unless a call failed halfway, which the next one that asks
\* for the old value does not repair. Once nothing is on its way, the interfaces
\* are there exactly in the game mode, although changes of the unit may be passed
\* over and come in between, and the daemon may stop when too many wait.
ReaderIsInStep ==
    /\ ~Midway =>
          /\ "rate" \in agreed =>
                rate = settings.rate /\ (orca /\ "orca" \in agreed => loaded.rate = rate)
          /\ "voice" \in agreed =>
                voice = settings.voice /\ (orca /\ "orca" \in agreed => loaded.voice = voice)
          /\ ~halfEnabled =>
                gsetting = enabled /\ ("speech" \in agreed => settings.speech = enabled)
    /\ (/\ setup = "recv" /\ modes = <<>> /\ ~unitNotified
        /\ current_mode # "unknown" /\ unit # "activating") =>
          exported = (unit = "active")
=============================================================================
