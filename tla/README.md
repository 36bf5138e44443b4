# A specification of steamos-manager

TLA+ models of the parts of steamos-manager in which several things happen at
once or fail halfway: the low power mode, the queue of sysfs writes, jobs and
their mirrors, the main loop of the two daemons, the DualSense inhibitor, the
default and the temporary session, the order of settings, remote interfaces, the
screen reader, Wi-Fi, HDMI-CEC, the settings of the hardware, what is exported on
which machine, and how the daemons start and stop. TLC checks each on small
instances, and TLAPS proves the safety properties of these runs for every
instance, and the refinements of the two abstract specifications; liveness stays
with TLC.

Paths below are relative to `src/`; `power.rs`, `job.rs` and so on are in
`src/steamos-manager/src/`.

## The system

steamos-manager is two daemons, one as root on the system bus and one per user
on the session bus, and a command line client. The user daemon offers the
D-Bus interfaces that Steam uses, and passes on to the root daemon whatever
needs privileges. Both are single processes on a tokio runtime: a D-Bus call is
a task, a service is a task with a loop, and tasks talk through channels and
oneshot replies. zbus gives an object to one `&mut self` method at a time for
as long as the method runs, awaits included; methods with `&self` run side by
side. Everything that is hard in this code comes from this: what a task read
before an await may be stale after it, a message may be queued behind another,
a call to the other daemon may fail after it took effect, a daemon may be
stopped between two steps, and somebody may wait for somebody who waits.

| component | state | operations | what makes it correct |
|---|---|---|---|
| `TdpManagerService` (`power.rs`) | queue of commands, count of handles per identifier, one waiter task per handle, the limit to restore, whether fan control is to be restarted | SetTdpLimit, EnterDownloadMode, UpdateDownloadMode, SetProxy; a handle is closed | handles are counted exactly; the limit in force before the mode is never lost; the mode is kept while a handle is out and left after |
| `SysfsWriterService` (`sysfs.rs`), `SetMaxChargeLevel` (`manager/root.rs`), `SignalRelayService` (`manager/user.rs`) | a map path -> (contents, promise), a `Notify`, the entry being written | send, recv, write, signal, relay | each promise answered once; the newest contents end up in the file; no lost wake-up; clients see what the file holds |
| `Job`, `MirroredJob` (`job.rs`) | paused flag, exit code, child process; the mirror's proxy | Pause, Resume, Cancel, Wait | flag, process and code agree; a waited-for job cannot be stopped; every call returns |
| `JobManager` (`job.rs`) | jobs by number; mirrored jobs by bus and path | run, MirrorJob, MirrorConnection, JobStarted | a job is mirrored once; a mirror never stands for another process |
| `Daemon` (`daemon/mod.rs`, `root.rs`, `user.rs`, `config.rs`) | bounded channel, context state, `state.toml`, signals | commands of both contexts, WriteState, ReadConfig, SIGHUP, SIGTERM, start | what is set is applied and saved; a crash never leaves more than one version behind; the loop never stands still |
| `SessionManager` (`session.rs`) | default login mode and desktop session, in the daemon's state; the boot session in a file of the root daemon; the temporary session | set_default_login_mode, set_default_desktop_session, switch_to_login_mode, clean | no setter undoes another; the properties say what the system boots into |
| DualSense inhibitor (`ds_inhibit.rs`) | inotify watches and an inhibited flag per hidraw node | device added or removed, file opened or closed, shutdown | settled, a node is inhibited exactly while Steam has it open |
| `RemoteInterface1` (`manager/user.rs`, the `remote!` macros, `power.rs`) | for each configured interface: who serves it, whether it is registered, the task that listens to NameOwnerChanged, the tasks that forward signals | start-up, register, unregister, the other process starts, stops, is replaced | an interface is relayed exactly while its process is there; none of the daemon's own is replaced |
| `SerialOrderValidator` (`lib.rs`) | highest serial of each interface, and one for the root daemon | a setter is called, passes its check, calls the root daemon | late calls of a sender do not undo its newer ones |
| Wi-Fi (`wifi.rs`) | debug mode; configuration files, units, NetworkManager | set the debug mode, the backend, power management | what is shown is what the system does; a failure halfway is undone by the next call |
| Wi-Fi dump (`wifi.rs`, `udev.rs`) | the file that keeps the log submitter out, the kernel's dump | GenerateDebugDump, a crash, the submitter, a stop | the dump that was found is not taken by another; the file goes with the call |
| HDMI-CEC (`cec.rs`) | two units or a fragment for cecd; the address cecd has | set the state; `CecdService` | the state shown is the one that runs; the embedded controller has the address |
| hardware settings (`gpu.rs`, `power.rs`, `hardware.rs`, `audio.rs`, `cec.rs`) | sysfs files, units, the ALIB limit, the scheduler, the sound | set level, clock, limit, governor, boost, scheduler, profiles, fan control, mono, waking up | an answered setter has set all of its files, and the getter shows it |
| Screen reader (`screenreader.rs`, `session.rs`) | settings, Orca and its unit, the login mode | set, enable, a mode or a unit changes | field, file and Orca agree; the interfaces follow the login mode |
| exported interfaces (`manager/user.rs`, `hardware.rs`, `platform.rs`) | how far the start has come, what is exported | each check of the machine | an interface is there exactly if the machine supports it, whatever else could not be read |
| PerformanceProfile and TdpLimit1 (`manager/user.rs`) | the profile, the object, tasks that asked the TDP manager | set_performance_profile | TdpLimit1 is there exactly when the profile has a limit |
| services (`daemon/`, `lib.rs`) | tasks, tokens, the tracefs instance | start, run, shutdown, a failure, a signal | whoever leaves the loop shuts all down, and fails if something did |
| `DeckService` (`inputplumber.rs`) | the enumeration, tasks for each signal | a device comes, goes, is asked, is set | every device that stays gets its targets |
| `UdevMonitor` (`udev.rs`) | the socket, its readiness, a pipe, a task | an event, read, announce, shutdown | no over-current is lost; the task ends with the service |
| the rest | none, or read once | logs, proxies, client | - |

How they interact:

- user interfaces -> `TdpManagerService`: an unbounded channel of commands with
  oneshot replies; the service -> root daemon: D-Bus calls (TDP limit, fan).
- `set_performance_profile` -> `TdpManagerService`: the profile decides whether
  limiting is active; the service is told by UpdateDownloadMode afterwards.
- `SetMaxChargeLevel` -> `SysfsWriterService` -> spawned task ->
  `MaxChargeLevelChanged` -> `SignalRelayService` -> session bus.
- `Job1` client -> `MirroredJob` (user) -> `Job` (root) -> process.
- D-Bus methods -> channel of ten -> `Daemon` loop -> handler -> the same channel
  (WriteState) -> `state.toml`.
- `SessionManager` -> channel of the user daemon's loop (twice or three times),
  and -> root daemon (`set_default_session`, `set_temporary_session`).
- root daemon's `Daemon` loop -> `DsInhibit`: SetDsInhibit cancels the inhibitor
  and starts the next; inotify and /proc say what Steam does.
- `JobManager` (root) -> JobStarted -> `JobManagerService` (user) -> a mirror; a
  user interface's method -> root daemon's method -> MirrorJob -> the caller.
- another process -> NameOwnerChanged -> the task of each interface -> object on
  the session bus, and SetProxy to `TdpManagerService`.
- user setter -> `SerialOrderValidator` -> message -> root daemon's validator.
- gamescope-session.service -> `SessionManagerService` -> broadcast of the login
  mode -> `ScreenReaderSetupService` -> the screen reader's interfaces.
- Wi-Fi, HDMI-CEC, fan control and the screen reader -> systemd: jobs that are
  queued, and that the code does not always wait for.
- `set_performance_profile` -> a task -> `TdpManagerService` (IsActive) -> the
  TdpLimit1 object.
- Wi-Fi dump -> the kernel -> udev -> the call; the log submitter, a process of its
  own, sees the call's file. udev -> `run_udev` -> pipe -> `UdevEvents1`.

`PROJECT.json` lists the hazards of this code line by line, with the properties
that would catch each.

## Modules

### `LowPowerLock`, `TdpManager`, `MCTdpManager`, `TdpManagerProofs`

`LowPowerLock` is what the low power mode promises, apart from how: anybody may
hold handles, the mode is entered only for a holder and left only without one,
in it the limit is the low one and out of it the last one somebody set.

`TdpManager` is the service. Its variables carry the names of the code:
`download_handles` (a count per identifier, 0 for an absent key),
`previous_limit`, `restart_fan_control_service`, `cached_limit` (the ALIB
method's); `queue` is the channel. `held[i]` and `closed[i]` count the tasks of
`download_set`: those whose pipe a client keeps open, and those that have ended
and wait for `join_next`. `limit`, `fan` and `fixedSpeed` are the machine,
`active` says whether limiting is possible (the profile is "custom", or, for
the remote method, a proxy is there), and `low` remembers who put the limit
there. `announcing` is a `set_performance_profile` that has switched the profile
and has not told the service yet.

`update_download_mode` is a coroutine: `pc` names the await it is suspended at,
and there is one action per await (`IsActive`, `GetTdpLimit`, `RestoreLimit`,
`RestartFan`, `ApplyDownloadLimit`, `FanControlState`, `StopFan`, `SetFanSpeed`).
Meanwhile only the world moves: handles are closed, profiles switch, commands
queue up. With `CallsFail` an awaited call may return an error, and a call that
sets the limit or the fan may return one after it took effect. `Return` is the
way back into `run` or into `get_download_mode_handle`, which makes the waiter
only if the update succeeded. The commands and the join of a waiter are the
branches of `select!`.

### `LatestWrites`, `SysfsWriter`, `MCSysfsWriter`, `SysfsWriterProofs`

`LatestWrites` is what the queue of writes promises, apart from map, notification and
service: a request (`Ask`) is answered once; those for a path are settled (`Settle`)
in order, and one that was written is in the file from its answer on; one gives way
to a newer one at the moment that is asked for, or never, so that no more than one is
ahead of the newest.

`SysfsWriter` is the queue.

A request stands for its contents and its promise, numbered in the order in
which requests enter the map. `send` is two actions, the insertion under the
lock and the notification; `notified().await` is `Listen`: a `Notify` keeps at
most one notification, hands it to whoever waits, or keeps it. `recv` takes an
arbitrary entry, or none (an earlier notification led to it). A write fails
without effect, or with it (the sync failed), and is announced all the same.
`SignalRelayService` reads the property when it relays the signal: `shown` is
then what the file holds.

### `Job`, `MCJob`, `JobProofs`

`job_lock` and `mirror_lock` are the two objects, held for the length of a call;
Wait alone suspends itself with the lock, in `wait_internal`. The process
(`running`, `stopped`, `zombie`, `reaped`) ends by itself, or by a signal that
was sent and that it can take; a stopped process takes a SIGKILL only. `try_wait`
inside Cancel reaps a zombie. Every clause of the methods is there: Pause of a
job without a process marks it paused and returns an error, Wait resumes first
and returns the error of that.

### `JobManager`, `MCJobManager`, `JobProofs`

The managers that number jobs: the root daemon's, and that of a remote
implementation, each from 0 (`jobs`). `JobManagerService` of the user daemon
hears of a job by the signal (`signals`), by the introspection it makes when it
starts (`task`, `left`), and by MirrorJob commands of the methods of
`job_method!`; `mirrored` is its map, `next` the number of the next mirror. A
caller's method is `CallOwner`, `RunProcess` or `RunFails`, `AskForMirror`; it is
answered when the command is handled, or when the channel turns out closed.
`RootStops` ends the calls to the root daemon with an error. The map's key is the
bus and the path; remote owners are on the system bus like the root daemon, so
that jobs of both with the same number have the same key.

### `Daemon`, `MCDaemon`, `DaemonProofs`

The loop of `Daemon::run` and what its handlers do, for either context: a
command that changes the state (`Set`: SetDsInhibit, SetSessionManagerState), a
query (`Get`), `ReadConfig`, `WriteState`. `loop` says where the loop is inside a
handler. A change is three steps: state, service (`Apply`: `reload_ds_inhibit`),
and a `WriteState` sent to the loop's own channel, for which there must be room.
`write_state` truncates the file and then fills it; `Loaded` is what `read_state`
makes of it, the default for an empty one. SIGHUP and SIGTERM are heard in
`select!` only; `LoseSignal` is the listener of one turn that takes a signal with
it. `Crash` may come between any two steps, `Restart` reads the file.

### `DsInhibit`, `MCRootDaemon`, `SysfsWriterProofs`

`Inhibitor` with the kernel and Steam. A device is a number; an inode is a number
and how often it was plugged in (`gen`), since a watch is on the inode and a check
of /proc on the path. Each started inhibitor has a phase, its events (`queue`),
the watches of the kernel and those of its map (the map is filled after the
check), the entries of /dev it has not come to, and `task`: the await it is
suspended at (adding a watch, going through /proc, writing). `Disable` is
`reload_ds_inhibit` dropping the handle; the cancelled inhibitor notices at its
next `select!`, and shuts down while the next one may run. `early`, `unfinished`
and `lastWriter` are history. `MCRootDaemon` is this module or `Daemon` with all
its faults, one in each behaviour.

### `SessionManager`, `MCSessionManager`, `SessionManagerProofs`

The two setters of `SessionManagement1`, from await to await, on top of an
`INSTANCE` of `Daemon` whose states are the session manager's: a setter gets the
interface (`lock`), asks the loop for the state, for a change to the desktop
mode once more, has the root daemon write the session to boot into (`boot`), and
queues the state it read with its one field changed (`Changed`). `wanted` and
`apart` are history: the state the daemon started with, in which each setter that
sent its command has changed its own field and no other (so a setter that sends
back a stale copy of the rest parts `state` from `wanted`), and whether a stop of
the daemon left the two files in disagreement. `MCSessionManager` has two kinds of
behaviours: two setters and nothing that stops or refuses, or one setter with all of
that.

### `LoginSwitch`, `SessionManagerProofs`

`switch_to_login_mode` and its siblings take `&self` and run side by side: the
session of the mode, the root daemon's file `temporary`, the logout. The display
manager logs in by that file or by `default`; the clean-up unit of the new
session removes it some time later, or fails. `last`, `raced` and `cleaned` are
history of the session that ends.

### `SerialOrder`, `InterfaceProofs`

A client's calls are tasks that get their interface's lock in any order
(`waiting`); `Enter` is the interface's validator (`InOrder`) and what follows
it, `Apply` that of the root daemon. `built` is a message that has its serial
and is not sent yet, so that `wire` need not be in the order of the serials;
the root daemon's one validator sees them all. `Checked` are the interfaces
whose root method checks (the others, like the governor, do not).

### `RemoteInterface`, `MCRemoteInterface`, `InterfaceProofs`

`create_interfaces` goes through the configured interfaces (`configuring`): the
task that listens is made first, then `register` pings the process and adds the
object. `holder` and `step` are who is in `register` and where; the tasks take
their `changes` when they get `RemoteInterface1`, and one that comes before it is
exported ends with an error. `TdpLimit1` has the hooks: registering it awaits the
reply to SetProxy, from a service that starts after `create_interfaces`.

### `ScreenReader`, `SettingsProofs`

`mutex` is the queue of `Arc<Mutex<OrcaManager>>`; the first in it runs, step by
step (`readerStep`: file, unit, reload). A setting is the field, the file and what
a running Orca has loaded. `conf` says whether the file can be read: it may be
missing, which `set_enabled` alone tolerates, damaged by a write that failed, or
written by Orca and others. So nothing is assumed to agree: `agreed` is history, what
the daemon has read of the file, or written to it, since it started and others last
changed the file (`enableSpeech` it never reads), and whether Orca has read it since.
`unitJob` is systemd's job for Orca, which it also restarts when it fails. Nobody but
the daemon is taken to change the GSetting. The second half
is the login mode: the unit, the property stream (`unitNotified`, which may pass
over a value), `SessionManagerService`, the broadcast channel (`modes`, which
drops the oldest), and `ScreenReaderSetupService`, which exports the interfaces
in the game mode and stops Orca in the desktop mode. If it lags, `Daemon::run` leaves
its loop with the error: `setup` is "ended" while the user daemon shuts down, and
`UserDaemonRestarts` is systemd (`Restart=on-failure`), with everything read again.

### `Wifi`, `Cec`, `SettingsProofs`

A method of these is a list of steps (`todo`, `cecStep`), each of which may fail and
end the call with an error. `Wifi`: the override for iwd, reload, restart, trace;
NetworkManager's files (`nmConf`), the order in which it and the backends stop and
start, the interface (`wlan`), and its power management (`powerSave`), which
NetworkManager takes from its files when it starts. `Cec`: the units' masks on disk
and those systemd knows, jobs that are not waited for, calls that interleave, and the
other backend's fragment; and `CecdService`, which is made or not, reads its stream,
sends the address and waits. Both leave systemd's jobs to run later.

### `HardwareDrivers`, `HardwareSettings`, `SettingsProofs`

`HardwareDrivers` are the pure parts of thirteen drivers: what each offers, what it
reads out of its files (the operators `Shown...`), and the writes that a setter
makes, in their order (`...Writes`): amdgpu's and Intel's levels and clocks, the
power profile, three kinds of TDP limit (ALIB's is refused when it overflows 32
bits), platform profile, governors, two kinds of boost, scheduler, fan control by
unit or script, mono audio, waking up by CEC. `HardwareSettings` makes the writes one
by one, and each may fail; `file` are the files, `held` what a manager keeps in
memory. A TDP limit takes another way: `QueueLimit` is the setter of TdpLimit1, which
has answered Ok when the limit is in the channel of `TdpManagerService`, and
`TakeLimit` is the service, which writes it later, or refuses it unheard. The getter
waits in the same channel, and shows 0 while limiting is not active (but for ALIB,
whose limit is kept); so `AnswerIsInForce` speaks of the answer of the root daemon,
and of what the getter shows while limiting is active. A restarted daemon takes the
scheduler from whether scx.service is enabled, which says nothing of what runs;
`outOfStep` is true then until the next call has told systemd, as it is after a
failed job and when another program has set the sound. The ranges and tables come from files that are read once, and are constants;
so is the order in which the directory has the governors' policies (`PolicyFile`).

### `UserInterfaces`, `PerformanceProfile`, `InterfaceProofs`

`create_interfaces` as data: `StartOrder` has its steps in their order, each with the
check it makes, what it exports and whether an error ends the start; `Checks` says
what each check answers on a machine where the things in `odd` are not as they
should be (missing, unreadable, malformed); `Machines` are the sets of these that
occur. `StartStep` goes one step on, `TakeName` is the name on the bus.
`PerformanceProfile` goes on where that ends:
`profileSetters` are calls of the setter, which run side by side, `asking` and `told`
the tasks they leave behind. Each await of the setter may fail: before the kernel has
the profile or after (`RootRefusesProfile`, `RootIsNotHeard`), or in
`performance_profile_changed` (`AnnouncementFails`), after which nobody is told and no
task is left; and IsActive may, which ends its task (`TdpManagerCannotTell`). `calm`
and `unanswered` are history: did the last change come from a call that was alone and
did not fail after it, and has IsActive failed since.

### `Lifecycle`, `ServiceProofs`

The root daemon from its start to its exit: `LifeStart` are the steps of the start
(`begun` says how many are done), `task` has the tasks of the JoinSet, each running,
in its shutdown, ended or joined, and `cancelled` those whose token is cancelled.
`JoinInLoop` and `JoinAtEnd` are the two places where an ended one is joined. One
thing outlives the process, the tracefs `instance`; `NextLife` is the next start.
`Undoes` are the services whose shutdown does something.

### `InputPlumber`, `WifiDump`, `UdevEvents`, `ServiceProofs`

`InputPlumber`: `listens`, the enumeration with its list (`toCheck`), the signals
that came (`added`), and one task for each (`makers`, counted by device and by the
call it makes next); InputPlumber itself (`present`, `targets`). `WifiDump`: the call
step by step (`dumpAt`), the poller's task, the kernel's dump (`core`), the file
(`block`) and the log submitter. `UdevEvents`: the socket, whether tokio takes it for
readable, the task (`monitor`), the pipe and the service.

### `MCMachine`

`MCMachine` puts these nine, `SerialOrder`, `RemoteInterface`, `ScreenReader` and
`LoginSwitch` into one run. They share no state in the code, so a behaviour is one
of one of them (`component`): the variables of the others keep one initial value,
and each is explored just as it would be alone. (The setter of HDMI-CEC and
`CecdService` are explored apart too: all they share in the model is the bound on
failures.)

Definitions whose comment begins with MUTANT are not part of a model. Each is a
plausible bug in the operation it is named after, and shows that the property
listed with it in `PROJECT.json` can fail.

## Model checking

Deadlock is checked in `tdp_*`, `job_*`, `daemon_full` and `session`. In the others
the bounds, or the code itself, bring a behaviour to rest: `sysfs_charge` (five
calls answered), `root_daemon` (an inhibitor that has seen everything), `machine`
and `remote_startup` (all calls made). `root_daemon` alone uses symmetry, of
the daemon's clients; it checks safety only.

| run | question | bounds | expected |
|---|---|---|---|
| `tdp_faults` | Does the service keep its accounts, and the mode, whatever fails? `HandleAccounting`, `ModeKeptWhileHeld` | 2 identifiers, 2 handles each, 2 queued commands, 3 limits; another process owns the limit, SetProxy, failing calls, crashes (475 000 states) | holds |
| `tdp_reliable` | If no call fails, does it implement the lock, leave the mode, and give the fan back? `ImplementsLock`, `LowPowerExited`, `NothingLeftBehind`, `FanNotForgotten` | as above, the machine's own limit, no faults | holds |
| `tdp_profiles` | Is a limit remembered and put back, and a handle honoured, when limiting becomes active again? `LimitIsRemembered`, `SavedLimitReturned`, `ModeEnteredOnReturn` | 1 identifier, no faults, profile switches | holds |
| `tdp_failed_leave` | "When all handles are closed, low power mode is exited" - also if a call fails? `LowPowerExited` | 1 identifier, faults | violated |
| `sysfs_charge` | Who gets which answer, what is in the file, does everybody get one, what do clients see? Does the queue implement `LatestWrites`? `ImplementsWrites`, `SettledIsNewest`, `EveryCallAnswered`, `ShownIsCurrent` | 5 calls, 1 path, writes fail (105 000 states) | holds |
| `job_calls` | Flag, process and code; who waits for whom. `StoppedIsPaused`, `WaitedForRuns`, `CodeIsStatus`, `CallsComeToAnEnd` | one direct client, one of the mirror, all methods for ever (13 000 states) | holds |
| `job_managers` | Is every job mirrored, once? Does every caller get an answer, and that of its own job? `MirrorsAreOne`, `AnswerIsOwnJob`, `NoneIsForgotten` | 2 callers, 2 jobs of either owner, 1 restart of the root daemon (136 000 states, 1 min) | holds |
| `root_daemon` | Is an unsaved state always announced, and the applied one the one there is? `UnsavedIsPending`, `AppliedIsState`. Is a mouse inhibited exactly while Steam has the device? `InhibitorKeepsUp` | 2 clients, 4 commands under way, channel of 2, handlers fail, signals, crashes; 1 device plugged in twice, 2 inhibitors, 2 events (3.1 million states, 2 min) | holds |
| `daemon_full` | Is a queued ReloadConfig taken up? `ReloadConfigIsHandled` | 2 clients, 3 commands under way, channel of 2 | violated |
| `session` | Does a setter undo another's? Do property and boot session agree, is the state saved, do setters return, has the loop room to save? `NoUpdateLost`, `StateIsBoots`, `SettersLeaveRoom`, `SettersSettle` | 2 setters and one desktop, or 1 setter, 2 desktops, refusals, stops and crashes; channel of 2 (226 000 states, 3 min) | holds |
| `machine` | Thirteen components one at a time: does each end up as it was asked to? `SystemIsInMode`, `CecInStep`, `AnswerIsInForce`, `ReaderIsInStep`, `NewestIsApplied`, `RelayFollowsRemote`, `SwitchIsForOnce`, `SupportedIsServed`, `ProfileInStep`, `StopIsOrderly`, `DevicesAreDeck`, `DumpIsOurs`, `OverCurrentsAreTold` | see below (1.8 million states, 2 min) | holds |
| `remote_startup` | "existing remotes ... will be dynamically detected at runtime" - also TdpLimit1? `PresentIsRelayed` | 3 interfaces, a process that is there or not | violated |

`CallsComeToAnEnd`, `NoneIsForgotten`, `SettersSettle`, `InhibitorKeepsUp` and
`CecInStep` are conjunctions of two properties of one component, which their modules
define and name one by one.

Why the bounds are enough:

- `MaxHandles`, `MaxQueue`: two handles of one identifier tell a count from a
  flag, and two identifiers a count from the sum; a handler is suspended with
  two more commands behind it, so that every pair of commands meets. Three
  limits leave one above and one below the download limit.
- `MaxRequests`: of five calls on one path, one can be in hand, one in the map
  and be superseded, with others before and after. Only the charge limit goes
  through the queue in this code, hence one path; the theorems are about any
  set of paths. (With two, the liveness property is false: `Notify` keeps one
  notification and `recv` takes one entry for it, so the second entry stays
  until the next send.)
- `Clients` of a job: one on each object, or both on the mirror, exhaust the
  ways in which two calls queue; safety is proved for any number.
- `Capacity` and `Burst`: with `b` commands of clients under way at most `2b +
  1` entries come together in the channel, those commands and a WriteState for
  each (`LoopNeverWaitsForItself`; with `2b` places TLC finds the loop waiting, for
  `b` = 1 and 2). The real channel has ten places, which is enough for four
  commands at a time. `daemon_full` therefore shows with two
  places and three commands what takes five or more commands in the real one.
  `session` has the smallest channel in which its setters do not stop the loop,
  two places (`SettersLeaveRoom` is violated with one).
- `MaxJobs`, `MaxRestarts`: two jobs of each of two owners, two callers that
  may ask for the same or different ones, and the numbers that come back after
  a restart.
- `DsInhibit`: a device that is unplugged and plugged in again has a second
  inode with the same number, and two inhibitors overlap; two events in the
  queue are an open and a close, or a close and a delete, none of which is
  taken yet.
- `machine`: two failures let a call fail, be repeated and fail again
  elsewhere, or a daemon be stopped in between (Wi-Fi, hardware, login); three
  CEC calls of two callers are two that overlap and one after them; four setter
  calls over three interfaces, two of them checked by the root daemon, are two
  to one interface with others between them; three flaps of the remote process
  are gone, back, gone; three interfaces are a remote one, one that the daemon
  has itself and TdpLimit1; three logins are two sessions with a switch between
  them and what follows; a broadcast channel of two (five in the code)
  overflows with three mode changes, after which the user daemon starts again (a call
  that is under way then is in no behaviour of the run: that case is proved, not
  checked). The screen reader has another rate than the default in its file at
  first, so that a missing file is told from one that was read, and one fault: a step
  that fails, an Orca that ends or a file that changes. Two queued TDP limits are one
  that waits while another is written, and limiting may go in between. `Lo`..`Hi` has values below, between and
  above the minima of the firmware's limits, and the largest overflows the word
  of the ALIB payload. The address of the CEC device starts as 1 in every
  behaviour (the two are alike), and one voice stands for all that Orca has.
- `machine`, continued: at most two things about a machine are out of order at
  once (`OddMachines`), so that every pair of checks meets; three profile calls
  of two callers are two that overlap and one after them, for which the property
  is, with two failures, of a call and of the IsActive after it; two lives of the root daemon and one fault are one that fails or is killed
  and one that inherits; two devices and two plugs let one come while the other
  is asked, and one come back; three dumps and two crashes by themselves are one
  call that is abandoned, one that meets its file and one more, with a dump nobody
  asked for in each; four USB events are two read together, one in between and one
  after.
- `signals`, `queue` and `channel` are bounded by the calls that fill them.

Local faults of the low power mode (a failing call while a profile switches) are
not in a run of their own: `HandleAccounting`, `ModeKeptWhileHeld` and
`LimitIsRemembered` are proved for all values of the constants, faults and profile
switches together included.

Fairness, and why the code has it:

- tokio polls a task that can go on in the end: weak fairness of the steps inside
  a handler or a setter.
- `select!` polls its branches in random order: strong fairness of a command and
  of a joined waiter, either of which may be disabled again by the other branch.
- zbus and tokio hand locks and channel slots out first come first served: strong
  fairness of getting the job, the mirror, the interface or a slot.
- A signal that was sent takes effect. That a process ends by itself, unless
  stopped, is assumed by `EndingSpec`, for `job_calls` only: otherwise a Wait
  need not return.
- `JobManager`: strong fairness of taking a signal and of taking a command, which
  `select!` chooses between at random; weak fairness of the steps of the service
  and of a call under way, and of the root daemon's being started again by systemd.
- `RemoteInterface`: weak fairness of the daemon's steps. `remote_startup` is
  violated although nothing but the waiting for each other stops it.
- Nothing is assumed of clients, of profiles, of signals being sent, of crashes.

### What the violated runs show

- `tdp_failed_leave` (`power.rs:1128`): on closing of the last handle the mode is
  left by one call of `update_download_mode`, whose error is logged. If it fails,
  the download limit stays in force with no handle left, and nothing tries again.
- `daemon_full` (`daemon/root.rs:159`): the handler that changes the state sends
  WriteState to the channel of which it is the only receiver. When the channel
  is full the send never returns, and no message is taken up again.
- `remote_startup` (`power.rs:869`): registering a remote TdpLimit1 sends SetProxy
  to the TDP manager and awaits the reply. At the start of the user daemon it runs
  inside `create_interfaces`, awaited at `daemon/user.rs:187`; `TdpManagerService`
  is added at `:205`. With a configured TdpLimit1 whose process is already there
  the daemon never gets that far.

### What else modelling showed

No run is about these. They are exceptions that the properties name, or behaviours
no document speaks of.

- Jobs: a Cancel, forced or not, queues behind a Wait that has the object until
  the process ends (`job.rs:274`). A job paused after its process was reaped
  counts as paused although nothing was stopped, and the next Wait returns the
  error of resuming it rather than the exit code (`job.rs:244`, `:275`). After
  a restart of the root daemon numbers come again, and a caller may get a
  mirror of the job that had the number before; and the mirror of a remote
  owner's job is a proxy of the root daemon's job with that number
  (`job.rs:141`). The XML of Job1 names a method ExitCode that the code does
  not have.
- Daemons: a SIGHUP that arrives while a handler runs is lost with the listener
  of that turn (`daemon/mod.rs:178`); SIGTERM leaves a pending WriteState
  unwritten. A user daemon that restarts in the low power mode knows neither
  the limit to restore nor the stopped fan control (`power.rs:928`), and one
  that stops between the root daemon's file and its own leaves a boot session
  that DefaultLoginMode does not show (`session.rs:279`).
- TDP: a remote that comes back after another is not told to enter the mode,
  since SetProxy does not update it; the ALIB limit shown is the cached one.
- sysfs: with two paths, `Notify` would keep one notification for two entries,
  and the second would stay until the next send; the code uses one path.
- Inhibitor: a mouse that appears after its node was looked at is not watched,
  and an inhibitor cancelled between a check and the noting of its watch leaves
  the mouse inhibited; one that shuts down late overrules the next (the
  exceptions `early`, `unfinished` and `lastWriter`).
- Start and stop: what runs when a later step of the root daemon's start fails is
  dropped without its shutdown: the tracefs instance stays until the next start
  takes it over (`daemon/root.rs:127`).
- Interfaces: a profile choices file without an entry counts as one profile, and
  PerformanceProfile1 is exported for it. Profile calls that overlap can leave
  TdpLimit1, and the profile that was announced, wrong until the next call: each
  reads the profile after its own write, and the tasks are answered in the order
  of their questions, not of their writes (`manager/user.rs:741`). A call that fails
  after the root daemon has written the profile (`:735`, `:736`), or an IsActive that
  fails (`:744`), leaves them wrong too, also when nothing overlaps.
- InputPlumber: the enumeration ends at the first device that fails, and the later
  ones are left as they are (`inputplumber.rs:138`).
- Wi-Fi dump: a daemon that is stopped during the call leaves its file, which keeps
  the log submitter out and makes every later call fail, since it must create it
  (`wifi.rs:478`). The ten seconds of `single_poll` start again with every event of
  another kind.
- udev: an over-current event whose count is no number, or a signal that cannot be
  sent, is an error of the service, and `Service::start` then cancels the token of
  all: the whole user daemon stops (`udev.rs:131`, `lib.rs`).
- Remotes: a change that comes before RemoteInterface1 is exported, or the
  "lost" of an interface that was not exported, ends its task, and later
  changes are not seen; signals are forwarded only for a process that comes
  after the start, and once more for each return; a ping that fails with any
  error but ServiceUnknown or NameHasNoOwner makes the start-up fail; a remote
  TdpLimit1 that goes takes the daemon's own TdpLimit1 off the bus.
- Settings: a root validator for all interfaces drops a call overtaken by one
  for another interface. A client that sets a TDP limit is told Ok before anything
  is done, also when the limit is refused then or not written (`manager/user.rs:1233`).
  On Intel the minimum of the GPU clock is written
  before the maximum, and is refused when it is above the old one. So a
  manual clock cannot be raised. The
  scheduler shown is what was asked for, also when its job failed, and after a
  restart "lavd" exactly if the unit is enabled, whether it runs or not. The firmware's limit, and the governor, are read from the
  first of several files. The GPU power profiles offered are the kernel's names
  in capitals ("CAPPED"), while the setter takes the names in small letters
  only, though the XML says that what AvailableGpuPowerProfiles has is what may be
  set. The state of fan control, and the signal that announces it, may be the old
  one until systemd has run the job. Mono sound set by another program is not
  noticed.
- Wi-Fi: after a restart of the root daemon while tracing, the mode is "off"
  and setting it off does nothing; a failed enabling is not undone by
  disabling. Power management set while NetworkManager starts by itself, after a
  change of the backend, may be overruled by the settings it had already read
  (the exception `oldTaken`).
- HDMI-CEC: overlapping calls without cecd can leave a mixture of states.
- Screen reader: a `set_enabled` that fails after its first step leaves
  GSetting, file and field apart, and setting the old value again is taken for
  done; without Orca's file the GSetting is set, but no file is written; a stop of
  Orca while a start is queued only warns; the mode is not
  reset when Orca restarts; a receiver that lags is an error with which the whole
  user daemon stops (`manager/user.rs:1480`, `daemon/mod.rs:183`).
- Login: a clean-up that comes after the switch of the new session takes its
  file; a failed logout leaves the file for a later login.

## Proofs

For all theorems: the named assumptions of the module, which TLC evaluates in the
runs. They say what kind of thing the constants are. Those that say more:

| assumption | what it says, and why |
|---|---|
| `RemoteAssumption` | no interface is configured twice: the configuration has one field for each |
| `InhibitAssumption` | there is a device, and what is Steam is a process |
| `SessionAssumption`, `NoneIsNoCommand` | Plasma is a desktop, Gamescope is none; the absence of a session or a call is neither |
| `DriverAssumption` | 0 < `Lo` <= `Hi` <= `WordMax`; the directory of policies has policy0 |
| `MachinesAssumption` | a part of a machine has one trouble at a time |
| `CecAssumption`, `ReaderAssumption` | there is an address; the default rate and those that others write are rates; the voice the daemon does not know is not among the voices; a broadcast channel has room |
| `ProfileAssumption` | the profiles with a limit are profiles |

Every safety property and refinement that a run checks is stated by a theorem. So
are the types: each module's type invariant is a theorem of its own, or the first
conjunct of the invariant that the theorems below rest on; the runs do not repeat
them.

### `TdpManagerProofs`

For any identifiers, limits and bounds:

- `TypeCorrect`. `TypeOK` alone is not inductive: that a return comes from
  somewhere and that the limit given to the restoring call is a limit needs
  `Suspended`, what the await a handler is at says of the rest of the state.
- `HandlesAccounted`: `HandleAccounting` is inductive together with the above.
  A count moves with the waiter made, or with the error that unmakes it.
- `LimitAlwaysRemembered`: `LimitIsRemembered`, unless the daemon restarts
  (`~Crashes`).
- `ModeKept`: `ModeKeptWhileHeld`, restarts and failures included. Needs
  `ProxyInQueue`: at most one change of proxy is under way, and it is one, so
  that a limit is not set past the mode because a proxy came twice.
- `NothingIsLeft`, for `Reliable` (no call fails, no profile switches, no
  crashes, no remote): `Saved` says of every await what is already undone.
- `FanIsNeverForgotten`, if no call fails and the daemon stays, whatever profiles
  and proxies do: `FanIsNoted` covers the await between the note and the speed.
- `ServiceImplementsLock`: under `Reliable`, `Spec => LPL!LockSpec` with
  `locked <- previous_limit # None /\ pc # "set_tdp_limit"` (the mode is on from
  the moment its limit is in force until the saved one is). `IsActive`,
  `GetTdpLimit` and the fan's steps stutter, `ApplyDownloadLimit` is `Lock`,
  `RestoreLimit` is `Unlock`, `HandleSetTdpLimit` is `Set`, a waiter made or
  joined is `Acquire` or `Release`.

### `SysfsWriterProofs`

The queue, for any paths and any number of calls: `QueueTypeCorrect`,
`PromisesOwned`, `SupersededNeverWritten`, `NewestIsWritten`, `QueueKeepsPromise`,
`UnshownIsAlwaysAnnounced`. The inductive
invariant `SysfsInv` adds to the types where a request is (`Issued`) and that
what is being written is older than what waits for the same path (`InOrder`),
without which an old write could still overtake a newer one; `NewestInv` adds
that files only move forward.

- `QueueKeepsPromise` is `Spec => LW!WriteSpec`, the variables of `LatestWrites` being
  those of `SysfsWriter` with the same names: `SendInsert` is `Ask`, where the request
  that is being written is the one that stays; `Write` is `Settle`, whose request is the
  oldest by `InOrder`; the notification, `recv`, the announcement and the relay stutter.
- `NoWakeupIsEverLost`, for one path: a service that waits has nothing in the map, or
  the sender is about to notify it. `UnshownIsAlwaysAnnounced`: what clients have not
  been shown is about to be announced or relayed. What is left to `EveryCallAnswered`
  and `ShownIsCurrent` after these is that each step is taken in the end.

`DsInhibit`, for any devices, processes, plugs and runs: `InhibitorInvariant` and
`InhibitorAlwaysKeepsUp`. `InhibitorKeepsUp` speaks of inhibitors with nothing left
to do; `InhibitInv` says the same of those that have something left:

- `NoneSlipsThrough`: a device that is there is noted, or a create event, the list
  of /dev or the task is about to come to it; `EndsAreTold`: a noted inode has a
  watch, or its delete event is in the queue, and is gone then.
- `SeenIsSo`: with no event of the device in the queue, the rest of the scan will
  say, the write will write, or the file has, what is so now.
- `SomebodyOwes`: an inhibited mouse has an inhibitor that is to uninhibit it.
- `RunsInOrder`, `InodesArePast` and `MiceAreThere`: which state an inhibitor has in
  which phase, and that no event or watch is of an inode that is still to come.

### `JobProofs`

`Job`, for any number of clients, mirrored or not: `JobTypeCorrect`,
`NeverStoppedUnpaused`, `WaitIsNotObstructed`, `CodesAreTrue`. `JobInv` adds who
has the object while somebody waits (`Waiter`), how process, signal and status
go together (`Ended`) and that answers given agree with the code (`RepliesAgree`).

`JobManager`, for any callers, any number of jobs and restarts:
`MirrorTypeCorrect`, `MirrorsAreAlwaysOne`, `AnswerIsAlwaysOwnJob`,
`NoneEverFallsBetween`. `MirrorInv` adds
that a caller has at most one command in the channel, for the path it was given
(`InChannel`), and that a path given is one the owner has numbered (`CallerHas`);
without the first a command could answer somebody else's call. `NoneEverFallsBetween`
is what `NoneIsForgotten` rests on: a job that is not mirrored is with the
introspection, to come or under way, or announced by a signal still to be read
(`IsOnItsWay`), and whoever waits is in the channel. It needs that the service finds
MirrorConnection in its channel after it has subscribed, not before (`BetweenInv`).

### `DaemonProofs`

For any clients, any states and any size of the channel:
`DaemonTypeCorrect`, `StateIsApplied`, `UnsavedIsAnnounced`. `UnsavedIsPending`
speaks of the loop between two handlers; `DaemonInv` adds why an unsaved state is
not forgotten in the middle of one (`OnItsWay`: a WriteState is about to be sent,
or the file to be written, or the daemon is down and will read the file), and the
lemmas about the channel that taking one command leaves a WriteState behind it.

`LoopNeverWaitsForItself`, for finitely many clients and `Capacity > 2 * Burst`: the
loop, which alone empties the channel, finds room for its WriteState. `RoomInv` counts,
for every WriteState in the channel, the commands before it, the WriteStates from it on
and the one that is owed: `Burst + 1` at most, since the first was sent behind no more
than the commands there are, and each other one for a Set ahead of the first.

### `SessionManagerProofs`

`SessionManager`, for any setters, desktops, capacity of the channel, stops and
crashes. `SessionRunsDaemon` is `Spec => D!Spec`: every step of a setter is a request
of a client of `Daemon` or leaves the daemon alone, so that `DaemonInv` is one
conjunct of `SessionInv`. `NoUpdateIsLost` and `StateIsAlwaysBoots` need where the
wanted state is at each await: one setter has the interface (`HolderIsAlone`), what it
knows is what is wanted (`HolderKnows`), the channel has no question behind which there
is a change (`InOrder`), any change in the channel is the wanted one (`SetIsWanted`),
and with none the state is (`StateIsWanted`). `BootFollows`: the root daemon's file is
one step ahead, unless a stop came between the two files.

`SettersAlwaysLeaveRoom`, for any number of setters and two places or more: here no
count is needed, since a setter asks before it writes. While the loop owes a
WriteState there is no other in the channel, and the one setter that has the interface
has at most a question there (`RoomInv`: `SavesGoFirst`, `HolderIsBehind`).

`LoginSwitch`, for any calls, sessions, logins and failures:
`SwitchIsAlwaysForOnce`. `LoginInv` relates the file to the session's history
(`FileIsSwitch`).

### `InterfaceProofs`

`SerialOrder`, for any interfaces and any number of calls:
`SerialTypeCorrect`, `NewestIsAppliedAlways`, and `NeverOlder` as an action
property. `SerialInv` says of a message built or sent that it is the newest
that its interface let through (`OnItsWay`), and that there is one of them at
most (`OneEach`), which the interface's lock is for.

`RemoteInterface`, for any list of interfaces and any number of starts
and stops: `RemoteTypeCorrect`, `RelayAlwaysFollowsRemote`.
`RelayFollowsRemote` speaks of a task that has taken all its changes;
`RemoteInv` adds that the last change of one that has not is the state the
other process is in, or that whoever is in `register` will find out by its ping
(`Knows`), that object and registration go together (`OneRelay`), and which
tasks exist while the configuration is gone through (`InTurn`).

`PerformanceProfile`, for any profiles, callers and changes:
`ProfileIsAlwaysInStep`. `ProfileInv`: a call that has been alone since it began still
is, and after a calm change one answer at most is to come, the right one, unless the
question has failed (`OneAnswerToCome`).

`UserInterfaces`, for a machine with any combination of troubles, of which TLC looks
at pairs: `SupportedIsAlwaysServed`. `StartInv` is about any order of steps whose
skips are nested: what is served is what a step that was come to serves and its check
allows, where a step is come to unless one before it passes over it (`Reached`). The
lemmas about the order (`Rows`, `Places`) and the checks (`GroupAnswers`, `OwnAnswers`)
turn that into what each interface needs. `InterfacesTypeCorrect` has the types.

### `ServiceProofs`

- `WifiDump`, for any number of dumps and crashes: `DumpIsAlwaysOurs`
  (`FoundIsThere`: what the monitor found nobody takes but the call; `FileInCall`:
  meanwhile the file keeps the submitter out). `LeftFileStopsDumps`, an action
  property: once a stopped call has left its file, no call ends with a dump.
- `InputPlumber`, for any devices and plugs: `DevicesAreAlwaysDeck`. `SeenTo` says who
  will see to a device that has not its targets: the enumeration to come or the rest
  of it, a signal, or its task.
- `Lifecycle`, for any number of lives and faults: `StopIsAlwaysOrderly`. A failure is in
  the result of the loop or in that of a task still to be joined (`FailureIsKept`);
  the tracefs instance goes with ftrace's shutdown (`InstanceGoes`).
- `UdevEvents`, for any events and failures: `OverCurrentsAreAlwaysTold`. The socket has
  exactly the events not read (`SocketHasTheRest`), an event in it means that it is
  taken for readable or is about to be (`ReadyIsKnown`), and what was read is
  announced or in the pipe, in order (`ToldIsRead`, `IncreasingTold`).

### `SettingsProofs`

Calls that are lists of steps. The invariant of each says what a call has done by what
it has left to do, and that later steps, other calls and systemd leave it so:

- `Cec`, for any clients, addresses and bounds: `CecIsAlwaysInStep`. `RestOfPlan`: what is
  left is the rest of what the state takes; `AloneIsKept`: a call without another
  beside it finds what it did as it left it, which is the lemma that later steps undo
  no earlier one (`PlansAreKept`); `ListenerKnows` for `CecdService`.
- `ScreenReader`, for any calls and changes: `ReaderIsAlwaysInStep`. `EnabledMidway`: which
  of field, GSetting and file (if it counts as `agreed`) have the value at each step, and
  likewise for a setting that is written but not told to Orca yet; `OneStop`: the relay waits
  for the mutex once; `ModeIsOnItsWay`: the last mode in the broadcast is the
  current one, or the interfaces follow it already.
- `Wifi`, for any calls, failing steps and restarts: `SystemIsAlwaysInMode`.
  `DebugMidway`, `BackendMidway` and `PowerMidway` go through the steps of the three
  calls; `SystemHasMode` holds between the calls for the debug mode.
- `HardwareSettings`, for any ranges, minimums, scale, policies and faults:
  `AnswerIsAlwaysInForce`, `HardwareTypeCorrect`. `Progress`: each write of the call is done or
  still to come, driver by driver (queued limits are no call yet); `SchedulerInStep` and `AudioInStep`: what a manager keeps in
  memory is what the file has or what its last write brings.

### Only model-checked

Liveness (`LowPowerExited`, `SavedLimitReturned`, `ModeEnteredOnReturn`,
`EveryCallAnswered`, `ShownIsCurrent`, `CallsComeToAnEnd`, `NoneIsForgotten`,
`SettersSettle`, and the violated `ReloadConfigIsHandled` and `PresentIsRelayed`):
liveness under fairness and ENABLED are out of the prover's reach. The part of them
that speaks of states is proved where it is more than a type: no wake-up is lost, what
is not shown is announced, no job and no caller falls between (`NoWakeupIsEverLost`,
`UnshownIsAlwaysAnnounced`, `NoneEverFallsBetween`), and the loop never waits for
itself (`LoopNeverWaitsForItself`, `SettersAlwaysLeaveRoom`).

## Not modelled, and why

- Queries (GetTdpLimit, GetTdpLimitRange, IsActive, ListDownloadModeHandles and
  the like) read one variable and change nothing.
- Data that no property tells apart: the payload of the ALIB call, file
  formats, paths; in `TdpManager` the three limits of the firmware are one
  value (`HardwareSettings` has them).
- The setter of PerformanceProfile has the TdpLimit1 object in
  `PerformanceProfile`, its effect on the low power mode in `TdpManager`, and a
  remote TdpLimit1 is in `RemoteInterface`; the three are not composed.
- sd_notify; the user daemon's five pings of the root daemon at its start, and its
  shutdown (that of the root daemon is the same code); of the configuration, what
  the files may contain and how the directories are layered.
- Three hazards that have no property: a restart of the user daemon forgets the
  low power handles and the stopped fan control (`power.rs:928`: there is nothing
  in the code that could remember them); a signal that comes while a handler runs
  is lost with the listener of that turn (`daemon/mod.rs:180`); SIGTERM loses a
  pending WriteState (`daemon/mod.rs:195`). `TdpManager` and `Daemon` have these as
  actions, and their properties hold in spite of them.
- `set_default_session` is one call that replaces the file or fails without
  touching it.
- `set_wifi_power_management_state` takes `&self`: two of them at once are not
  modelled, each is one. The extraction of traces runs a helper that changes none
  of this state; `configure_cecd` writes one file at the start.
- The user daemon's own RunProcess command, which nothing sends.
- Factory reset, the light sensor, updates, storage: single calls that start a
  helper or open a file. Where a helper runs as a job, `Job` and `JobManager` model
  it; when they are exported is in `UserInterfaces`.
- InputPlumber: a device that is there answers. A call to it that fails ends the
  enumeration or its task; `InputPlumber` has this only for a device that has gone.
- Screen reader: pitch and volume, which are handled as the rate is, and the
  locale, which only chooses among the voices that are shown; uinput's keys.
- The log submitter's service and ftrace: text is read from a pipe and passed on,
  without state. The proxies of systemd: each method is one call.
- Proxies, macro parsing, the command line client, error conversion, tests: no
  behaviour that changes over time. These are more than half of the lines of the
  repository.

## Plan

1. Done: the components above, with their runs, and theorems for each safety
   property, in eight modules of proofs.
2. Done: the room in `Daemon`'s channel, and the refinements of `LowPowerLock` by
   `TdpManager` and of `LatestWrites` by `SysfsWriter`.
3. To come: an abstract relay for `RemoteInterface`.
4. To come: the TdpLimit1 object, joining `TdpManager`, `PerformanceProfile` and
   `RemoteInterface`.
