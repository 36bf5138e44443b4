----------------------------- MODULE TdpManager -----------------------------
(***************************************************************************)
(* TdpManagerService (src/steamos-manager/src/power.rs): one task owns the *)
(* TDP limit and the low power "download" mode. It serves a channel of     *)
(* commands and a set of tasks, one per handle, each of which ends when    *)
(* the pipe it watches is closed. While a handle is out the limit is held  *)
(* at the download limit; when the last one is closed the limit that was   *)
(* in force before is put back, and fan control is restarted.              *)
(*                                                                         *)
(* A handler is a coroutine: at every await it can fail, and the world (a  *)
(* client, the performance profile) can move before it resumes. pc names   *)
(* the await it is suspended at.                                           *)
(***************************************************************************)
EXTENDS Naturals, Sequences, FiniteSets

CONSTANTS
    Ids,                 (* identifiers given to EnterDownloadMode         *)
    Limits,              (* the TDP limits in the configured range         *)
    MinLimit,            (* the least of them, range.min                   *)
    DownloadLimit,       (* download_mode_limit (the mode is configured)   *)
    None,                (* Option::None                                   *)
    FanConfigured,       (* is download_mode_fan_speed set?                *)
    CachedLimit,         (* AcpiCallAlib: the limit read is the one cached *)
    Remote,              (* RemoteInterface: the limit is another process' *)
    CallsFail,           (* may an awaited call fail, or its reply be lost?*)
    ProfileSwitches,     (* does the performance profile change?           *)
    Crashes,             (* may the user daemon crash and be restarted?    *)
    MaxHandles,          (* bound: handles of one identifier               *)
    MaxQueue             (* bound: commands waiting in the channel         *)

ASSUME LimitAssumption ==
    /\ Limits \subseteq Nat \ {0}
    /\ MinLimit \in Limits
    /\ DownloadLimit \in Limits
    /\ None \notin Limits \cup Ids

ASSUME SwitchAssumption ==
    /\ {FanConfigured, CachedLimit, Remote} \subseteq BOOLEAN
    /\ {CallsFail, ProfileSwitches, Crashes} \subseteq BOOLEAN
    /\ ProfileSwitches => ~Remote /\ ~CachedLimit
    /\ Remote => ~CachedLimit
    /\ MaxHandles \in Nat
    /\ MaxQueue \in Nat

VARIABLES
    (* TdpManagerService *)
    queue,               (* the commands in the channel                    *)
    download_handles,    (* the count of each identifier, 0 if absent      *)
    previous_limit,      (* the limit to restore, or None                  *)
    restart_fan_control_service,
    cached_limit,        (* AcpiCallAlibTdpLimitManager::cached_limit      *)
    pc,                  (* the await the running handler is suspended at  *)
    serving,             (* the identifier being given a handle, or None   *)
    (* download_set: one waiter task per handle *)
    held,                (* waiters whose pipe a client keeps open         *)
    closed,              (* waiters that have ended and are not yet joined *)
    (* the machine and the other processes *)
    active,              (* is TDP limiting active?                        *)
    limit,               (* the limit in force                             *)
    low,                 (* did the download mode put it there?            *)
    fan,                 (* who controls the fan                           *)
    fixedSpeed,          (* is the fan at the speed of the download mode?  *)
    announcing           (* a profile change not yet told to the service   *)

service == <<queue, download_handles, previous_limit,
             restart_fan_control_service, cached_limit, pc, serving>>
waiters == <<held, closed>>
machine == <<active, limit, low, fan, fixedSpeed, announcing>>
vars == <<service, waiters, machine>>

SetTdpLimit(l)       == [type |-> "SetTdpLimit", limit |-> l]
UpdateDownloadMode   == [type |-> "UpdateDownloadMode"]
EnterDownloadMode(i) == [type |-> "EnterDownloadMode", id |-> i]
SetProxy(p)          == [type |-> "SetProxy", proxy |-> p]

Command ==
    {SetTdpLimit(l) : l \in Limits} \cup {UpdateDownloadMode}
        \cup {EnterDownloadMode(i) : i \in Ids}
        \cup {SetProxy(p) : p \in BOOLEAN}

Awaits == {"idle", "is_active", "get_tdp_limit", "restore", "restart_fan",
           "set_tdp_limit", "fan_control_state", "stop_fan", "set_fan_speed"}

\* The types of the service's fields, its waiters and the machine.
TypeOK ==
    /\ queue \in Seq(Command)
    /\ download_handles \in [Ids -> Nat]
    /\ previous_limit \in Limits \cup {None}
    /\ restart_fan_control_service \in BOOLEAN
    /\ cached_limit \in Limits
    /\ pc \in Awaits
    /\ serving \in Ids \cup {None}
    /\ held \in [Ids -> Nat]
    /\ closed \in [Ids -> Nat]
    /\ active \in BOOLEAN
    /\ limit \in Limits
    /\ low \in BOOLEAN
    /\ fan \in {"Os", "Bios"}
    /\ fixedSpeed \in BOOLEAN
    /\ announcing \in BOOLEAN

Init ==
    /\ queue = <<>>
    /\ download_handles = [i \in Ids |-> 0]
    /\ previous_limit = None
    /\ restart_fan_control_service = FALSE
    /\ cached_limit = MinLimit
    /\ pc = "idle"
    /\ serving = None
    /\ held = [i \in Ids |-> 0]
    /\ closed = [i \in Ids |-> 0]
    /\ active \in IF Remote THEN {FALSE}
                  ELSE IF ProfileSwitches THEN BOOLEAN ELSE {TRUE}
    /\ limit \in Limits
    /\ low = FALSE
    /\ fan \in IF FanConfigured THEN {"Os", "Bios"} ELSE {"Bios"}
    /\ fixedSpeed = FALSE
    /\ announcing = FALSE

-----------------------------------------------------------------------------
(* The calls a handler awaits.                                             *)

NoHandles == \A i \in Ids : download_handles[i] = 0

\* get_tdp_limit: the ALIB method has no way to read the limit back.
Reading == IF CachedLimit THEN cached_limit ELSE limit

\* The machine takes limit l; byMode says whether for the download mode.
PutLimit(l, byMode) ==
    /\ limit' = l
    /\ low' = byMode

\* set_tdp_limit(l) succeeds: only an active interface takes a limit.
CallSetLimit(l, byMode) ==
    /\ active
    /\ PutLimit(l, byMode)
    /\ cached_limit' = IF CachedLimit THEN l ELSE cached_limit

\* set_tdp_limit(l) returns an error: the interface is inactive or the call
\* fails, which may happen after the limit was written.
CallSetLimitFails(l, byMode) ==
    /\ ~active \/ CallsFail
    /\ UNCHANGED cached_limit
    /\ \/ UNCHANGED <<limit, low>>
       \/ active /\ PutLimit(l, byMode)

\* MUTANT of Return: an error leaves the write end of the pipe open.
ReturnLeakingPipe(ok) ==
    /\ pc' = "idle"
    /\ serving' = None
    /\ IF serving = None \/ ~ok
       THEN UNCHANGED waiters
       ELSE held' = [held EXCEPT ![serving] = @ + 1] /\ UNCHANGED closed

\* update_download_mode returns: in EnterDownloadMode the write end of the
\* pipe goes to the client, or, after an error, is dropped.
Return(ok) ==
    /\ pc' = "idle"
    /\ serving' = None
    /\ IF serving = None
       THEN UNCHANGED waiters
       ELSE IF ok
            THEN held' = [held EXCEPT ![serving] = @ + 1] /\ UNCHANGED closed
            ELSE closed' = [closed EXCEPT ![serving] = @ + 1] /\ UNCHANGED held

Resume(next) == pc' = next /\ UNCHANGED <<serving, waiters>>

\* MUTANT of LeaveFan: fan control is not restarted.
LeaveFanStopped == Return(TRUE)

\* On leaving, and on entering, the fan comes last, if at all.
LeaveFan ==
    IF restart_fan_control_service THEN Resume("restart_fan") ELSE Return(TRUE)
EnterFan ==
    IF FanConfigured THEN Resume("fan_control_state") ELSE Return(TRUE)

-----------------------------------------------------------------------------
(* The steps of update_download_mode, from await to await.                 *)

IsActive ==
    /\ pc = "is_active"
    /\ \/ active /\ Resume("get_tdp_limit")
       \/ ~active /\ Return(TRUE)
       \/ CallsFail /\ ~Remote /\ Return(FALSE)
    /\ UNCHANGED <<queue, download_handles, previous_limit,
                   restart_fan_control_service, cached_limit, machine>>

\* With no handle left there may be a limit to restore, and fan control to
\* restart; otherwise the limit found on entering is the one to restore.
GetTdpLimit ==
    /\ pc = "get_tdp_limit"
    /\ active
    /\ IF NoHandles
       THEN /\ UNCHANGED previous_limit
            /\ \/ previous_limit # None /\ Resume("restore")
               \/ previous_limit = None /\ LeaveFan
       ELSE /\ previous_limit' = IF previous_limit = None THEN Reading
                                                         ELSE previous_limit
            /\ \/ Reading # DownloadLimit /\ Resume("set_tdp_limit")
               \/ Reading = DownloadLimit /\ EnterFan
    /\ UNCHANGED <<queue, download_handles, restart_fan_control_service,
                   cached_limit, machine>>

\* The interface reads as an error, or as 0 when it is broken: give up.
GetTdpLimitFails ==
    /\ pc = "get_tdp_limit"
    /\ ~CachedLimit
    /\ \/ (~active \/ CallsFail) /\ Return(FALSE)
       \/ CallsFail /\ Return(TRUE)
    /\ UNCHANGED <<queue, download_handles, previous_limit,
                   restart_fan_control_service, cached_limit, machine>>

\* MUTANT of RestoreLimit: previous_limit is taken before the call is known to
\* have succeeded.
RestoreLimitTaken ==
    /\ pc = "restore"
    /\ \/ CallSetLimit(previous_limit, FALSE) /\ LeaveFan
       \/ CallSetLimitFails(previous_limit, FALSE) /\ Return(FALSE)
    /\ previous_limit' = None
    /\ UNCHANGED <<queue, download_handles, restart_fan_control_service,
                   active, fan, fixedSpeed, announcing>>

RestoreLimit ==
    /\ pc = "restore"
    /\ \/ /\ CallSetLimit(previous_limit, FALSE)
          /\ previous_limit' = None
          /\ LeaveFan
       \/ /\ CallSetLimitFails(previous_limit, FALSE)
          /\ UNCHANGED previous_limit
          /\ Return(FALSE)
    /\ UNCHANGED <<queue, download_handles, restart_fan_control_service,
                   active, fan, fixedSpeed, announcing>>

\* The result of set_fan_control_state is dropped (.ok()).
RestartFan ==
    /\ pc = "restart_fan"
    /\ \/ fan' = "Os" /\ fixedSpeed' = FALSE
       \/ CallsFail /\ UNCHANGED <<fan, fixedSpeed>>
    /\ restart_fan_control_service' = FALSE
    /\ Return(TRUE)
    /\ UNCHANGED <<queue, download_handles, previous_limit, cached_limit,
                   active, limit, low, announcing>>

ApplyDownloadLimit ==
    /\ pc = "set_tdp_limit"
    /\ \/ CallSetLimit(DownloadLimit, TRUE) /\ EnterFan
       \/ CallSetLimitFails(DownloadLimit, TRUE) /\ Return(FALSE)
    /\ UNCHANGED <<queue, download_handles, previous_limit,
                   restart_fan_control_service, active, fan, fixedSpeed,
                   announcing>>

FanControlState ==
    /\ pc = "fan_control_state"
    /\ \/ fan = "Os" /\ Resume("stop_fan")
       \/ fan = "Bios" /\ Resume("set_fan_speed")
       \/ CallsFail /\ Return(FALSE)
    /\ UNCHANGED <<queue, download_handles, previous_limit,
                   restart_fan_control_service, cached_limit, machine>>

\* MUTANT of StopFan: that fan control was stopped is not noted.
StopFanUnnoted ==
    /\ pc = "stop_fan"
    /\ \/ fan' = "Bios" /\ Resume("set_fan_speed")
       \/ CallsFail /\ fan' \in {fan, "Bios"} /\ Return(FALSE)
    /\ UNCHANGED <<queue, download_handles, previous_limit, cached_limit,
                   restart_fan_control_service, active, limit, low, fixedSpeed,
                   announcing>>

StopFan ==
    /\ pc = "stop_fan"
    /\ \/ /\ fan' = "Bios"
          /\ restart_fan_control_service' = TRUE
          /\ Resume("set_fan_speed")
       \/ /\ CallsFail
          /\ fan' \in {fan, "Bios"}
          /\ UNCHANGED restart_fan_control_service
          /\ Return(FALSE)
    /\ UNCHANGED <<queue, download_handles, previous_limit, cached_limit,
                   active, limit, low, fixedSpeed, announcing>>

SetFanSpeed ==
    /\ pc = "set_fan_speed"
    /\ \/ fixedSpeed' = TRUE /\ Return(TRUE)
       \/ CallsFail /\ fixedSpeed' \in {fixedSpeed, TRUE} /\ Return(FALSE)
    /\ UNCHANGED <<queue, download_handles, previous_limit,
                   restart_fan_control_service, cached_limit,
                   active, limit, low, fan, announcing>>

UpdateStep ==
    \/ IsActive \/ GetTdpLimit \/ GetTdpLimitFails \/ RestoreLimit \/ RestartFan
    \/ ApplyDownloadLimit \/ FanControlState \/ StopFan \/ SetFanSpeed

-----------------------------------------------------------------------------
(* run: an idle service takes a command, or joins a waiter that has ended. *)

TakeCommand(c) ==
    /\ pc = "idle"
    /\ queue # <<>>
    /\ Head(queue) = c
    /\ queue' = Tail(queue)

\* MUTANT of HandleSetTdpLimit: the limit is set in the mode, too.
HandleSetTdpLimitAlways(l) ==
    /\ TakeCommand(SetTdpLimit(l))
    /\ CallSetLimit(l, FALSE) \/ CallSetLimitFails(l, FALSE)
    /\ UNCHANGED <<download_handles, previous_limit, pc, serving, waiters,
                   restart_fan_control_service, active, fan, fixedSpeed,
                   announcing>>

\* The limit is only set outside the mode; inside it the command is dropped.
HandleSetTdpLimit(l) ==
    /\ TakeCommand(SetTdpLimit(l))
    /\ IF NoHandles
       THEN CallSetLimit(l, FALSE) \/ CallSetLimitFails(l, FALSE)
       ELSE UNCHANGED <<cached_limit, limit, low>>
    /\ UNCHANGED <<download_handles, previous_limit, pc, serving, waiters,
                   restart_fan_control_service, active, fan, fixedSpeed,
                   announcing>>

\* MUTANT of HandleUpdateDownloadMode: only done with no handles left.
HandleUpdateOnLeaving ==
    /\ TakeCommand(UpdateDownloadMode)
    /\ IF NoHandles THEN Resume("is_active") ELSE UNCHANGED <<pc, serving, waiters>>
    /\ UNCHANGED <<download_handles, previous_limit, cached_limit,
                   restart_fan_control_service, machine>>

HandleUpdateDownloadMode ==
    /\ TakeCommand(UpdateDownloadMode)
    /\ Resume("is_active")
    /\ UNCHANGED <<download_handles, previous_limit, cached_limit,
                   restart_fan_control_service, machine>>

\* get_download_mode_handle: the pipe is made, the handle counted and its
\* waiter spawned before the mode is updated.
HandleEnterDownloadMode(i) ==
    /\ TakeCommand(EnterDownloadMode(i))
    /\ download_handles' = [download_handles EXCEPT ![i] = @ + 1]
    /\ serving' = i
    /\ pc' = "is_active"
    /\ UNCHANGED <<previous_limit, cached_limit, waiters,
                   restart_fan_control_service, machine>>

\* Only a RemoteInterface has a proxy; it may be that of another process
\* than before, which has a limit of its own.
HandleSetProxy(p) ==
    /\ TakeCommand(SetProxy(p))
    /\ IF Remote
       THEN /\ active' = p
            /\ \/ UNCHANGED <<limit, low>>
               \/ p /\ \E l \in Limits : PutLimit(l, FALSE)
       ELSE UNCHANGED <<active, limit, low>>
    /\ UNCHANGED <<download_handles, previous_limit, cached_limit, pc, serving,
                   waiters, restart_fan_control_service, fan, fixedSpeed,
                   announcing>>

\* MUTANT of JoinWaiter: the identifier is removed whatever its count.
JoinWaiterRemoves(i) ==
    /\ pc = "idle"
    /\ closed[i] > 0
    /\ closed' = [closed EXCEPT ![i] = @ - 1]
    /\ download_handles' = [download_handles EXCEPT ![i] = 0]
    /\ pc' = IF NoHandles' THEN "is_active" ELSE "idle"
    /\ UNCHANGED <<queue, previous_limit, restart_fan_control_service,
                   cached_limit, serving, held, machine>>

\* MUTANT of JoinWaiter: the mode is not updated after the last handle.
JoinWaiterStays(i) ==
    /\ pc = "idle"
    /\ closed[i] > 0
    /\ closed' = [closed EXCEPT ![i] = @ - 1]
    /\ download_handles' = [download_handles EXCEPT ![i] = @ - 1]
    /\ UNCHANGED <<queue, previous_limit, restart_fan_control_service,
                   cached_limit, pc, serving, held, machine>>

\* join_next returned identifier i: only when that was the last handle is
\* the mode updated.
JoinWaiter(i) ==
    /\ pc = "idle"
    /\ closed[i] > 0
    /\ closed' = [closed EXCEPT ![i] = @ - 1]
    /\ IF download_handles[i] = 0
       THEN UNCHANGED <<download_handles, pc>>
       ELSE /\ download_handles' = [download_handles EXCEPT ![i] = @ - 1]
            /\ pc' = IF download_handles[i] = 1 /\ NoHandles'
                     THEN "is_active" ELSE "idle"
    /\ UNCHANGED <<queue, previous_limit, restart_fan_control_service,
                   cached_limit, serving, held, machine>>

HandleCommand ==
    \/ \E l \in Limits : HandleSetTdpLimit(l)
    \/ HandleUpdateDownloadMode
    \/ \E i \in Ids : HandleEnterDownloadMode(i)
    \/ \E p \in BOOLEAN : HandleSetProxy(p)

-----------------------------------------------------------------------------
(* Everybody else.                                                         *)

Send(c) ==
    /\ Len(queue) < MaxQueue
    /\ queue' = Append(queue, c)
    /\ UNCHANGED <<download_handles, previous_limit, cached_limit, pc, serving,
                   restart_fan_control_service, waiters>>

Queued(c) == Cardinality({k \in DOMAIN queue : queue[k] = c})

\* The D-Bus methods that need no more than to send a command.
Request ==
    /\ \/ \E l \in Limits : Send(SetTdpLimit(l))
       \/ \E i \in Ids :
             /\ download_handles[i] + Queued(EnterDownloadMode(i)) < MaxHandles
             /\ Send(EnterDownloadMode(i))
    /\ UNCHANGED machine

\* register_tdp_limit1 and unregister_tdp_limit1, which await the reply.
ProxyChanges ==
    /\ Remote
    /\ \A k \in DOMAIN queue : queue[k].type # "SetProxy"
    /\ Send(SetProxy(~active))
    /\ UNCHANGED machine

\* A client closes its handle, or dies; the waiter ends.
CloseHandle(i) ==
    /\ held[i] > 0
    /\ held' = [held EXCEPT ![i] = @ - 1]
    /\ closed' = [closed EXCEPT ![i] = @ + 1]
    /\ UNCHANGED <<service, machine>>

\* set_performance_profile: the root daemon switches the profile, which may
\* bring another limit with it; only then is the service told, unless the
\* signal sent in between fails.
SwitchProfile ==
    /\ ProfileSwitches
    /\ active' = ~active
    /\ \/ UNCHANGED <<limit, low>>
       \/ \E l \in Limits : PutLimit(l, FALSE)
    /\ announcing' = TRUE
    /\ UNCHANGED <<service, waiters, fan, fixedSpeed>>

\* MUTANT of AnnounceProfile: the service is not told.
AnnounceProfileUntold ==
    /\ announcing
    /\ announcing' = FALSE
    /\ UNCHANGED <<service, waiters, active, limit, low, fan, fixedSpeed>>

AnnounceProfile ==
    /\ announcing
    /\ announcing' = FALSE
    /\ \/ Send(UpdateDownloadMode)
       \/ CallsFail /\ UNCHANGED <<service, waiters>>
    /\ UNCHANGED <<active, limit, low, fan, fixedSpeed>>

\* The user daemon dies and is started again: what it knew is gone, the
\* limit and the fan stay as they were.
Crash ==
    /\ Crashes
    /\ queue' = <<>>
    /\ download_handles' = [i \in Ids |-> 0]
    /\ previous_limit' = None
    /\ restart_fan_control_service' = FALSE
    /\ cached_limit' = MinLimit
    /\ pc' = "idle"
    /\ serving' = None
    /\ held' = [i \in Ids |-> 0]
    /\ closed' = [i \in Ids |-> 0]
    /\ active' = (active /\ ~Remote)
    /\ announcing' = FALSE
    /\ UNCHANGED <<limit, low, fan, fixedSpeed>>

Next ==
    \/ UpdateStep
    \/ HandleCommand
    \/ \E i \in Ids : JoinWaiter(i) \/ CloseHandle(i)
    \/ Request
    \/ ProxyChanges
    \/ SwitchProfile
    \/ AnnounceProfile
    \/ Crash

Spec == Init /\ [][Next]_vars

\* The service never stops in the middle of a handler; select! polls its
\* branches in a random order, so neither a command nor an ended waiter is
\* passed over for ever; and set_performance_profile, once begun, goes on.
Fairness ==
    /\ WF_vars(UpdateStep)
    /\ SF_vars(HandleCommand)
    /\ \A i \in Ids : SF_vars(JoinWaiter(i))
    /\ SF_vars(AnnounceProfile)

FairSpec == Spec /\ Fairness

-----------------------------------------------------------------------------
(* Properties.                                                             *)

\* The map of handles counts, for every identifier, exactly the waiters that
\* are running or not yet joined and the handle being handed out, whichever
\* way EnterDownloadMode ended (get_download_mode_handle, run).
HandleAccounting ==
    \A i \in Ids : download_handles[i] =
        held[i] + closed[i] + (IF serving = i THEN 1 ELSE 0)

\* As long as the limit in force is one the download mode put there, the
\* service still knows the limit to restore: no order of failed calls, lost
\* replies and profile changes loses it, or caches the download limit in its
\* place (update_download_mode).
LimitIsRemembered == low => previous_limit # None

\* "a handle that will keep this mode active until all obtained handles are
\* dropped": the service never takes the download limit off, nor lets a
\* command do it, while a client holds a handle.
ModeKeptWhileHeld ==
    [][low /\ ~low' /\ UNCHANGED active => \A i \in Ids : held[i] = 0]_vars

\* Between two handlers, a service without handles has nothing left to undo
\* (update_download_mode, when no call fails and the profile stays).
NothingLeftBehind ==
    pc = "idle" /\ NoHandles =>
        previous_limit = None /\ ~restart_fan_control_service

\* If fan control ran at the start, then whenever it is stopped, or the fan is
\* at the fixed speed of the mode, the service knows that it has to restart it.
FanNotForgotten ==
    fan = "Os" => [](fan = "Bios" \/ fixedSpeed => restart_fan_control_service)

NoneHeld == \A i \in Ids : held[i] = 0

\* "When all handles are closed, low power mode is exited."
LowPowerExited == low /\ active /\ NoneHeld ~> ~low \/ ~active \/ ~NoneHeld

\* A saved limit is put back once limiting is active and nobody holds a
\* handle, also when the last handle was closed under another profile
\* (set_performance_profile sends UpdateDownloadMode).
SavedLimitReturned ==
    previous_limit # None /\ active /\ NoneHeld
        ~> previous_limit = None \/ ~active \/ ~NoneHeld

\* A handle got while limiting was inactive takes effect when it is active.
ModeEnteredOnReturn ==
    active /\ ~NoneHeld ~> limit = DownloadLimit \/ ~active \/ NoneHeld

\* The service implements the low power lock. The mode is on from the moment
\* its limit is in force until the saved one is.
Locked == previous_limit # None /\ pc # "set_tdp_limit"
Wanted == IF Locked THEN previous_limit ELSE limit

LPL == INSTANCE LowPowerLock
           WITH Low <- DownloadLimit, holders <- download_handles,
                locked <- Locked, wanted <- Wanted

ImplementsLock == LPL!LockSpec
=============================================================================
