--------------------------- MODULE RemoteInterface ---------------------------
(***************************************************************************)
(* The interfaces that another process implements and the user daemon      *)
(* relays (the remote! and RemoteManager macros of                         *)
(* src/steamos-manager-macros/src/lib.rs, create_interfaces and register   *)
(* of manager/user.rs, and the hooks of TdpLimit1 in power.rs). At its     *)
(* start the daemon goes through the configured interfaces: it starts a    *)
(* task that listens to NameOwnerChanged, and registers the interface if   *)
(* its process answers a ping. Then it exports RemoteInterface1, which the *)
(* tasks need, and last it starts the services, the TDP manager among      *)
(* them. Remotes are never transient: only the configuration names them.   *)
(***************************************************************************)
EXTENDS Naturals, Sequences

CONSTANTS
    Configured,          (* the interfaces of remotes.d, in their order    *)
    Tdp,                 (* TdpLimit1, which has hooks of its own          *)
    LocalIfaces,         (* those the daemon implements itself             *)
    MaxFlaps             (* how often the other process starts or stops    *)

Ifaces == {Configured[k] : k \in 1..Len(Configured)}
Nobody == "nobody"

ASSUME RemoteAssumption ==
    /\ Configured \in Seq(Ifaces)
    /\ \A k, l \in 1..Len(Configured) : Configured[k] = Configured[l] => k = l
    /\ Nobody \notin Ifaces
    /\ LocalIfaces \subseteq Ifaces
    /\ MaxFlaps \in Nat

VARIABLES
    startup,             (* what create_interfaces is about                *)
    configuring,         (* the next of Configured                         *)
    holder,              (* who is in register: it has RemoteInterface1    *)
    step,                (* and how far it is                              *)
    object,              (* who serves each interface on the session bus   *)
    registered,          (* owner.registered                               *)
    load_task,           (* the tasks that listen to NameOwnerChanged      *)
    signal_tasks,        (* how many tasks forward signals                 *)
    changes,             (* the changes each task has not taken            *)
    remoteUp,            (* does the other process have its name?          *)
    flaps

relayVars == <<startup, configuring, holder, step, object, registered>>
taskVars == <<load_task, signal_tasks, changes>>
remoteVars == <<relayVars, taskVars, remoteUp, flaps>>

\* The types of the daemon's state.
RemoteTypeOK ==
    /\ startup \in {"configure", "export", "services", "running", "failed"}
    /\ configuring \in 1..Len(Configured) + 1
    /\ holder \in Ifaces \cup {Nobody}
    /\ step \in {"idle", "ping", "pinged", "attach"}
    /\ object \in [Ifaces -> {"none", "local", "remote"}]
    /\ registered \in [Ifaces -> BOOLEAN]
    /\ load_task \in [Ifaces -> {"none", "waiting", "ended"}]
    /\ signal_tasks \in [Ifaces -> Nat]
    /\ changes \in [Ifaces -> Seq({"gained", "lost"})]
    /\ remoteUp \in BOOLEAN
    /\ flaps \in 0..MaxFlaps

\* TdpLimit1 itself comes later: its task asks the TDP manager first.
RemoteInit ==
    /\ startup = "configure"
    /\ configuring = 1
    /\ holder = Nobody
    /\ step = "idle"
    /\ object = [i \in Ifaces |-> IF i \in LocalIfaces \ {Tdp} THEN "local" ELSE "none"]
    /\ registered = [i \in Ifaces |-> FALSE]
    /\ load_task = [i \in Ifaces |-> "none"]
    /\ signal_tasks = [i \in Ifaces |-> 0]
    /\ changes = [i \in Ifaces |-> <<>>]
    /\ remoteUp \in BOOLEAN
    /\ flaps = 0

-----------------------------------------------------------------------------
(* register: a ping, then the object.                                      *)

Free == holder = Nobody

\* RemoteInterface1 is exported and the services run.
Serving == startup \in {"services", "running"}

\* The call ends. At startup the next interface is up; a task's load starts
\* another task that forwards the changes of properties (it never ends the
\* one before), even when the object was there.
Registered(i) ==
    /\ holder' = Nobody
    /\ step' = "idle"
    /\ IF startup = "configure"
       THEN configuring' = configuring + 1 /\ UNCHANGED signal_tasks
       ELSE /\ signal_tasks' = [signal_tasks EXCEPT ![i] = @ + 1]
            /\ UNCHANGED configuring
    /\ UNCHANGED <<startup, load_task>>

\* A name without an owner is no error: its process may come later.
NoOwner ==
    /\ holder' = Nobody
    /\ step' = "idle"
    /\ configuring' = IF startup = "configure" THEN configuring + 1 ELSE configuring
    /\ UNCHANGED <<startup, load_task, signal_tasks>>

\* Any other error ends the task that loads, or the daemon at startup.
RegisterFails(i) ==
    /\ holder' = Nobody
    /\ step' = "idle"
    /\ IF startup = "configure"
       THEN startup' = "failed" /\ UNCHANGED load_task
       ELSE load_task' = [load_task EXCEPT ![i] = "ended"] /\ UNCHANGED startup
    /\ UNCHANGED <<configuring, signal_tasks>>

\* peer_proxy.ping() gets to the bus.
Ping(i) ==
    /\ holder = i /\ step = "ping"
    /\ IF remoteUp
       THEN /\ step' = "pinged"
            /\ UNCHANGED <<startup, configuring, holder, load_task, signal_tasks>>
       ELSE NoOwner
    /\ UNCHANGED <<object, registered, changes, remoteUp, flaps>>

\* The other process answers.
Pong(i) ==
    /\ holder = i /\ step = "pinged"
    /\ remoteUp
    /\ step' = "attach"
    /\ UNCHANGED <<startup, configuring, holder, object, registered, taskVars,
                   remoteUp, flaps>>

\* It has gone in between: org.freedesktop.DBus.Error.NoReply.
NoReply(i) ==
    /\ holder = i /\ step = "pinged"
    /\ ~remoteUp
    /\ RegisterFails(i)
    /\ UNCHANGED <<object, registered, changes, remoteUp, flaps>>

\* MUTANT of Attach: it does not ask for the interface of the daemon itself.
AttachOver(i) ==
    /\ holder = i /\ step = "attach"
    /\ Registered(i)
    /\ i = Tdp => Serving
    /\ object' = [object EXCEPT ![i] = "remote"]
    /\ registered' = [registered EXCEPT ![i] = TRUE]
    /\ UNCHANGED <<changes, remoteUp, flaps>>

\* register exports the object when there is none. The hook of TdpLimit1 first
\* waits for the TDP manager to take the proxy, which runs last of all, and
\* then takes the interface for registered whoever serves it.
Attach(i) ==
    /\ holder = i /\ step = "attach"
    /\ Registered(i)
    /\ i = Tdp => Serving
    /\ object' = [object EXCEPT ![i] = IF @ = "none" THEN "remote" ELSE @]
    /\ registered' =
         IF i = Tdp \/ object[i] = "none"
         THEN [registered EXCEPT ![i] = TRUE] ELSE registered
    /\ UNCHANGED <<changes, remoteUp, flaps>>

-----------------------------------------------------------------------------
(* create_interfaces.                                                      *)

\* The owner's task listens before the owner pings.
Configure ==
    /\ startup = "configure" /\ Free
    /\ configuring <= Len(Configured)
    /\ LET i == Configured[configuring]
       IN  /\ load_task' = [load_task EXCEPT ![i] = "waiting"]
           /\ holder' = i
           /\ step' = "ping"
    /\ UNCHANGED <<startup, configuring, object, registered, signal_tasks,
                   changes, remoteUp, flaps>>

AllConfigured ==
    /\ startup = "configure" /\ Free
    /\ configuring > Len(Configured)
    /\ startup' = "export"
    /\ UNCHANGED <<configuring, holder, step, object, registered, taskVars,
                   remoteUp, flaps>>

\* RemoteInterface1 is exported, and the daemon starts its services.
Export ==
    /\ startup = "export"
    /\ startup' = "services"
    /\ UNCHANGED <<configuring, holder, step, object, registered, taskVars,
                   remoteUp, flaps>>

\* create_device_interfaces: the TDP manager has said that it is active.
AddTdpLimit ==
    /\ startup = "services"
    /\ startup' = "running"
    /\ object' = IF Tdp \in LocalIfaces /\ object[Tdp] = "none"
                 THEN [object EXCEPT ![Tdp] = "local"] ELSE object
    /\ UNCHANGED <<configuring, holder, step, registered, taskVars, remoteUp, flaps>>

-----------------------------------------------------------------------------
(* load_task_impl.                                                         *)

TakeChange(i, c) ==
    /\ load_task[i] = "waiting"
    /\ changes[i] # <<>> /\ Head(changes[i]) = c
    /\ changes' = [changes EXCEPT ![i] = Tail(@)]
    /\ UNCHANGED <<remoteUp, flaps, configuring, signal_tasks, startup>>

\* RemoteInterface1 is not there yet: the task ends.
ChangeTooEarly(i, c) ==
    /\ startup \in {"configure", "export"}
    /\ TakeChange(i, c)
    /\ load_task' = [load_task EXCEPT ![i] = "ended"]
    /\ UNCHANGED <<holder, step, object, registered>>

\* load, under the lock of RemoteInterface1.
Load(i) ==
    /\ Serving /\ Free
    /\ TakeChange(i, "gained")
    /\ holder' = i
    /\ step' = "ping"
    /\ UNCHANGED <<object, registered, load_task>>

\* The TdpLimit1 of a remote has the same type as the daemon's own.
Removable(i) == object[i] = "remote" \/ (i = Tdp /\ object[i] = "local")

\* unload: ObjectServer::remove fails when the object is not there, and ends
\* the task. The hook of TdpLimit1 then takes the proxy from the TDP manager.
Unload(i) ==
    /\ Serving /\ Free
    /\ TakeChange(i, "lost")
    /\ IF Removable(i)
       THEN /\ object' = [object EXCEPT ![i] = "none"]
            /\ registered' = [registered EXCEPT ![i] = FALSE]
            /\ UNCHANGED load_task
       ELSE /\ load_task' = [load_task EXCEPT ![i] = "ended"]
            /\ UNCHANGED <<object, registered>>
    /\ UNCHANGED <<holder, step>>

-----------------------------------------------------------------------------
(* The other process.                                                      *)

Announce(c) ==
    /\ flaps < MaxFlaps
    /\ flaps' = flaps + 1
    /\ changes' = [i \in Ifaces |-> IF load_task[i] = "waiting"
                                    THEN Append(changes[i], c) ELSE changes[i]]
    /\ UNCHANGED <<relayVars, load_task, signal_tasks>>

RemoteStarts == ~remoteUp /\ remoteUp' = TRUE /\ Announce("gained")
RemoteStops == remoteUp /\ remoteUp' = FALSE /\ Announce("lost")

\* Another process takes the name over.
RemoteReplaced == remoteUp /\ UNCHANGED remoteUp /\ Announce("gained")

DaemonStep ==
    \/ \E i \in Ifaces :
         \/ Ping(i) \/ Pong(i) \/ NoReply(i) \/ Attach(i)
         \/ \E c \in {"gained", "lost"} : ChangeTooEarly(i, c)
         \/ Load(i) \/ Unload(i)
    \/ Configure \/ AllConfigured \/ Export \/ AddTdpLimit

RemoteNext == DaemonStep \/ RemoteStarts \/ RemoteStops \/ RemoteReplaced

RemoteSpec == RemoteInit /\ [][RemoteNext]_remoteVars

\* The daemon's tasks get their turn.
RemoteFairness == WF_remoteVars(DaemonStep)
RemoteFairSpec == RemoteSpec /\ RemoteFairness

-----------------------------------------------------------------------------
(* Properties.                                                             *)

Caught(i) ==
    load_task[i] = "waiting" /\ changes[i] = <<>> /\ holder # i

\* A task that is alive and has seen all changes has the interface relayed
\* exactly while the other process is there, in whatever order the changes,
\* the pings and the startup came; and the daemon's own interface is never
\* replaced by another's ("a remote implementation cannot override a local
\* implementation"). RemoteInterfaces lists none that is not exported.
RelayFollowsRemote ==
    \A i \in Ifaces :
        /\ registered[i] => object[i] # "none"
        /\ Caught(i) /\ i \notin LocalIfaces =>
             (object[i] = "remote" <=> remoteUp) /\ (registered[i] <=> remoteUp)
        /\ i \in LocalIfaces \ {Tdp} => object[i] = "local" /\ ~registered[i]

\* README: "existing remotes configured as above will be dynamically detected
\* at runtime and added or removed as appropriate". A process that is there
\* for good gets its interfaces relayed.
PresentIsRelayed ==
    \A i \in Ifaces : <>[]remoteUp => <>[](object[i] # "none")
=============================================================================
