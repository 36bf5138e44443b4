----------------------------- MODULE DsInhibit ------------------------------
(***************************************************************************)
(* The DualSense inhibitor (src/steamos-manager/src/ds_inhibit.rs): while  *)
(* Steam has the hidraw node of a controller open, the controller's mouse  *)
(* is inhibited. An Inhibitor learns from inotify who opens and closes the *)
(* node, and then looks through /proc whether Steam has it open. The       *)
(* kernel, Steam and the daemon go on while it looks; SetDsInhibit cancels *)
(* an Inhibitor, which uninhibits what it watched on its way out, and may  *)
(* start the next one before that (daemon/root.rs).                        *)
(***************************************************************************)
EXTENDS Naturals, Sequences

CONSTANTS
    Devices,             (* the numbers of hidraw nodes of controllers     *)
    Procs,               (* the processes that open nodes                  *)
    Steam,               (* those of them whose name is steam              *)
    MaxPlugs,            (* how often each device is plugged in            *)
    MaxRuns,             (* how many inhibitors are started                *)
    MaxEvents            (* events that queue up before the world waits    *)

ASSUME InhibitAssumption ==
    /\ Devices # {}          (* there is a node a controller may get       *)
    /\ Steam \subseteq Procs
    /\ MaxPlugs \in Nat
    /\ MaxRuns \in Nat
    /\ MaxEvents \in Nat

Runs == 1..MaxRuns

\* What an inotify watch is on: not the path but the inode behind it, which
\* another one replaces when the device is plugged in again.
Inodes == Devices \X (0..MaxPlugs)

Event == [kind : {"create", "open", "close", "delete"}, wd : Inodes]

VARIABLES
    (* the kernel and Steam *)
    gen,                 (* the inode each device has, or had last         *)
    present,             (* is the device plugged in?                      *)
    enumerated,          (* has its mouse appeared below .../input?        *)
    open,                (* who has which inode open                       *)
    inhibited,           (* the mouse's file "inhibited"                   *)
    (* struct Inhibitor, for each that was started *)
    phase,               (* none, init, run, shutdown or done              *)
    cancelled,           (* its CancellationToken                          *)
    queue,               (* its inotify events                             *)
    kwatch,              (* the inodes the kernel watches for it           *)
    watches,             (* and those in its map                           *)
    unvisited,           (* the entries of /dev init has not come to       *)
    task,                (* the await it is suspended at                   *)
    handle,              (* RootContext's ds_inhibit: a run, or 0          *)
    (* history *)
    lastWriter,          (* who wrote the file last, or 0                  *)
    early,               (* inodes looked at before the mouse appeared     *)
    unfinished           (* devices a run had business with when cancelled *)

worldVars == <<gen, present, enumerated, open>>
runVars == <<phase, cancelled, queue, kwatch, watches, unvisited, task, handle>>
history == <<lastWriter, early, unfinished>>
inhibitVars == <<worldVars, inhibited, runVars, history>>

Inode(d) == <<d, gen[d]>>
NoInode == <<CHOOSE d \in Devices : TRUE, 0>>

NoTask == [at |-> "idle", wd |-> NoInode, add |-> FALSE, left |-> {}, value |-> FALSE]

\* The types; a run has a task only between its start and its end.
InhibitTypeOK ==
    /\ gen \in [Devices -> 0..MaxPlugs]
    /\ present \in [Devices -> BOOLEAN]
    /\ enumerated \in [Devices -> BOOLEAN]
    /\ open \subseteq Procs \X Inodes
    /\ inhibited \in [Devices -> BOOLEAN]
    /\ phase \in [Runs -> {"none", "init", "run", "shutdown", "done"}]
    /\ cancelled \in [Runs -> BOOLEAN]
    /\ queue \in [Runs -> Seq(Event)]
    /\ kwatch \in [Runs -> SUBSET Inodes]
    /\ watches \in [Runs -> SUBSET Inodes]
    /\ unvisited \in [Runs -> SUBSET Devices]
    /\ task \in [Runs -> [at : {"idle", "sleep", "scan", "write", "written"},
                          wd : Inodes, add : BOOLEAN, left : SUBSET Steam,
                          value : BOOLEAN]]
    /\ handle \in Runs \cup {0}
    /\ lastWriter \in [Devices -> Runs \cup {0}]
    /\ early \subseteq Inodes
    /\ unfinished \in [Runs -> SUBSET Devices]
    /\ \A i \in Runs : phase[i] \notin {"init", "run"} => task[i] = NoTask

InhibitInit ==
    /\ gen = [d \in Devices |-> 0]
    /\ present = [d \in Devices |-> FALSE]
    /\ enumerated = [d \in Devices |-> FALSE]
    /\ open = {}
    /\ inhibited = [d \in Devices |-> FALSE]
    /\ phase = [i \in Runs |-> "none"]
    /\ cancelled = [i \in Runs |-> FALSE]
    /\ queue = [i \in Runs |-> <<>>]
    /\ kwatch = [i \in Runs |-> {}]
    /\ watches = [i \in Runs |-> {}]
    /\ unvisited = [i \in Runs |-> {}]
    /\ task = [i \in Runs |-> NoTask]
    /\ handle = 0
    /\ lastWriter = [d \in Devices |-> 0]
    /\ early = {}
    /\ unfinished = [i \in Runs |-> {}]

-----------------------------------------------------------------------------
(* The world. inotify reports to every run that listens, and drops an      *)
(* event that equals the one before it.                                    *)

Listens(i) == phase[i] \in {"init", "run"}

Push(q, e) == IF q # <<>> /\ q[Len(q)] = e THEN q ELSE Append(q, e)

Room == \A i \in Runs : Len(queue[i]) < MaxEvents

\* Those who watch the inode get the event, and at the end of the inode that
\* it was deleted, which also ends the watch.
Notify(wd, kind, gone) ==
    /\ queue' = [i \in Runs |->
          IF wd \notin kwatch[i] THEN queue[i]
          ELSE LET q == IF kind = "none" THEN queue[i]
                        ELSE Push(queue[i], [kind |-> kind, wd |-> wd])
               IN  IF gone THEN Push(q, [kind |-> "delete", wd |-> wd]) ELSE q]
    /\ kwatch' = IF gone THEN [i \in Runs |-> kwatch[i] \ {wd}] ELSE kwatch

Plug(d) ==
    /\ Room
    /\ ~present[d]
    /\ gen[d] < MaxPlugs
    /\ present' = [present EXCEPT ![d] = TRUE]
    /\ gen' = [gen EXCEPT ![d] = @ + 1]
    /\ lastWriter' = [lastWriter EXCEPT ![d] = 0]
    /\ queue' = [i \in Runs |->
          IF Listens(i) THEN Push(queue[i], [kind |-> "create", wd |-> <<d, 0>>])
          ELSE queue[i]]
    /\ UNCHANGED <<enumerated, open, inhibited, phase, cancelled, kwatch, watches,
                   unvisited, task, handle, early, unfinished>>

\* The kernel adds the mouse some time after the node.
Enumerate(d) ==
    /\ present[d]
    /\ ~enumerated[d]
    /\ enumerated' = [enumerated EXCEPT ![d] = TRUE]
    /\ UNCHANGED <<gen, present, open, inhibited, runVars, history>>

\* The node goes; its inode stays for as long as somebody has it open.
Unplug(d) ==
    /\ Room
    /\ present[d]
    /\ present' = [present EXCEPT ![d] = FALSE]
    /\ enumerated' = [enumerated EXCEPT ![d] = FALSE]
    /\ inhibited' = [inhibited EXCEPT ![d] = FALSE]
    /\ Notify(Inode(d), "none", ~ \E p \in Procs : <<p, Inode(d)>> \in open)
    /\ UNCHANGED <<gen, open, phase, cancelled, watches, unvisited, task, handle, history>>

Open(p, d) ==
    /\ Room
    /\ present[d]
    /\ <<p, Inode(d)>> \notin open
    /\ open' = open \cup {<<p, Inode(d)>>}
    /\ Notify(Inode(d), "open", FALSE)
    /\ UNCHANGED <<gen, present, enumerated, inhibited, phase, cancelled, watches,
                   unvisited, task, handle, history>>

Close(p, wd) ==
    /\ Room
    /\ <<p, wd>> \in open
    /\ open' = open \ {<<p, wd>>}
    /\ Notify(wd, "close",
              /\ ~(present[wd[1]] /\ wd = Inode(wd[1]))
              /\ ~ \E q \in Procs \ {p} : <<q, wd>> \in open)
    /\ UNCHANGED <<gen, present, enumerated, inhibited, phase, cancelled, watches,
                   unvisited, task, handle, history>>

World ==
    \/ \E d \in Devices :
          \/ Plug(d) \/ Enumerate(d) \/ Unplug(d)
          \/ \E p \in Procs : Open(p, d)
    \/ \E p \in Procs, wd \in Inodes : Close(p, wd)

-----------------------------------------------------------------------------
(* RootContext: SetDsInhibit. The daemon's loop does nothing else while    *)
(* init runs, and waits for no inhibitor it cancels.                       *)

\* Inhibitor::new: the watch on /dev comes first, then the directory is read.
StartInit(i) ==
    /\ handle = 0
    /\ phase[i] = "none"
    /\ \A j \in Runs : phase[j] # "init" /\ (j < i => phase[j] # "none")
    /\ phase' = [phase EXCEPT ![i] = "init"]
    /\ unvisited' = [unvisited EXCEPT ![i] = Devices]
    /\ UNCHANGED <<worldVars, inhibited, cancelled, queue, kwatch, watches, task,
                   handle, history>>

InitDone(i) ==
    /\ phase[i] = "init"
    /\ unvisited[i] = {}
    /\ task[i] = NoTask
    /\ phase' = [phase EXCEPT ![i] = "run"]
    /\ handle' = i
    /\ UNCHANGED <<worldVars, inhibited, cancelled, queue, kwatch, watches, unvisited,
                   task, history>>

Disable ==
    /\ handle # 0
    /\ cancelled' = [cancelled EXCEPT ![handle] = TRUE]
    /\ handle' = 0
    /\ UNCHANGED <<worldVars, inhibited, phase, queue, kwatch, watches, unvisited, task,
                   history>>

-----------------------------------------------------------------------------
(* watch and check. Each await at which the rest may change is a step.     *)

SteamHas(d) == \E p \in Steam : <<p, Inode(d)>> \in open

Scanning(wd, add) ==
    [at |-> "scan", wd |-> wd, add |-> add, left |-> Steam, value |-> FALSE]

\* A PlayStation controller (no others are in Devices) with a mouse.
CanInhibit(d) == present[d] /\ enumerated[d]

\* A node that can be inhibited is watched, and then checked.
Watch(i, d) ==
    IF CanInhibit(d)
    THEN /\ kwatch' = [kwatch EXCEPT ![i] = @ \cup {Inode(d)}]
         /\ task' = [task EXCEPT ![i] = Scanning(Inode(d), TRUE)]
         /\ UNCHANGED early
    ELSE /\ task' = [task EXCEPT ![i] = NoTask]
         /\ early' = IF present[d] THEN early \cup {Inode(d)} ELSE early
         /\ UNCHANGED kwatch

\* init comes to an entry of /dev.
InitVisit(i, d) ==
    /\ phase[i] = "init"
    /\ task[i] = NoTask
    /\ d \in unvisited[i]
    /\ unvisited' = [unvisited EXCEPT ![i] = @ \ {d}]
    /\ Watch(i, d)
    /\ UNCHANGED <<worldVars, inhibited, phase, cancelled, queue, watches, handle,
                   lastWriter, unfinished>>

\* process_event, for the next event of run's loop.
Receive(i, kind) ==
    /\ phase[i] = "run"
    /\ task[i] = NoTask
    /\ queue[i] # <<>>
    /\ Head(queue[i]).kind = kind
    /\ queue' = [queue EXCEPT ![i] = Tail(@)]

\* A new entry in /dev: its input nodes get a quarter of a second.
Created(i) ==
    /\ Receive(i, "create")
    /\ task' = [task EXCEPT ![i] = [NoTask EXCEPT !.at = "sleep",
                                                !.wd = Head(queue[i]).wd]]
    /\ UNCHANGED <<worldVars, inhibited, phase, cancelled, kwatch, watches, unvisited,
                   handle, history>>

SleepEnds(i) ==
    /\ task[i].at = "sleep"
    /\ Watch(i, task[i].wd[1])
    /\ UNCHANGED <<worldVars, inhibited, phase, cancelled, queue, watches, unvisited,
                   handle, lastWriter, unfinished>>

Deleted(i) ==
    /\ Receive(i, "delete")
    /\ watches' = [watches EXCEPT ![i] = @ \ {Head(queue[i]).wd}]
    /\ UNCHANGED <<worldVars, inhibited, phase, cancelled, kwatch, unvisited, task,
                   handle, history>>

\* Somebody opened or closed a node of the map: check.
Touched(i) ==
    /\ Receive(i, "open") \/ Receive(i, "close")
    /\ task' = IF Head(queue[i]).wd \in watches[i]
               THEN [task EXCEPT ![i] = Scanning(Head(queue[i]).wd, FALSE)]
               ELSE task
    /\ UNCHANGED <<worldVars, inhibited, phase, cancelled, kwatch, watches, unvisited,
                   handle, history>>

\* check looks at one process of /proc after the other, for a file whose path
\* is the node's: that of the inode that has the path now.
Scan(i) ==
    /\ task[i].at = "scan"
    /\ \/ \E p \in task[i].left :
             task' = [task EXCEPT ![i] =
                IF <<p, Inode(@.wd[1])>> \in open /\ present[@.wd[1]]
                THEN [@ EXCEPT !.at = "write", !.left = {}, !.value = TRUE]
                ELSE [@ EXCEPT !.left = task[i].left \ {p}]]
       \/ /\ task[i].left = {}
          /\ task' = [task EXCEPT ![i].at = "write"]
    /\ UNCHANGED <<worldVars, inhibited, phase, cancelled, queue, kwatch, watches,
                   unvisited, handle, history>>

\* inhibit or uninhibit: the mice of the device that has the number now.
WriteInhibit(i) ==
    /\ task[i].at = "write"
    /\ task' = [task EXCEPT ![i].at = "written"]
    /\ LET d == task[i].wd[1] IN
       IF enumerated[d]
       THEN /\ inhibited' = [inhibited EXCEPT ![d] = task[i].value]
            /\ lastWriter' = [lastWriter EXCEPT ![d] = i]
       ELSE UNCHANGED <<inhibited, lastWriter>>
    /\ UNCHANGED <<worldVars, phase, cancelled, queue, kwatch, watches, unvisited,
                   handle, early, unfinished>>

\* check returns, and watch notes the node, whatever became of the check.
CheckEnds(i) ==
    /\ task[i].at = "written"
    /\ task' = [task EXCEPT ![i] = NoTask]
    /\ watches' = IF task[i].add THEN [watches EXCEPT ![i] = @ \cup {task[i].wd}]
                  ELSE watches
    /\ UNCHANGED <<worldVars, inhibited, phase, cancelled, queue, kwatch, unvisited,
                   handle, history>>

-----------------------------------------------------------------------------
(* The end of an inhibitor: run is dropped at the await it is suspended    *)
(* at, and shutdown uninhibits the nodes of the map.                       *)

TakeCancel(i) ==
    /\ phase[i] = "run"
    /\ cancelled[i]
    /\ phase' = [phase EXCEPT ![i] = "shutdown"]
    /\ unfinished' = [unfinished EXCEPT ![i] =
          {d \in Devices :
              \/ task[i] # NoTask /\ task[i].wd[1] = d
              \/ \E k \in 1..Len(queue[i]) : queue[i][k].wd[1] = d}]
    /\ task' = [task EXCEPT ![i] = NoTask]
    /\ queue' = [queue EXCEPT ![i] = <<>>]
    /\ kwatch' = [kwatch EXCEPT ![i] = {}]
    /\ UNCHANGED <<worldVars, inhibited, cancelled, watches, unvisited, handle,
                   lastWriter, early>>

\* MUTANT of Release: the watch is removed, and the mouse stays inhibited.
ReleaseInhibited(i) ==
    /\ phase[i] = "shutdown"
    /\ \E wd \in watches[i] : watches' = [watches EXCEPT ![i] = @ \ {wd}]
    /\ UNCHANGED <<worldVars, inhibited, phase, cancelled, queue, kwatch, unvisited, task,
                   handle, history>>

Release(i) ==
    /\ phase[i] = "shutdown"
    /\ \E wd \in watches[i] :
          /\ watches' = [watches EXCEPT ![i] = @ \ {wd}]
          /\ inhibited' = [inhibited EXCEPT ![wd[1]] = FALSE]
          /\ lastWriter' = IF enumerated[wd[1]]
                           THEN [lastWriter EXCEPT ![wd[1]] = i] ELSE lastWriter
    /\ UNCHANGED <<worldVars, phase, cancelled, queue, kwatch, unvisited, task, handle,
                   early, unfinished>>

ShutDown(i) ==
    /\ phase[i] = "shutdown"
    /\ watches[i] = {}
    /\ phase' = [phase EXCEPT ![i] = "done"]
    /\ UNCHANGED <<worldVars, inhibited, cancelled, queue, kwatch, watches, unvisited,
                   task, handle, history>>

Inhibitor(i) ==
    \/ StartInit(i) \/ InitDone(i)
    \/ \E d \in Devices : InitVisit(i, d)
    \/ Created(i) \/ SleepEnds(i) \/ Deleted(i) \/ Touched(i)
    \/ Scan(i) \/ WriteInhibit(i) \/ CheckEnds(i)
    \/ TakeCancel(i) \/ Release(i) \/ ShutDown(i)

InhibitNext == World \/ Disable \/ \E i \in Runs : Inhibitor(i)

InhibitSpec == InhibitInit /\ [][InhibitNext]_inhibitVars

-----------------------------------------------------------------------------
(* Properties.                                                             *)

\* The inhibitor in charge has nothing left to do.
InhibitSettled == handle # 0 /\ queue[handle] = <<>> /\ task[handle] = NoTask

\* With nothing left to do, an inhibitor has in its map the devices whose mouse
\* was there when it looked, and none that was unplugged and that nobody has
\* open any more: none slips through between the watch on /dev, the reading of
\* /dev and the events. And the mouse of each is inhibited exactly while a
\* process named steam has the device open, unless a cancelled inhibitor has
\* written the file since.
SettledIsRight ==
    InhibitSettled =>
        /\ \A d \in Devices :
              present[d] /\ Inode(d) \notin early =>
                  Inode(d) \in watches[handle] \cap kwatch[handle]
        /\ \A wd \in watches[handle] :
              \/ present[wd[1]] /\ wd = Inode(wd[1])
              \/ \E p \in Procs : <<p, wd>> \in open
        /\ \A d \in Devices :
              present[d] /\ Inode(d) \in watches[handle] /\ lastWriter[d] \in {0, handle}
                  => inhibited[d] = SteamHas(d)

\* When all inhibitors are gone no mouse stays inhibited, except one of a
\* device with which an inhibitor was busy when it was cancelled (its check may
\* have written the file and not have noted the node), or one that came too
\* late to be watched, which a check of the device's former inode inhibits.
NothingStaysInhibited ==
    (\A i \in Runs : phase[i] \in {"none", "done"}) =>
        \A d \in Devices :
            inhibited[d] => Inode(d) \in early \/ \E i \in Runs : d \in unfinished[i]

\* Inhibitors keep up with devices and Steam while they run, and leave nothing
\* behind when they go (both of the above).
InhibitorKeepsUp == SettledIsRight /\ NothingStaysInhibited
=============================================================================
