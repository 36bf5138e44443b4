---------------------------- MODULE SysfsWriter -----------------------------
(***************************************************************************)
(* SysfsWriterService (src/steamos-manager/src/sysfs.rs) and its client    *)
(* SetMaxChargeLevel (manager/root.rs): a write to a sysfs file is put in  *)
(* a map that keeps only the newest contents of each path, and one service *)
(* takes entries out and writes them. A tokio Notify, which remembers at   *)
(* most one notification, says that there is something to take. The caller *)
(* gets a promise, answered Superseded by a newer write or Written by the  *)
(* service; after Written the root daemon signals MaxChargeLevelChanged,   *)
(* and the user daemon then shows the clients what the file holds.         *)
(*                                                                         *)
(* A request stands for its contents and its promise: requests are         *)
(* numbered in the order in which they enter the map.                      *)
(***************************************************************************)
EXTENDS Naturals, FiniteSets

CONSTANTS
    Paths,               (* the files written through the queue            *)
    WritesFail,          (* may a write fail, with or without effect?      *)
    MaxRequests          (* bound: requests in a behaviour                 *)

ASSUME SysfsAssumption == WritesFail \in BOOLEAN /\ MaxRequests \in Nat

Requests == 1 .. MaxRequests
None == 0

VARIABLES
    values,              (* SysfsWriterQueue::values: path -> request      *)
    permit,              (* does notify hold a notification?               *)
    pc,                  (* where the service is                           *)
    writing,             (* the request it has taken out of the map        *)
    sending,             (* a request in the map, notify_one yet to come   *)
    issued,              (* requests so far                                *)
    path,                (* the path of each                               *)
    answer,              (* what its promise was answered                  *)
    announced,           (* the requests signalled after their answer      *)
    file,                (* the request whose contents each file holds     *)
    signals,             (* MaxChargeLevelChanged on its way to the relay  *)
    shown                (* the contents last shown to the clients         *)

queueVars == <<values, permit, pc, writing>>
callVars == <<sending, issued, path>>
vars == <<queueVars, callVars, answer, announced, file, signals, shown>>

Answers == {"none", "pending", "Superseded", "Written", "Failed"}

\* The types of the queue, of the promises and of the files.
TypeOK ==
    /\ values \in [Paths -> Requests \cup {None}]
    /\ permit \in BOOLEAN
    /\ pc \in {"starting", "waiting", "woken", "writing"}
    /\ writing \in Requests \cup {None}
    /\ writing # None <=> pc = "writing"
    /\ sending \in Requests \cup {None}
    /\ issued \in 0 .. MaxRequests
    /\ path \in [Requests -> Paths]
    /\ answer \in [Requests -> Answers]
    /\ announced \subseteq Requests
    /\ file \in [Paths -> Requests \cup {None}]
    /\ signals \in Nat
    /\ shown \in [Paths -> Requests \cup {None}]

Init ==
    /\ values = [p \in Paths |-> None]
    /\ permit = FALSE
    /\ pc = "starting"
    /\ writing = None
    /\ sending = None
    /\ issued = 0
    /\ path \in [Requests -> Paths]
    /\ answer = [r \in Requests |-> "none"]
    /\ announced = {}
    /\ file = [p \in Paths |-> None]
    /\ signals = 0
    /\ shown = [p \in Paths |-> None]

-----------------------------------------------------------------------------
(* The callers. SetMaxChargeLevel has the root interface to itself, so     *)
(* that one call is in send at a time.                                     *)

\* MUTANT of SendInsert: an entry that is there stays, the new one is refused.
SendInsertFirst ==
    LET r == issued + 1
        old == values[path[r]]
    IN  /\ sending = None
        /\ r \in Requests
        /\ values' = [values EXCEPT ![path[r]] = IF old = None THEN r ELSE old]
        /\ answer' = [answer EXCEPT ![r] = IF old = None THEN "pending"
                                                       ELSE "Superseded"]
        /\ sending' = r
        /\ issued' = r
        /\ UNCHANGED <<permit, pc, writing, path, announced, file, signals, shown>>

\* send: the entry is replaced under the lock, and the request it held, if
\* any, is answered.
SendInsert ==
    LET r == issued + 1
        old == values[path[r]]
    IN  /\ sending = None
        /\ r \in Requests
        /\ values' = [values EXCEPT ![path[r]] = r]
        /\ answer' = [q \in Requests |->
                         IF q = r THEN "pending"
                         ELSE IF q = old THEN "Superseded" ELSE answer[q]]
        /\ sending' = r
        /\ issued' = r
        /\ UNCHANGED <<permit, pc, writing, path, announced, file, signals, shown>>

\* MUTANT of SendNotify: notify_waiters, which keeps no notification.
SendNotifyWaiters ==
    /\ sending # None
    /\ sending' = None
    /\ pc' = IF pc = "waiting" THEN "woken" ELSE pc
    /\ UNCHANGED <<values, permit, writing, issued, path, answer, announced,
                   file, signals, shown>>

\* notify_one: a waiting service is woken; otherwise one notification, and
\* no more, is kept for later.
SendNotify ==
    /\ sending # None
    /\ sending' = None
    /\ IF pc = "waiting"
       THEN pc' = "woken" /\ UNCHANGED permit
       ELSE permit' = TRUE /\ UNCHANGED pc
    /\ UNCHANGED <<values, writing, issued, path, answer, announced, file, signals,
                   shown>>

\* The task spawned by SetMaxChargeLevel: a request that was written, with or
\* without success, is signalled.
Announce(r) ==
    /\ answer[r] \in {"Written", "Failed"} /\ r \notin announced
    /\ announced' = announced \cup {r}
    /\ signals' = signals + 1
    /\ UNCHANGED <<queueVars, callVars, answer, file, shown>>

\* SignalRelayService: the value of the property is read when it is sent.
Relay ==
    /\ signals > 0
    /\ signals' = signals - 1
    /\ shown' = file
    /\ UNCHANGED <<queueVars, callVars, answer, announced, file>>

-----------------------------------------------------------------------------
(* The service.                                                            *)

\* notified().await: take the notification that is there, or wait for one.
Listen ==
    /\ pc' = IF permit THEN "woken" ELSE "waiting"
    /\ permit' = FALSE

Start ==
    /\ pc = "starting"
    /\ Listen
    /\ UNCHANGED <<values, writing, callVars, answer, announced, file, signals,
                   shown>>

\* MUTANT of RecvEntry: the entry is read and not removed.
RecvEntryKept(p) ==
    /\ pc = "woken"
    /\ values[p] # None
    /\ writing' = values[p]
    /\ pc' = "writing"
    /\ UNCHANGED <<values, permit, callVars, answer, announced, file, signals,
                   shown>>

\* recv takes an arbitrary entry.
RecvEntry(p) ==
    /\ pc = "woken"
    /\ values[p] # None
    /\ values' = [values EXCEPT ![p] = None]
    /\ writing' = values[p]
    /\ pc' = "writing"
    /\ UNCHANGED <<permit, callVars, answer, announced, file, signals,
                   shown>>

\* The map may be empty, when an earlier notification led to its entry.
RecvNothing ==
    /\ pc = "woken"
    /\ \A p \in Paths : values[p] = None
    /\ Listen
    /\ UNCHANGED <<values, writing, callVars, answer, announced, file, signals,
                   shown>>

\* MUTANT of Write: the promise is answered before the file is written.
WriteAnswersFirst ==
    /\ pc = "writing"
    /\ IF answer[writing] = "pending"
       THEN /\ answer' = [answer EXCEPT ![writing] = "Written"]
            /\ UNCHANGED <<permit, pc, writing, file>>
       ELSE /\ file' = [file EXCEPT ![path[writing]] = writing]
            /\ writing' = None
            /\ Listen
            /\ UNCHANGED answer
    /\ UNCHANGED <<values, callVars, announced, signals, shown>>

\* write_synced, then the answer, then recv again. What fails may be the
\* write or only the sync after it.
Write ==
    LET written == [file EXCEPT ![path[writing]] = writing]
    IN  /\ pc = "writing"
        /\ \/ /\ file' = written
              /\ answer' = [answer EXCEPT ![writing] = "Written"]
           \/ /\ WritesFail
              /\ file' \in {file, written}
              /\ answer' = [answer EXCEPT ![writing] = "Failed"]
        /\ writing' = None
        /\ Listen
        /\ UNCHANGED <<values, callVars, announced, signals, shown>>

Service == Start \/ (\E p \in Paths : RecvEntry(p)) \/ RecvNothing \/ Write

Next ==
    \/ SendInsert
    \/ SendNotify
    \/ \E r \in Requests : Announce(r)
    \/ Relay
    \/ Service

Spec == Init /\ [][Next]_vars

\* Every task that can go on does; nobody has to make a request.
Fairness ==
    /\ WF_vars(SendNotify)
    /\ \A r \in Requests : WF_vars(Announce(r))
    /\ WF_vars(Relay)
    /\ WF_vars(Service)

FairSpec == Spec /\ Fairness

-----------------------------------------------------------------------------
(* Properties.                                                             *)

InHand(r) == values[path[r]] = r \/ writing = r

\* No promise is forgotten and none is kept after its answer: a request is
\* unanswered exactly while it is in the map or in the hands of the service
\* (send and recv run at the same time, between them only the map's lock).
PendingIsOwned == \A r \in Requests : answer[r] = "pending" <=> InHand(r)

\* What the callers are promised (LatestWrites), with map, notification and
\* service hidden: between the lock of the map and the awaits of the service
\* no interleaving answers twice, writes out of order, or keeps a third request
\* for a path alive.
LW == INSTANCE LatestWrites
ImplementsWrites == LW!WriteSpec

\* The service does not sleep over an entry: there is a notification for it, or
\* one about to be made (notify_one, and recv's notified().await before it
\* looks). On this it rests that every call is answered.
NoWakeupIsLost ==
    pc = "waiting" /\ (\E p \in Paths : values[p] # None) => sending # None

\* What the clients have not been shown is about to be announced or relayed. On
\* this it rests that they are shown it in the end.
UnshownIsAnnounced ==
    file # shown =>
        \/ signals > 0
        \/ \E r \in Requests : answer[r] \in {"Written", "Failed"} /\ r \notin announced

\* Superseded means what it says: a newer request for the same path exists,
\* and what was superseded is neither in a file nor about to be.
SupersededByNewer ==
    \A r \in Requests : answer[r] = "Superseded" =>
        /\ ~InHand(r)
        /\ \A p \in Paths : file[p] # r
        /\ \E s \in r + 1 .. issued : path[s] = path[r]

\* With nothing left to do for a path, its file holds the newest contents
\* asked for, whatever was superseded on the way: what is newer than the file
\* failed, or gave way to something newer still.
SettledIsNewest ==
    \A p \in Paths : values[p] = None /\ (writing # None => path[writing] # p) =>
        \A r \in file[p] + 1 .. issued : path[r] = p =>
            \/ answer[r] = "Failed"
            \/ answer[r] = "Superseded" /\ \E s \in r + 1 .. issued : path[s] = p

\* Every call is answered in the end: no interleaving of send with the service
\* loses the notification an entry depends on (for the one path that is used).
EveryCallAnswered ==
    \A r \in Requests : answer[r] = "pending" ~> answer[r] # "pending"

\* In the end the clients are shown what the file holds: the signal never
\* overtakes the write it is about (set_max_charge_level, SignalRelayService).
ShownIsCurrent == file # shown ~> file = shown
=============================================================================
