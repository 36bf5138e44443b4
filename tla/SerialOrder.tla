---------------------------- MODULE SerialOrder -----------------------------
(***************************************************************************)
(* The order of the settings' calls (SerialOrderValidator of               *)
(* src/steamos-manager/src/lib.rs, and the setters of manager/user.rs and  *)
(* manager/root.rs that use it). A client sends calls with growing serials.*)
(* Each is a task of the user daemon, and the tasks for an interface get   *)
(* its lock in any order, so the interface drops those that come late.     *)
(* Then the user daemon calls the root daemon: the message gets its serial *)
(* when it is built, but is sent later, and those of other interfaces may  *)
(* overtake it. The root daemon has one validator for all of its settings. *)
(***************************************************************************)
EXTENDS Naturals, Sequences

CONSTANTS
    Interfaces,          (* the interfaces of the user daemon              *)
    Checked,             (* those whose root method checks the order       *)
    NoMessage,
    MaxSetterCalls       (* how many calls the client makes                *)

ASSUME SerialAssumption ==
    /\ Checked \subseteq Interfaces
    /\ MaxSetterCalls \in Nat
    /\ NoMessage \notin [iface : Interfaces, call : Nat, serial : Nat]

Serials == 1..MaxSetterCalls

VARIABLES
    called,              (* how many calls the client has made             *)
    waiting,             (* those that wait for their interface            *)
    seen,                (* the serial each interface has last let through *)
    built,               (* the message each interface is about to send    *)
    serial,              (* the last serial of the user daemon's messages  *)
    wire,                (* the messages sent to the root daemon           *)
    rootSeen,            (* the serial its validator has last let through  *)
    applied,             (* the call last applied to each setting          *)
    let,                 (* the newest call each interface let through     *)
    overtaken            (* the interfaces whose last call the root daemon *)
                         (* dropped                                        *)

serialVars == <<called, waiting, seen, built, serial, wire, rootSeen, applied,
                let, overtaken>>

Calls == [iface : Interfaces, call : Serials]
Messages == [iface : Interfaces, call : Serials, serial : Nat]

\* The types of both daemons' state.
SerialTypeOK ==
    /\ called \in 0..MaxSetterCalls
    /\ waiting \subseteq Calls
    /\ seen \in [Interfaces -> 0..MaxSetterCalls]
    /\ built \in [Interfaces -> Messages \cup {NoMessage}]
    /\ serial \in Nat
    /\ wire \in Seq(Messages)
    /\ rootSeen \in Nat
    /\ applied \in [Interfaces -> 0..MaxSetterCalls]
    /\ let \in [Interfaces -> 0..MaxSetterCalls]
    /\ overtaken \subseteq Interfaces

SerialInit ==
    /\ called = 0
    /\ waiting = {}
    /\ seen = [i \in Interfaces |-> 0]
    /\ built = [i \in Interfaces |-> NoMessage]
    /\ serial = 0
    /\ wire = <<>>
    /\ rootSeen = 0
    /\ applied = [i \in Interfaces |-> 0]
    /\ let = [i \in Interfaces |-> 0]
    /\ overtaken = {}

-----------------------------------------------------------------------------

\* MUTANT of InOrder: the serial is compared with the first, not the last.
InOrderOfFirst(last, s) == last = 0 \/ s > 1

\* check_header: a sender's serial has to be above the last.
InOrder(last, s) == s > last

\* The client sets a property of an interface.
SetProperty(i) ==
    /\ called < MaxSetterCalls
    /\ called' = called + 1
    /\ waiting' = waiting \cup {[iface |-> i, call |-> called']}
    /\ UNCHANGED <<seen, built, serial, wire, rootSeen, applied, let, overtaken>>

\* The interface's lock is held until the root daemon has answered.
Locked(i) ==
    \/ built[i] # NoMessage
    \/ \E k \in 1..Len(wire) : wire[k].iface = i

\* A call gets the lock. It is dropped, which its caller takes for done, or
\* becomes a message to the root daemon.
Enter(c) ==
    /\ ~Locked(c.iface)
    /\ waiting' = waiting \ {c}
    /\ IF InOrder(seen[c.iface], c.call)
       THEN /\ seen' = [seen EXCEPT ![c.iface] = c.call]
            /\ serial' = serial + 1
            /\ built' = [built EXCEPT ![c.iface] =
                           [iface |-> c.iface, call |-> c.call, serial |-> serial']]
            /\ let' = [let EXCEPT ![c.iface] = c.call]
            /\ overtaken' = overtaken \ {c.iface}
       ELSE UNCHANGED <<seen, serial, built, let, overtaken>>
    /\ UNCHANGED <<called, wire, rootSeen, applied>>

\* The message gets to the socket, perhaps after a younger one.
Send(i) ==
    /\ built[i] # NoMessage
    /\ wire' = Append(wire, built[i])
    /\ built' = [built EXCEPT ![i] = NoMessage]
    /\ UNCHANGED <<called, waiting, seen, serial, rootSeen, applied, let, overtaken>>

\* The root daemon takes one message after another (spawn = false). It drops
\* one that is out of order, and answers as if it had not.
Apply ==
    /\ wire # <<>>
    /\ wire' = Tail(wire)
    /\ LET m == Head(wire)
           drop == m.iface \in Checked /\ ~InOrder(rootSeen, m.serial)
       IN  /\ rootSeen' = IF drop \/ m.iface \notin Checked THEN rootSeen ELSE m.serial
           /\ applied' = IF drop THEN applied ELSE [applied EXCEPT ![m.iface] = m.call]
           /\ overtaken' = IF drop THEN overtaken \cup {m.iface} ELSE overtaken
    /\ UNCHANGED <<called, waiting, seen, built, serial, let>>

SerialNext ==
    \/ \E i \in Interfaces : SetProperty(i) \/ Send(i)
    \/ \E c \in waiting : Enter(c)
    \/ Apply

SerialSpec == SerialInit /\ [][SerialNext]_serialVars

-----------------------------------------------------------------------------
(* Properties.                                                             *)

Unlocked(i) == ~Locked(i)

\* An older call never replaces the value of a newer one, through two daemons
\* that each may see them out of order; and once an interface is idle its
\* setting has the newest call that it let through, unless the root daemon
\* dropped that one. It does so only when a call for another interface, of a
\* higher serial, has come in between.
NewestIsApplied ==
    \A i \in Interfaces :
        /\ applied[i] <= let[i]
        /\ Unlocked(i) => applied[i] = let[i] \/ i \in overtaken
        /\ i \in overtaken => i \in Checked /\ \E j \in Checked : j # i
=============================================================================
