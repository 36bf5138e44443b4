--------------------------- MODULE InterfaceProofs ---------------------------
(***************************************************************************)
(* Theorems about what the user daemon serves on D-Bus: SerialOrder, for   *)
(* any interfaces, any of them checked by the root daemon, and any number  *)
(* of calls; RemoteInterface, for any list of interfaces, any of them the  *)
(* daemon's own, and any number of starts and stops of the process;        *)
(* PerformanceProfile, for any profiles and any number of callers; and     *)
(* UserInterfaces, for a machine with any troubles.                        *)
(***************************************************************************)
EXTENDS SerialOrder, RemoteInterface, PerformanceProfile, UserInterfaces, TLAPS

-----------------------------------------------------------------------------
(* The validators of SerialOrder.                                          *)

\* A message on its way has the newest call that its interface let through,
\* and the root daemon will take it if no other interface is checked.
OnItsWay(m) ==
    /\ m.call = let[m.iface]
    /\ m.iface \notin overtaken
    /\ m.serial <= serial
    /\ (\A j \in Checked : j = m.iface) /\ m.iface \in Checked => rootSeen < m.serial

\* The lock: an interface has one message on its way at most.
OneEach ==
    /\ \A k, l \in 1..Len(wire) : wire[k].iface = wire[l].iface => k = l
    /\ \A i \in Interfaces : built[i] # NoMessage =>
          /\ built[i].iface = i
          /\ \A k \in 1..Len(wire) : wire[k].iface # i

SerialInv ==
    /\ SerialTypeOK
    /\ rootSeen <= serial
    /\ seen = let
    /\ OneEach
    /\ \A k \in 1..Len(wire) : OnItsWay(wire[k])
    /\ \A i \in Interfaces : built[i] # NoMessage => OnItsWay(built[i])
    /\ NewestIsApplied

LEMMA NoMessageIsNone == NoMessage \notin Messages
BY SerialAssumption DEF Messages, Serials

LEMMA InitSerialInv == SerialInit => SerialInv
<1> SUFFICES ASSUME SerialInit PROVE SerialInv
  OBVIOUS
<1> USE SerialAssumption DEF SerialInit
<1>1. SerialTypeOK
  BY DEF SerialTypeOK
<1>2. OneEach
  BY DEF OneEach
<1>3. NewestIsApplied
  <2> SUFFICES ASSUME NEW i \in Interfaces
               PROVE applied[i] <= let[i] /\ applied[i] = let[i] /\ i \notin overtaken
    BY DEF NewestIsApplied
  <2>1. applied[i] = 0 /\ let[i] = 0 /\ i \notin overtaken
    OBVIOUS
  <2>2. 0 <= 0
    OBVIOUS
  <2>3. QED
    BY <2>1, <2>2
<1>4. QED
  BY <1>1, <1>2, <1>3 DEF SerialInv

LEMMA SetPropertyKeepsInv ==
    ASSUME SerialInv, NEW i \in Interfaces, SetProperty(i) PROVE SerialInv'
<1> USE SerialAssumption DEF SetProperty
<1>1. SerialTypeOK'
  BY DEF SerialInv, SerialTypeOK, Calls, Serials
<1>2. OneEach'
  BY DEF SerialInv, OneEach
<1>3. NewestIsApplied'
  BY DEF SerialInv, NewestIsApplied, Unlocked, Locked
<1>4. QED
  BY <1>1, <1>2, <1>3 DEF SerialInv, OnItsWay

LEMMA EnterKeepsInv ==
    ASSUME SerialInv, NEW c \in waiting, Enter(c) PROVE SerialInv'
<1> USE SerialAssumption
<1>1. c \in Calls /\ c.iface \in Interfaces /\ c.call \in Serials
  BY DEF SerialInv, SerialTypeOK, Calls
<1>2. CASE InOrder(seen[c.iface], c.call)
  <2> DEFINE m == [iface |-> c.iface, call |-> c.call, serial |-> serial + 1]
  <2>1. /\ built' = [built EXCEPT ![c.iface] = m]
        /\ seen' = [seen EXCEPT ![c.iface] = c.call]
        /\ let' = [let EXCEPT ![c.iface] = c.call]
        /\ serial' = serial + 1
        /\ overtaken' = overtaken \ {c.iface}
        /\ waiting' = waiting \ {c}
        /\ UNCHANGED <<called, wire, rootSeen, applied>>
    BY <1>2 DEF Enter
  <2>2. m \in Messages
    BY <1>1 DEF SerialInv, SerialTypeOK, Messages
  <2>3. SerialTypeOK'
    BY <1>1, <2>1, <2>2 DEF SerialInv, SerialTypeOK, Calls, Serials
  <2>4. /\ built[c.iface] = NoMessage
        /\ \A k \in 1..Len(wire) : wire[k].iface # c.iface
    BY DEF Enter, Locked
  <2>5. OneEach'
    BY <1>1, <2>1, <2>4 DEF SerialInv, SerialTypeOK, OneEach
  <2>6. \A k \in 1..Len(wire') : OnItsWay(wire[k])'
    <3> SUFFICES ASSUME NEW k \in 1..Len(wire) PROVE OnItsWay(wire[k])'
      BY <2>1
    <3>1. wire[k] \in Messages
      BY DEF SerialInv, SerialTypeOK
    <3>2. OnItsWay(wire[k]) /\ wire[k].iface # c.iface
      BY <2>4 DEF SerialInv
    <3>3. let'[wire[k].iface] = let[wire[k].iface]
      BY <1>1, <2>1, <3>1, <3>2 DEF Messages, SerialInv, SerialTypeOK
    <3>4. wire[k].serial <= serial'
      BY SMTT(30), <2>1, <3>1, <3>2 DEF OnItsWay, Messages, SerialInv, SerialTypeOK
    <3>5. QED
      BY <2>1, <3>2, <3>3, <3>4 DEF OnItsWay
  <2>7. \A i \in Interfaces : built'[i] # NoMessage => OnItsWay(built[i])'
    <3> SUFFICES ASSUME NEW i \in Interfaces, built'[i] # NoMessage
                 PROVE OnItsWay(built[i])'
      OBVIOUS
    <3>1. CASE i = c.iface
      <4>1. built'[i] = m
        BY <1>1, <2>1, <3>1 DEF SerialInv, SerialTypeOK
      <4>2. QED
        BY <1>1, <2>1, <4>1 DEF OnItsWay, SerialInv, SerialTypeOK
    <3>2. CASE i # c.iface
      <4>1. built'[i] = built[i] /\ built[i] \in Messages /\ OnItsWay(built[i])
            /\ built[i].iface = i
        BY <2>1, <3>2 DEF SerialInv, SerialTypeOK, OneEach
      <4>2. QED
        BY <1>1, <2>1, <3>2, <4>1 DEF OnItsWay, Messages, SerialInv, SerialTypeOK
    <3>3. QED
      BY <3>1, <3>2
  <2>8. NewestIsApplied'
    <3> SUFFICES ASSUME NEW i \in Interfaces
                 PROVE /\ applied'[i] <= let'[i]
                       /\ Unlocked(i)' => applied'[i] = let'[i] \/ i \in overtaken'
                       /\ i \in overtaken' => i \in Checked /\ \E j \in Checked : j # i
      BY DEF NewestIsApplied
    <3>1. CASE i = c.iface
      <4>1. built'[i] = m /\ m # NoMessage
        BY <1>1, <2>1, <2>2, <3>1, NoMessageIsNone DEF SerialInv, SerialTypeOK
      <4>2. applied[i] <= let[i] /\ let[i] = seen[i] /\ seen[i] < c.call
        BY <1>2, <3>1 DEF SerialInv, NewestIsApplied, InOrder
      <4>3. applied'[i] <= let'[i]
        BY <1>1, <2>1, <3>1, <4>2 DEF SerialInv, SerialTypeOK, Serials
      <4>4. QED
        BY <2>1, <3>1, <4>1, <4>3 DEF Unlocked, Locked
    <3>2. CASE i # c.iface
      BY <2>1, <3>2 DEF SerialInv, SerialTypeOK, NewestIsApplied, Unlocked, Locked
    <3>3. QED
      BY <3>1, <3>2
  <2>9. seen' = let' /\ rootSeen' <= serial'
    BY <2>1 DEF SerialInv, SerialTypeOK
  <2>10. QED
    BY <2>3, <2>5, <2>6, <2>7, <2>8, <2>9 DEF SerialInv
<1>3. CASE ~InOrder(seen[c.iface], c.call)
  <2>1. /\ waiting' = waiting \ {c}
        /\ UNCHANGED <<called, seen, built, serial, wire, rootSeen, applied, let, overtaken>>
    BY <1>3 DEF Enter
  <2>2. SerialTypeOK'
    BY <2>1 DEF SerialInv, SerialTypeOK
  <2>3. OneEach' /\ NewestIsApplied'
    BY <2>1 DEF SerialInv, OneEach, NewestIsApplied, Unlocked, Locked
  <2>4. QED
    BY <2>1, <2>2, <2>3 DEF SerialInv, OnItsWay
<1>4. QED
  BY <1>2, <1>3

LEMMA SendKeepsInv ==
    ASSUME SerialInv, NEW i \in Interfaces, Send(i) PROVE SerialInv'
<1> USE SerialAssumption
<1>1. /\ built[i] # NoMessage /\ built[i] \in Messages /\ built[i].iface = i
      /\ OnItsWay(built[i])
      /\ \A k \in 1..Len(wire) : wire[k].iface # i
  BY DEF Send, SerialInv, SerialTypeOK, OneEach
<1>2. /\ wire' = Append(wire, built[i])
      /\ built' = [built EXCEPT ![i] = NoMessage]
      /\ UNCHANGED <<called, waiting, seen, serial, rootSeen, applied, let, overtaken>>
  BY DEF Send
<1>3. SerialTypeOK'
  BY <1>1, <1>2 DEF SerialInv, SerialTypeOK
<1>4. /\ wire \in Seq(Messages)
      /\ Len(wire') = Len(wire) + 1
      /\ \A k \in 1..Len(wire) : wire'[k] = wire[k]
      /\ wire'[Len(wire) + 1] = built[i]
  BY <1>1, <1>2 DEF SerialInv, SerialTypeOK
<1>5. OneEach'
  <2>1. ASSUME NEW k \in 1..Len(wire'), NEW l \in 1..Len(wire'),
               wire'[k].iface = wire'[l].iface
        PROVE k = l
    BY <1>1, <1>4, <2>1 DEF SerialInv, OneEach
  <2>2. ASSUME NEW j \in Interfaces, built'[j] # NoMessage
        PROVE built'[j].iface = j /\ \A k \in 1..Len(wire') : wire'[k].iface # j
    <3>1. j # i /\ built'[j] = built[j]
      BY <1>2, <2>2 DEF SerialInv, SerialTypeOK
    <3>2. QED
      BY <1>1, <1>4, <2>2, <3>1 DEF SerialInv, OneEach
  <2>3. QED
    BY <2>1, <2>2 DEF OneEach
<1>6. \A k \in 1..Len(wire') : OnItsWay(wire[k])'
  <2> SUFFICES ASSUME NEW k \in 1..Len(wire') PROVE OnItsWay(wire'[k])
    BY <1>2 DEF OnItsWay
  <2>1. CASE k = Len(wire) + 1
    BY <1>1, <1>4, <2>1
  <2>2. CASE k # Len(wire) + 1
    BY <1>4, <2>2 DEF SerialInv
  <2>3. QED
    BY <2>1, <2>2
<1>7. \A j \in Interfaces : built'[j] # NoMessage => OnItsWay(built[j])'
  BY <1>2 DEF SerialInv, SerialTypeOK, OnItsWay
<1>8. NewestIsApplied'
  <2> SUFFICES ASSUME NEW j \in Interfaces, Unlocked(j)' PROVE Unlocked(j)
    BY <1>2 DEF SerialInv, NewestIsApplied
  <2>1. j # i
    BY SMTT(30), <1>1, <1>4 DEF Unlocked, Locked, SerialInv, SerialTypeOK
  <2>2. QED
    BY <1>2, <1>4, <2>1 DEF Unlocked, Locked, SerialInv, SerialTypeOK
<1>9. QED
  BY <1>2, <1>3, <1>5, <1>6, <1>7, <1>8 DEF SerialInv

\* The message at the head of the wire, and what is left behind it.
LEMMA TheRest ==
    ASSUME SerialInv, wire # <<>>
    PROVE  /\ Head(wire) \in Messages /\ Head(wire) = wire[1] /\ 1 \in 1..Len(wire)
           /\ OnItsWay(Head(wire))
           /\ Tail(wire) \in Seq(Messages) /\ Len(Tail(wire)) = Len(wire) - 1
           /\ \A k \in 1..Len(Tail(wire)) :
                 /\ k + 1 \in 1..Len(wire)
                 /\ Tail(wire)[k] = wire[k + 1]
                 /\ Tail(wire)[k] \in Messages
                 /\ OnItsWay(Tail(wire)[k])
                 /\ Tail(wire)[k].iface # Head(wire).iface
           /\ built[Head(wire).iface] = NoMessage
<1>1. wire \in Seq(Messages) /\ Len(wire) \in Nat /\ Len(wire) > 0
  BY DEF SerialInv, SerialTypeOK
<1>2. Head(wire) \in Messages /\ Head(wire) = wire[1] /\ 1 \in 1..Len(wire)
  BY <1>1
<1>3. Tail(wire) \in Seq(Messages) /\ Len(Tail(wire)) = Len(wire) - 1
  BY <1>1
<1>4. ASSUME NEW k \in 1..Len(Tail(wire))
      PROVE /\ k + 1 \in 1..Len(wire)
            /\ Tail(wire)[k] = wire[k + 1]
            /\ Tail(wire)[k] \in Messages
  BY <1>1, <1>3
<1>5. ASSUME NEW k \in 1..Len(Tail(wire))
      PROVE OnItsWay(Tail(wire)[k]) /\ Tail(wire)[k].iface # Head(wire).iface
  <2>1. k + 1 # 1
    BY <1>3, <1>1
  <2>2. QED
    BY <1>2, <1>4, <2>1 DEF SerialInv, OneEach
<1>6. Head(wire).iface \in Interfaces
  BY <1>2 DEF Messages
<1>7. built[Head(wire).iface] = NoMessage
  BY <1>2, <1>6 DEF SerialInv, OneEach
<1>8. QED
  BY <1>2, <1>3, <1>4, <1>5, <1>7 DEF SerialInv

LEMMA ApplyKeepsInv ==
    ASSUME SerialInv, Apply
    PROVE  SerialInv' /\ \A i \in Interfaces : applied'[i] >= applied[i]
<1> USE SerialAssumption
<1> DEFINE m == Head(wire)
           drop == m.iface \in Checked /\ ~InOrder(rootSeen, m.serial)
<1>1. /\ wire # <<>> /\ wire' = Tail(wire)
      /\ rootSeen' = IF drop \/ m.iface \notin Checked THEN rootSeen ELSE m.serial
      /\ applied' = IF drop THEN applied ELSE [applied EXCEPT ![m.iface] = m.call]
      /\ overtaken' = IF drop THEN overtaken \cup {m.iface} ELSE overtaken
      /\ UNCHANGED <<called, waiting, seen, built, serial, let>>
  BY DEF Apply
<1>2. m \in Messages /\ OnItsWay(m) /\ built[m.iface] = NoMessage
      /\ m.iface \in Interfaces /\ m.call \in Serials /\ m.serial \in Nat
  BY <1>1, TheRest DEF Messages
<1>3. m.call = let[m.iface] /\ applied[m.iface] <= m.call
  BY <1>2 DEF OnItsWay, SerialInv, NewestIsApplied
<1>4. SerialTypeOK'
  <2>1. wire' \in Seq(Messages)
    BY <1>1, TheRest
  <2>2. QED
    BY SMTT(30), <1>1, <1>2, <2>1 DEF SerialInv, SerialTypeOK, Serials
<1>5. rootSeen' <= serial' /\ seen' = let'
  BY <1>1, <1>2 DEF SerialInv, SerialTypeOK, OnItsWay
<1>6. OneEach'
  <2>1. ASSUME NEW k \in 1..Len(wire'), NEW l \in 1..Len(wire'),
               wire'[k].iface = wire'[l].iface
        PROVE k = l
    <3>1. k + 1 \in 1..Len(wire) /\ l + 1 \in 1..Len(wire)
          /\ wire'[k] = wire[k + 1] /\ wire'[l] = wire[l + 1]
      BY <1>1, TheRest
    <3>2. k + 1 = l + 1
      BY <2>1, <3>1 DEF SerialInv, OneEach
    <3>3. k \in Nat /\ l \in Nat
      OBVIOUS
    <3>4. QED
      BY <3>2, <3>3
  <2>2. ASSUME NEW j \in Interfaces, built'[j] # NoMessage
        PROVE built'[j].iface = j /\ \A k \in 1..Len(wire') : wire'[k].iface # j
    BY <1>1, <2>2, TheRest DEF SerialInv, OneEach
  <2>3. QED
    BY <2>1, <2>2 DEF OneEach
<1>7. ASSUME NEW n \in Messages, OnItsWay(n), n.iface # m.iface PROVE OnItsWay(n)'
  <2>1. (\A j \in Checked : j = n.iface) => rootSeen' = rootSeen
    BY <1>1, <1>7
  <2>2. n.serial \in Nat
    BY DEF Messages
  <2>3. QED
    BY <1>1, <1>7, <2>1, <2>2 DEF OnItsWay
<1>8. \A k \in 1..Len(wire') : OnItsWay(wire[k])'
  <2> SUFFICES ASSUME NEW k \in 1..Len(wire') PROVE OnItsWay(wire[k])'
    OBVIOUS
  <2>1. wire'[k] \in Messages /\ OnItsWay(wire'[k]) /\ wire'[k].iface # m.iface
    BY <1>1, TheRest
  <2>2. QED
    BY <1>1, <1>7, <2>1 DEF OnItsWay
<1>9. \A j \in Interfaces : built'[j] # NoMessage => OnItsWay(built[j])'
  <2> SUFFICES ASSUME NEW j \in Interfaces, built[j] # NoMessage PROVE OnItsWay(built[j])'
    BY <1>1
  <2>1. built[j] \in Messages /\ built[j].iface = j /\ OnItsWay(built[j]) /\ j # m.iface
    BY <1>2 DEF SerialInv, SerialTypeOK, OneEach
  <2>2. QED
    BY <1>1, <1>7, <2>1 DEF OnItsWay
<1>10. NewestIsApplied'
  <2> SUFFICES ASSUME NEW i \in Interfaces
               PROVE /\ applied'[i] <= let'[i]
                     /\ Unlocked(i)' => applied'[i] = let'[i] \/ i \in overtaken'
                     /\ i \in overtaken' => i \in Checked /\ \E j \in Checked : j # i
    BY DEF NewestIsApplied
  <2>1. CASE i = m.iface /\ drop
    <3>1. ~(\A j \in Checked : j = i)
      BY <1>2, <2>1 DEF OnItsWay, InOrder, SerialInv, SerialTypeOK
    <3>2. QED
      BY <1>1, <2>1, <3>1 DEF SerialInv, NewestIsApplied
  <2>2. CASE i = m.iface /\ ~drop
    <3>1. applied'[i] = let'[i] /\ let'[i] \in 0..MaxSetterCalls
      BY <1>1, <1>2, <1>3, <2>2 DEF SerialInv, SerialTypeOK
    <3>2. i \notin overtaken'
      BY <1>1, <1>2, <2>2 DEF OnItsWay
    <3>3. QED
      BY <3>1, <3>2
  <2>3. CASE i # m.iface
    <3>1. applied'[i] = applied[i] /\ let'[i] = let[i]
          /\ (i \in overtaken' <=> i \in overtaken)
      BY <1>1, <2>3 DEF SerialInv, SerialTypeOK
    <3>2. ASSUME Unlocked(i)', NEW k \in 1..Len(wire), wire[k].iface = i PROVE FALSE
      <4>1. k # 1
        BY <2>3, <3>2, <1>1, TheRest
      <4>2. k - 1 \in 1..Len(wire') /\ (k - 1) + 1 = k
        BY SMTT(30), <1>1, <4>1, TheRest DEF SerialInv, SerialTypeOK
      <4>3. wire'[k - 1] = wire[k]
        BY <1>1, <4>2, TheRest
      <4>4. QED
        BY <3>2, <4>2, <4>3 DEF Unlocked, Locked
    <3>3. Unlocked(i)' => Unlocked(i)
      BY <1>1, <3>2 DEF Unlocked, Locked
    <3>4. QED
      BY <3>1, <3>3 DEF SerialInv, NewestIsApplied
  <2>4. QED
    BY <2>1, <2>2, <2>3
<1>11. \A i \in Interfaces : applied'[i] >= applied[i]
  BY <1>1, <1>2, <1>3 DEF SerialInv, SerialTypeOK
<1>12. QED
  BY <1>4, <1>5, <1>6, <1>8, <1>9, <1>10, <1>11 DEF SerialInv

LEMMA StutterKeepsInv == SerialInv /\ UNCHANGED serialVars => SerialInv'
BY DEF SerialInv, serialVars, SerialTypeOK, OneEach, OnItsWay, NewestIsApplied,
       Unlocked, Locked

\* The invariant holds in every state of SerialOrder.
THEOREM SerialInvariant == SerialSpec => []SerialInv
<1>1. ASSUME SerialInv, [SerialNext]_serialVars PROVE SerialInv'
  BY <1>1, SetPropertyKeepsInv, EnterKeepsInv, SendKeepsInv, ApplyKeepsInv, StutterKeepsInv
     DEF SerialNext
<1>2. QED
  BY <1>1, InitSerialInv, PTL DEF SerialSpec

\* Both daemons' variables have their types: the wire carries only messages of
\* interfaces there are, whatever is dropped.
THEOREM SerialTypeCorrect == SerialSpec => []SerialTypeOK
<1>1. SerialInv => SerialTypeOK
  BY DEF SerialInv
<1>2. QED
  BY <1>1, SerialInvariant, PTL

\* An idle interface's setting has the newest call that its interface let
\* through, unless the root daemon dropped it because of another interface.
THEOREM NewestIsAppliedAlways == SerialSpec => []NewestIsApplied
<1>1. SerialInv => NewestIsApplied
  BY DEF SerialInv
<1>2. QED
  BY <1>1, SerialInvariant, PTL

\* No step puts an older call's value in the place of a newer one's.
THEOREM NeverOlder ==
    SerialSpec => [][\A i \in Interfaces : applied'[i] >= applied[i]]_serialVars
<1>1. ASSUME SerialInv, [SerialNext]_serialVars
      PROVE [\A i \in Interfaces : applied'[i] >= applied[i]]_serialVars
  <2>1. CASE Apply
    BY <1>1, <2>1, ApplyKeepsInv
  <2>2. CASE UNCHANGED serialVars
    BY <2>2
  <2>3. CASE SerialNext /\ ~Apply
    <3>1. applied' = applied
      BY <2>3 DEF SerialNext, SetProperty, Send, Enter
    <3>2. QED
      BY <1>1, <3>1 DEF SerialInv, SerialTypeOK
  <2>4. QED
    BY <1>1, <2>1, <2>2, <2>3
<1>2. QED
  BY <1>1, SerialInvariant, PTL DEF SerialSpec

-----------------------------------------------------------------------------
(* The relays of RemoteInterface.                                          *)

LastOf(s) == s[Len(s)]

\* An interface that is not the daemon's own is registered when it is there.
OneRelay(i) ==
    /\ registered[i] => object[i] # "none"
    /\ i \notin LocalIfaces => (object[i] = "remote" <=> registered[i]) /\ object[i] # "local"
    /\ i \in LocalIfaces \ {Tdp} => object[i] = "local" /\ ~registered[i]

\* What the task of an interface knows: the last change that it has not taken
\* is what holds; and when there is none, the one it is about to act on is.
Knows(i) ==
    /\ load_task[i] = "none" => changes[i] = <<>> /\ object[i] # "remote" /\ holder # i
    /\ load_task[i] = "waiting" /\ changes[i] # <<>> =>
          (remoteUp <=> LastOf(changes[i]) = "gained")
    /\ load_task[i] = "waiting" /\ changes[i] = <<>> /\ holder = i /\ ~remoteUp =>
          step = "ping" /\ (i \notin LocalIfaces => object[i] = "none")
    /\ Caught(i) /\ i \notin LocalIfaces => (registered[i] <=> remoteUp)

\* create_interfaces goes through the list once.
InTurn ==
    startup = "configure" =>
        /\ ~Free => configuring <= Len(Configured) /\ holder = Configured[configuring]
        /\ \A k \in 1..Len(Configured) :
              k > configuring \/ (k = configuring /\ Free) =>
                  load_task[Configured[k]] = "none"

RemoteInv ==
    /\ RemoteTypeOK
    /\ InTurn
    /\ \A i \in Ifaces : OneRelay(i) /\ Knows(i)

LEMMA Lengths ==
    /\ Len(Configured) \in Nat
    /\ \A k \in 1..Len(Configured) : Configured[k] \in Ifaces
BY RemoteAssumption DEF Ifaces

LEMMA TailKeepsLast ==
    ASSUME NEW S, NEW s \in Seq(S), s # <<>>
    PROVE  /\ Tail(s) \in Seq(S)
           /\ Tail(s) = <<>> => LastOf(s) = Head(s)
           /\ Tail(s) # <<>> => LastOf(Tail(s)) = LastOf(s)
<1>1. Len(s) \in Nat /\ Len(s) > 0 /\ Tail(s) \in Seq(S)
      /\ Len(Tail(s)) = Len(s) - 1 /\ Head(s) = s[1]
  OBVIOUS
<1>2. ASSUME NEW t \in Seq(S), Len(t) = Len(s) - 1, t = <<>> PROVE LastOf(s) = s[1]
  <2>1. Len(t) = 0
    BY <1>2
  <2>2. ASSUME NEW n \in Nat, n - 1 = 0 PROVE n = 1
    BY <2>2
  <2>3. Len(s) - 1 = 0
    BY <1>2, <2>1
  <2>4. Len(s) = 1
    BY <1>1, <2>2, <2>3
  <2>5. QED
    BY <2>4 DEF LastOf
<1>3. ASSUME Tail(s) # <<>> PROVE LastOf(Tail(s)) = LastOf(s)
  <2>1. Len(Tail(s)) \in 1..Len(Tail(s))
    BY <1>1, <1>3
  <2>2. QED
    BY <1>1, <2>1 DEF LastOf
<1>4. QED
  BY <1>1, <1>2, <1>3

LEMMA AppendIsLast ==
    ASSUME NEW S, NEW s \in Seq(S), NEW c \in S
    PROVE  /\ Append(s, c) \in Seq(S) /\ Append(s, c) # <<>>
           /\ LastOf(Append(s, c)) = c
BY DEF LastOf

LEMMA InitRemoteInv == RemoteInit => RemoteInv
<1> SUFFICES ASSUME RemoteInit PROVE RemoteInv
  OBVIOUS
<1> USE RemoteAssumption, Lengths DEF RemoteInit
<1>1. RemoteTypeOK
  BY DEF RemoteTypeOK, Nobody
<1>2. InTurn
  BY DEF InTurn, Free
<1>3. ASSUME NEW i \in Ifaces PROVE OneRelay(i) /\ Knows(i)
  <2>1. /\ object[i] = IF i \in LocalIfaces \ {Tdp} THEN "local" ELSE "none"
        /\ ~registered[i] /\ load_task[i] = "none" /\ changes[i] = <<>> /\ holder # i
    OBVIOUS
  <2>2. QED
    BY <2>1 DEF OneRelay, Knows, Caught
<1>4. QED
  BY <1>1, <1>2, <1>3 DEF RemoteInv

\* A step about another interface.
LEMMA OthersKeep ==
    ASSUME RemoteInv, NEW j \in Ifaces, holder # j, holder' # j, remoteUp' = remoteUp,
           object'[j] = object[j], registered'[j] = registered[j],
           load_task'[j] = load_task[j], changes'[j] = changes[j]
    PROVE  OneRelay(j)' /\ Knows(j)'
BY DEF RemoteInv, OneRelay, Knows, Caught

-----------------------------------------------------------------------------
(* register, step by step.                                                 *)

LEMMA PingKeepsInv ==
    ASSUME RemoteInv, NEW i \in Ifaces, Ping(i) \/ Pong(i) PROVE RemoteInv'
<1> USE RemoteAssumption, Lengths
<1>1. /\ holder = i /\ holder \in Ifaces /\ i # Nobody
      /\ UNCHANGED <<startup, load_task, signal_tasks, object, registered, changes,
                     remoteUp, flaps>>
      /\ step \in {"ping", "pinged"} /\ step' \in {"idle", "pinged", "attach"}
  BY DEF Ping, Pong, NoOwner, taskVars
<1>2. CASE remoteUp
  <2>1. UNCHANGED <<configuring, holder>>
    BY <1>2 DEF Ping, Pong
  <2>2. RemoteTypeOK'
    BY <1>1, <2>1 DEF RemoteInv, RemoteTypeOK
  <2>3. InTurn'
    BY <1>1, <2>1 DEF RemoteInv, InTurn, Free
  <2>4. \A j \in Ifaces : OneRelay(j)' /\ Knows(j)'
    BY <1>1, <1>2, <2>1 DEF RemoteInv, OneRelay, Knows, Caught
  <2>5. QED
    BY <2>2, <2>3, <2>4 DEF RemoteInv
<1>3. CASE ~remoteUp
  <2>1. /\ step = "ping" /\ holder' = Nobody /\ step' = "idle"
        /\ configuring' = IF startup = "configure" THEN configuring + 1 ELSE configuring
    BY <1>3 DEF Ping, Pong, NoOwner
  <2>2. startup = "configure" => configuring \in 1..Len(Configured)
    BY <1>1 DEF RemoteInv, RemoteTypeOK, InTurn, Free
  <2>3. RemoteTypeOK'
    BY <1>1, <2>1, <2>2 DEF RemoteInv, RemoteTypeOK
  <2>4. InTurn'
    BY <1>1, <2>1, <2>2 DEF RemoteInv, InTurn, Free, RemoteTypeOK
  <2>5. ASSUME NEW j \in Ifaces PROVE OneRelay(j)' /\ Knows(j)'
    <3>1. CASE j = i
      <4>1. OneRelay(j) /\ Knows(j)
        BY DEF RemoteInv
      <4>2. holder' # j
        BY <2>1
      <4>3. QED
        BY <1>1, <1>3, <2>1, <3>1, <4>1, <4>2 DEF OneRelay, Knows, Caught
    <3>2. CASE j # i
      BY <1>1, <2>1, <3>2, OthersKeep
    <3>3. QED
      BY <3>1, <3>2
  <2>6. QED
    BY <2>3, <2>4, <2>5 DEF RemoteInv
<1>4. QED
  BY <1>2, <1>3

LEMMA NoReplyKeepsInv ==
    ASSUME RemoteInv, NEW i \in Ifaces, NoReply(i) PROVE RemoteInv'
<1> USE RemoteAssumption, Lengths
<1>1. /\ holder = i /\ step = "pinged" /\ ~remoteUp /\ holder' = Nobody /\ step' = "idle"
      /\ UNCHANGED <<configuring, signal_tasks, object, registered, changes, remoteUp, flaps>>
      /\ \/ startup' = "failed" /\ load_task' = load_task
         \/ /\ startup # "configure" /\ startup' = startup
            /\ load_task' = [load_task EXCEPT ![i] = "ended"]
  BY DEF NoReply, RegisterFails
<1>2. RemoteTypeOK'
  BY <1>1 DEF RemoteInv, RemoteTypeOK
<1>3. InTurn'
  BY <1>1 DEF InTurn
<1>4. ASSUME NEW j \in Ifaces PROVE OneRelay(j)' /\ Knows(j)'
  <2>1. CASE j = i
    <3>1. OneRelay(j) /\ Knows(j) /\ holder' # j
      BY <1>1 DEF RemoteInv
    <3>2. load_task'[j] \in {load_task[j], "ended"} /\ load_task[j] # "none"
      BY <1>1, <2>1, <3>1 DEF RemoteInv, RemoteTypeOK, Knows
    <3>3. QED
      BY <1>1, <2>1, <3>1, <3>2 DEF OneRelay, Knows, Caught
  <2>2. CASE j # i
    <3>1. load_task'[j] = load_task[j] /\ holder # j /\ holder' # j
      BY <1>1, <2>2 DEF RemoteInv, RemoteTypeOK
    <3>2. QED
      BY <1>1, <3>1, OthersKeep
  <2>3. QED
    BY <2>1, <2>2
<1>5. QED
  BY <1>2, <1>3, <1>4 DEF RemoteInv

LEMMA AttachKeepsInv ==
    ASSUME RemoteInv, NEW i \in Ifaces, Attach(i) PROVE RemoteInv'
<1> USE RemoteAssumption, Lengths
<1>1. /\ holder = i /\ step = "attach" /\ holder' = Nobody /\ step' = "idle"
      /\ UNCHANGED <<startup, load_task, changes, remoteUp, flaps>>
      /\ object' = [object EXCEPT ![i] = IF @ = "none" THEN "remote" ELSE @]
      /\ registered' = IF i = Tdp \/ object[i] = "none"
                       THEN [registered EXCEPT ![i] = TRUE] ELSE registered
  BY DEF Attach, Registered
<1>2. startup = "configure" => configuring \in 1..Len(Configured)
  BY <1>1 DEF RemoteInv, RemoteTypeOK, InTurn, Free
<1>3. /\ configuring' = IF startup = "configure" THEN configuring + 1 ELSE configuring
  BY DEF Attach, Registered
<1>4. RemoteTypeOK'
  <2>1. signal_tasks' \in [Ifaces -> Nat]
    <3>1. \/ signal_tasks' = signal_tasks
          \/ signal_tasks' = [signal_tasks EXCEPT ![i] = @ + 1]
      BY DEF Attach, Registered
    <3>2. signal_tasks \in [Ifaces -> Nat]
      BY DEF RemoteInv, RemoteTypeOK
    <3>3. QED
      BY <3>1, <3>2
  <2>2. registered' \in [Ifaces -> BOOLEAN]
    <3>1. \/ registered' = registered
          \/ registered' = [registered EXCEPT ![i] = TRUE]
      BY <1>1
    <3>2. QED
      BY <3>1 DEF RemoteInv, RemoteTypeOK
  <2>3. object' \in [Ifaces -> {"none", "local", "remote"}]
    BY <1>1 DEF RemoteInv, RemoteTypeOK
  <2>4. configuring' \in 1..Len(Configured) + 1
    BY <1>2, <1>3 DEF RemoteInv, RemoteTypeOK
  <2>5. QED
    BY <1>1, <2>1, <2>2, <2>3, <2>4 DEF RemoteInv, RemoteTypeOK
<1>5. InTurn'
  <2>1. ASSUME startup = "configure", NEW k \in 1..Len(Configured),
               k > configuring + 1 \/ k = configuring + 1
        PROVE  load_task[Configured[k]] = "none"
    <3>1. k > configuring
      BY <1>2, <2>1
    <3>2. QED
      BY <2>1, <3>1 DEF RemoteInv, InTurn
  <2>2. QED
    BY <1>1, <1>3, <2>1 DEF InTurn, Free
<1>6. ASSUME NEW j \in Ifaces PROVE OneRelay(j)' /\ Knows(j)'
  <2>1. CASE j = i
    <3>1. OneRelay(j) /\ Knows(j) /\ holder' # j
      BY <1>1 DEF RemoteInv
    <3>2. /\ object'[j] = IF object[j] = "none" THEN "remote" ELSE object[j]
          /\ registered'[j] = IF j = Tdp \/ object[j] = "none" THEN TRUE ELSE registered[j]
      BY <1>1, <2>1 DEF RemoteInv, RemoteTypeOK
    <3>3. object[j] \in {"none", "local", "remote"} /\ registered[j] \in BOOLEAN
      BY DEF RemoteInv, RemoteTypeOK
    <3>4. OneRelay(j)'
      BY <3>1, <3>2, <3>3 DEF OneRelay
    <3>5. load_task[j] # "none"
      BY <1>1, <2>1, <3>1 DEF Knows
    <3>6. load_task[j] = "waiting" /\ changes[j] = <<>> => remoteUp
      BY <1>1, <2>1, <3>1 DEF Knows
    <3>7. j \notin LocalIfaces => registered'[j]
      BY <3>1, <3>2, <3>3 DEF OneRelay
    <3>8. QED
      BY <1>1, <3>1, <3>4, <3>5, <3>6, <3>7 DEF Knows, Caught
  <2>2. CASE j # i
    <3>1. object'[j] = object[j] /\ registered'[j] = registered[j] /\ holder # j /\ holder' # j
      BY <1>1, <2>2 DEF RemoteInv, RemoteTypeOK
    <3>2. QED
      BY <1>1, <3>1, OthersKeep
  <2>3. QED
    BY <2>1, <2>2
<1>7. QED
  BY <1>4, <1>5, <1>6 DEF RemoteInv

-----------------------------------------------------------------------------
(* create_interfaces, and the tasks.                                       *)

LEMMA ConfigureKeepsInv ==
    ASSUME RemoteInv, Configure PROVE RemoteInv'
<1> USE RemoteAssumption, Lengths
<1> DEFINE i == Configured[configuring]
<1>1. /\ startup = "configure" /\ Free /\ configuring <= Len(Configured)
      /\ load_task' = [load_task EXCEPT ![i] = "waiting"]
      /\ holder' = i /\ step' = "ping"
      /\ UNCHANGED <<startup, configuring, object, registered, signal_tasks, changes,
                     remoteUp, flaps>>
  BY DEF Configure
<1>2. configuring \in 1..Len(Configured) /\ i \in Ifaces /\ i # Nobody
  BY <1>1 DEF RemoteInv, RemoteTypeOK
<1>3. load_task[i] = "none"
  BY <1>1, <1>2 DEF RemoteInv, InTurn
<1>4. RemoteTypeOK'
  BY <1>1, <1>2 DEF RemoteInv, RemoteTypeOK
<1>5. InTurn'
  <2>1. ASSUME NEW k \in 1..Len(Configured), k > configuring
        PROVE  load_task'[Configured[k]] = "none"
    <3>1. Configured[k] # i /\ Configured[k] \in Ifaces
      BY <1>2, <2>1
    <3>2. load_task[Configured[k]] = "none"
      BY <1>1, <2>1 DEF RemoteInv, InTurn
    <3>3. QED
      BY <1>1, <3>1, <3>2 DEF RemoteInv, RemoteTypeOK
  <2>2. QED
    BY <1>1, <1>2, <2>1 DEF InTurn, Free
<1>6. ASSUME NEW j \in Ifaces PROVE OneRelay(j)' /\ Knows(j)'
  <2>1. CASE j = i
    <3>1. OneRelay(j) /\ Knows(j)
      BY DEF RemoteInv
    <3>2. load_task'[j] = "waiting" /\ changes[j] = <<>> /\ object[j] # "remote"
      BY <1>1, <1>3, <2>1, <3>1 DEF RemoteInv, RemoteTypeOK, Knows
    <3>3. j \notin LocalIfaces => object[j] = "none"
      BY <3>1, <3>2 DEF RemoteInv, RemoteTypeOK, OneRelay
    <3>4. QED
      BY <1>1, <2>1, <3>1, <3>2, <3>3 DEF OneRelay, Knows, Caught
  <2>2. CASE j # i
    <3>1. load_task'[j] = load_task[j] /\ holder # j /\ holder' # j
      BY <1>1, <2>2 DEF RemoteInv, RemoteTypeOK, Free
    <3>2. QED
      BY <1>1, <3>1, OthersKeep
  <2>3. QED
    BY <2>1, <2>2
<1>7. QED
  BY <1>4, <1>5, <1>6 DEF RemoteInv

LEMMA StartupKeepsInv ==
    ASSUME RemoteInv, AllConfigured \/ Export \/ AddTdpLimit PROVE RemoteInv'
<1> USE RemoteAssumption, Lengths
<1>1. /\ startup' \in {"export", "services", "running"}
      /\ UNCHANGED <<configuring, holder, step, registered, load_task, signal_tasks,
                     changes, remoteUp, flaps>>
      /\ \/ object' = object
         \/ Tdp \in LocalIfaces /\ object[Tdp] = "none"
               /\ object' = [object EXCEPT ![Tdp] = "local"]
  BY DEF AllConfigured, Export, AddTdpLimit, taskVars
<1>2. RemoteTypeOK'
  BY <1>1 DEF RemoteInv, RemoteTypeOK
<1>3. InTurn'
  BY <1>1 DEF InTurn
<1>4. ASSUME NEW j \in Ifaces PROVE OneRelay(j)' /\ Knows(j)'
  <2>1. OneRelay(j) /\ Knows(j)
    BY DEF RemoteInv
  <2>2. CASE object'[j] = object[j]
    BY <1>1, <2>1, <2>2 DEF OneRelay, Knows, Caught
  <2>3. CASE j = Tdp /\ Tdp \in LocalIfaces /\ object'[j] = "local"
    BY <1>1, <2>1, <2>3 DEF OneRelay, Knows, Caught
  <2>4. QED
    BY <1>1, <2>2, <2>3 DEF RemoteInv, RemoteTypeOK
<1>5. QED
  BY <1>2, <1>3, <1>4 DEF RemoteInv

LEMMA TooEarlyKeepsInv ==
    ASSUME RemoteInv, NEW i \in Ifaces, NEW c, ChangeTooEarly(i, c) PROVE RemoteInv'
<1> USE RemoteAssumption, Lengths
<1>1. /\ load_task[i] = "waiting" /\ changes[i] # <<>>
      /\ load_task' = [load_task EXCEPT ![i] = "ended"]
      /\ changes' = [changes EXCEPT ![i] = Tail(@)]
      /\ UNCHANGED <<startup, configuring, holder, step, object, registered,
                     signal_tasks, remoteUp, flaps>>
  BY DEF ChangeTooEarly, TakeChange
<1>2. changes[i] \in Seq({"gained", "lost"}) /\ Tail(changes[i]) \in Seq({"gained", "lost"})
  BY <1>1, TailKeepsLast DEF RemoteInv, RemoteTypeOK
<1>3. RemoteTypeOK'
  BY <1>1, <1>2 DEF RemoteInv, RemoteTypeOK
<1>4. \A j \in Ifaces : load_task[j] = "none" => load_task'[j] = "none"
  BY <1>1 DEF RemoteInv, RemoteTypeOK
<1>5. InTurn'
  BY <1>1, <1>4 DEF RemoteInv, InTurn, Free
<1>6. ASSUME NEW j \in Ifaces PROVE OneRelay(j)' /\ Knows(j)'
  <2>1. OneRelay(j) /\ Knows(j)
    BY DEF RemoteInv
  <2>2. CASE j = i
    <3>1. load_task'[j] = "ended"
      BY <1>1, <2>2 DEF RemoteInv, RemoteTypeOK
    <3>2. QED
      BY <1>1, <2>1, <3>1 DEF OneRelay, Knows, Caught
  <2>3. CASE j # i
    <3>1. load_task'[j] = load_task[j] /\ changes'[j] = changes[j]
      BY <1>1, <2>3 DEF RemoteInv, RemoteTypeOK
    <3>2. QED
      BY <1>1, <2>1, <3>1 DEF OneRelay, Knows, Caught
  <2>4. QED
    BY <2>2, <2>3
<1>7. QED
  BY <1>3, <1>5, <1>6 DEF RemoteInv

LEMMA LoadKeepsInv ==
    ASSUME RemoteInv, NEW i \in Ifaces, Load(i) PROVE RemoteInv'
<1> USE RemoteAssumption, Lengths
<1>1. /\ load_task[i] = "waiting" /\ changes[i] # <<>> /\ Head(changes[i]) = "gained"
      /\ holder = Nobody /\ holder' = i /\ step' = "ping"
      /\ changes' = [changes EXCEPT ![i] = Tail(@)]
      /\ startup # "configure"
      /\ UNCHANGED <<startup, configuring, object, registered, load_task,
                     signal_tasks, remoteUp, flaps>>
  BY DEF Load, TakeChange, Serving, Free
<1>2. changes[i] \in Seq({"gained", "lost"})
  BY DEF RemoteInv, RemoteTypeOK
<1>3. /\ Tail(changes[i]) \in Seq({"gained", "lost"})
      /\ Tail(changes[i]) = <<>> => LastOf(changes[i]) = "gained"
      /\ Tail(changes[i]) # <<>> => LastOf(Tail(changes[i])) = LastOf(changes[i])
  BY <1>1, <1>2, TailKeepsLast
<1>4. RemoteTypeOK'
  BY <1>1, <1>3 DEF RemoteInv, RemoteTypeOK
<1>5. InTurn'
  BY <1>1 DEF InTurn
<1>6. ASSUME NEW j \in Ifaces PROVE OneRelay(j)' /\ Knows(j)'
  <2>1. OneRelay(j) /\ Knows(j)
    BY DEF RemoteInv
  <2>2. CASE j = i
    <3>1. changes'[j] = Tail(changes[j])
      BY <1>1, <2>2 DEF RemoteInv, RemoteTypeOK
    <3>2. remoteUp <=> LastOf(changes[j]) = "gained"
      BY <1>1, <2>1, <2>2 DEF Knows
    <3>3. QED
      BY <1>1, <1>3, <2>1, <2>2, <3>1, <3>2 DEF OneRelay, Knows, Caught
  <2>3. CASE j # i
    <3>1. changes'[j] = changes[j] /\ holder # j
      BY <1>1, <2>3 DEF RemoteInv, RemoteTypeOK
    <3>2. QED
      BY <1>1, <2>3, <3>1, OthersKeep
  <2>4. QED
    BY <2>2, <2>3
<1>7. QED
  BY <1>4, <1>5, <1>6 DEF RemoteInv

LEMMA UnloadKeepsInv ==
    ASSUME RemoteInv, NEW i \in Ifaces, Unload(i) PROVE RemoteInv'
<1> USE RemoteAssumption, Lengths
<1>1. /\ load_task[i] = "waiting" /\ changes[i] # <<>> /\ Head(changes[i]) = "lost"
      /\ holder = Nobody
      /\ changes' = [changes EXCEPT ![i] = Tail(@)]
      /\ startup # "configure"
      /\ UNCHANGED <<startup, configuring, holder, step, signal_tasks, remoteUp, flaps>>
      /\ \/ /\ Removable(i)
            /\ object' = [object EXCEPT ![i] = "none"]
            /\ registered' = [registered EXCEPT ![i] = FALSE]
            /\ load_task' = load_task
         \/ /\ load_task' = [load_task EXCEPT ![i] = "ended"]
            /\ object' = object /\ registered' = registered
  BY DEF Unload, TakeChange, Serving, Free
<1>2. changes[i] \in Seq({"gained", "lost"})
  BY DEF RemoteInv, RemoteTypeOK
<1>3. /\ Tail(changes[i]) \in Seq({"gained", "lost"})
      /\ Tail(changes[i]) = <<>> => LastOf(changes[i]) = "lost"
      /\ Tail(changes[i]) # <<>> => LastOf(Tail(changes[i])) = LastOf(changes[i])
  BY <1>1, <1>2, TailKeepsLast
<1>4. RemoteTypeOK'
  <2>1. changes' \in [Ifaces -> Seq({"gained", "lost"})]
    BY <1>1, <1>3 DEF RemoteInv, RemoteTypeOK
  <2>2. /\ object' \in [Ifaces -> {"none", "local", "remote"}]
        /\ load_task' \in [Ifaces -> {"none", "waiting", "ended"}]
    BY <1>1 DEF RemoteInv, RemoteTypeOK
  <2>3. registered' \in [Ifaces -> BOOLEAN]
    <3>1. registered \in [Ifaces -> BOOLEAN]
      BY DEF RemoteInv, RemoteTypeOK
    <3>2. registered' = registered \/ registered' = [registered EXCEPT ![i] = FALSE]
      BY <1>1
    <3>3. QED
      BY <3>1, <3>2
  <2>4. QED
    BY <1>1, <2>1, <2>2, <2>3 DEF RemoteInv, RemoteTypeOK
<1>5. InTurn'
  BY <1>1 DEF InTurn
<1>6. ASSUME NEW j \in Ifaces PROVE OneRelay(j)' /\ Knows(j)'
  <2>1. OneRelay(j) /\ Knows(j)
    BY DEF RemoteInv
  <2>2. CASE j = i
    <3>1. changes'[j] = Tail(changes[j])
      BY <1>1, <2>2 DEF RemoteInv, RemoteTypeOK
    <3>2. remoteUp <=> LastOf(changes[j]) = "gained"
      BY <1>1, <2>1, <2>2 DEF Knows
    <3>3. CASE load_task' = load_task
      <4>1. Removable(j) /\ object'[j] = "none" /\ ~registered'[j] /\ load_task'[j] = "waiting"
        BY <1>1, <2>2, <3>3 DEF RemoteInv, RemoteTypeOK
      <4>2. j \notin LocalIfaces \ {Tdp}
        BY <2>1, <4>1 DEF Removable, OneRelay
      <4>3. OneRelay(j)'
        BY <4>1, <4>2 DEF OneRelay
      <4>4. Knows(j)'
        BY <1>1, <1>3, <2>2, <3>1, <3>2, <4>1 DEF Knows, Caught
      <4>5. QED
        BY <4>3, <4>4
    <3>4. CASE load_task' # load_task
      <4>1. load_task'[j] = "ended" /\ object' = object /\ registered' = registered
        BY <1>1, <2>2, <3>4 DEF RemoteInv, RemoteTypeOK
      <4>2. QED
        BY <1>1, <2>1, <4>1 DEF OneRelay, Knows, Caught
    <3>5. QED
      BY <3>3, <3>4
  <2>3. CASE j # i
    <3>1. changes'[j] = changes[j] /\ holder # j /\ object'[j] = object[j]
          /\ registered'[j] = registered[j] /\ load_task'[j] = load_task[j]
      BY <1>1, <2>3 DEF RemoteInv, RemoteTypeOK
    <3>2. QED
      BY <1>1, <2>3, <3>1, OthersKeep
  <2>4. QED
    BY <2>2, <2>3
<1>7. QED
  BY <1>4, <1>5, <1>6 DEF RemoteInv

\* The other process: whoever waits hears of it.
LEMMA ProcessKeepsInv ==
    ASSUME RemoteInv, RemoteStarts \/ RemoteStops \/ RemoteReplaced PROVE RemoteInv'
<1> USE RemoteAssumption, Lengths
<1>1. PICK c \in {"gained", "lost"} :
         Announce(c) /\ (remoteUp' <=> c = "gained") /\ remoteUp' \in BOOLEAN
  <2>1. remoteUp \in BOOLEAN
    BY DEF RemoteInv, RemoteTypeOK
  <2>2. ~remoteUp /\ remoteUp' = TRUE /\ Announce("gained")
           => Announce("gained") /\ (remoteUp' <=> "gained" = "gained") /\ remoteUp' \in BOOLEAN
    OBVIOUS
  <2>3. remoteUp /\ remoteUp' = FALSE /\ Announce("lost")
           => Announce("lost") /\ (remoteUp' <=> "lost" = "gained") /\ remoteUp' \in BOOLEAN
    OBVIOUS
  <2>4. remoteUp /\ UNCHANGED remoteUp /\ Announce("gained")
           => Announce("gained") /\ (remoteUp' <=> "gained" = "gained") /\ remoteUp' \in BOOLEAN
    BY <2>1
  <2>5. QED
    BY <2>2, <2>3, <2>4 DEF RemoteStarts, RemoteStops, RemoteReplaced
<1>2. /\ flaps' \in 0..MaxFlaps
      /\ changes' = [i \in Ifaces |-> IF load_task[i] = "waiting"
                                      THEN Append(changes[i], c) ELSE changes[i]]
      /\ UNCHANGED <<startup, configuring, holder, step, object, registered, load_task,
                     signal_tasks>>
  BY <1>1 DEF Announce, relayVars, RemoteInv, RemoteTypeOK
<1>3. \A i \in Ifaces : changes[i] \in Seq({"gained", "lost"})
  BY DEF RemoteInv, RemoteTypeOK
<1>4. \A i \in Ifaces : /\ Append(changes[i], c) \in Seq({"gained", "lost"})
                        /\ Append(changes[i], c) # <<>>
                        /\ LastOf(Append(changes[i], c)) = c
  <2>1. c \in {"gained", "lost"}
    OBVIOUS
  <2>2. \A i \in Ifaces : Append(changes[i], c) \in Seq({"gained", "lost"})
    BY ONLY <1>3, <2>1
  <2>3. QED
    BY ONLY <1>3, <2>1, <2>2, AppendIsLast
<1>5. changes' \in [Ifaces -> Seq({"gained", "lost"})]
  BY <1>2, <1>3, <1>4
<1>6. RemoteTypeOK'
  BY <1>1, <1>2, <1>5 DEF RemoteInv, RemoteTypeOK
<1>7. InTurn'
  BY <1>2 DEF RemoteInv, InTurn, Free
<1>8. ASSUME NEW j \in Ifaces PROVE OneRelay(j)' /\ Knows(j)'
  <2>1. OneRelay(j) /\ Knows(j)
    BY DEF RemoteInv
  <2>2. OneRelay(j)'
    BY <1>2, <2>1 DEF OneRelay
  <2>3. CASE load_task[j] = "waiting"
    <3>1. changes'[j] = Append(changes[j], c)
      BY <1>2, <2>3
    <3>2. QED
      BY <1>1, <1>2, <1>4, <2>2, <2>3, <3>1 DEF Knows, Caught
  <2>4. CASE load_task[j] # "waiting"
    <3>1. changes'[j] = changes[j]
      BY <1>2, <2>4
    <3>2. QED
      BY <1>2, <2>1, <2>2, <2>4, <3>1 DEF Knows, Caught
  <2>5. QED
    BY <2>3, <2>4
<1>9. QED
  BY <1>6, <1>7, <1>8 DEF RemoteInv

-----------------------------------------------------------------------------

\* The invariant holds in every state of RemoteInterface.
THEOREM RemoteInvariant == RemoteSpec => []RemoteInv
<1>1. ASSUME RemoteInv, [RemoteNext]_remoteVars PROVE RemoteInv'
  <2>1. CASE UNCHANGED remoteVars
    <3>1. /\ UNCHANGED <<startup, configuring, holder, step, object, registered>>
          /\ UNCHANGED <<load_task, signal_tasks, changes, remoteUp, flaps>>
      BY <2>1 DEF remoteVars, relayVars, taskVars
    <3>2. RemoteTypeOK' /\ InTurn'
      BY <1>1, <3>1 DEF RemoteInv, RemoteTypeOK, InTurn, Free
    <3>3. \A i \in Ifaces : OneRelay(i)' /\ Knows(i)'
      BY <1>1, <3>1 DEF RemoteInv, OneRelay, Knows, Caught
    <3>4. QED
      BY <3>2, <3>3 DEF RemoteInv
  <2>2. CASE DaemonStep
    BY <1>1, <2>2, PingKeepsInv, NoReplyKeepsInv, AttachKeepsInv, ConfigureKeepsInv,
       StartupKeepsInv, TooEarlyKeepsInv, LoadKeepsInv, UnloadKeepsInv DEF DaemonStep
  <2>3. CASE RemoteStarts \/ RemoteStops \/ RemoteReplaced
    BY <1>1, <2>3, ProcessKeepsInv
  <2>4. QED
    BY <1>1, <2>1, <2>2, <2>3 DEF RemoteNext
<1>2. QED
  BY <1>1, InitRemoteInv, PTL DEF RemoteSpec

\* The daemon's variables have their types; it goes through the configured
\* interfaces once.
THEOREM RemoteTypeCorrect == RemoteSpec => []RemoteTypeOK
<1>1. RemoteInv => RemoteTypeOK
  BY DEF RemoteInv
<1>2. QED
  BY <1>1, RemoteInvariant, PTL

\* A task that has taken all changes has its interface relayed exactly while
\* the other process is there, and none replaces one of the daemon's own.
THEOREM RelayAlwaysFollowsRemote == RemoteSpec => []RelayFollowsRemote
<1>1. RemoteInv => RelayFollowsRemote
  <2> SUFFICES ASSUME RemoteInv, NEW i \in Ifaces
               PROVE /\ registered[i] => object[i] # "none"
                     /\ Caught(i) /\ i \notin LocalIfaces =>
                          (object[i] = "remote" <=> remoteUp) /\ (registered[i] <=> remoteUp)
                     /\ i \in LocalIfaces \ {Tdp} => object[i] = "local" /\ ~registered[i]
    BY DEF RelayFollowsRemote
  <2>1. OneRelay(i) /\ Knows(i)
    BY DEF RemoteInv
  <2>2. QED
    BY <2>1 DEF OneRelay, Knows
<1>2. QED
  BY <1>1, RemoteInvariant, PTL

-----------------------------------------------------------------------------
(* TdpLimit1 beside the performance profile.                               *)

\* The tasks that are to add TdpLimit1, and to remove it.
Yes == told[TRUE]
No == told[FALSE]

NobodyAsks == asking = <<>> /\ Yes = 0 /\ No = 0
LimitIsRight == ~unanswered => (tdpLimit1 <=> tdpManager /\ profile \in LimitProfiles)

\* A call that has been alone since it began.
Alone(c) ==
    /\ NobodyAsks
    /\ \A d \in ProfileCallers : d # c => profileSetters[d].at = "idle"

\* What is still to be done for TdpLimit1 after a calm change: nothing, or one
\* answer, of which the one for the start only adds.
OneAnswerToCome ==
    \/ NobodyAsks /\ LimitIsRight
    \/ /\ asking = <<"setter">> \/ (asking = <<"start">> /\ ~tdpLimit1)
       /\ Yes = 0 /\ No = 0
    \/ /\ asking = <<>>
       /\ IF profile \in LimitProfiles THEN Yes = 1 /\ No = 0
                                       ELSE Yes = 0 /\ No = 1

\* Where the one call is that goes on while all is calm.
CalmCall(c) ==
    /\ profileSetters[c].sole
    /\ profileSetters[c].at = "asked" => shown = profile /\ LimitIsRight
    /\ profileSetters[c].at = "read" => profileSetters[c].profile = profile

ProfileInv ==
    /\ ProfileTypeOK
    /\ \A c \in ProfileCallers :
          profileSetters[c].at # "idle" /\ profileSetters[c].sole => Alone(c)
    /\ calm => \A c \in ProfileCallers : profileSetters[c].at # "idle" => CalmCall(c)
    /\ calm /\ (\A c \in ProfileCallers : profileSetters[c].at = "idle")
          => shown = profile /\ OneAnswerToCome
    /\ ~tdpManager => ~tdpLimit1 /\ NobodyAsks

Setter == [at : {"idle", "asked", "written", "read"}, profile : Profiles, sole : BOOLEAN]

\* The parts of the type invariant, which the provers take one at a time.
LEMMA ProfileTypeParts ==
    ASSUME ProfileTypeOK
    PROVE  /\ asking \in Seq({"start", "setter"})
           /\ told \in [BOOLEAN -> Nat]
           /\ profileSetters \in [ProfileCallers -> Setter]
BY DEF ProfileTypeOK, Setter

LEMMA ShortSeq ==
    ASSUME NEW S, NEW e \in S
    PROVE  /\ <<>> \in Seq(S) /\ <<e>> \in Seq(S)
           /\ \A s \in Seq(S) : Append(s, e) \in Seq(S) /\ (s # <<>> => Tail(s) \in Seq(S))
OBVIOUS

LEMMA OneCountChanges ==
    ASSUME NEW S, NEW f \in [S -> Nat], NEW s \in S, NEW n \in Nat
    PROVE  /\ [f EXCEPT ![s] = n] \in [S -> Nat] /\ [f EXCEPT ![s] = n][s] = n
           /\ \A t \in S : t # s => [f EXCEPT ![s] = n][t] = f[t]
OBVIOUS

LEMMA SetterChanges ==
    ASSUME NEW f \in [ProfileCallers -> Setter], NEW c \in ProfileCallers,
           NEW at \in {"idle", "written", "read"}, NEW p \in Profiles
    PROVE  [f EXCEPT ![c].at = at, ![c].profile = p] \in [ProfileCallers -> Setter]
<1>1. [f EXCEPT ![c].at = at] \in [ProfileCallers -> Setter]
  BY DEF Setter
<1>2. \A g \in [ProfileCallers -> Setter] :
         [g EXCEPT ![c].profile = p] \in [ProfileCallers -> Setter]
  BY DEF Setter
<1>3. QED
  BY <1>1, <1>2

\* One more task with an answer, and one less.
LEMMA ToldGrows ==
    ASSUME told \in [BOOLEAN -> Nat], NEW active \in BOOLEAN,
           told' = [told EXCEPT ![active] = @ + 1]
    PROVE  /\ told' \in [BOOLEAN -> Nat]
           /\ active => Yes' = Yes + 1 /\ No' = No
           /\ ~active => No' = No + 1 /\ Yes' = Yes
<1>1. told[active] + 1 \in Nat
  OBVIOUS
<1>2. /\ told' \in [BOOLEAN -> Nat] /\ told'[active] = told[active] + 1
      /\ \A b \in BOOLEAN : b # active => told'[b] = told[b]
  BY <1>1, OneCountChanges
<1>3. CASE active = TRUE
  BY <1>2, <1>3 DEF Yes, No
<1>4. CASE active = FALSE
  BY <1>2, <1>4 DEF Yes, No
<1>5. QED
  BY <1>3, <1>4

LEMMA ToldShrinks ==
    ASSUME told \in [BOOLEAN -> Nat], NEW active \in BOOLEAN, told[active] > 0,
           told' = [told EXCEPT ![active] = @ - 1]
    PROVE  /\ told' \in [BOOLEAN -> Nat]
           /\ active => Yes > 0 /\ Yes' = Yes - 1 /\ No' = No
           /\ ~active => No > 0 /\ No' = No - 1 /\ Yes' = Yes
<1>1. told[active] - 1 \in Nat
  <2>1. told[active] \in Nat
    OBVIOUS
  <2>2. QED
    BY <2>1
<1>2. /\ told' \in [BOOLEAN -> Nat] /\ told'[active] = told[active] - 1
      /\ \A b \in BOOLEAN : b # active => told'[b] = told[b]
  BY <1>1, OneCountChanges
<1>3. CASE active = TRUE
  BY <1>2, <1>3 DEF Yes, No
<1>4. CASE active = FALSE
  BY <1>2, <1>4 DEF Yes, No
<1>5. QED
  BY <1>3, <1>4

LEMMA YesAndNoStay == told' = told => Yes' = Yes /\ No' = No
BY DEF Yes, No

LEMMA AtRestMeans ==
    ASSUME ProfileTypeOK
    PROVE  AtRest <=> /\ NobodyAsks
                      /\ \A c \in ProfileCallers : profileSetters[c].at = "idle"
<1>1. told \in [BOOLEAN -> Nat]
  BY DEF ProfileTypeOK
<1>2. (\A b \in BOOLEAN : told[b] = 0) <=> Yes = 0 /\ No = 0
  BY <1>1 DEF Yes, No
<1>3. QED
  BY <1>2 DEF AtRest, NobodyAsks

LEMMA InitProfileInv == ProfileInit => ProfileInv
<1> SUFFICES ASSUME ProfileInit PROVE ProfileInv
  OBVIOUS
<1>1. /\ \A c \in ProfileCallers : profileSetters[c].at = "idle"
      /\ profileSetters \in
           [ProfileCallers -> [at : {"idle", "asked", "written", "read"},
                               profile : Profiles, sole : BOOLEAN]]
  BY DEF ProfileInit
<1>2. told \in [BOOLEAN -> Nat] /\ Yes = 0 /\ No = 0
  BY DEF ProfileInit, Yes, No
<1>3. profileCalls \in 0..MaxProfileCalls /\ profileFaults \in 0..MaxProfileFaults
  BY ProfileAssumption DEF ProfileInit
<1>4. asking \in Seq({"start", "setter"})
  <2>1. asking = <<>> \/ asking = <<"start">>
    BY DEF ProfileInit
  <2>2. QED
    BY <2>1, ShortSeq, "start" \in {"start", "setter"}
<1>5. ProfileTypeOK
  BY <1>1, <1>2, <1>3, <1>4 DEF ProfileInit, ProfileTypeOK
<1>6. QED
  BY <1>1, <1>2, <1>5 DEF ProfileInit, ProfileInv, OneAnswerToCome, NobodyAsks, LimitIsRight

LEMMA SetProfileKeepsInv ==
    ASSUME ProfileInv, NEW c \in ProfileCallers, NEW p \in Profiles, SetProfile(c, p)
    PROVE  ProfileInv'
<1>1. /\ UNCHANGED <<tdpManager, tdpLimit1, profile, shown, asking, told, profileFaults, unanswered>>
      /\ calm' = (calm /\ AtRest)
      /\ profileSetters[c].at = "idle"
  BY DEF SetProfile
<1>2. /\ profileSetters'[c].at = "asked" /\ profileSetters'[c].sole = AtRest
      /\ \A d \in ProfileCallers : d # c => /\ profileSetters'[d].at = profileSetters[d].at
                                           /\ ~profileSetters'[d].sole
  BY DEF SetProfile, ProfileInv, ProfileTypeOK
<1>3. ProfileTypeOK'
  <2>1. AtRest \in BOOLEAN
    BY DEF AtRest
  <2>2. profileSetters' \in
           [ProfileCallers -> [at : {"idle", "asked", "written", "read"},
                               profile : Profiles, sole : BOOLEAN]]
    BY ZenonT(40), <2>1 DEF SetProfile, ProfileInv, ProfileTypeOK
  <2>3. profileCalls' \in 0..MaxProfileCalls
    BY ProfileAssumption DEF SetProfile, ProfileInv, ProfileTypeOK
  <2>4. QED
    BY <1>1, <2>1, <2>2, <2>3 DEF ProfileInv, ProfileTypeOK
<1>4. AtRest <=> NobodyAsks /\ \A d \in ProfileCallers : profileSetters[d].at = "idle"
  BY AtRestMeans DEF ProfileInv
<1>5. NobodyAsks' <=> NobodyAsks
  BY <1>1, YesAndNoStay DEF NobodyAsks
<1>6. \A d \in ProfileCallers :
         profileSetters'[d].at # "idle" /\ profileSetters'[d].sole => Alone(d)'
  BY <1>1, <1>2, <1>4, <1>5 DEF Alone
<1>7. calm' => \A d \in ProfileCallers : profileSetters'[d].at # "idle" => CalmCall(d)'
  <2> SUFFICES ASSUME calm', NEW d \in ProfileCallers, profileSetters'[d].at # "idle"
               PROVE  CalmCall(d)'
    OBVIOUS
  <2>1. calm /\ AtRest
    BY <1>1
  <2>2. d = c
    BY <1>2, <1>4, <2>1
  <2>3. shown = profile /\ LimitIsRight
    BY <1>4, <2>1 DEF ProfileInv, OneAnswerToCome, NobodyAsks
  <2>4. QED
    BY <1>1, <1>2, <2>1, <2>2, <2>3 DEF CalmCall, LimitIsRight
<1>8. QED
  BY <1>1, <1>2, <1>3, <1>5, <1>6, <1>7 DEF ProfileInv

\* A step of a call that has begun.
LEMMA CallKeepsProfileInv ==
    ASSUME ProfileInv, NEW c \in ProfileCallers,
           \/ RootWritesProfile(c) \/ RootRefusesProfile(c) \/ RootIsNotHeard(c)
           \/ ReadProfile(c) \/ AnnounceProfile(c) \/ AnnouncementFails(c)
    PROVE  ProfileInv'
<1>1. /\ profileSetters[c].at # "idle"
      /\ UNCHANGED <<tdpManager, tdpLimit1, told>>
  BY DEF RootWritesProfile, RootRefusesProfile, RootIsNotHeard, ReadProfile, AnnounceProfile,
         AnnouncementFails, CallFails
<1>2. ProfileTypeOK'
  <2>1. \E at \in {"idle", "written", "read"}, p \in Profiles :
           profileSetters' = [profileSetters EXCEPT ![c].at = at, ![c].profile = p]
    <3>1. profileSetters \in [ProfileCallers -> Setter] /\ profile \in Profiles
      BY ProfileTypeParts DEF ProfileInv, ProfileTypeOK
    <3>2. \E at \in {"idle", "written", "read"} :
             \/ profileSetters' = [profileSetters EXCEPT ![c].at = at]
             \/ profileSetters' = [profileSetters EXCEPT ![c].at = at, ![c].profile = profile]
      BY DEF RootWritesProfile, RootRefusesProfile, RootIsNotHeard, ReadProfile, AnnounceProfile,
         AnnouncementFails, CallFails
    <3>3. PICK at \in {"idle", "written", "read"} :
             \/ profileSetters' = [profileSetters EXCEPT ![c].at = at]
             \/ profileSetters' = [profileSetters EXCEPT ![c].at = at, ![c].profile = profile]
      BY <3>2
    <3>4. CASE profileSetters' = [profileSetters EXCEPT ![c].at = at]
      <4>1. profileSetters' = [profileSetters EXCEPT ![c].at = at,
                                                     ![c].profile = profileSetters[c].profile]
        BY <3>1, <3>4 DEF Setter
      <4>2. QED
        BY <3>1, <4>1 DEF Setter
    <3>5. QED
      BY <3>1, <3>3, <3>4
  <2>2. asking' \in Seq({"start", "setter"})
    <3>1. asking' = asking \/ asking' = Append(asking, "setter")
      BY DEF RootWritesProfile, RootRefusesProfile, RootIsNotHeard, ReadProfile, AnnounceProfile,
         AnnouncementFails, CallFails
    <3>2. QED
      BY <3>1, ShortSeq, ProfileTypeParts, "setter" \in {"start", "setter"} DEF ProfileInv
  <2>3. profile' \in Profiles /\ shown' \in Profiles /\ calm' \in BOOLEAN
    <3>1. profile \in Profiles /\ shown \in Profiles /\ calm \in BOOLEAN
      BY DEF ProfileInv, ProfileTypeOK
    <3>2. profileSetters[c].profile \in Profiles /\ profileSetters[c].sole \in BOOLEAN
      BY ProfileTypeParts DEF ProfileInv, Setter
    <3>3. /\ profile' \in {profile, profileSetters[c].profile}
          /\ shown' \in {shown, profileSetters[c].profile}
          /\ calm' \in {calm, profileSetters[c].sole, FALSE}
      BY DEF RootWritesProfile, RootRefusesProfile, RootIsNotHeard, ReadProfile,
         AnnounceProfile, AnnouncementFails, CallFails
    <3>4. QED
      BY <3>1, <3>2, <3>3
  <2>4. /\ profileCalls' = profileCalls /\ unanswered' \in {unanswered, FALSE}
        /\ \/ profileFaults' = profileFaults
           \/ profileFaults' = profileFaults + 1 /\ profileFaults < MaxProfileFaults
    BY DEF RootWritesProfile, RootRefusesProfile, RootIsNotHeard, ReadProfile,
       AnnounceProfile, AnnouncementFails, CallFails
  <2>5. profileFaults' \in 0..MaxProfileFaults
    BY ProfileAssumption, <2>4 DEF ProfileInv, ProfileTypeOK
  <2>6. profileSetters' \in [ProfileCallers -> Setter]
    <3>1. PICK at \in {"idle", "written", "read"}, p \in Profiles :
             profileSetters' = [profileSetters EXCEPT ![c].at = at, ![c].profile = p]
      BY <2>1
    <3>2. profileSetters \in [ProfileCallers -> Setter]
      BY ProfileTypeParts DEF ProfileInv
    <3>3. [profileSetters EXCEPT ![c].at = at, ![c].profile = p] \in [ProfileCallers -> Setter]
      BY ONLY <3>2, SetterChanges, c \in ProfileCallers, p \in Profiles,
              at \in {"idle", "written", "read"}
    <3>4. QED
      BY <3>1, <3>3
  <2>7. QED
    BY <1>1, <2>2, <2>3, <2>4, <2>5, <2>6 DEF ProfileInv, ProfileTypeOK, Setter
<1>3. /\ profileSetters'[c].sole = profileSetters[c].sole
      /\ \A d \in ProfileCallers : d # c => profileSetters'[d] = profileSetters[d]
  BY DEF RootWritesProfile, RootRefusesProfile, RootIsNotHeard, ReadProfile, AnnounceProfile,
         AnnouncementFails, CallFails, ProfileInv,
         ProfileTypeOK
<1>4. profileSetters[c].sole => Alone(c)
  BY <1>1 DEF ProfileInv
<1>5. calm => /\ profileSetters[c].sole /\ CalmCall(c)
  BY <1>1 DEF ProfileInv, CalmCall
<1>6. ~tdpManager => ~tdpLimit1 /\ NobodyAsks
  BY DEF ProfileInv
<1>7. CASE ~AnnounceProfile(c)
  <2>1. asking' = asking /\ shown' = shown /\ (NobodyAsks' <=> NobodyAsks)
    BY <1>1, <1>7, YesAndNoStay DEF RootWritesProfile, RootRefusesProfile, RootIsNotHeard,
       ReadProfile, AnnouncementFails, CallFails, NobodyAsks
  <2>2. \A d \in ProfileCallers :
           profileSetters'[d].at # "idle" /\ profileSetters'[d].sole => Alone(d)'
    <3> SUFFICES ASSUME NEW d \in ProfileCallers,
                        profileSetters'[d].at # "idle", profileSetters'[d].sole
                 PROVE  Alone(d)'
      OBVIOUS
    <3>1. d = c
      <4> SUFFICES ASSUME d # c PROVE FALSE
        OBVIOUS
      <4>1. Alone(d)
        BY <1>3 DEF ProfileInv
      <4>2. QED
        BY <1>1, <4>1 DEF Alone
    <3>2. QED
      BY <1>3, <1>4, <2>1, <3>1 DEF Alone
  <2>3. CASE RootWritesProfile(c)
    <3>1. /\ profileSetters'[c].at = "written" /\ calm' = profileSetters[c].sole
      BY <2>3 DEF RootWritesProfile, ProfileInv, ProfileTypeOK
    <3>2. calm' => \A d \in ProfileCallers : profileSetters'[d].at # "idle" => CalmCall(d)'
      BY <1>3, <1>4, <3>1 DEF CalmCall, Alone
    <3>3. QED
      BY <1>1, <1>2, <1>6, <2>1, <2>2, <3>1, <3>2 DEF ProfileInv
  <2>4. CASE RootRefusesProfile(c)
    <3>1. profileSetters'[c].at = "idle" /\ UNCHANGED <<calm, profile, unanswered>>
          /\ profileSetters[c].at = "asked"
      BY <2>4 DEF RootRefusesProfile, CallFails, ProfileInv, ProfileTypeOK
    <3>2. calm => /\ \A d \in ProfileCallers : profileSetters'[d].at = "idle"
                  /\ shown = profile /\ NobodyAsks /\ LimitIsRight
      BY <1>3, <1>4, <1>5, <3>1 DEF CalmCall, Alone
    <3>3. LimitIsRight' <=> LimitIsRight
      BY <1>1, <3>1 DEF LimitIsRight
    <3>4. QED
      BY <1>1, <1>2, <1>6, <2>1, <2>2, <3>1, <3>2, <3>3 DEF ProfileInv, OneAnswerToCome
  <2>5. CASE ReadProfile(c)
    <3>1. /\ profileSetters'[c].at = "read" /\ profileSetters'[c].profile = profile
          /\ UNCHANGED <<calm, profile>>
      BY <2>5 DEF ReadProfile, ProfileInv, ProfileTypeOK
    <3>2. calm' => \A d \in ProfileCallers : profileSetters'[d].at # "idle" => CalmCall(d)'
      BY <1>3, <1>4, <1>5, <3>1 DEF CalmCall, Alone
    <3>3. QED
      BY <1>1, <1>2, <1>6, <2>1, <2>2, <3>1, <3>2 DEF ProfileInv
  <2>6. CASE RootIsNotHeard(c) \/ AnnouncementFails(c)
    <3>1. ~calm'
      BY <2>6 DEF RootIsNotHeard, AnnouncementFails
    <3>2. QED
      BY <1>1, <1>2, <1>6, <2>1, <2>2, <3>1 DEF ProfileInv
  <2>7. QED
    BY <1>7, <2>3, <2>4, <2>5, <2>6
<1>8. CASE AnnounceProfile(c)
  <2>1. /\ profileSetters[c].at = "read" /\ profileSetters'[c].at = "idle"
        /\ shown' = profileSetters[c].profile /\ UNCHANGED <<calm, profile>>
        /\ asking' = IF tdpManager THEN Append(asking, "setter") ELSE asking
    BY <1>8 DEF AnnounceProfile, ProfileInv, ProfileTypeOK
  <2>2. \A d \in ProfileCallers :
           profileSetters'[d].at # "idle" /\ profileSetters'[d].sole => Alone(d)'
    <3> SUFFICES ASSUME NEW d \in ProfileCallers,
                        profileSetters'[d].at # "idle", profileSetters'[d].sole
                 PROVE  FALSE
      OBVIOUS
    <3>1. d # c /\ Alone(d)
      BY <1>3, <2>1 DEF ProfileInv
    <3>2. QED
      BY <1>1, <3>1 DEF Alone
  <2>3. calm => /\ \A d \in ProfileCallers : profileSetters'[d].at = "idle"
                /\ shown' = profile' /\ NobodyAsks
    BY <1>3, <1>4, <1>5, <2>1 DEF CalmCall, Alone
  <2>4. calm => OneAnswerToCome'
    <3> SUFFICES ASSUME calm PROVE OneAnswerToCome'
      OBVIOUS
    <3>1. CASE tdpManager
      <4>1. asking' = <<"setter">>
        BY <2>1, <2>3, <3>1 DEF NobodyAsks
      <4>2. QED
        BY <1>1, <2>3, <4>1, YesAndNoStay DEF OneAnswerToCome, NobodyAsks
    <3>2. CASE ~tdpManager
      BY <1>1, <1>6, <2>1, <2>3, <3>2, YesAndNoStay DEF OneAnswerToCome, NobodyAsks, LimitIsRight
    <3>3. QED
      BY <3>1, <3>2
  <2>5. ~tdpManager => NobodyAsks'
    BY <1>1, <1>6, <2>1, YesAndNoStay DEF NobodyAsks
  <2>6. QED
    BY <1>1, <1>2, <1>6, <2>1, <2>2, <2>3, <2>4, <2>5 DEF ProfileInv
<1>9. QED
  BY <1>7, <1>8

\* The TDP manager and the tasks that wait for it: there is none of either while
\* a call is alone.
LEMMA TasksKeepProfileInv ==
    ASSUME ProfileInv,
           TdpManagerAnswers \/ TdpManagerCannotTell \/ \E active \in BOOLEAN : ApplyAnswer(active)
    PROVE  ProfileInv'
<1>1. UNCHANGED <<tdpManager, profile, shown, profileSetters, profileCalls, calm>>
  BY DEF TdpManagerAnswers, TdpManagerCannotTell, ApplyAnswer
<1>2. told \in [BOOLEAN -> Nat]
  BY DEF ProfileInv, ProfileTypeOK
<1>3. ~NobodyAsks
  <2>1. asking # <<>> \/ \E active \in BOOLEAN : told[active] > 0
    BY DEF TdpManagerAnswers, TdpManagerCannotTell, ApplyAnswer
  <2>2. asking # <<>> \/ Yes > 0 \/ No > 0
    BY <2>1 DEF Yes, No
  <2>3. QED
    BY <2>2 DEF NobodyAsks
<1>4. /\ tdpManager
      /\ \A c \in ProfileCallers : ~(profileSetters[c].at # "idle" /\ profileSetters[c].sole)
  BY <1>3 DEF ProfileInv, Alone
<1>5. calm => \A c \in ProfileCallers : profileSetters[c].at = "idle"
  BY <1>4 DEF ProfileInv, CalmCall
<1>6. CASE TdpManagerAnswers
  <2>1. /\ asking # <<>> /\ asking' = Tail(asking)
        /\ UNCHANGED <<tdpLimit1, profileFaults, unanswered>>
    BY <1>6 DEF TdpManagerAnswers
  <2>2. asking' \in Seq({"start", "setter"})
    BY <2>1 DEF ProfileInv, ProfileTypeOK
  <2> DEFINE active == profile \in LimitProfiles
  <2>3. /\ active \in BOOLEAN
        /\ \/ told' = [told EXCEPT ![active] = @ + 1]
           \/ told' = told /\ ~active /\ Head(asking) # "setter"
    BY <1>6 DEF TdpManagerAnswers
  <2>4. /\ told' \in [BOOLEAN -> Nat]
        /\ \/ told' = told /\ ~active /\ Head(asking) # "setter"
           \/ active /\ Yes' = Yes + 1 /\ No' = No
           \/ ~active /\ No' = No + 1 /\ Yes' = Yes
    <3> HIDE DEF active
    <3>1. QED
      BY <1>2, <2>3, ToldGrows
  <2>5. calm => OneAnswerToCome'
    <3> SUFFICES ASSUME calm PROVE OneAnswerToCome'
      OBVIOUS
    <3>1. /\ asking = <<"setter">> \/ (asking = <<"start">> /\ ~tdpLimit1)
          /\ Yes = 0 /\ No = 0
      BY <1>3, <1>5, <2>1 DEF ProfileInv, OneAnswerToCome
    <3>2. asking' = <<>>
      BY <2>1, <3>1
    <3>3. QED
      <4>1. CASE told' = told
        <5>1. tdpLimit1' <=> tdpManager' /\ profile' \in LimitProfiles
          BY <1>1, <1>4, <2>1, <2>4, <3>1, <4>1, YesAndNoStay
        <5>2. QED
          BY <3>1, <3>2, <4>1, <5>1, YesAndNoStay DEF OneAnswerToCome, NobodyAsks, LimitIsRight
      <4>2. CASE told' # told
        BY <1>1, <2>4, <3>1, <3>2, <4>2 DEF OneAnswerToCome
      <4>3. QED
        BY <4>1, <4>2
  <2>6. ProfileTypeOK'
    BY <1>1, <2>1, <2>2, <2>4 DEF ProfileInv, ProfileTypeOK
  <2>7. QED
    BY <1>1, <1>4, <1>5, <2>5, <2>6 DEF ProfileInv
<1>7. ASSUME NEW active \in BOOLEAN, ApplyAnswer(active)
      PROVE  ProfileInv'
  <2>1. /\ told[active] > 0 /\ told' = [told EXCEPT ![active] = @ - 1]
        /\ tdpLimit1' = active /\ UNCHANGED <<asking, profileFaults, unanswered>>
    BY <1>7 DEF ApplyAnswer
  <2>2. /\ told' \in [BOOLEAN -> Nat]
        /\ \/ active = TRUE /\ Yes > 0
              /\ Yes' = Yes - 1 /\ No' = No
           \/ active = FALSE /\ No > 0
              /\ No' = No - 1 /\ Yes' = Yes
    BY <1>2, <2>1, ToldShrinks
  <2>3. calm => OneAnswerToCome'
    <3> SUFFICES ASSUME calm PROVE OneAnswerToCome'
      OBVIOUS
    <3>1. /\ asking = <<>>
          /\ IF profile \in LimitProfiles THEN Yes = 1 /\ No = 0
                                          ELSE Yes = 0 /\ No = 1
      BY <1>3, <1>5, <2>2 DEF ProfileInv, OneAnswerToCome
    <3>2. Yes' = 0 /\ No' = 0 /\ (active <=> profile \in LimitProfiles)
      BY <2>2, <3>1
    <3>3. QED
      BY <1>1, <1>4, <2>1, <3>1, <3>2 DEF OneAnswerToCome, NobodyAsks, LimitIsRight
  <2>4. ProfileTypeOK'
    BY <1>1, <2>1, <2>2 DEF ProfileInv, ProfileTypeOK
  <2>5. QED
    BY <1>1, <1>4, <1>5, <2>3, <2>4 DEF ProfileInv
<1>8. CASE TdpManagerCannotTell
  <2>1. /\ asking # <<>> /\ asking' = Tail(asking) /\ unanswered' = TRUE
        /\ UNCHANGED <<tdpManager, tdpLimit1, profile, shown, profileSetters, told, calm>>
        /\ profileFaults' = profileFaults + 1 /\ profileFaults < MaxProfileFaults
        /\ profileCalls' = profileCalls
    BY <1>8 DEF TdpManagerCannotTell
  <2>2. asking' \in Seq({"start", "setter"})
    BY <2>1 DEF ProfileInv, ProfileTypeOK
  <2>3. profileFaults' \in 0..MaxProfileFaults
    BY <2>1, ProfileAssumption DEF ProfileInv, ProfileTypeOK
  <2>4. ProfileTypeOK'
    BY <2>1, <2>2, <2>3 DEF ProfileInv, ProfileTypeOK
  <2>5. calm => OneAnswerToCome'
    <3> SUFFICES ASSUME calm PROVE OneAnswerToCome'
      OBVIOUS
    <3>1. asking \in {<<"setter">>, <<"start">>} /\ Yes = 0 /\ No = 0
      BY <1>3, <1>5, <2>1 DEF ProfileInv, OneAnswerToCome
    <3>2. asking' = <<>> /\ Yes' = 0 /\ No' = 0
      BY <2>1, <3>1, YesAndNoStay
    <3>3. QED
      BY <2>1, <3>2 DEF OneAnswerToCome, NobodyAsks, LimitIsRight
  <2>6. QED
    BY <1>4, <1>5, <2>1, <2>4, <2>5 DEF ProfileInv
<1>9. QED
  BY <1>6, <1>7, <1>8

\* The invariant holds in every state of PerformanceProfile.
THEOREM ProfileInvariant == ProfileSpec => []ProfileInv
<1>1. ProfileInv /\ UNCHANGED profileVars => ProfileInv'
  <2> SUFFICES ASSUME ProfileInv, UNCHANGED profileVars PROVE ProfileInv'
    OBVIOUS
  <2>1. ProfileTypeOK' /\ (NobodyAsks' <=> NobodyAsks) /\ Yes' = Yes /\ No' = No
    BY DEF ProfileInv, ProfileTypeOK, NobodyAsks, Yes, No, profileVars
  <2>2. QED
    BY <2>1 DEF ProfileInv, Alone, CalmCall, OneAnswerToCome, LimitIsRight, profileVars
<1>2. ProfileInv /\ ProfileNext => ProfileInv'
  BY SetProfileKeepsInv, CallKeepsProfileInv, TasksKeepProfileInv DEF ProfileNext
<1>3. QED
  BY <1>1, <1>2, InitProfileInv, PTL DEF ProfileSpec

\* A change that had the setter for itself and got through leaves what the signals
\* say and, if IsActive was answered, TdpLimit1 as the kernel's profile wants them,
\* whatever calls that overlapped or failed left behind before it.
THEOREM ProfileIsAlwaysInStep == ProfileSpec => []ProfileInStep
<1>1. ProfileInv => ProfileInStep
  BY AtRestMeans DEF ProfileInv, ProfileInStep, OneAnswerToCome, NobodyAsks, LimitIsRight
<1>2. QED
  BY <1>1, ProfileInvariant, PTL

-----------------------------------------------------------------------------
(* What create_interfaces exports, on a machine with any troubles.         *)

Answer(k) == Checks(StartOrder[k].check)

\* Step k is come to: no step before it that passes over it answers otherwise
\* than with yes.
Reached(k) ==
    \A j \in 1..31 : j < k /\ k <= j + StartOrder[j].skips => Answer(j) = "yes"

\* An interface is served exactly if a step come to serves it and its check
\* says yes; and no error of a fatal step was passed over.
StartInv ==
    /\ odd \in Machines
    /\ position \in 1..32 /\ startFailed \in BOOLEAN
    /\ position <= 31 => Reached(position)
    /\ \A i : i \in served <=>
          \E k \in 1..31 : /\ k < position /\ Reached(k) /\ Answer(k) = "yes"
                           /\ i \in StartOrder[k].serves
    /\ ~startFailed => \A k \in 1..31 :
          k < position /\ Reached(k) /\ StartOrder[k].fatal => Answer(k) # "error"
    /\ named \in BOOLEAN /\ (named => position = 32 /\ startFailed = FALSE)

\* What a step is, part by part.
Row(k, c, s, n, f) ==
    /\ StartOrder[k].check = c /\ StartOrder[k].serves = s
    /\ StartOrder[k].skips = n /\ StartOrder[k].fatal = f

\* The order of create_interfaces, step by step.
LEMMA Rows ==
    /\ Len(StartOrder) = 31
    /\ Row(1, "cec_units", {}, 0, TRUE)
    /\ Row(2, "remotes", {}, 0, TRUE)
    /\ Row(3, "session_manager", {}, 0, TRUE)
    /\ Row(4, "device_config", {}, 4, FALSE)
    /\ Row(5, "tdp_manager", {}, 2, FALSE)
    /\ Row(6, "download_limit", {"LowPowerMode1"}, 0, FALSE)
    /\ Row(7, "always", {"TdpLimit1_task"}, 0, FALSE)
    /\ Row(8, "profiles", {"PerformanceProfile1"}, 0, FALSE)
    /\ Row(9, "platform_config", {}, 5, FALSE)
    /\ Row(10, "reset_scripts", {"FactoryReset1"}, 0, FALSE)
    /\ Row(11, "fan_service", {"FanControl1"}, 0, FALSE)
    /\ Row(12, "storage_scripts", {"Storage1"}, 0, FALSE)
    /\ Row(13, "bios_script", {"UpdateBios1"}, 0, FALSE)
    /\ Row(14, "dock_script", {"UpdateDock1"}, 0, FALSE)
    /\ Row(15, "steam_deck", {"AmbientLightSensor1"}, 0, FALSE)
    /\ Row(16, "always", {"WifiBackend1"}, 0, FALSE)
    /\ Row(17, "galileo", {"WifiDebug1", "WifiDebugDump1"}, 0, FALSE)
    /\ Row(18, "battery", {"BatteryChargeLimit1"}, 0, FALSE)
    /\ Row(19, "cpu_boost", {"CpuBoost1"}, 0, FALSE)
    /\ Row(20, "always", {"CpuScaling1"}, 0, FALSE)
    /\ Row(21, "scx", {"CpuScheduler1"}, 0, TRUE)
    /\ Row(22, "gpu_level", {"GpuPerformanceLevel1"}, 0, FALSE)
    /\ Row(23, "gpu_profile", {"GpuPowerProfile1"}, 0, FALSE)
    /\ Row(24, "cec", {"HdmiCec1"}, 0, FALSE)
    /\ Row(25, "always", {"Manager2"}, 0, FALSE)
    /\ Row(26, "audio", {"Audio1"}, 0, TRUE)
    /\ Row(27, "session_check", {}, 2, TRUE)
    /\ Row(28, "session_service",
           {"session_manager_service", "screen_reader_setup_service"}, 0, FALSE)
    /\ Row(29, "always", {"SessionManagement1"}, 0, FALSE)
    /\ Row(30, "wifi", {"WifiPowerManagement1"}, 0, FALSE)
    /\ Row(31, "remote_owners", {"RemoteInterface1"}, 0, TRUE)
<1>1. /\ Len(StartOrder) = 31
      /\ Row(1, "cec_units", {}, 0, TRUE)
      /\ Row(2, "remotes", {}, 0, TRUE)
      /\ Row(3, "session_manager", {}, 0, TRUE)
      /\ Row(4, "device_config", {}, 4, FALSE)
      /\ Row(5, "tdp_manager", {}, 2, FALSE)
      /\ Row(6, "download_limit", {"LowPowerMode1"}, 0, FALSE)
      /\ Row(7, "always", {"TdpLimit1_task"}, 0, FALSE)
      /\ Row(8, "profiles", {"PerformanceProfile1"}, 0, FALSE)
      /\ Row(9, "platform_config", {}, 5, FALSE)
      /\ Row(10, "reset_scripts", {"FactoryReset1"}, 0, FALSE)
      /\ Row(11, "fan_service", {"FanControl1"}, 0, FALSE)
      /\ Row(12, "storage_scripts", {"Storage1"}, 0, FALSE)
      /\ Row(13, "bios_script", {"UpdateBios1"}, 0, FALSE)
      /\ Row(14, "dock_script", {"UpdateDock1"}, 0, FALSE)
  BY DEF StartOrder, BuildSteps, DeviceSteps, PlatformSteps, ChipSteps, LastSteps, Row,
         Start, Fatal, Unless
<1>2. /\ Row(15, "steam_deck", {"AmbientLightSensor1"}, 0, FALSE)
      /\ Row(16, "always", {"WifiBackend1"}, 0, FALSE)
      /\ Row(17, "galileo", {"WifiDebug1", "WifiDebugDump1"}, 0, FALSE)
  BY DEF StartOrder, BuildSteps, DeviceSteps, PlatformSteps, ChipSteps, LastSteps, Row,
         Start, Fatal, Unless
<1>3. /\ Row(18, "battery", {"BatteryChargeLimit1"}, 0, FALSE)
      /\ Row(19, "cpu_boost", {"CpuBoost1"}, 0, FALSE)
      /\ Row(20, "always", {"CpuScaling1"}, 0, FALSE)
      /\ Row(21, "scx", {"CpuScheduler1"}, 0, TRUE)
  BY DEF StartOrder, BuildSteps, DeviceSteps, PlatformSteps, ChipSteps, LastSteps, Row,
         Start, Fatal, Unless
<1>4. /\ Row(22, "gpu_level", {"GpuPerformanceLevel1"}, 0, FALSE)
      /\ Row(23, "gpu_profile", {"GpuPowerProfile1"}, 0, FALSE)
      /\ Row(24, "cec", {"HdmiCec1"}, 0, FALSE)
      /\ Row(25, "always", {"Manager2"}, 0, FALSE)
      /\ Row(26, "audio", {"Audio1"}, 0, TRUE)
      /\ Row(28, "session_service",
             {"session_manager_service", "screen_reader_setup_service"}, 0, FALSE)
      /\ Row(29, "always", {"SessionManagement1"}, 0, FALSE)
      /\ Row(30, "wifi", {"WifiPowerManagement1"}, 0, FALSE)
      /\ Row(31, "remote_owners", {"RemoteInterface1"}, 0, TRUE)
  BY DEF StartOrder, BuildSteps, DeviceSteps, PlatformSteps, ChipSteps, LastSteps, Row,
         Start, Fatal, Unless
<1>5. Row(27, "session_check", {}, 2, TRUE)
  <2>1. StartOrder[27] = [Fatal("session_check", {}) EXCEPT !.skips = 2]
    BY DEF StartOrder, BuildSteps, DeviceSteps, PlatformSteps, ChipSteps, LastSteps
  <2>2. PICK r : r = Fatal("session_check", {})
    OBVIOUS
  <2>3. r \in [check : {"session_check"}, serves : {{}}, skips : {0}, fatal : {TRUE}]
    BY <2>2 DEF Fatal, Start
  <2>4. QED
    BY <2>1, <2>2, <2>3 DEF Row
<1>6. QED
  BY <1>1, <1>2, <1>3, <1>4, <1>5

\* Nothing is passed over from inside what another step passes over, to beyond it.
LEMMA SkipsAreNested ==
    /\ \A k \in 1..31 : k \notin {4, 5, 9, 27} => StartOrder[k].skips = 0
    /\ \A k \in 1..31 : StartOrder[k].skips \in Nat
    /\ \A k \in 1..31 : k + 1 + StartOrder[k].skips \in 1..32
    /\ \A j, k \in 1..31 : j < k /\ k <= j + StartOrder[j].skips
          => k + StartOrder[k].skips <= j + StartOrder[j].skips
<1>1. \A k \in 1..31 : k \notin {4, 5, 9, 27} => StartOrder[k].skips = 0
  BY Rows DEF Row
<1>2. /\ StartOrder[4].skips = 4 /\ StartOrder[5].skips = 2
      /\ StartOrder[9].skips = 5 /\ StartOrder[27].skips = 2
  BY Rows DEF Row
<1>3. \A k \in 1..31 :
         /\ StartOrder[k].skips \in Nat
         /\ k + 1 + StartOrder[k].skips \in 1..32
  BY <1>1, <1>2
<1>4. \A j, k \in 1..31 : j < k /\ k <= j + StartOrder[j].skips
          => k + StartOrder[k].skips <= j + StartOrder[j].skips
  BY <1>1, <1>2
<1>5. QED
  BY <1>1, <1>3, <1>4

\* Step n alone serves i.
Place(i, n) == \A k \in 1..31 : i \in StartOrder[k].serves <=> k = n

\* What has one step only, and which.
LEMMA Places ==
    /\ Place("LowPowerMode1", 6) /\ Place("TdpLimit1_task", 7)
    /\ Place("PerformanceProfile1", 8) /\ Place("FactoryReset1", 10)
    /\ Place("FanControl1", 11) /\ Place("Storage1", 12) /\ Place("UpdateBios1", 13)
    /\ Place("UpdateDock1", 14) /\ Place("AmbientLightSensor1", 15)
    /\ Place("WifiBackend1", 16) /\ Place("WifiDebug1", 17)
    /\ Place("WifiDebugDump1", 17) /\ Place("BatteryChargeLimit1", 18)
    /\ Place("CpuBoost1", 19) /\ Place("CpuScaling1", 20) /\ Place("CpuScheduler1", 21)
    /\ Place("GpuPerformanceLevel1", 22) /\ Place("GpuPowerProfile1", 23)
    /\ Place("HdmiCec1", 24) /\ Place("Manager2", 25) /\ Place("Audio1", 26)
    /\ Place("session_manager_service", 28) /\ Place("screen_reader_setup_service", 28)
    /\ Place("SessionManagement1", 29) /\ Place("WifiPowerManagement1", 30)
    /\ Place("RemoteInterface1", 31)
BY SMTT(30), Rows DEF Row, Place

\* What a check says depends on the machine, which stays what it is.
LEMMA MachineStays ==
    ASSUME odd' = odd
    PROVE  \A c : Checks(c)' = Checks(c)
<1>1. \A p : Condition(p)' = Condition(p)
  BY DEF Condition
<1>2. \A p : Plain(p)' = Plain(p)
  BY <1>1 DEF Plain
<1>3. \A ps : Fine(ps)' <=> Fine(ps)
  BY <1>1 DEF Fine
<1>4. \A q : AllValid(q)' = AllValid(q)
  BY DEF AllValid, Plain, Condition
<1>5. DeviceConfig' = DeviceConfig
  BY <1>1, <1>3 DEF DeviceConfig, DeviceMatch, YesNo
<1>6. PlatformConfig' = PlatformConfig /\ StorageValid' = StorageValid
  BY <1>2, <1>4 DEF PlatformConfig, StorageValid
<1>7. ServiceValid' = ServiceValid
  BY <1>1, <1>2, <1>3, <1>4 DEF ServiceValid
<1>8. TdpManagerIsThere' = TdpManagerIsThere
  BY <1>2, <1>5 DEF TdpManagerIsThere
<1>9. \A p : Configured1(p)' = Configured1(p)
  BY <1>2, <1>5 DEF Configured1
<1>10. QED
  BY <1>2, <1>3, <1>4, <1>5, <1>6, <1>7, <1>8, <1>9 DEF Checks, YesNo

\* A step of create_interfaces keeps the invariant, whatever its check answers.
LEMMA StepInvariant == StartInv /\ StartStep => StartInv'
<1> SUFFICES ASSUME StartInv, StartStep
             PROVE  StartInv'
  OBVIOUS
<1> DEFINE skips(k) == StartOrder[k].skips
           serves(k) == StartOrder[k].serves
           after == position + 1 + IF Answer(position) = "yes" THEN 0 ELSE skips(position)
<1>1. /\ position \in 1..31 /\ Reached(position) /\ startFailed = FALSE
      /\ odd' = odd /\ named' = named /\ named = FALSE
  <2>1. position <= 31
    BY Rows DEF StartStep
  <2>2. QED
    BY <2>1 DEF StartInv, StartStep
<1>2. /\ served' = served \cup IF Answer(position) = "yes" THEN serves(position) ELSE {}
      /\ position' = after
      /\ startFailed' = (StartOrder[position].fatal /\ Answer(position) = "error")
  BY DEF StartStep, Answer
<1>3. /\ \A k : Answer(k)' = Answer(k)
      /\ \A k : Reached(k)' <=> Reached(k)
  <2>1. \A k : Answer(k)' = Answer(k)
    BY <1>1, MachineStays DEF Answer
  <2>2. QED
    BY <2>1 DEF Reached
<1>4. \A k \in 1..31 : skips(k) \in Nat /\ k + 1 + skips(k) \in 1..32
  BY SkipsAreNested
<1>5. /\ after \in 1..32 /\ position < after
      /\ Answer(position) = "yes" => after = position + 1
      /\ Answer(position) # "yes" => after = position + 1 + skips(position)
  BY <1>1, <1>4
<1> HIDE DEF after
<1>6. \A k \in 1..31 : position < k /\ k < after => ~Reached(k)
  <2> SUFFICES ASSUME NEW k \in 1..31, position < k, k < after
               PROVE  ~Reached(k)
    OBVIOUS
  <2>1. Answer(position) # "yes" /\ k <= position + skips(position)
    BY <1>1, <1>4, <1>5
  <2>2. QED
    BY <2>1, <1>1 DEF Reached
<1>7. after <= 31 => Reached(after)
  <2> SUFFICES ASSUME after <= 31, NEW j \in 1..31, j < after, after <= j + skips(j)
               PROVE  Answer(j) = "yes"
    BY DEF Reached
  <2>1. CASE j < position
    <3>1. position <= j + skips(j)
      BY <1>1, <1>4, <1>5
    <3>2. QED
      BY <2>1, <3>1, <1>1 DEF Reached
  <2>2. CASE j = position
    BY SMTT(30), <2>2, <1>1, <1>4, <1>5
  <2>3. CASE position < j
    <3>1. after = position + 1 + skips(position) /\ j <= position + skips(position)
      BY <2>3, <1>1, <1>4, <1>5
    <3>2. j + skips(j) <= position + skips(position)
      BY <2>3, <3>1, <1>1, SkipsAreNested
    <3>3. skips(j) \in Nat /\ skips(position) \in Nat
      BY <1>1, <1>4
    <3>4. position \in Nat /\ after \in Nat
      BY <1>1, <1>5
    <3>5. FALSE
      BY <3>1, <3>2, <3>3, <3>4
    <3>6. QED
      BY <3>5
  <2>4. QED
    BY <2>1, <2>2, <2>3, <1>1
<1>8. \A i : i \in served' <=>
         \E k \in 1..31 : k < after /\ Reached(k) /\ Answer(k) = "yes" /\ i \in serves(k)
  <2> TAKE i
  <2>1. i \in served <=>
          \E k \in 1..31 : k < position /\ Reached(k) /\ Answer(k) = "yes" /\ i \in serves(k)
    BY DEF StartInv
  <2>2. i \in served' <=> i \in served \/ (Answer(position) = "yes" /\ i \in serves(position))
    BY <1>2
  <2>3. ASSUME i \in served'
        PROVE  \E k \in 1..31 :
                  k < after /\ Reached(k) /\ Answer(k) = "yes" /\ i \in serves(k)
    BY <2>1, <2>2, <2>3, <1>1, <1>5
  <2>4. ASSUME NEW k \in 1..31,
               k < after, Reached(k), Answer(k) = "yes", i \in serves(k)
        PROVE  i \in served'
    <3>1. k <= position
      BY <2>4, <1>1, <1>5, <1>6
    <3>2. CASE k = position
      BY <3>2, <2>2, <2>4
    <3>3. CASE k < position
      BY <3>3, <2>1, <2>2, <2>4
    <3>4. QED
      BY <3>1, <3>2, <3>3, <1>1
  <2>5. QED
    BY <2>3, <2>4
<1>9. startFailed' \in BOOLEAN
  BY <1>2
<1>10. startFailed' = FALSE => \A k \in 1..31 :
          k < after /\ Reached(k) /\ StartOrder[k].fatal => Answer(k) # "error"
  <2> SUFFICES ASSUME startFailed' = FALSE, NEW k \in 1..31,
                      k < after, Reached(k), StartOrder[k].fatal
               PROVE  Answer(k) # "error"
    OBVIOUS
  <2>1. k <= position
    BY <1>1, <1>5, <1>6
  <2>2. CASE k = position
    BY <2>2, <1>2
  <2>3. CASE k < position
    BY <2>3, <1>1 DEF StartInv
  <2>4. QED
    BY <2>1, <2>2, <2>3, <1>1
<1>11. QED
  <2>1. odd' \in Machines
    BY <1>1 DEF StartInv
  <2>2. position' <= 31 => Reached(position)'
    <3>1. position' = after
      BY <1>2
    <3>2. \A k : Reached(k)' <=> Reached(k)
      BY <1>3
    <3>3. Reached(position)' <=> Reached(after)
      BY <3>1, <1>3 DEF Reached
    <3>4. QED
      BY <3>1, <3>3, <1>7
  <2>3. /\ \A i : i \in served' <=>
             \E k \in 1..31 : /\ k < position' /\ Reached(k)' /\ Answer(k)' = "yes"
                              /\ i \in serves(k)
        /\ ~startFailed' => \A k \in 1..31 :
             k < position' /\ Reached(k)' /\ StartOrder[k].fatal => Answer(k)' # "error"
    <3>1. position' = after
      BY <1>2
    <3>2. QED
      BY <3>1, <1>3, <1>8, <1>9, <1>10
  <2>4. QED
    BY <2>1, <2>2, <2>3, <1>1, <1>2, <1>5, <1>9 DEF StartInv

\* The invariant holds from the start on.
LEMMA StartInvariant == InterfacesSpec => []StartInv
<1>1. InterfacesInit => StartInv
  <2> SUFFICES ASSUME InterfacesInit
               PROVE  StartInv
    OBVIOUS
  <2>1. /\ odd \in Machines /\ position = 1 /\ startFailed = FALSE
        /\ served = {} /\ named = FALSE
    BY DEF InterfacesInit
  <2>2. position \in 1..32
    BY <2>1
  <2>3. startFailed \in BOOLEAN
    BY <2>1, Zenon
  <2>4. \A k \in 1..31 : ~(k < 1)
    OBVIOUS
  <2>5. \A i : i \in served <=>
             \E k \in 1..31 : /\ k < position /\ Reached(k) /\ Answer(k) = "yes"
                              /\ i \in StartOrder[k].serves
    BY <2>1, <2>4
  <2>6. \A k \in 1..31 :
             k < position /\ Reached(k) /\ StartOrder[k].fatal => Answer(k) # "error"
    BY <2>1, <2>4
  <2>7. Reached(position)
    BY <2>1 DEF Reached
  <2>8. QED
    BY <2>1, <2>2, <2>3, <2>5, <2>6, <2>7 DEF StartInv
<1>2. StartInv /\ [InterfacesNext]_interfacesVars => StartInv'
  <2> SUFFICES ASSUME StartInv, [InterfacesNext]_interfacesVars
               PROVE  StartInv'
    OBVIOUS
  <2>1. CASE StartStep
    BY <2>1, StepInvariant
  <2>2. ASSUME TakeName \/ UNCHANGED interfacesVars
        PROVE  StartInv'
    <3>1. /\ odd' = odd /\ position' = position /\ startFailed' = startFailed
          /\ served' = served
          /\ named' => position = 32 /\ startFailed = FALSE
      BY <2>2, Rows DEF StartInv, TakeName, interfacesVars
    <3>2. named' \in BOOLEAN
      BY <2>2, Zenon DEF StartInv, TakeName, interfacesVars
    <3>3. \A k : Answer(k)' = Answer(k)
      BY <3>1, MachineStays DEF Answer
    <3>4. \A k : Reached(k)' <=> Reached(k)
      BY <3>3 DEF Reached
    <3>5. Reached(position)' <=> Reached(position)
      BY <3>1, <3>3 DEF Reached
    <3>6. QED
      BY <3>1, <3>2, <3>3, <3>4, <3>5 DEF StartInv
  <2>3. QED
    BY <2>1, <2>2 DEF InterfacesNext
<1>3. QED
  BY <1>1, <1>2, PTL DEF InterfacesSpec

\* What the steps come to that something passes over.
LEMMA ReachedAre ==
    \A k \in 1..31 :
       Reached(k) <=> /\ k \in 5..8 => Answer(4) = "yes"
                      /\ k \in 6..7 => Answer(5) = "yes"
                      /\ k \in 10..14 => Answer(9) = "yes"
                      /\ k \in 28..29 => Answer(27) = "yes"
<1>1. \A k \in 1..31 : k \notin {4, 5, 9, 27} => StartOrder[k].skips = 0
  BY SkipsAreNested
<1>2. /\ StartOrder[4].skips = 4 /\ StartOrder[5].skips = 2
      /\ StartOrder[9].skips = 5 /\ StartOrder[27].skips = 2
  BY Rows DEF Row
<1>3. QED
  BY <1>1, <1>2 DEF Reached

\* The checks, one for one.
LEMMA AllAreValid ==
    ASSUME NEW q, Len(q) \in 1..3
    PROVE  AllValid(q) = "yes" <=> \A k \in 1..Len(q) : Condition(q[k]) = "fine"
<1>1. \A p : Plain(p) = "yes" <=> Condition(p) = "fine"
  BY DEF Plain
<1>2. ASSUME NEW k \in 1..Len(q), Plain(q[k]) # "yes"
      PROVE  AllValid(q) # "yes"
  <2> DEFINE first == CHOOSE n \in 1..Len(q) :
                         /\ Plain(q[n]) # "yes"
                         /\ \A l \in 1..n - 1 : Plain(q[l]) = "yes"
  <2>1. \E n \in 1..Len(q) : /\ Plain(q[n]) # "yes"
                             /\ \A l \in 1..n - 1 : Plain(q[l]) = "yes"
    <3>1. CASE Plain(q[1]) # "yes"
      BY <3>1
    <3>2. CASE Plain(q[1]) = "yes" /\ Plain(q[2]) # "yes" /\ Len(q) > 1
      BY <3>2
    <3>3. CASE Plain(q[1]) = "yes" /\ (Plain(q[2]) = "yes" \/ Len(q) = 1)
      <4>1. k = 3 /\ Plain(q[2]) = "yes"
        BY <3>3, <1>2
      <4>2. QED
        BY <4>1, <3>3, <1>2
    <3>4. QED
      BY <3>1, <3>2, <3>3
  <2>2. Plain(q[first]) # "yes"
    BY <2>1
  <2>3. QED
    BY <2>2, <1>2 DEF AllValid
<1>3. ASSUME \A k \in 1..Len(q) : Plain(q[k]) = "yes"
      PROVE  AllValid(q) = "yes"
  BY <1>3 DEF AllValid
<1>4. QED
  BY <1>1, <1>2, <1>3

\* What the parts can be like that may not be anything.
LEMMA ConditionsAre ==
    ASSUME StartInv
    PROVE  /\ Condition("vendor") \in {"fine", "absent", "unreadable"}
           /\ Condition("config_folder") \in {"fine", "unreadable"}
           /\ Condition("remote_owners") \in {"fine", "unreadable"}
<1>1. \A t \in Trouble :
         /\ t[1] = "vendor" => t[2] \in {"absent", "unreadable"}
         /\ t[1] \in {"config_folder", "remote_owners"} => t[2] = "unreadable"
  BY DEF Trouble, Scripts, ConfiguredParts
<1>2. odd \subseteq Trouble
  BY MachinesAssumption DEF StartInv
<1>3. \A p : (\E t \in odd : t[1] = p) => \E t \in odd : t[1] = p /\ Condition(p) = t[2]
  BY DEF Condition
<1>4. \A p : (~\E t \in odd : t[1] = p) => Condition(p) = "fine"
  BY DEF Condition
<1>5. QED
  BY <1>1, <1>2, <1>3, <1>4

\* Answers of the checks that decide about more than one step.
LEMMA GroupAnswers ==
    ASSUME StartInv
    PROVE  /\ DeviceConfig = "yes" <=> OnDevice
           /\ Answer(4) = "yes" <=> OnDevice
           /\ OnDevice => (Answer(5) = "yes" <=> Fine({"tdp_method"}))
           /\ Answer(9) = "yes" <=> Fine({"platform_config"})
           /\ Answer(27) = "yes" <=> Fine({"session_check"})
<1>1. DeviceConfig = "yes" <=> OnDevice
  <2>1. /\ Condition("vendor") \in {"fine", "absent", "unreadable"}
        /\ Condition("config_folder") \in {"fine", "unreadable"}
    BY ConditionsAre
  <2>2. QED
    BY <2>1 DEF DeviceConfig, DeviceMatch, YesNo, OnDevice, Fine, Dmi
<1>2. /\ StartOrder[4].check = "device_config" /\ StartOrder[5].check = "tdp_manager"
      /\ StartOrder[9].check = "platform_config" /\ StartOrder[27].check = "session_check"
  BY Rows DEF Row
<1>3. Answer(4) = DeviceConfig
  BY <1>2 DEF Answer, Checks
<1>4. Answer(5) = YesNo(TdpManagerIsThere = "yes")
  BY <1>2 DEF Answer, Checks
<1>5. Answer(9) = Plain("platform_config") /\ Answer(27) = Plain("session_check")
  BY <1>2 DEF Answer, Checks, PlatformConfig
<1>6. \A p : Plain(p) = "yes" <=> Fine({p})
  BY DEF Plain, Fine
<1>7. OnDevice => TdpManagerIsThere = Plain("tdp_method")
  BY <1>1 DEF TdpManagerIsThere
<1>8. OnDevice => (Answer(5) = "yes" <=> Fine({"tdp_method"}))
  BY <1>4, <1>6, <1>7 DEF YesNo
<1>9. QED
  BY <1>1, <1>3, <1>5, <1>6, <1>8

\* Answers of the checks that decide about their own step.
LEMMA OwnAnswers ==
    ASSUME StartInv
    PROVE  /\ Answer(6) = "yes" <=> Fine({"download_limit"})
           /\ Answer(8) = "yes" <=> Fine({"profiles"})
           /\ Answer(10) = "yes" <=> Fine({"all", "os", "user"})
           /\ Answer(11) = "yes" <=> \/ Fine({"fan_unit", "start", "stop", "status"})
                                     \/ Condition("fan_unit") = "loaded"
           /\ Answer(12) = "yes" <=> Fine({"trim", "format"})
           /\ Answer(13) = "yes" <=> Fine({"bios"})
           /\ Answer(14) = "yes" <=> Fine({"dock"})
           /\ Answer(15) = "yes" <=> OnDevice /\ Fine({"steam_deck"})
           /\ Answer(17) = "yes" <=> Fine({"vendor", "board", "galileo"})
           /\ Answer(18) = "yes" <=> OnDevice /\ Fine({"battery"})
           /\ Answer(19) = "yes" <=> Fine({"cpu_boost"})
           /\ Answer(21) = "yes" <=> Fine({"scx"})
           /\ Answer(22) = "yes" <=> OnDevice /\ Fine({"gpu_level"})
           /\ Answer(23) = "yes" <=> OnDevice /\ Fine({"gpu_profile"})
           /\ Answer(24) = "yes" <=> Fine({"cec"})
           /\ Answer(26) = "yes" <=> Fine({"audio"})
           /\ Answer(28) = "yes" <=> Fine({"session_service"})
           /\ Answer(30) = "yes" <=> Fine({"wifi"})
           /\ \A k \in {16, 20, 25, 29} : Answer(k) = "yes"
           /\ Answer(31) # "error" => Answer(31) = "yes"
<1>1. \A p : Plain(p) = "yes" <=> Fine({p})
  BY DEF Plain, Fine
<1>2. /\ Answer(6) = Plain("download_limit") /\ Answer(8) = Plain("profiles")
      /\ Answer(19) = Plain("cpu_boost") /\ Answer(21) = Plain("scx")
      /\ Answer(24) = Plain("cec") /\ Answer(26) = Plain("audio")
      /\ Answer(28) = Plain("session_service") /\ Answer(30) = Plain("wifi")
      /\ Answer(31) = Plain("remote_owners")
  BY Rows DEF Row, Answer, Checks
<1>3. /\ Answer(10) = AllValid(<<"all", "os", "user">>) /\ Answer(11) = ServiceValid
      /\ Answer(12) = AllValid(<<"trim", "format">>)
      /\ Answer(13) = AllValid(<<"bios">>) /\ Answer(14) = AllValid(<<"dock">>)
  BY Rows DEF Row, Answer, Checks, StorageValid
<1>4. \A q : Len(q) \in 1..3
         => (AllValid(q) = "yes" <=> \A k \in 1..Len(q) : Condition(q[k]) = "fine")
  BY AllAreValid
<1>5. \A p, r, t : AllValid(<<p, r, t>>) = "yes" <=> Fine({p, r, t})
  <2> TAKE p, r, t
  <2>1. PICK q : q = <<p, r, t>>
    OBVIOUS
  <2>2. Len(q) = 3 /\ q[1] = p /\ q[2] = r /\ q[3] = t
    BY <2>1
  <2>3. QED
    BY <2>1, <2>2, <1>4 DEF Fine
<1>6. \A p, r : AllValid(<<p, r>>) = "yes" <=> Fine({p, r})
  <2> TAKE p, r
  <2>1. PICK q : q = <<p, r>>
    OBVIOUS
  <2>2. Len(q) = 2 /\ q[1] = p /\ q[2] = r
    BY <2>1
  <2>3. QED
    BY <2>1, <2>2, <1>4 DEF Fine
<1>7. \A p : AllValid(<<p>>) = "yes" <=> Fine({p})
  <2> TAKE p
  <2>1. PICK q : q = <<p>>
    OBVIOUS
  <2>2. Len(q) = 1 /\ q[1] = p
    BY <2>1
  <2>3. QED
    BY <2>1, <2>2, <1>4 DEF Fine
<1>8. /\ AllValid(<<"all", "os", "user">>) = "yes" <=> Fine({"all", "os", "user"})
      /\ AllValid(<<"start", "stop", "status">>) = "yes" <=> Fine({"start", "stop", "status"})
      /\ AllValid(<<"trim", "format">>) = "yes" <=> Fine({"trim", "format"})
      /\ AllValid(<<"bios">>) = "yes" <=> Fine({"bios"})
      /\ AllValid(<<"dock">>) = "yes" <=> Fine({"dock"})
  BY <1>5, <1>6, <1>7
<1>9. ServiceValid = "yes" <=> \/ Fine({"fan_unit", "start", "stop", "status"})
                               \/ Condition("fan_unit") = "loaded"
  <2>1. Fine({"fan_unit", "start", "stop", "status"})
          <=> Fine({"fan_unit"}) /\ Fine({"start", "stop", "status"})
    BY DEF Fine
  <2>2. Fine({"fan_unit"}) => Condition("fan_unit") = "fine"
    BY DEF Fine
  <2>3. QED
    BY <2>1, <2>2, <1>1, <1>8 DEF ServiceValid
<1>10. /\ Answer(15) = YesNo(DeviceConfig = "yes" /\ Fine({"steam_deck"}))
       /\ Answer(17) = YesNo(Fine({"vendor", "board", "galileo"}))
       /\ Answer(18) = Configured1("battery") /\ Answer(22) = Configured1("gpu_level")
       /\ Answer(23) = Configured1("gpu_profile")
       /\ \A k \in {16, 20, 25, 29} : Answer(k) = "yes"
  <2>1. StartOrder[15].check = "steam_deck" /\ StartOrder[17].check = "galileo"
    BY Rows DEF Row
  <2>2. /\ StartOrder[18].check = "battery" /\ StartOrder[22].check = "gpu_level"
        /\ StartOrder[23].check = "gpu_profile"
    BY Rows DEF Row
  <2>3. \A k \in {16, 20, 25, 29} : StartOrder[k].check = "always"
    BY Rows DEF Row
  <2>4. Answer(15) = YesNo(DeviceConfig = "yes" /\ Fine({"steam_deck"}))
    BY <2>1 DEF Answer, Checks
  <2>5. Answer(17) = YesNo(Fine({"vendor", "board", "galileo"}))
    BY <2>1 DEF Answer, Checks
  <2>6. /\ Answer(18) = Configured1("battery") /\ Answer(22) = Configured1("gpu_level")
        /\ Answer(23) = Configured1("gpu_profile")
    BY <2>2 DEF Answer, Checks
  <2>7. \A k \in {16, 20, 25, 29} : Answer(k) = "yes"
    BY <2>3 DEF Answer, Checks
  <2>8. QED
    BY <2>4, <2>5, <2>6, <2>7
<1>11. \A p : Configured1(p) = "yes" <=> OnDevice /\ Fine({p})
  BY <1>1, GroupAnswers DEF Configured1
<1>12. /\ Answer(15) = "yes" <=> OnDevice /\ Fine({"steam_deck"})
       /\ Answer(17) = "yes" <=> Fine({"vendor", "board", "galileo"})
  BY <1>10, GroupAnswers DEF YesNo
<1>13. Answer(31) # "error" => Answer(31) = "yes"
  BY <1>2, ConditionsAre DEF Plain
<1>14. /\ Answer(6) = "yes" <=> Fine({"download_limit"})
       /\ Answer(8) = "yes" <=> Fine({"profiles"})
       /\ Answer(19) = "yes" <=> Fine({"cpu_boost"})
       /\ Answer(21) = "yes" <=> Fine({"scx"})
       /\ Answer(24) = "yes" <=> Fine({"cec"})
       /\ Answer(26) = "yes" <=> Fine({"audio"})
       /\ Answer(28) = "yes" <=> Fine({"session_service"})
       /\ Answer(30) = "yes" <=> Fine({"wifi"})
  BY <1>1, <1>2
<1>15. /\ Answer(10) = "yes" <=> Fine({"all", "os", "user"})
       /\ Answer(11) = "yes" <=> \/ Fine({"fan_unit", "start", "stop", "status"})
                                 \/ Condition("fan_unit") = "loaded"
       /\ Answer(12) = "yes" <=> Fine({"trim", "format"})
       /\ Answer(13) = "yes" <=> Fine({"bios"})
       /\ Answer(14) = "yes" <=> Fine({"dock"})
  BY <1>3, <1>8, <1>9
<1>16. /\ Answer(18) = "yes" <=> OnDevice /\ Fine({"battery"})
       /\ Answer(22) = "yes" <=> OnDevice /\ Fine({"gpu_level"})
       /\ Answer(23) = "yes" <=> OnDevice /\ Fine({"gpu_profile"})
  BY <1>10, <1>11
<1>17. \A k \in {16, 20, 25, 29} : Answer(k) = "yes"
  BY <1>10
<1>18. QED
  BY <1>12, <1>13, <1>14, <1>15, <1>16, <1>17

\* An interface is there exactly if its step was come to and its check said yes.
LEMMA ServedAt ==
    ASSUME StartInv, named, NEW i, NEW n \in 1..31, Place(i, n)
    PROVE  i \in served <=> Reached(n) /\ Answer(n) = "yes"
<1>1. position = 32
  BY DEF StartInv
<1>2. \A k \in 1..31 : k < position
  BY <1>1
<1>3. i \in served <=>
         \E k \in 1..31 : Reached(k) /\ Answer(k) = "yes" /\ i \in StartOrder[k].serves
  BY <1>2 DEF StartInv
<1>4. QED
  BY <1>3 DEF Place

\* The invariant implies what the interfaces promise.
LEMMA SupportedFollows == StartInv => SupportedIsServed
<1> SUFFICES ASSUME StartInv, named
             PROVE  /\ \A i \in DOMAIN Needs : i \in served <=> Fine(Needs[i])
                    /\ \A i \in DOMAIN NeedsOnDevice :
                          i \in served <=> OnDevice /\ Fine(NeedsOnDevice[i])
                    /\ "FanControl1" \in served <=> FanIsControlled
                    /\ "session_manager_service" \in served
                         <=> Fine({"session_check", "session_service"})
  BY DEF SupportedIsServed
<1>1. \A i : \A n \in 1..31 :
         Place(i, n) => (i \in served <=> Reached(n) /\ Answer(n) = "yes")
  BY ServedAt
<1>2. \A ps, qs : Fine(ps \cup qs) <=> Fine(ps) /\ Fine(qs)
  BY DEF Fine
<1>3. Fine({})
  BY DEF Fine
<1>4. /\ "FactoryReset1" \in served <=> Fine({"platform_config", "all", "os", "user"})
      /\ "FanControl1" \in served <=> FanIsControlled
      /\ "Storage1" \in served <=> Fine({"platform_config", "trim", "format"})
      /\ "UpdateBios1" \in served <=> Fine({"platform_config", "bios"})
      /\ "UpdateDock1" \in served <=> Fine({"platform_config", "dock"})
  <2>1. \A k \in 10..14 : Reached(k) <=> Fine({"platform_config"})
    BY ReachedAre, GroupAnswers
  <2>2. /\ "FactoryReset1" \in served <=> Reached(10) /\ Answer(10) = "yes"
        /\ "FanControl1" \in served <=> Reached(11) /\ Answer(11) = "yes"
        /\ "Storage1" \in served <=> Reached(12) /\ Answer(12) = "yes"
        /\ "UpdateBios1" \in served <=> Reached(13) /\ Answer(13) = "yes"
        /\ "UpdateDock1" \in served <=> Reached(14) /\ Answer(14) = "yes"
    BY <1>1, Places
  <2>3. /\ Answer(10) = "yes" <=> Fine({"all", "os", "user"})
        /\ Answer(12) = "yes" <=> Fine({"trim", "format"})
        /\ Answer(13) = "yes" <=> Fine({"bios"})
        /\ Answer(14) = "yes" <=> Fine({"dock"})
    BY OwnAnswers
  <2>4. Answer(11) = "yes" <=> \/ Fine({"fan_unit", "start", "stop", "status"})
                               \/ Condition("fan_unit") = "loaded"
    BY OwnAnswers
  <2>5. /\ Fine({"platform_config", "all", "os", "user"})
             <=> Fine({"platform_config"}) /\ Fine({"all", "os", "user"})
        /\ Fine({"platform_config", "trim", "format"})
             <=> Fine({"platform_config"}) /\ Fine({"trim", "format"})
        /\ Fine({"platform_config", "bios"}) <=> Fine({"platform_config"}) /\ Fine({"bios"})
        /\ Fine({"platform_config", "dock"}) <=> Fine({"platform_config"}) /\ Fine({"dock"})
    BY DEF Fine
  <2>6. "FanControl1" \in served <=> FanIsControlled
    BY <2>1, <2>2, <2>4 DEF FanIsControlled
  <2>7. QED
    BY <2>1, <2>2, <2>3, <2>5, <2>6
<1>5. /\ "SessionManagement1" \in served <=> Fine({"session_check"})
      /\ "session_manager_service" \in served
           <=> Fine({"session_check", "session_service"})
  <2>1. \A k \in 28..29 : Reached(k) <=> Fine({"session_check"})
    BY ReachedAre, GroupAnswers
  <2>2. /\ "session_manager_service" \in served <=> Reached(28) /\ Answer(28) = "yes"
        /\ "SessionManagement1" \in served <=> Reached(29) /\ Answer(29) = "yes"
    BY <1>1, Places
  <2>3. (Answer(28) = "yes" <=> Fine({"session_service"})) /\ Answer(29) = "yes"
    BY OwnAnswers
  <2>4. Fine({"session_check", "session_service"})
          <=> Fine({"session_check"}) /\ Fine({"session_service"})
    BY DEF Fine
  <2>5. QED
    BY <2>1, <2>2, <2>3, <2>4
<1>6. /\ "LowPowerMode1" \in served <=> OnDevice /\ Fine({"tdp_method", "download_limit"})
      /\ "PerformanceProfile1" \in served <=> OnDevice /\ Fine({"profiles"})
  <2>1. (Reached(8) <=> OnDevice) /\ (Reached(6) <=> OnDevice /\ Fine({"tdp_method"}))
    BY ReachedAre, GroupAnswers
  <2>2. /\ "LowPowerMode1" \in served <=> Reached(6) /\ Answer(6) = "yes"
        /\ "PerformanceProfile1" \in served <=> Reached(8) /\ Answer(8) = "yes"
    BY <1>1, Places
  <2>3. /\ Answer(6) = "yes" <=> Fine({"download_limit"})
        /\ Answer(8) = "yes" <=> Fine({"profiles"})
    BY OwnAnswers
  <2>4. Fine({"tdp_method", "download_limit"})
          <=> Fine({"tdp_method"}) /\ Fine({"download_limit"})
    BY DEF Fine
  <2>5. QED
    BY <2>1, <2>2, <2>3, <2>4
<1>7. /\ \A i \in {"WifiBackend1", "CpuScaling1", "Manager2", "RemoteInterface1"} :
            i \in served
      /\ "WifiDebug1" \in served <=> Fine({"vendor", "board", "galileo"})
      /\ "WifiDebugDump1" \in served <=> Fine({"vendor", "board", "galileo"})
      /\ "CpuBoost1" \in served <=> Fine({"cpu_boost"})
      /\ "CpuScheduler1" \in served <=> Fine({"scx"})
      /\ "HdmiCec1" \in served <=> Fine({"cec"})
      /\ "Audio1" \in served <=> Fine({"audio"})
      /\ "WifiPowerManagement1" \in served <=> Fine({"wifi"})
      /\ "AmbientLightSensor1" \in served <=> OnDevice /\ Fine({"steam_deck"})
      /\ "BatteryChargeLimit1" \in served <=> OnDevice /\ Fine({"battery"})
      /\ "GpuPerformanceLevel1" \in served <=> OnDevice /\ Fine({"gpu_level"})
      /\ "GpuPowerProfile1" \in served <=> OnDevice /\ Fine({"gpu_profile"})
  <2>1. \A k \in 15..26 : Reached(k)
    BY ReachedAre
  <2>2. Reached(30) /\ Reached(31)
    BY ReachedAre
  <2>3. /\ "AmbientLightSensor1" \in served <=> Answer(15) = "yes"
        /\ "WifiBackend1" \in served <=> Answer(16) = "yes"
        /\ "WifiDebug1" \in served <=> Answer(17) = "yes"
        /\ "WifiDebugDump1" \in served <=> Answer(17) = "yes"
        /\ "BatteryChargeLimit1" \in served <=> Answer(18) = "yes"
        /\ "CpuBoost1" \in served <=> Answer(19) = "yes"
        /\ "CpuScaling1" \in served <=> Answer(20) = "yes"
        /\ "CpuScheduler1" \in served <=> Answer(21) = "yes"
        /\ "GpuPerformanceLevel1" \in served <=> Answer(22) = "yes"
        /\ "GpuPowerProfile1" \in served <=> Answer(23) = "yes"
        /\ "HdmiCec1" \in served <=> Answer(24) = "yes"
        /\ "Manager2" \in served <=> Answer(25) = "yes"
        /\ "Audio1" \in served <=> Answer(26) = "yes"
        /\ "WifiPowerManagement1" \in served <=> Answer(30) = "yes"
        /\ "RemoteInterface1" \in served <=> Answer(31) = "yes"
    BY <1>1, <2>1, <2>2, Places
  <2>4. Answer(16) = "yes" /\ Answer(20) = "yes" /\ Answer(25) = "yes"
    BY OwnAnswers
  <2>5. Answer(31) = "yes"
    <3>1. StartOrder[31].fatal = TRUE
      BY Rows DEF Row
    <3>2. 31 < position /\ startFailed = FALSE
      BY DEF StartInv
    <3>3. Answer(31) # "error"
      BY <2>2, <3>1, <3>2 DEF StartInv
    <3>4. QED
      BY <3>3, OwnAnswers
  <2>6. QED
    BY <2>3, <2>4, <2>5, OwnAnswers
<1>8. \A i \in DOMAIN Needs : i \in served <=> Fine(Needs[i])
  <2>1. DOMAIN Needs = {"FactoryReset1", "Storage1", "UpdateBios1", "UpdateDock1",
                        "WifiBackend1", "WifiDebug1", "WifiDebugDump1", "CpuBoost1",
                        "CpuScaling1", "CpuScheduler1", "HdmiCec1", "Manager2", "Audio1",
                        "SessionManagement1", "WifiPowerManagement1", "RemoteInterface1"}
    BY DEF Needs
  <2>2. /\ Needs["FactoryReset1"] = {"platform_config", "all", "os", "user"}
        /\ Needs["Storage1"] = {"platform_config", "trim", "format"}
        /\ Needs["UpdateBios1"] = {"platform_config", "bios"}
        /\ Needs["UpdateDock1"] = {"platform_config", "dock"}
        /\ Needs["WifiDebug1"] = {"vendor", "board", "galileo"}
        /\ Needs["WifiDebugDump1"] = {"vendor", "board", "galileo"}
        /\ Needs["CpuBoost1"] = {"cpu_boost"} /\ Needs["CpuScheduler1"] = {"scx"}
        /\ Needs["HdmiCec1"] = {"cec"} /\ Needs["Audio1"] = {"audio"}
        /\ Needs["SessionManagement1"] = {"session_check"}
        /\ Needs["WifiPowerManagement1"] = {"wifi"}
        /\ Needs["WifiBackend1"] = {} /\ Needs["CpuScaling1"] = {}
        /\ Needs["Manager2"] = {} /\ Needs["RemoteInterface1"] = {}
    BY DEF Needs
  <2>3. /\ "FactoryReset1" \in served <=> Fine(Needs["FactoryReset1"])
        /\ "Storage1" \in served <=> Fine(Needs["Storage1"])
        /\ "UpdateBios1" \in served <=> Fine(Needs["UpdateBios1"])
        /\ "UpdateDock1" \in served <=> Fine(Needs["UpdateDock1"])
        /\ "SessionManagement1" \in served <=> Fine(Needs["SessionManagement1"])
    BY <2>2, <1>4, <1>5, Zenon
  <2>4. /\ "WifiBackend1" \in served <=> Fine(Needs["WifiBackend1"])
        /\ "CpuScaling1" \in served <=> Fine(Needs["CpuScaling1"])
        /\ "Manager2" \in served <=> Fine(Needs["Manager2"])
        /\ "RemoteInterface1" \in served <=> Fine(Needs["RemoteInterface1"])
    BY <2>2, <1>3, <1>7, Zenon
  <2>5. /\ "WifiDebug1" \in served <=> Fine(Needs["WifiDebug1"])
        /\ "WifiDebugDump1" \in served <=> Fine(Needs["WifiDebugDump1"])
        /\ "CpuBoost1" \in served <=> Fine(Needs["CpuBoost1"])
        /\ "CpuScheduler1" \in served <=> Fine(Needs["CpuScheduler1"])
        /\ "HdmiCec1" \in served <=> Fine(Needs["HdmiCec1"])
        /\ "Audio1" \in served <=> Fine(Needs["Audio1"])
        /\ "WifiPowerManagement1" \in served <=> Fine(Needs["WifiPowerManagement1"])
    BY <2>2, <1>7, Zenon
  <2>6. QED
    BY <2>1, <2>3, <2>4, <2>5
<1>9. \A i \in DOMAIN NeedsOnDevice : i \in served <=> OnDevice /\ Fine(NeedsOnDevice[i])
  <2>1. DOMAIN NeedsOnDevice = {"PerformanceProfile1", "LowPowerMode1",
                                "AmbientLightSensor1", "BatteryChargeLimit1",
                                "GpuPerformanceLevel1", "GpuPowerProfile1"}
    BY DEF NeedsOnDevice
  <2>2. /\ NeedsOnDevice["PerformanceProfile1"] = {"profiles"}
        /\ NeedsOnDevice["LowPowerMode1"] = {"tdp_method", "download_limit"}
        /\ NeedsOnDevice["AmbientLightSensor1"] = {"steam_deck"}
        /\ NeedsOnDevice["BatteryChargeLimit1"] = {"battery"}
        /\ NeedsOnDevice["GpuPerformanceLevel1"] = {"gpu_level"}
        /\ NeedsOnDevice["GpuPowerProfile1"] = {"gpu_profile"}
    BY DEF NeedsOnDevice
  <2>3. /\ "PerformanceProfile1" \in served
           <=> OnDevice /\ Fine(NeedsOnDevice["PerformanceProfile1"])
        /\ "LowPowerMode1" \in served <=> OnDevice /\ Fine(NeedsOnDevice["LowPowerMode1"])
    BY <2>2, <1>6, Zenon
  <2>4. /\ "AmbientLightSensor1" \in served
           <=> OnDevice /\ Fine(NeedsOnDevice["AmbientLightSensor1"])
        /\ "BatteryChargeLimit1" \in served
           <=> OnDevice /\ Fine(NeedsOnDevice["BatteryChargeLimit1"])
        /\ "GpuPerformanceLevel1" \in served
           <=> OnDevice /\ Fine(NeedsOnDevice["GpuPerformanceLevel1"])
        /\ "GpuPowerProfile1" \in served
           <=> OnDevice /\ Fine(NeedsOnDevice["GpuPowerProfile1"])
    BY <2>2, <1>7, Zenon
  <2>5. QED
    BY <2>1, <2>3, <2>4
<1>10. QED
  BY <1>4, <1>5, <1>8, <1>9

\* A client that finds the daemon's name finds exactly what the machine
\* supports, on a machine with any troubles, whichever checks fail or meet an
\* error (create_interfaces, and Daemon::run, which takes the name).
THEOREM SupportedIsAlwaysServed == InterfacesSpec => []SupportedIsServed
<1>1. QED
  BY StartInvariant, SupportedFollows, PTL

\* The types hold: create_interfaces goes through its steps in order, and what
\* is exported is one of the interfaces and services there are.
THEOREM InterfacesTypeCorrect == InterfacesSpec => []InterfacesTypeOK
<1>1. StartInv => InterfacesTypeOK
  <2> SUFFICES ASSUME StartInv PROVE InterfacesTypeOK
    OBVIOUS
  <2>1. odd \subseteq Trouble
    BY MachinesAssumption DEF StartInv
  <2>2. /\ position \in 1..Len(StartOrder) + 1
        /\ startFailed \in BOOLEAN /\ named \in BOOLEAN
    BY Rows DEF StartInv
  <2>3. \A k \in 1..31 : StartOrder[k].serves \subseteq Exportable \cup StartedAlong
    BY Rows DEF Row, Exportable, StartedAlong
  <2>4. served \subseteq Exportable \cup StartedAlong
    BY <2>3 DEF StartInv
  <2>5. QED
    BY <2>1, <2>2, <2>4 DEF InterfacesTypeOK
<1>2. QED
  BY <1>1, StartInvariant, PTL
=============================================================================
