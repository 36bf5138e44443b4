---------------------------- MODULE ServiceProofs ----------------------------
(***************************************************************************)
(* What the services of the two daemons guarantee: WifiDump, UdevEvents,   *)
(* InputPlumber and Lifecycle, for any number of calls, events, devices,   *)
(* lives and failures.                                                     *)
(***************************************************************************)
EXTENDS WifiDump, UdevEvents, InputPlumber, Lifecycle, FiniteSetTheorems, TLAPS

-----------------------------------------------------------------------------
(* WifiDump.                                                               *)

\* The task of the monitor lives from before the crash until the call goes on.
PollerInCall ==
    /\ poller # "none" => dumpAt \in {"crash", "wait"}
    /\ dumpAt = "wait" => poller # "none"

\* While a call is under way the file keeps the log submitter out, if there is
\* one, and the file is the call's.
FileInCall ==
    /\ dumpAt # "idle" => (submitter => block) /\ (block => holdsBlock)
    /\ dumpAt = "idle" => ~holdsBlock
    /\ holdsBlock => block
    /\ block => submitter

\* What the monitor found nobody takes but the call.
FoundIsThere == dumpAt \in {"read", "free"} \/ poller = "found" => core

DumpInv ==
    /\ DumpTypeOK
    /\ PollerInCall /\ FileInCall /\ FoundIsThere
    /\ block => holdsBlock \/ abandoned

LEMMA InitDumpInv == DumpInit => DumpInv
<1> SUFFICES ASSUME DumpInit PROVE DumpInv
  OBVIOUS
<1>1. DumpTypeOK
  <2>1. dumps \in 0..MaxDumps /\ crashes \in 0..MaxCrashes
    BY DumpAssumption DEF DumpInit
  <2>2. QED
    BY <2>1 DEF DumpInit, DumpTypeOK
<1>2. PollerInCall /\ FileInCall /\ FoundIsThere
  BY DEF DumpInit, PollerInCall, FileInCall, FoundIsThere
<1>3. QED
  BY <1>1, <1>2 DEF DumpInit, DumpInv

\* The call, from its file to the end of it.
LEMMA CallKeepsDumpInv ==
    ASSUME DumpInv,
           \/ BeginDump \/ StartPoller \/ NoPoller \/ SimulateCrash \/ CrashRefused
           \/ DumpFound \/ PollerFails \/ CopyDump \/ FreeDump \/ Unblock \/ AbandonDump
    PROVE  DumpInv'
<1> USE DumpAssumption DEF DumpInv, DumpTypeOK, PollerInCall, FileInCall, FoundIsThere,
                           systemPart
<1>1. CASE BeginDump
  BY <1>1 DEF BeginDump
<1>2. CASE StartPoller \/ NoPoller
  BY <1>2 DEF StartPoller, NoPoller
<1>3. CASE SimulateCrash \/ CrashRefused
  <2>1. crashing' \in BOOLEAN
    BY <1>3 DEF SimulateCrash, CrashRefused
  <2>2. QED
    BY <1>3, <2>1 DEF SimulateCrash, CrashRefused
<1>4. CASE DumpFound \/ PollerFails
  BY <1>4 DEF DumpFound, PollerFails
<1>5. CASE CopyDump
  BY <1>5 DEF CopyDump
<1>6. CASE FreeDump
  BY <1>6 DEF FreeDump
<1>7. CASE Unblock
  BY <1>7 DEF Unblock
<1>8. CASE AbandonDump
  BY <1>8 DEF AbandonDump
<1>9. QED
  BY <1>1, <1>2, <1>3, <1>4, <1>5, <1>6, <1>7, <1>8

\* The kernel may offer a dump at any time; the submitter is kept out while it
\* could take the one of a call.
LEMMA SystemKeepsDumpInv ==
    ASSUME DumpInv, CrashesAsTold \/ CrashesByItself \/ Submit1
    PROVE  DumpInv'
<1> USE DumpAssumption DEF DumpInv, DumpTypeOK, PollerInCall, FileInCall, FoundIsThere
<1>1. CASE CrashesAsTold
  BY <1>1 DEF CrashesAsTold, OfferDump
<1>2. CASE CrashesByItself
  BY <1>2 DEF CrashesByItself, OfferDump
<1>3. CASE Submit1
  <2>1. dumpAt = "idle" /\ poller = "none"
    BY <1>3 DEF Submit1
  <2>2. QED
    BY <1>3, <2>1 DEF Submit1
<1>4. QED
  BY <1>1, <1>2, <1>3

\* The invariant holds in every state of WifiDump.
THEOREM DumpInvariant == DumpSpec => []DumpInv
<1>1. DumpInv /\ UNCHANGED dumpVars => DumpInv'
  BY DEF DumpInv, DumpTypeOK, PollerInCall, FileInCall, FoundIsThere, dumpVars
<1>2. DumpInv /\ DumpNext => DumpInv'
  BY CallKeepsDumpInv, SystemKeepsDumpInv DEF DumpNext
<1>3. QED
  BY <1>1, <1>2, InitDumpInv, PTL DEF DumpSpec

\* The dump that the monitor found is there until the call is done with it, and
\* the file stays only if the daemon stopped in the middle of a call.
THEOREM DumpIsAlwaysOurs == DumpSpec => []DumpIsOurs
<1>1. DumpInv => DumpIsOurs
  BY DEF DumpInv, FoundIsThere, DumpIsOurs
<1>2. QED
  BY <1>1, DumpInvariant, PTL

\* A file that a stopped daemon left behind stays, and no call gets past it
\* (generate_wifi_dump makes it with create_new).
THEOREM LeftFileStopsDumps ==
    DumpSpec => [][block /\ ~holdsBlock => block' /\ dumpAt' = "idle"]_dumpVars
<1>1. ASSUME DumpInv, DumpNext, block, ~holdsBlock PROVE block' /\ dumpAt' = "idle"
  <2>1. dumpAt = "idle" /\ submitter
    BY <1>1 DEF DumpInv, FileInCall
  <2>2. CASE BeginDump
    BY <1>1, <2>2 DEF BeginDump
  <2>3. CASE CrashesAsTold \/ CrashesByItself \/ Submit1
    BY <1>1, <2>1, <2>3 DEF CrashesAsTold, CrashesByItself, Submit1
  <2>4. QED
    BY <1>1, <2>1, <2>2, <2>3 DEF DumpNext, StartPoller, NoPoller, SimulateCrash,
       CrashRefused, DumpFound, PollerFails, CopyDump, FreeDump, Unblock, AbandonDump
<1>2. QED
  BY <1>1, DumpInvariant, PTL DEF DumpSpec

-----------------------------------------------------------------------------
(* InputPlumber.                                                           *)

\* Who will see to a device that is there and has not its targets: the
\* enumeration to come, a signal, the task of one, or the enumeration that goes
\* on; one that failed leaves the rest.
SeenTo(d) ==
    \/ enumeration = "none"
    \/ Contains(added, d)
    \/ makers[d]["ask"] > 0 \/ makers[d]["set"] > 0
    \/ enumeration \in {"devices", "failed"} /\ Contains(toCheck, d)

DeckInv ==
    /\ DeckTypeOK
    /\ \A d \in Devices : targets[d] \in {"gamepad", wanted}
    /\ enumeration # "none" => listens
    /\ checking # "idle" => toCheck # <<>> /\ enumeration = "devices"
    /\ \A d \in present : targets[d] = wanted \/ SeenTo(d)

\* What a queue holds when it grows and when it shrinks.
LEMMA ContainsAppend ==
    ASSUME NEW S, NEW s \in Seq(S), NEW e \in S
    PROVE  /\ Contains(Append(s, e), e)
           /\ \A x : Contains(s, x) => Contains(Append(s, e), x)
BY DEF Contains

LEMMA ContainsTail ==
    ASSUME NEW S, NEW s \in Seq(S), s # <<>>
    PROVE  /\ Head(s) \in S /\ Tail(s) \in Seq(S)
           /\ \A x : Contains(s, x) => x = Head(s) \/ Contains(Tail(s), x)
<1>1. Head(s) \in S /\ Tail(s) \in Seq(S)
  OBVIOUS
<1>2. ASSUME NEW x, Contains(s, x), x # Head(s)
      PROVE  Contains(Tail(s), x)
  <2>1. PICK i \in 1..Len(s) : s[i] = x
    BY <1>2 DEF Contains
  <2>2. i - 1 \in 1..Len(Tail(s)) /\ Tail(s)[i - 1] = x
    BY <1>2, <2>1
  <2>3. QED
    BY <2>2 DEF Contains
<1>3. QED
  BY <1>1, <1>2

\* Any order of a finite set has every member.
LEMMA OrderHasAll ==
    ASSUME NEW S, IsFiniteSet(S), NEW order \in SetToSeqs(S)
    PROVE  order \in Seq(S) /\ \A x \in S : Contains(order, x)
<1> DEFINE n == Cardinality(S)
<1>1. n \in Nat
  BY FS_CardinalityType
<1>2. order \in [1..n -> S] /\ \A i, j \in 1..n : i # j => order[i] # order[j]
  BY DEF SetToSeqs
<1>3. order \in Injection(1..n, S)
  BY <1>2 DEF Injection, IsInjective
<1>4. Cardinality(1..n) = n
  BY <1>1, FS_Interval
<1>5. order \in Surjection(1..n, S)
  BY <1>3, <1>4, FS_Injection
<1>6. order \in Seq(S) /\ Len(order) = n
  BY <1>1, <1>2
<1>7. QED
  BY <1>5, <1>6 DEF Surjection, Contains

LEMMA InitDeckInv == DeckInit => DeckInv
<1> SUFFICES ASSUME DeckInit PROVE DeckInv
  OBVIOUS
<1>1. DeckTypeOK
  <2>1. 0 \in 0..MaxPlugs
    BY DeckAssumption
  <2>2. added \in Seq(Devices) /\ toCheck \in Seq(Devices)
    BY DEF DeckInit
  <2>3. QED
    BY <2>1, <2>2 DEF DeckInit, DeckTypeOK, MakeDeck
<1>2. QED
  BY <1>1 DEF DeckInit, DeckInv, SeenTo

\* InputPlumber: what comes while the service listens has a signal.
LEMMA PlumberKeepsDeckInv ==
    ASSUME DeckInv, NEW e \in Devices, Plug(e) \/ Unplug(e)
    PROVE  DeckInv'
<1>1. CASE Plug(e)
  <2>1. DeckTypeOK'
    BY <1>1, DeckAssumption DEF Plug, DeckInv, DeckTypeOK
  <2>2. \A d \in Devices : targets'[d] \in {"gamepad", wanted'}
    BY <1>1 DEF Plug, DeckInv, DeckTypeOK
  <2>3. ASSUME NEW d \in present', targets'[d] # wanted' PROVE SeenTo(d)'
    <3>1. CASE d = e
      BY <1>1, <3>1, ContainsAppend DEF Plug, DeckInv, DeckTypeOK, SeenTo
    <3>2. CASE d # e
      <4>1. d \in present /\ targets[d] # wanted /\ d \in Devices
        BY <1>1, <2>3, <3>2 DEF Plug, DeckInv, DeckTypeOK
      <4>2. Contains(added, d) => Contains(added', d)
        BY <1>1, ContainsAppend DEF Plug, DeckInv, DeckTypeOK
      <4>3. QED
        BY <1>1, <4>1, <4>2 DEF Plug, DeckInv, SeenTo
    <3>3. QED
      BY <3>1, <3>2
  <2>4. QED
    BY <1>1, <2>1, <2>2, <2>3 DEF Plug, DeckInv
<1>2. CASE Unplug(e)
  BY <1>2 DEF Unplug, serviceVars, DeckInv, DeckTypeOK, SeenTo
<1>3. QED
  BY <1>1, <1>2

\* The enumeration: a device leaves its list with its targets, or not at all.
LEMMA EnumerationKeepsDeckInv ==
    ASSUME DeckInv, Listen \/ Enumerate \/ CheckNext \/ CheckAsks \/ CheckSets \/ CheckFails
    PROVE  DeckInv'
<1> USE DEF plumberVars
<1>1. CASE Listen
  BY <1>1 DEF Listen, DeckInv, DeckTypeOK, SeenTo
<1>2. CASE Enumerate
  <2>1. PICK order \in SetToSeqs(present) : toCheck' = order
    BY <1>2 DEF Enumerate
  <2>2. IsFiniteSet(present)
    BY DeckAssumption, FS_Subset DEF DeckInv, DeckTypeOK
  <2>3. toCheck' \in Seq(Devices) /\ \A d \in present : Contains(toCheck', d)
    BY <2>1, <2>2, OrderHasAll DEF DeckInv, DeckTypeOK
  <2>4. QED
    BY <1>2, <2>3 DEF Enumerate, DeckInv, DeckTypeOK, SeenTo
<1>3. CASE CheckNext
  <2>1. toCheck = <<>> => \A d : ~Contains(toCheck, d)
    BY DEF Contains
  <2>2. QED
    BY <1>3, <2>1 DEF CheckNext, DeckInv, DeckTypeOK, MakeDeck, SeenTo
<1>4. CASE CheckAsks \/ CheckSets
  <2>1. toCheck # <<>> /\ enumeration = "devices" /\ toCheck \in Seq(Devices)
    BY <1>4 DEF CheckAsks, CheckSets, DeckInv, DeckTypeOK
  <2>2. /\ Head(toCheck) \in Devices /\ Tail(toCheck) \in Seq(Devices)
        /\ \A d : Contains(toCheck, d) => d = Head(toCheck) \/ Contains(Tail(toCheck), d)
    BY <2>1, ContainsTail
  <2>3. DeckTypeOK'
    BY <1>4, <2>2 DEF CheckAsks, CheckSets, Asked, DeckInv, DeckTypeOK, MakeDeck
  <2>4. \A d \in Devices : targets'[d] \in {"gamepad", wanted'}
    BY <1>4, <2>2 DEF CheckAsks, CheckSets, DeckInv, DeckTypeOK
  <2>5. /\ UNCHANGED <<wanted, present, added, makers, listens, enumeration>>
        /\ checking' # "idle" => toCheck' = toCheck
        /\ toCheck' = toCheck \/ (toCheck' = Tail(toCheck) /\ targets'[Head(toCheck)] = wanted)
    BY <1>4, <2>2 DEF CheckAsks, CheckSets, Asked, DeckInv, DeckTypeOK
  <2>6. \A d \in Devices : targets'[d] # wanted => targets[d] # wanted
    BY <1>4, <2>2 DEF CheckAsks, CheckSets, DeckInv, DeckTypeOK
  <2>7. ASSUME NEW d \in present', targets'[d] # wanted' PROVE SeenTo(d)'
    <3>1. d \in present /\ targets[d] # wanted /\ SeenTo(d)
      BY <2>5, <2>6, <2>7 DEF DeckInv, DeckTypeOK
    <3>2. Contains(toCheck, d) => Contains(toCheck', d)
      BY <2>2, <2>5, <2>7
    <3>3. QED
      BY <2>5, <3>1, <3>2 DEF SeenTo
  <2>8. QED
    BY <2>1, <2>3, <2>4, <2>5, <2>7 DEF DeckInv
<1>5. CASE CheckFails
  BY <1>5 DEF CheckFails, DeckInv, DeckTypeOK, SeenTo
<1>6. QED
  BY <1>1, <1>2, <1>3, <1>4, <1>5

\* The signals and their tasks.
LEMMA MakersKeepDeckInv ==
    ASSUME DeckInv,
           \/ TakeSignal
           \/ \E e \in Devices : \/ MakerAsks(e) \/ MakerSets(e)
                                 \/ \E at \in MakeDeck : MakerFails(e, at)
    PROVE  DeckInv'
<1> USE DEF plumberVars
<1>1. CASE TakeSignal
  <2>1. added # <<>> /\ added \in Seq(Devices)
    BY <1>1 DEF TakeSignal, DeckInv, DeckTypeOK
  <2>2. /\ Head(added) \in Devices /\ Tail(added) \in Seq(Devices)
        /\ \A d : Contains(added, d) => d = Head(added) \/ Contains(Tail(added), d)
    BY <2>1, ContainsTail
  <2>3. /\ makers' \in [Devices -> [MakeDeck -> Nat]]
        /\ makers'[Head(added)]["ask"] > 0
        /\ \A d \in Devices : \A m \in MakeDeck : makers[d][m] > 0 => makers'[d][m] > 0
    BY SMTT(30), <1>1, <2>2 DEF TakeSignal, DeckInv, DeckTypeOK, MakeDeck
  <2>4. DeckTypeOK'
    BY <1>1, <2>2, <2>3 DEF TakeSignal, DeckInv, DeckTypeOK
  <2>5. ASSUME NEW d \in present', targets'[d] # wanted' PROVE SeenTo(d)'
    <3>1. d \in Devices /\ SeenTo(d)
      BY <1>1, <2>5 DEF TakeSignal, DeckInv, DeckTypeOK
    <3>2. QED
      BY <1>1, <2>2, <2>3, <3>1 DEF TakeSignal, SeenTo, MakeDeck
  <2>6. QED
    BY <1>1, <2>4, <2>5 DEF TakeSignal, DeckInv
<1>2. ASSUME NEW e \in Devices,
             \/ MakerAsks(e) \/ MakerSets(e)
             \/ \E at \in MakeDeck : MakerFails(e, at)
      PROVE  DeckInv'
  <2>1. \E at \in MakeDeck, to \in MakeDeck \cup {"idle"} :
           makers[e][at] > 0 /\ at # to /\ MoveOn(e, at, to)
    BY <1>2 DEF MakerAsks, MakerSets, MakerFails, MakeDeck, Asked
  <2>2. makers' \in [Devices -> [MakeDeck -> Nat]]
    BY SMTT(30), <2>1 DEF MoveOn, DeckInv, DeckTypeOK, MakeDeck
  <2>3. \A d \in Devices : d # e => makers'[d] = makers[d]
    BY <2>1 DEF MoveOn, DeckInv, DeckTypeOK
  <2>4. targets' \in [Devices -> {"gamepad", wanted}] /\ targets \in [Devices -> {"gamepad", wanted}]
    BY <1>2 DEF MakerAsks, MakerSets, MakerFails, DeckInv, DeckTypeOK
  <2>5. UNCHANGED <<wanted, present, plugs, listens, added, enumeration, toCheck, checking>>
    BY <1>2 DEF MakerAsks, MakerSets, MakerFails
  <2>6. \A d \in Devices : d # e => targets'[d] = targets[d]
    BY <1>2 DEF MakerAsks, MakerSets, MakerFails, DeckInv, DeckTypeOK
  <2>7. e \in present => targets'[e] = wanted \/ makers'[e]["set"] > 0
    <3>1. CASE MakerAsks(e)
      BY <1>2, <3>1, <2>4 DEF MakerAsks, MoveOn, Asked, DeckInv, DeckTypeOK, MakeDeck
    <3>2. CASE MakerSets(e)
      BY <1>2, <3>2 DEF MakerSets, DeckInv, DeckTypeOK
    <3>3. QED
      BY <1>2, <3>1, <3>2 DEF MakerFails
  <2>8. DeckTypeOK'
    BY <2>2, <2>4, <2>5 DEF DeckInv, DeckTypeOK
  <2>9. ASSUME NEW d \in present', targets'[d] # wanted' PROVE SeenTo(d)'
    BY <2>3, <2>5, <2>6, <2>7, <2>9 DEF DeckInv, DeckTypeOK, SeenTo
  <2>10. QED
    BY <2>4, <2>5, <2>8, <2>9 DEF DeckInv
<1>3. QED
  BY <1>1, <1>2

\* The invariant holds in every state of InputPlumber.
THEOREM DeckInvariant == DeckSpec => []DeckInv
<1>1. DeckInv /\ UNCHANGED deckVars => DeckInv'
  BY DEF DeckInv, DeckTypeOK, SeenTo, deckVars, plumberVars, serviceVars
<1>2. DeckInv /\ DeckNext => DeckInv'
  BY PlumberKeepsDeckInv, EnumerationKeepsDeckInv, MakersKeepDeckInv DEF DeckNext
<1>3. QED
  BY <1>1, <1>2, InitDeckInv, PTL DEF DeckSpec

\* Whatever came, went and came back while the service asked: when nothing is
\* left to do, only what a failed enumeration had not reached is without its
\* targets.
THEOREM DevicesAreAlwaysDeck == DeckSpec => []DevicesAreDeck
<1>1. DeckInv => DevicesAreDeck
  <2> SUFFICES ASSUME DeckInv, DecksSettled, NEW d \in present
               PROVE  targets[d] = wanted \/ (enumeration = "failed" /\ Contains(toCheck, d))
    BY DEF DevicesAreDeck
  <2>1. ~Contains(added, d)
    BY DEF DecksSettled, Contains
  <2>2. makers[d]["ask"] = 0 /\ makers[d]["set"] = 0
    BY DEF DecksSettled, DeckInv, DeckTypeOK, MakeDeck
  <2>3. QED
    BY <2>1, <2>2 DEF DeckInv, SeenTo, DecksSettled
<1>2. QED
  BY <1>1, DeckInvariant, PTL

-----------------------------------------------------------------------------
(* Lifecycle.                                                              *)

\* A task fails only when it has run.
FailedHasRun ==
    \A t \in LifeTasks :
       runResult[t] = "error" => erred /\ task[t] \in {"shutdown", "ended", "joined"}

\* What the start has not come to has no task.
StartedInOrder ==
    stage = "start" =>
       /\ begun < Len(LifeStart)
       /\ \A k \in begun + 1 .. Len(LifeStart) :
             LifeStart[k] \in LifeTasks => task[LifeStart[k]] = "none"
       /\ begun >= 4 => task["ftrace"] # "none"

\* Ftrace is there from the start on, and its instance goes with its shutdown,
\* unless that fails.
InstanceGoes ==
    /\ stage \in {"loop", "stop"} => task["ftrace"] # "none"
    /\ stage \in {"start", "loop", "stop"} /\ instance
          => task["ftrace"] \in {"none", "running", "shutdown"} \/ runResult["ftrace"] = "error"

\* A failure is in the result of the loop, or in that of a task that is still
\* to be joined.
FailureIsKept ==
    stage \in {"start", "loop", "stop"} =>
       /\ exit = "error" => erred
       /\ erred => \/ exit = "error"
                   \/ \E t \in LifeTasks : runResult[t] = "error" /\ task[t] # "joined"
       /\ \A t \in LifeTasks :
             runResult[t] = "error" /\ task[t] = "joined" => exit = "error"

LifeInv ==
    /\ LifeTypeOK
    /\ FailedHasRun /\ StartedInOrder /\ InstanceGoes /\ FailureIsKept
    /\ stage \in {"start", "loop"} => ~orderly /\ exit = "ok"
    /\ StopIsOrderly

LEMMA StartFacts ==
    /\ Len(LifeStart) = 8
    /\ \A k \in 1..8 : /\ LifeStart[k] = "naming" <=> k = 8
                       /\ LifeStart[k] = "ftrace" <=> k = 4
    /\ \A j, k \in 1..8 : LifeStart[j] = LifeStart[k] => j = k
    /\ "naming" \in LifeTasks /\ "ftrace" \in LifeTasks
BY DEF LifeStart, LifeTasks, LifeServices

\* The parts of the type invariant, which the provers take one at a time.
LifeStateOK == stage \in {"start", "loop", "stop", "exited"} /\ exit \in {"ok", "error"}
LifeFlagsOK ==
    /\ wantsInhibitor \in BOOLEAN /\ instance \in BOOLEAN
    /\ erred \in BOOLEAN /\ orderly \in BOOLEAN
LifeTasksOK ==
    /\ task \in [LifeTasks -> {"none", "running", "shutdown", "ended", "joined"}]
    /\ runResult \in [LifeTasks -> {"ok", "error"}]

LEMMA LifeTypeParts ==
    /\ LifeTypeOK => LifeStateOK /\ LifeFlagsOK /\ LifeTasksOK
    /\ /\ LifeStateOK /\ LifeFlagsOK /\ LifeTasksOK
       /\ begun \in 0..Len(LifeStart) /\ cancelled \subseteq LifeServices
       /\ lives \in 1..MaxLives /\ lifeFaults \in 0..MaxLifeFaults
       => LifeTypeOK
BY DEF LifeStateOK, LifeFlagsOK, LifeTasksOK, LifeTypeOK

LEMMA LifeTypesStay ==
    ASSUME LifeTypeOK, LifeNext, stage = "start" => begun < Len(LifeStart)
    PROVE  LifeTypeOK'
<1> USE DEF LifeTypeOK, LifeNext, NoFault, Fault, MakesInstance, Alive, AfterRun, Undoes,
    LeaveLoop, BeginStep, BeginFails, RunFails, RunCancelled, ShutsDown, ShutdownFails,
    Named, NameRefused, JoinInLoop, JoinAtEnd, Terminate, LoopFails, DisableInhibitor,
    EnableInhibitor, Exit, KillDaemon, NextLife
<1>1. LifeStateOK'
  BY DEF LifeStateOK
<1>2. LifeFlagsOK'
  BY DEF LifeFlagsOK
<1>3. task' \in [LifeTasks -> {"none", "running", "shutdown", "ended", "joined"}]
  BY DEF LifeTasks
<1>4. runResult' \in [LifeTasks -> {"ok", "error"}]
  BY DEF LifeTasks
<1>5. cancelled' \subseteq LifeServices
  <2>1. \/ cancelled' \in {cancelled, LifeServices, {}}
        \/ \E s \in LifeServices : cancelled' = cancelled \cup {s}
    OBVIOUS
  <2>2. QED
    BY ONLY <2>1, LifeTypeOK DEF LifeTypeOK
<1>6. lives' \in 1..MaxLives
  <2>1. lives' = lives \/ (lives < MaxLives /\ lives' = lives + 1)
    OBVIOUS
  <2>2. QED
    BY ONLY <2>1, LifeTypeOK, LifeAssumption DEF LifeTypeOK
<1>7. lifeFaults' \in 0..MaxLifeFaults
  <2>1. lifeFaults' = lifeFaults \/ (lifeFaults < MaxLifeFaults /\ lifeFaults' = lifeFaults + 1)
    OBVIOUS
  <2>2. QED
    BY ONLY <2>1, LifeTypeOK, LifeAssumption DEF LifeTypeOK
<1>8. begun' \in 0..Len(LifeStart)
  <2>1. begun' \in {begun, 0} \/ (stage = "start" /\ begun' = begun + 1)
    OBVIOUS
  <2>2. QED
    BY ONLY <2>1, LifeTypeOK, StartFacts, stage = "start" => begun < Len(LifeStart)
       DEF LifeTypeOK
<1>9. QED
  BY ONLY <1>1, <1>2, <1>3, <1>4, <1>5, <1>6, <1>7, <1>8
     DEF LifeStateOK, LifeFlagsOK, LifeTypeOK

LEMMA InitLifeInv == LifeInit => LifeInv
<1> SUFFICES ASSUME LifeInit PROVE LifeInv
  OBVIOUS
<1>1. lives \in 1..MaxLives /\ lifeFaults \in 0..MaxLifeFaults /\ begun \in 0..Len(LifeStart)
  BY LifeAssumption, StartFacts DEF LifeInit
<1>2. LifeTypeOK
  <2>1. LifeStateOK /\ LifeFlagsOK /\ LifeTasksOK /\ cancelled \subseteq LifeServices
    BY DEF LifeInit, LifeStateOK, LifeFlagsOK, LifeTasksOK
  <2>2. QED
    BY <1>1, <2>1, LifeTypeParts
<1>3. FailedHasRun /\ StartedInOrder /\ InstanceGoes /\ FailureIsKept
  BY StartFacts DEF LifeInit, FailedHasRun, StartedInOrder, InstanceGoes, FailureIsKept
<1>4. QED
  BY <1>2, <1>3 DEF LifeInit, LifeInv, StopIsOrderly

\* The start.
LEMMA StartKeepsLifeInv ==
    ASSUME LifeInv, BeginStep \/ BeginFails
    PROVE  LifeInv'
<1> USE LifeAssumption DEF NoFault, Fault, MakesInstance
<1>1. CASE BeginStep
  <2> DEFINE step == LifeStart[begun + 1]
  <2>1. begun \in 0..7
    <3>1. begun \in 0..Len(LifeStart) /\ begun < Len(LifeStart)
      BY <1>1 DEF LifeInv, LifeTypeOK, BeginStep, StartedInOrder
    <3>2. QED
      BY <3>1, StartFacts
  <2>2. step \in LifeTasks => task[step] = "none"
    <3>1. begun + 1 \in begun + 1 .. Len(LifeStart)
      BY <2>1, StartFacts
    <3>2. QED
      BY <1>1, <3>1 DEF LifeInv, BeginStep, StartedInOrder
  <2>3. LifeTypeOK'
    BY LifeTypesStay DEF LifeInv, StartedInOrder, LifeNext
  <2>4. FailedHasRun'
    BY <1>1, <2>2 DEF BeginStep, LifeInv, LifeTypeOK, FailedHasRun
  <2>5. task["naming"]' = task["naming"] \/ step = "naming"
    BY <1>1, LifeTypeParts, StartFacts DEF BeginStep, LifeInv, LifeTasksOK
  <2>6. /\ step = "ftrace" <=> begun = 3
        /\ step = "naming" <=> begun = 7
    BY <2>1, StartFacts
  <2>7. \A t \in LifeTasks : t # step => task'[t] = task[t]
    BY <1>1, LifeTypeParts DEF BeginStep, LifeInv, LifeTasksOK
  <2>8. step = "ftrace" => task'["ftrace"] = "running"
    BY <1>1, StartFacts, LifeTypeParts DEF BeginStep, LifeInv, LifeTasksOK
  <2>9. begun' = begun + 1 /\ stage = "start" /\ stage' = IF begun = 7 THEN "loop" ELSE "start"
    BY <1>1, <2>6 DEF BeginStep
  <2>10. StartedInOrder'
    <3> SUFFICES ASSUME stage' = "start" PROVE StartedInOrder'
      BY DEF StartedInOrder
    <3>1. begun' < Len(LifeStart)
      BY <2>1, <2>9, StartFacts
    <3>2. ASSUME NEW k \in begun' + 1 .. Len(LifeStart), LifeStart[k] \in LifeTasks
          PROVE  task'[LifeStart[k]] = "none"
      <4>1. k \in 1..8 /\ k \in begun + 1 .. Len(LifeStart) /\ k # begun + 1
        BY <3>2, <2>1, <2>9, StartFacts
      <4>2. LifeStart[k] # step
        BY <4>1, <2>1, StartFacts
      <4>3. QED
        BY <3>2, <4>1, <4>2, <2>7, <2>9 DEF LifeInv, StartedInOrder
    <3>3. begun' >= 4 => task'["ftrace"] # "none"
      BY <2>1, <2>6, <2>7, <2>8, <2>9, StartFacts DEF LifeInv, StartedInOrder
    <3>4. QED
      BY <3>1, <3>2, <3>3 DEF StartedInOrder
  <2>11. InstanceGoes'
    <3>1. begun = 7 => task'["ftrace"] # "none"
      BY <2>1, <2>6, <2>7, <2>9, StartFacts DEF LifeInv, StartedInOrder
    <3>2. step # "ftrace" => instance' = instance /\ task'["ftrace"] = task["ftrace"]
      BY <1>1, <2>7, StartFacts, LifeTypeParts DEF BeginStep, LifeInv, LifeFlagsOK
    <3>3. runResult' = runResult
      BY <1>1 DEF BeginStep
    <3>4. QED
      BY <2>8, <2>9, <3>1, <3>2, <3>3 DEF LifeInv, InstanceGoes
  <2>12. FailureIsKept'
    BY <1>1, <2>2 DEF BeginStep, LifeInv, LifeTypeOK, FailureIsKept
  <2>13. QED
    BY <1>1, <2>3, <2>4, <2>10, <2>11, <2>12 DEF BeginStep, LifeInv, StopIsOrderly
<1>2. CASE BeginFails
  <2>1. LifeTypeOK'
    BY <1>2, LifeTypesStay DEF LifeInv, StartedInOrder, LifeNext
  <2>2. FailedHasRun' /\ StartedInOrder' /\ InstanceGoes' /\ FailureIsKept'
    BY <1>2 DEF BeginFails, LifeInv, FailedHasRun, StartedInOrder, InstanceGoes, FailureIsKept
  <2>3. QED
    BY <1>2, <2>1, <2>2 DEF BeginFails, LifeInv, StopIsOrderly
<1>3. QED
  BY <1>1, <1>2

\* The task of a service: what it returns is kept until it is joined.
LEMMA ServiceKeepsLifeInv ==
    ASSUME LifeInv, NEW s \in LifeServices,
           RunFails(s) \/ RunCancelled(s) \/ ShutsDown(s) \/ ShutdownFails(s)
    PROVE  LifeInv'
<1> USE DEF NoFault, Fault, Alive
<1>1. s \in LifeTasks /\ s # "naming" /\ LifeTasksOK /\ LifeFlagsOK
  BY LifeTypeParts DEF LifeTasks, LifeServices, LifeInv
<1>2. LifeTypeOK'
  BY LifeTypesStay DEF LifeInv, StartedInOrder, LifeNext
<1>3. /\ stage \in {"start", "loop", "stop"} /\ task[s] \in {"running", "shutdown"}
      /\ task' = [task EXCEPT ![s] = task'[s]] /\ task'[s] \in {"shutdown", "ended"}
      /\ UNCHANGED <<stage, begun, exit, orderly>>
  BY <1>1 DEF RunFails, RunCancelled, ShutsDown, ShutdownFails, LifeTasksOK, AfterRun
<1>4. \/ runResult' = runResult /\ erred' = erred
      \/ runResult' = [runResult EXCEPT ![s] = "error"] /\ erred'
  BY DEF RunFails, RunCancelled, ShutsDown, ShutdownFails
<1>5. /\ instance' => instance
      /\ s = "ftrace" /\ instance' => task'[s] = "shutdown" \/ runResult'[s] = "error"
  <2>1. CASE RunFails(s) \/ RunCancelled(s)
    <3>1. instance' = instance /\ task' = [task EXCEPT ![s] = AfterRun(s)]
      BY <2>1 DEF RunFails, RunCancelled
    <3>2. s = "ftrace" => task'[s] = "shutdown"
      BY <1>1, <3>1 DEF LifeTasksOK, AfterRun, Undoes
    <3>3. QED
      BY <3>1, <3>2
  <2>2. CASE ShutsDown(s)
    BY <2>2 DEF ShutsDown
  <2>3. CASE ShutdownFails(s)
    BY <1>1, <2>3 DEF ShutdownFails, LifeTasksOK
  <2>4. QED
    BY <2>1, <2>2, <2>3
<1>6. FailedHasRun'
  BY <1>1, <1>3, <1>4 DEF LifeInv, LifeTasksOK, FailedHasRun
<1>7. StartedInOrder'
  <2>1. \A t \in LifeTasks : task'[t] = "none" <=> task[t] = "none"
    BY <1>1, <1>3 DEF LifeTasksOK
  <2>2. QED
    BY <1>3, <2>1, StartFacts DEF LifeInv, StartedInOrder
<1>8. InstanceGoes'
  <2>1. task'["ftrace"] # "none" <=> task["ftrace"] # "none"
    BY <1>1, <1>3, StartFacts DEF LifeTasksOK
  <2>2. s # "ftrace" => task'["ftrace"] = task["ftrace"]
    BY <1>1, <1>3, StartFacts DEF LifeTasksOK
  <2>3. runResult["ftrace"] = "error" => runResult'["ftrace"] = "error"
    BY <1>1, <1>4, StartFacts DEF LifeTasksOK
  <2>4. QED
    BY <1>3, <1>5, <2>1, <2>2, <2>3 DEF LifeInv, InstanceGoes
<1>9. FailureIsKept'
  <2>1. \A t \in LifeTasks : runResult[t] = "error" => runResult'[t] = "error"
    BY <1>1, <1>4 DEF LifeTasksOK
  <2>2. \A t \in LifeTasks : task'[t] = "joined" <=> task[t] = "joined" /\ t # s
    BY <1>1, <1>3 DEF LifeTasksOK
  <2>3. \A t \in LifeTasks : t # s => runResult'[t] = runResult[t]
    BY <1>1, <1>4 DEF LifeTasksOK
  <2>4. erred' # erred => runResult'[s] = "error" /\ erred'
    BY <1>1, <1>4 DEF LifeTasksOK
  <2>5. task[s] # "joined"
    BY <1>3
  <2>6. QED
    BY <1>1, <1>3, <1>4, <2>1, <2>2, <2>3, <2>4, <2>5 DEF LifeInv, FailureIsKept
<1>10. QED
  BY <1>2, <1>3, <1>6, <1>7, <1>8, <1>9 DEF LifeInv, StopIsOrderly

\* The task that takes the name, and the tasks of the inhibitors in the loop.
LEMMA TaskKeepsLifeInv ==
    ASSUME LifeInv,
           \/ Named \/ NameRefused \/ EnableInhibitor
           \/ \E s \in LifeServices : DisableInhibitor(s)
    PROVE  LifeInv'
<1> USE LifeAssumption, StartFacts DEF NoFault, Fault, Alive
<1>1. CASE Named \/ NameRefused
  <2>1. LifeTypeOK'
    BY LifeTypesStay DEF LifeInv, StartedInOrder, LifeNext
  <2>2. FailedHasRun' /\ StartedInOrder' /\ InstanceGoes'
    BY <1>1 DEF Named, NameRefused, LifeInv, LifeTypeOK, FailedHasRun, StartedInOrder,
                InstanceGoes
  <2>3. FailureIsKept'
    BY <1>1 DEF Named, NameRefused, LifeInv, LifeTypeOK, FailedHasRun, FailureIsKept
  <2>4. QED
    BY <1>1, <2>1, <2>2, <2>3 DEF Named, NameRefused, LifeInv, StopIsOrderly
<1>2. CASE EnableInhibitor
  <2>1. PICK s \in {"inhibitor 1", "inhibitor 2"} :
           task[s] = "none" /\ task' = [task EXCEPT ![s] = "running"]
    BY <1>2 DEF EnableInhibitor
  <2>2. s \in LifeTasks /\ s # "ftrace"
    BY DEF LifeTasks, LifeServices
  <2>3. LifeTypeOK'
    BY LifeTypesStay DEF LifeInv, StartedInOrder, LifeNext
  <2>4. FailedHasRun' /\ StartedInOrder' /\ InstanceGoes'
    BY ZenonT(40), <1>2, <2>1, <2>2
       DEF EnableInhibitor, LifeInv, LifeTypeOK, FailedHasRun,
                            StartedInOrder, InstanceGoes
  <2>5. FailureIsKept'
    BY ZenonT(40), <1>2, <2>1, <2>2
       DEF EnableInhibitor, LifeInv, LifeTypeOK, FailureIsKept
  <2>6. QED
    BY <1>2, <2>3, <2>4, <2>5 DEF EnableInhibitor, LifeInv, StopIsOrderly
<1>3. CASE \E s \in LifeServices : DisableInhibitor(s)
  <2>1. LifeTypeOK'
    BY <1>3, LifeTypesStay DEF LifeInv, StartedInOrder, LifeNext
  <2>2. UNCHANGED <<stage, begun, task, runResult, exit, instance, orderly, erred>>
    BY <1>3 DEF DisableInhibitor
  <2>3. FailedHasRun' /\ StartedInOrder' /\ InstanceGoes' /\ FailureIsKept'
    BY <2>2 DEF LifeInv, FailedHasRun, StartedInOrder, InstanceGoes, FailureIsKept
  <2>4. QED
    BY <2>1, <2>2, <2>3 DEF LifeInv, StopIsOrderly
<1>4. QED
  BY <1>1, <1>2, <1>3

\* The loop and its end: a result is joined by the one or by the other.
LEMMA LoopKeepsLifeInv ==
    ASSUME LifeInv,
           \/ Terminate \/ LoopFails \/ Exit
           \/ \E t \in LifeTasks : JoinInLoop(t) \/ JoinAtEnd(t)
    PROVE  LifeInv'
<1> USE LifeAssumption, StartFacts DEF NoFault, Fault, LeaveLoop
<1>1. CASE Terminate \/ LoopFails
  <2>1. LifeTypeOK'
    BY LifeTypesStay DEF LifeInv, StartedInOrder, LifeNext
  <2>2. FailedHasRun' /\ StartedInOrder' /\ InstanceGoes'
    BY <1>1 DEF Terminate, LoopFails, LifeInv, LifeTypeOK, FailedHasRun, StartedInOrder,
                InstanceGoes
  <2>3. FailureIsKept'
    BY <1>1 DEF Terminate, LoopFails, LifeInv, FailureIsKept
  <2>4. QED
    BY <1>1, <2>1, <2>2, <2>3 DEF Terminate, LoopFails, LifeInv, StopIsOrderly
<1>2. ASSUME NEW t \in LifeTasks, JoinInLoop(t) \/ JoinAtEnd(t)
      PROVE  LifeInv'
  <2>1. LifeTypeOK'
    BY LifeTypesStay DEF LifeInv, StartedInOrder, LifeNext
  <2>2. FailedHasRun' /\ StartedInOrder' /\ InstanceGoes'
    BY <1>2 DEF JoinInLoop, JoinAtEnd, LifeInv, LifeTypeOK, FailedHasRun, StartedInOrder,
                InstanceGoes
  <2>3. FailureIsKept'
    BY <1>2 DEF JoinInLoop, JoinAtEnd, LifeInv, LifeTypeOK, FailedHasRun, FailureIsKept
  <2>4. QED
    BY <1>2, <2>1, <2>2, <2>3 DEF JoinInLoop, JoinAtEnd, LifeInv, StopIsOrderly
<1>3. CASE Exit
  <2>1. /\ exit = "error" <=> erred
        /\ instance => exit = "error"
    BY <1>3 DEF Exit, LifeInv, LifeTypeOK, FailedHasRun, InstanceGoes, FailureIsKept
  <2>2. QED
    BY <1>3, <2>1 DEF Exit, LifeInv, LifeTypeOK, FailedHasRun, StartedInOrder, InstanceGoes,
                      FailureIsKept, StopIsOrderly
<1>4. QED
  BY <1>1, <1>2, <1>3

\* The process.
LEMMA ProcessKeepsLifeInv ==
    ASSUME LifeInv, KillDaemon \/ NextLife
    PROVE  LifeInv'
<1> USE LifeAssumption, StartFacts DEF NoFault, Fault, Alive
<1>1. CASE KillDaemon
  <2>1. LifeTypeOK'
    BY <1>1, LifeTypesStay DEF LifeInv, StartedInOrder, LifeNext
  <2>2. FailedHasRun' /\ StartedInOrder' /\ InstanceGoes' /\ FailureIsKept'
    BY <1>1 DEF KillDaemon, LifeInv, FailedHasRun, StartedInOrder, InstanceGoes, FailureIsKept
  <2>3. QED
    BY <1>1, <2>1, <2>2 DEF KillDaemon, LifeInv, StopIsOrderly
<1>2. CASE NextLife
  <2>1. LifeTypeOK'
    BY LifeTypesStay DEF LifeInv, StartedInOrder, LifeNext
  <2>2. QED
    BY <1>2, <2>1 DEF NextLife, LifeInv, FailedHasRun, StartedInOrder, InstanceGoes,
                      FailureIsKept, StopIsOrderly
<1>3. QED
  BY <1>1, <1>2

\* The invariant holds in every state of Lifecycle.
THEOREM LifeInvariant == LifeSpec => []LifeInv
<1>1. LifeInv /\ UNCHANGED lifeVars => LifeInv'
  BY DEF LifeInv, LifeTypeOK, FailedHasRun, StartedInOrder, InstanceGoes, FailureIsKept,
         StopIsOrderly, lifeVars
<1>2. LifeInv /\ LifeNext => LifeInv'
  BY StartKeepsLifeInv, ServiceKeepsLifeInv, TaskKeepsLifeInv, LoopKeepsLifeInv,
     ProcessKeepsLifeInv DEF LifeNext
<1>3. QED
  BY <1>1, <1>2, InitLifeInv, PTL DEF LifeSpec

\* A daemon that left its loop has undone all that its services did, unless it
\* says that something failed, and says so only then.
THEOREM StopIsAlwaysOrderly == LifeSpec => []StopIsOrderly
<1>1. LifeInv => StopIsOrderly
  BY DEF LifeInv
<1>2. QED
  BY <1>1, LifeInvariant, PTL

-----------------------------------------------------------------------------
(* UdevEvents: the socket has the events after those that were read; what  *)
(* may be forgotten of its readiness was known when it was read empty.     *)

SocketHasTheRest ==
    /\ Len(socket) <= Len(usbEvents)
    /\ \A k \in 1..Len(socket) : socket[k] = EventsRead + k

ReadyIsKnown ==
    /\ monitor \in {"read", "clear"} => readable
    /\ monitor = "clear" /\ reports = 0 => socket = <<>>
    /\ monitor = "wait" /\ ~readable => socket = <<>>

TaskIsTold == udevService = "over" /\ monitor # "ended" => shutdownSent

IncreasingTold == \A j, k \in 1..Len(Told) : j < k => Told[j] < Told[k]

ToldIsRead ==
    /\ \A k \in 1..Len(Told) : Told[k] \in 1..EventsRead /\ IsOverCurrent(Told[k])
    /\ \A e \in 1..EventsRead : IsOverCurrent(e) => \E k \in 1..Len(Told) : Told[k] = e

ReportsAreEvents == reports <= Len(usbEvents)

UdevInv ==
    /\ UdevTypeOK
    /\ SocketHasTheRest /\ ReadyIsKnown /\ TaskIsTold /\ ReportsAreEvents
    /\ udevService = "run" /\ monitor # "ended" => IncreasingTold /\ ToldIsRead

\* The parts of the types that arithmetic and sequences need.
LEMMA UdevTypeParts ==
    ASSUME UdevTypeOK
    PROVE  /\ usbEvents \in Seq(UsbKinds) /\ Len(usbEvents) \in 0..MaxUsbEvents
           /\ socket \in Seq(Places) /\ Len(socket) \in Nat
           /\ evPipe \in Seq(Places) /\ Len(evPipe) \in Nat
           /\ announced \in Seq(Places) /\ Len(announced) \in Nat
           /\ Told \in Seq(Places) /\ Len(Told) = Len(announced) + Len(evPipe)
           /\ MaxUsbEvents \in Nat /\ MaxUdevFaults \in Nat
           /\ Len(usbEvents) \in Nat
<1>1. usbEvents \in Seq(UsbKinds) /\ socket \in Seq(Places) /\ evPipe \in Seq(Places)
      /\ announced \in Seq(Places) /\ Len(usbEvents) <= MaxUsbEvents
  BY DEF UdevTypeOK
<1>2. MaxUsbEvents \in Nat /\ MaxUdevFaults \in Nat
  BY UdevAssumption
<1>3. QED
  BY <1>1, <1>2 DEF Told

LEMMA InitUdevInv == UdevInit => UdevInv
<1> SUFFICES ASSUME UdevInit PROVE UdevInv
  OBVIOUS
<1>1. UdevTypeOK
  <2>1. /\ usbEvents \in Seq(UsbKinds) /\ Len(usbEvents) <= MaxUsbEvents
        /\ socket \in Seq(Places) /\ evPipe \in Seq(Places) /\ announced \in Seq(Places)
        /\ reports \in 0..MaxUsbEvents /\ udevFaults \in 0..MaxUdevFaults
    BY UdevAssumption DEF UdevInit
  <2>2. QED
    BY <2>1 DEF UdevInit, UdevTypeOK
<1>2. Told = <<>> /\ Len(Told) = 0 /\ EventsRead = 0
  BY DEF UdevInit, Told, EventsRead
<1>3. QED
  BY <1>1, <1>2 DEF UdevInit, UdevInv, SocketHasTheRest, ReadyIsKnown, TaskIsTold,
     IncreasingTold, ToldIsRead, ReportsAreEvents

\* An event comes: it is the last of the socket.
LEMMA UsbEventKeepsInv ==
    ASSUME UdevInv, NEW kind \in UsbKinds, UsbEvent(kind)
    PROVE  UdevInv'
<1>0. /\ usbEvents \in Seq(UsbKinds) /\ Len(usbEvents) \in Nat /\ Len(usbEvents) <= MaxUsbEvents
      /\ socket \in Seq(Places) /\ Len(socket) \in Nat
      /\ evPipe \in Seq(Places) /\ Len(evPipe) \in Nat
      /\ announced \in Seq(Places) /\ Len(announced) \in Nat
      /\ Told \in Seq(Places) /\ Len(Told) = Len(announced) + Len(evPipe)
      /\ MaxUsbEvents \in Nat /\ MaxUdevFaults \in Nat
  BY UdevTypeParts DEF UdevInv
<1>1. UdevTypeOK
  BY DEF UdevInv
<1>2. /\ usbEvents' = Append(usbEvents, kind) /\ Len(usbEvents') = Len(usbEvents) + 1
      /\ socket' = Append(socket, Len(usbEvents) + 1) /\ Len(socket') = Len(socket) + 1
      /\ Len(usbEvents) < MaxUsbEvents
      /\ readable' = TRUE /\ reports' = reports + 1
      /\ UNCHANGED <<monitor, shutdownSent, udevService, evPipe, announced, udevFaults>>
  BY <1>0, <1>1 DEF UsbEvent
<1>3. Len(usbEvents) + 1 \in Places
  BY <1>0, <1>1, <1>2 DEF Places
<1>4. reports \in Nat /\ reports <= Len(usbEvents)
  BY <1>0, <1>1 DEF UdevInv, UdevTypeOK, ReportsAreEvents
<1>5. UdevTypeOK'
  <2>1. usbEvents' \in Seq(UsbKinds) /\ Len(usbEvents') <= MaxUsbEvents
    BY <1>0, <1>1, <1>2
  <2>2. socket' \in Seq(Places)
    BY <1>0, <1>1, <1>2, <1>3
  <2>3. reports' \in 0..MaxUsbEvents
    BY <1>0, <1>1, <1>2, <1>4
  <2>4. QED
    BY <1>0, <1>1, <1>2, <2>1, <2>2, <2>3 DEF UdevTypeOK
<1>6. EventsRead' = EventsRead /\ Told' = Told
  BY <1>0, <1>1, <1>2 DEF EventsRead, Told
<1>7. SocketHasTheRest'
  <2>1. SocketHasTheRest
    BY DEF UdevInv
  <2>2. ASSUME NEW k \in 1..Len(socket') PROVE socket'[k] = EventsRead + k
    <3>1. CASE k \in 1..Len(socket)
      BY <1>0, <1>1, <1>2, <2>1, <3>1 DEF SocketHasTheRest
    <3>2. CASE k = Len(socket) + 1
      BY <1>0, <1>1, <1>2, <2>1, <3>2 DEF SocketHasTheRest, EventsRead
    <3>3. QED
      BY <1>0, <1>1, <1>2, <3>1, <3>2
  <2>3. QED
    BY <1>0, <1>1, <1>2, <1>6, <2>1, <2>2 DEF SocketHasTheRest
<1>8. ReadyIsKnown' /\ TaskIsTold'
  BY <1>0, <1>2, <1>4 DEF UdevInv, ReadyIsKnown, TaskIsTold
<1>9. ReportsAreEvents'
  BY <1>0, <1>1, <1>2, <1>4 DEF ReportsAreEvents
<1>10. IncreasingTold /\ ToldIsRead => IncreasingTold' /\ ToldIsRead'
  <2>1. IncreasingTold => IncreasingTold'
    BY <1>6 DEF IncreasingTold
  <2>2. \A e \in 1..EventsRead : IsOverCurrent(e)' <=> IsOverCurrent(e)
    <3>1. EventsRead <= Len(usbEvents) /\ EventsRead \in Nat
      BY <1>0, <1>1 DEF UdevInv, SocketHasTheRest, EventsRead
    <3>2. ASSUME NEW e \in 1..EventsRead PROVE usbEvents'[e] = usbEvents[e]
      BY <1>0, <1>2, <3>1
    <3>3. QED
      BY <3>2 DEF IsOverCurrent
  <2>3. ToldIsRead => ToldIsRead'
    BY <1>6, <2>2 DEF ToldIsRead
  <2>4. QED
    BY <2>1, <2>3
<1>11. QED
  BY <1>0, <1>2, <1>5, <1>7, <1>8, <1>9, <1>10 DEF UdevInv

\* Putting something at the end of the second of two sequences, or taking the
\* first of the second to the end of the first.
LEMMA ConcatAppend ==
    ASSUME NEW S, NEW s \in Seq(S), NEW t \in Seq(S), NEW e \in S
    PROVE  s \o Append(t, e) = Append(s \o t, e)
OBVIOUS

LEMMA AppendAdds ==
    ASSUME NEW S, NEW s \in Seq(S), NEW e \in S
    PROVE  /\ Append(s, e) \in Seq(S) /\ Len(Append(s, e)) = Len(s) + 1 /\ Len(s) \in Nat
           /\ Append(s, e)[Len(s) + 1] = e
           /\ \A k \in 1..Len(s) : Append(s, e)[k] = s[k]
OBVIOUS

LEMMA HeadTail ==
    ASSUME NEW S, NEW s \in Seq(S), s # <<>>
    PROVE  /\ Len(s) \in Nat /\ 1 <= Len(s) /\ Head(s) = s[1] /\ Head(s) \in S
           /\ Tail(s) \in Seq(S) /\ Len(Tail(s)) = Len(s) - 1
           /\ \A k \in 1..Len(Tail(s)) : Tail(s)[k] = s[k + 1]
OBVIOUS

\* An event is read: if it is to be announced, it is the last that is told.
LEMMA ReadKeepsInv ==
    ASSUME UdevInv, ReadUsbEvent
    PROVE  UdevInv'
<1>1. UdevTypeOK /\ SocketHasTheRest /\ ReadyIsKnown /\ TaskIsTold /\ ReportsAreEvents
  BY DEF UdevInv
<1>2. /\ socket \in Seq(Places) /\ evPipe \in Seq(Places) /\ announced \in Seq(Places)
      /\ Told \in Seq(Places) /\ Len(usbEvents) \in Nat
  BY <1>1, UdevTypeParts
<1>3. PICK e : e = Head(socket)
  OBVIOUS
<1>4. /\ socket # <<>> /\ socket' = Tail(socket) /\ monitor = "read"
      /\ \/ evPipe' = evPipe /\ (usbEvents[e] # "over current" \/ udevService # "run")
         \/ evPipe' = Append(evPipe, e) /\ usbEvents[e] = "over current" /\ udevService = "run"
      /\ monitor' \in {"read", "ended"}
      /\ UNCHANGED <<usbEvents, readable, reports, shutdownSent, udevService, announced,
                     udevFaults>>
  BY <1>3 DEF ReadUsbEvent
<1>5. /\ Len(socket) \in Nat /\ 1 <= Len(socket) /\ e = socket[1] /\ e \in Places
      /\ socket' \in Seq(Places) /\ Len(socket') = Len(socket) - 1
      /\ \A k \in 1..Len(socket') : socket'[k] = socket[k + 1]
  BY <1>2, <1>3, <1>4, HeadTail
<1>6. /\ e = EventsRead + 1 /\ EventsRead \in Nat
      /\ EventsRead' = EventsRead + 1
  <2>1. Len(socket) <= Len(usbEvents) /\ socket[1] = EventsRead + 1
    BY <1>1, <1>5 DEF SocketHasTheRest
  <2>2. usbEvents' = usbEvents
    BY <1>4
  <2>3. QED
    BY <1>2, <1>5, <2>1, <2>2 DEF EventsRead
<1>7. evPipe' \in Seq(Places)
  BY ZenonT(40), <1>2, <1>4, <1>5, AppendAdds
<1>8. UdevTypeOK'
  BY <1>1, <1>4, <1>5, <1>7 DEF UdevTypeOK
<1>9. SocketHasTheRest'
  <2>1. ASSUME NEW k \in 1..Len(socket') PROVE socket'[k] = EventsRead' + k
    <3>1. k + 1 \in 1..Len(socket)
      BY <1>5
    <3>2. socket[k + 1] = EventsRead + (k + 1)
      BY <1>1, <3>1 DEF SocketHasTheRest
    <3>3. QED
      BY <1>5, <1>6, <3>2
  <2>2. Len(socket') <= Len(usbEvents)
    BY <1>1, <1>2, <1>5 DEF SocketHasTheRest
  <2>3. QED
    BY <1>4, <2>1, <2>2 DEF SocketHasTheRest
<1>10. ReadyIsKnown' /\ TaskIsTold' /\ ReportsAreEvents'
  BY <1>1, <1>4 DEF ReadyIsKnown, TaskIsTold, ReportsAreEvents
<1>11. ASSUME udevService = "run", IncreasingTold, ToldIsRead
       PROVE  IncreasingTold' /\ ToldIsRead'
  <2>1. CASE evPipe' = evPipe /\ usbEvents[e] # "over current"
    <3>1. Told' = Told /\ usbEvents' = usbEvents
      BY <1>4, <2>1 DEF Told
    <3>2. ASSUME NEW f \in 1..EventsRead', usbEvents[f] = "over current"
          PROVE  f \in 1..EventsRead
      <4>1. f # e
        BY <2>1, <3>2
      <4>2. QED
        BY <1>6, <4>1
    <3>3. \A f \in 1..EventsRead : f \in 1..EventsRead'
      BY <1>6
    <3>4. QED
      BY <1>11, <3>1, <3>2, <3>3 DEF IncreasingTold, ToldIsRead, IsOverCurrent
  <2>2. CASE evPipe' = Append(evPipe, e) /\ usbEvents[e] = "over current"
    <3>1. Told' = Append(Told, e)
      <4>1. Told' = announced \o Append(evPipe, e)
        BY <1>4, <2>2 DEF Told
      <4>2. announced \o Append(evPipe, e) = Append(announced \o evPipe, e)
        BY <1>2, <1>5, ConcatAppend
      <4>3. QED
        BY <4>1, <4>2 DEF Told
    <3>2. /\ Len(Told') = Len(Told) + 1 /\ Told'[Len(Told) + 1] = e /\ Len(Told) \in Nat
          /\ \A k \in 1..Len(Told) : Told'[k] = Told[k]
      BY <1>2, <1>5, <3>1, AppendAdds
    <3>3. \A k \in 1..Len(Told) : Told[k] \in 1..EventsRead /\ usbEvents[Told[k]] = "over current"
      BY <1>11 DEF ToldIsRead, IsOverCurrent
    <3>4. usbEvents' = usbEvents
      BY <1>4
    <3>5. IncreasingTold'
      <4> SUFFICES ASSUME NEW j \in 1..Len(Told'), NEW k \in 1..Len(Told'), j < k
                   PROVE  Told'[j] < Told'[k]
        BY DEF IncreasingTold
      <4>1. j \in 1..Len(Told) /\ Told'[j] = Told[j]
        BY <3>2
      <4>2. CASE k \in 1..Len(Told)
        BY <1>11, <3>2, <4>1, <4>2 DEF IncreasingTold
      <4>3. CASE k = Len(Told) + 1
        <5>1. Told[j] \in 1..EventsRead
          BY <3>3, <4>1
        <5>2. Told[j] < e
          BY <1>6, <5>1
        <5>3. Told'[k] = e
          BY <3>2, <4>3
        <5>4. QED
          BY <4>1, <5>2, <5>3
      <4>4. QED
        BY <3>2, <4>2, <4>3
    <3>6. ASSUME NEW k \in 1..Len(Told')
          PROVE  Told'[k] \in 1..EventsRead' /\ usbEvents[Told'[k]] = "over current"
      <4>1. CASE k \in 1..Len(Told)
        <5>1. Told'[k] = Told[k] /\ Told[k] \in 1..EventsRead /\ usbEvents[Told[k]] = "over current"
          BY <3>2, <3>3, <4>1
        <5>2. \A f \in 1..EventsRead : f \in 1..EventsRead'
          BY <1>6
        <5>3. QED
          BY <5>1, <5>2
      <4>2. CASE k = Len(Told) + 1
        <5>1. Told'[k] = e
          BY <3>2, <4>2
        <5>2. e \in 1..EventsRead'
          BY <1>6
        <5>3. QED
          BY <2>2, <5>1, <5>2
      <4>3. k \in 1..Len(Told) \/ k = Len(Told) + 1
        BY <3>2
      <4>4. QED
        BY <4>1, <4>2, <4>3
    <3>7. ASSUME NEW f \in 1..EventsRead', usbEvents[f] = "over current"
          PROVE  \E k \in 1..Len(Told') : Told'[k] = f
      <4>1. CASE f = e
        <5>1. Len(Told) + 1 \in 1..Len(Told')
          BY <3>2
        <5>2. QED
          BY <3>2, <4>1, <5>1
      <4>2. CASE f # e
        <5>1. f \in 1..EventsRead
          BY <1>6, <4>2
        <5>2. PICK k \in 1..Len(Told) : Told[k] = f
          BY <1>11, <3>7, <5>1 DEF ToldIsRead, IsOverCurrent
        <5>3. k \in 1..Len(Told') /\ Told'[k] = f
          BY <3>2, <5>2
        <5>4. QED
          BY <5>3
      <4>3. QED
        BY <4>1, <4>2
    <3>8. QED
      BY <3>4, <3>5, <3>6, <3>7 DEF ToldIsRead, IsOverCurrent
  <2>3. QED
    BY <1>4, <1>11, <2>1, <2>2
<1>12. QED
  BY <1>4, <1>8, <1>9, <1>10, <1>11 DEF UdevInv

\* A signal is sent: it is told either way.
LEMMA AnnounceKeepsInv ==
    ASSUME UdevInv, AnnounceOverCurrent
    PROVE  UdevInv'
<1>0. /\ usbEvents \in Seq(UsbKinds) /\ Len(usbEvents) \in Nat /\ Len(usbEvents) <= MaxUsbEvents
      /\ socket \in Seq(Places) /\ Len(socket) \in Nat
      /\ evPipe \in Seq(Places) /\ Len(evPipe) \in Nat
      /\ announced \in Seq(Places) /\ Len(announced) \in Nat
      /\ Told \in Seq(Places) /\ Len(Told) = Len(announced) + Len(evPipe)
      /\ MaxUsbEvents \in Nat /\ MaxUdevFaults \in Nat
  BY UdevTypeParts DEF UdevInv
<1>1. UdevTypeOK /\ SocketHasTheRest /\ ReadyIsKnown /\ TaskIsTold /\ ReportsAreEvents
  BY DEF UdevInv
<1>2. /\ udevService = "run" /\ evPipe # <<>>
      /\ UNCHANGED <<usbEvents, socket, readable, reports, monitor, shutdownSent>>
  BY DEF AnnounceOverCurrent
<1>3. SocketHasTheRest' /\ ReadyIsKnown' /\ ReportsAreEvents'
  BY <1>0, <1>1, <1>2 DEF SocketHasTheRest, ReadyIsKnown, ReportsAreEvents, EventsRead
<1>4. CASE udevService' = udevService
  <2>1. /\ announced' = Append(announced, Head(evPipe)) /\ evPipe' = Tail(evPipe)
        /\ UNCHANGED udevFaults
    BY <1>0, <1>2, <1>4 DEF AnnounceOverCurrent, EndRun
  <2>2. Told' = Told
    <3>1. Len(Told') = Len(Told) /\ Told' \in Seq(Places)
      BY <1>0, <1>1, <1>2, <2>1 DEF Told
    <3>2. ASSUME NEW k \in 1..Len(Told) PROVE Told'[k] = Told[k]
      <4>1. CASE k \in 1..Len(announced)
        BY <1>0, <1>1, <1>2, <2>1, <4>1 DEF Told
      <4>2. CASE k = Len(announced) + 1
        BY <1>0, <1>1, <1>2, <2>1, <4>2 DEF Told
      <4>3. CASE k > Len(announced) + 1
        BY <1>0, <1>1, <1>2, <2>1, <4>3 DEF Told
      <4>4. QED
        BY <1>0, <1>1, <4>1, <4>2, <4>3
    <3>3. QED
      BY <1>0, <1>1, <3>1, <3>2
  <2>3. UdevTypeOK'
    <3>1. announced' \in Seq(Places) /\ evPipe' \in Seq(Places)
      BY <1>0, <1>1, <1>2, <2>1
    <3>2. QED
      BY <1>0, <1>1, <1>2, <1>4, <2>1, <3>1 DEF UdevTypeOK
  <2>4. IncreasingTold /\ ToldIsRead => IncreasingTold' /\ ToldIsRead'
    BY <1>0, <1>2, <2>2 DEF IncreasingTold, ToldIsRead, EventsRead, IsOverCurrent
  <2>5. QED
    BY <1>0, <1>2, <1>3, <1>4, <2>3, <2>4 DEF UdevInv, TaskIsTold
<1>5. CASE udevService' # udevService
  <2>1. /\ udevFaults < MaxUdevFaults /\ udevFaults' = udevFaults + 1
        /\ udevService' = "shutdown" /\ evPipe' = <<>> /\ UNCHANGED announced
    BY <1>0, <1>2, <1>5 DEF AnnounceOverCurrent, EndRun
  <2>2. udevFaults' \in 0..MaxUdevFaults
    BY <1>0, <1>1, <2>1 DEF UdevTypeOK
  <2>3. UdevTypeOK'
    BY <1>0, <1>1, <1>2, <2>1, <2>2 DEF UdevTypeOK
  <2>4. QED
    BY <1>0, <1>2, <1>3, <2>1, <2>3 DEF UdevInv, TaskIsTold
<1>6. QED
  BY <1>0, <1>4, <1>5

\* The other steps change nothing that is told, but may end it.
LEMMA TaskKeepsUdevInv ==
    ASSUME UdevInv, UdevReady \/ SocketIsEmpty \/ ClearReady \/ LeavePoll
    PROVE  UdevInv'
<1>0. /\ usbEvents \in Seq(UsbKinds) /\ Len(usbEvents) \in Nat /\ Len(usbEvents) <= MaxUsbEvents
      /\ socket \in Seq(Places) /\ Len(socket) \in Nat
      /\ evPipe \in Seq(Places) /\ Len(evPipe) \in Nat
      /\ announced \in Seq(Places) /\ Len(announced) \in Nat
      /\ Told \in Seq(Places) /\ Len(Told) = Len(announced) + Len(evPipe)
      /\ MaxUsbEvents \in Nat /\ MaxUdevFaults \in Nat
  BY UdevTypeParts DEF UdevInv
<1>1. UdevTypeOK /\ SocketHasTheRest /\ ReadyIsKnown /\ TaskIsTold /\ ReportsAreEvents
  BY DEF UdevInv
<1>2. /\ UNCHANGED <<usbEvents, socket, shutdownSent, udevService, evPipe, announced>>
      /\ monitor # "ended"
  BY DEF UdevReady, SocketIsEmpty, ClearReady, LeavePoll
<1>3. SocketHasTheRest' /\ TaskIsTold'
  BY <1>0, <1>1, <1>2 DEF SocketHasTheRest, TaskIsTold, EventsRead
<1>4. IncreasingTold /\ ToldIsRead => IncreasingTold' /\ ToldIsRead'
  BY <1>0, <1>2 DEF IncreasingTold, ToldIsRead, EventsRead, IsOverCurrent, Told
<1>5. reports \in Nat
  BY <1>0, <1>1 DEF UdevTypeOK
<1>6. reports' \in 0..MaxUsbEvents /\ ReportsAreEvents'
  BY <1>0, <1>1, <1>2, <1>5 DEF UdevReady, SocketIsEmpty, ClearReady, LeavePoll, UdevTypeOK,
     ReportsAreEvents
<1>7. readable' \in BOOLEAN /\ monitor' \in {"wait", "read", "clear", "ended"}
  <2>1. readable \in BOOLEAN
    BY <1>1 DEF UdevTypeOK
  <2>2. CASE ClearReady
    BY <2>2 DEF ClearReady
  <2>3. CASE UdevReady \/ SocketIsEmpty \/ LeavePoll
    BY <2>1, <2>3 DEF UdevReady, SocketIsEmpty, LeavePoll
  <2>4. QED
    BY <2>2, <2>3
<1>8. udevFaults' \in 0..MaxUdevFaults
  <2>1. udevFaults \in 0..MaxUdevFaults
    BY <1>0, <1>1 DEF UdevTypeOK
  <2>2. udevFaults' = udevFaults \/ (udevFaults < MaxUdevFaults /\ udevFaults' = udevFaults + 1)
    BY DEF UdevReady, SocketIsEmpty, ClearReady, LeavePoll
  <2>3. QED
    BY <1>0, <1>1, <2>1, <2>2
<1>9. UdevTypeOK'
  BY <1>0, <1>1, <1>2, <1>6, <1>7, <1>8 DEF UdevTypeOK
<1>10. ReadyIsKnown'
  <2>1. CASE ClearReady
    <3>1. monitor = "clear" /\ monitor' = "wait" /\ (readable' <=> reports > 0)
          /\ socket' = socket
      BY <2>1 DEF ClearReady
    <3>2. reports = 0 => socket = <<>>
      BY <1>1, <3>1 DEF ReadyIsKnown
    <3>3. ~readable' => reports = 0
      BY <1>5, <3>1
    <3>4. QED
      BY <3>1, <3>2, <3>3 DEF ReadyIsKnown
  <2>2. CASE UdevReady \/ SocketIsEmpty \/ LeavePoll
    BY <1>0, <1>1, <2>2 DEF UdevReady, SocketIsEmpty, LeavePoll, ReadyIsKnown
  <2>3. QED
    BY <2>1, <2>2
<1>11. QED
  BY <1>0, <1>2, <1>3, <1>4, <1>6, <1>9, <1>10 DEF UdevInv

LEMMA EndKeepsUdevInv ==
    ASSUME UdevInv, LeaveUdev \/ ShutdownUdev
    PROVE  UdevInv'
<1>1. UdevTypeOK /\ SocketHasTheRest /\ ReadyIsKnown /\ TaskIsTold /\ ReportsAreEvents
  BY DEF UdevInv
<1>2. /\ UNCHANGED <<usbEvents, socket, readable, reports, monitor, announced, udevFaults>>
      /\ udevService' \in {"shutdown", "over"}
      /\ evPipe' = <<>> \/ evPipe' = evPipe
      /\ shutdownSent' = shutdownSent \/ shutdownSent' = (monitor # "ended")
      /\ udevService' = "over" => shutdownSent' = (monitor # "ended")
  BY DEF LeaveUdev, ShutdownUdev, EndRun
<1>3. SocketHasTheRest' /\ ReadyIsKnown' /\ ReportsAreEvents' /\ TaskIsTold'
  BY <1>1, <1>2 DEF SocketHasTheRest, ReadyIsKnown, ReportsAreEvents, EventsRead, TaskIsTold
<1>4. UdevTypeOK'
  <2>1. evPipe' \in Seq(Places)
    <3>1. evPipe \in Seq(Places) /\ <<>> \in Seq(Places)
      BY <1>1 DEF UdevTypeOK
    <3>2. QED
      BY <1>2, <3>1
  <2>2. shutdownSent' \in BOOLEAN
    <3>1. shutdownSent \in BOOLEAN /\ (monitor # "ended") \in BOOLEAN
      BY <1>1 DEF UdevTypeOK
    <3>2. QED
      BY <1>2, <3>1
  <2>3. QED
    BY <1>1, <1>2, <2>1, <2>2 DEF UdevTypeOK
<1>5. QED
  BY <1>2, <1>3, <1>4 DEF UdevInv

\* The invariant holds in every state of UdevEvents.
THEOREM UdevInvariant == UdevSpec => []UdevInv
<1>1. UdevInv /\ UNCHANGED udevVars => UdevInv'
  <2> SUFFICES ASSUME UdevInv, UNCHANGED udevVars PROVE UdevInv'
    OBVIOUS
  <2>1. UdevTypeOK'
    BY DEF UdevInv, UdevTypeOK, udevVars
  <2>2. SocketHasTheRest' /\ ReadyIsKnown' /\ TaskIsTold' /\ ReportsAreEvents'
    BY DEF UdevInv, SocketHasTheRest, EventsRead, ReadyIsKnown, TaskIsTold, ReportsAreEvents,
       udevVars
  <2>3. IncreasingTold /\ ToldIsRead => IncreasingTold' /\ ToldIsRead'
    BY DEF IncreasingTold, ToldIsRead, EventsRead, Told, IsOverCurrent, udevVars
  <2>4. QED
    BY <2>1, <2>2, <2>3 DEF UdevInv, udevVars
<1>2. UdevInv /\ UdevNext => UdevInv'
  BY UsbEventKeepsInv, ReadKeepsInv, AnnounceKeepsInv, TaskKeepsUdevInv, EndKeepsUdevInv
     DEF UdevNext
<1>3. QED
  BY <1>1, <1>2, InitUdevInv, PTL DEF UdevSpec

\* Every over-current that the monitor has read is announced or on its way, in
\* order and once, however events, reads, reports and signals interleave.
THEOREM OverCurrentsAreAlwaysTold == UdevSpec => []OverCurrentsAreTold
<1>1. UdevInv => OverCurrentsAreTold
  <2> SUFFICES ASSUME UdevInv PROVE OverCurrentsAreTold
    OBVIOUS
  <2>1. ToldIsRead => {Told[k] : k \in 1..Len(Told)} = {e \in 1..EventsRead : IsOverCurrent(e)}
    BY DEF ToldIsRead
  <2>2. QED
    BY <2>1 DEF UdevInv, IncreasingTold, SocketHasTheRest, ReadyIsKnown, TaskIsTold,
       OverCurrentsAreTold
<1>2. QED
  BY <1>1, UdevInvariant, PTL
=============================================================================
