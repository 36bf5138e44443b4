---------------------------- MODULE SettingsProofs ---------------------------
(***************************************************************************)
(* That the settings which take several steps, and whose steps several     *)
(* tasks and systemd may interleave with, are what the interfaces show:    *)
(* Cec, ScreenReader and Wifi, for any number of faults, callers and       *)
(* subscribers, and HardwareSettings for any ranges, policies and number   *)
(* of faults.                                                              *)
(***************************************************************************)
EXTENDS Cec, ScreenReader, Wifi, HardwareSettings, TLAPS

-----------------------------------------------------------------------------
(* Sequences.                                                              *)

LEMMA AppendAddsOne ==
    ASSUME NEW S, NEW s \in Seq(S), NEW e \in S
    PROVE  /\ Append(s, e) \in Seq(S) /\ Len(s) \in Nat /\ Len(Append(s, e)) = Len(s) + 1
           /\ Append(s, e)[Len(s) + 1] = e
           /\ \A k \in 1..Len(s) : Append(s, e)[k] = s[k]
OBVIOUS

LEMMA HeadAndTail ==
    ASSUME NEW S, NEW s \in Seq(S), s # <<>>
    PROVE  /\ Len(s) \in Nat /\ 1 <= Len(s) /\ Head(s) = s[1] /\ Head(s) \in S
           /\ Tail(s) \in Seq(S) /\ Len(Tail(s)) = Len(s) - 1
           /\ \A k \in 1..Len(Tail(s)) : Tail(s)[k] = s[k + 1]
OBVIOUS

-----------------------------------------------------------------------------
(* Cec. The listener: the proxy has the address unless a change is in      *)
(* flight, and what is being sent is what the proxy has unless the stream  *)
(* has a change.                                                           *)

ListenerKnows ==
    /\ ~cecd => listener \in {"new", "dead"}
    /\ ~inFlight => cached = address
    /\ listener = "send" /\ ~notified => sending = cached
    /\ listener = "wait" /\ ~notified => ecAddress = cached

\* The setters: what each still has to do is the rest of what its state takes.
Plan(c) == CecStepsOf(cecTarget[c])
TakenBy(c) == Len(Plan(c)) - Len(cecStep[c])

RestOfPlan ==
    \A c \in CecCallers :
        IF Running(c)
        THEN /\ Len(cecStep[c]) <= Len(Plan(c))
             /\ \A k \in 1..Len(cecStep[c]) : cecStep[c][k] = Plan(c)[TakenBy(c) + k]
        ELSE cecStep[c] = <<>>

\* What a step has done is so, or will be when systemd has run its jobs.
WillBeStopped(u) ==
    On("start", u) \notin unitJobs /\ (On("stop", u) \in unitJobs \/ u \notin active)
WillRun(u) ==
    On("stop", u) \notin unitJobs /\ (On("start", u) \in unitJobs \/ u \in active)

HasDone(x, s) ==
    /\ x.do = "mask" => x.unit \in masked
    /\ x.do = "unmask" => x.unit \notin masked
    /\ x.do = "stop" => WillBeStopped(x.unit)
    /\ x.do = "start" => WillRun(x.unit)
    /\ x.do = "reload" => known = masked
    /\ x.do = "write" => fragment = Fragment(s)
    /\ x.do = "apply" => cecdHas = fragment

\* A call that is alone finds what it did as it left it, and so does whoever
\* looks when it is done.
AloneIsKept ==
    /\ settled \in CecStates \cup {"none"} =>
          \A c, d \in CecCallers : Running(c) /\ Running(d) => c = d
    /\ settled \in CecStates => \A c \in CecCallers : ~Running(c)
    /\ settled = "none" =>
          \A c \in CecCallers : Running(c) =>
             \A k \in 1..TakenBy(c) : HasDone(Plan(c)[k], cecTarget[c])
    /\ settled \in CecStates =>
          \A k \in 1..Len(CecStepsOf(settled)) : HasDone(CecStepsOf(settled)[k], settled)

\* Who wrote the file will have cecd read it.
FileWillBeRead ==
    cecd /\ settled # "failed" => cecdHas = fragment \/ \E c \in CecCallers : cecStep[c] # <<>>

CecInv ==
    /\ CecTypeOK /\ ListenerKnows /\ RestOfPlan /\ AloneIsKept /\ FileWillBeRead

-----------------------------------------------------------------------------

\* The later steps of a call undo no earlier one.
Undoes(x, y) ==
    \/ x.do = "mask" /\ y.do = "unmask" /\ x.unit = y.unit
    \/ x.do = "unmask" /\ y.do = "mask" /\ x.unit = y.unit
    \/ x.do = "stop" /\ y.do = "start" /\ x.unit = y.unit
    \/ x.do = "start" /\ y.do = "stop" /\ x.unit = y.unit
    \/ x.do = "reload" /\ y.do \in {"mask", "unmask"}
    \/ x.do = "apply" /\ y.do = "write"

LEMMA PlanTypes ==
    ASSUME NEW s \in CecStates
    PROVE  /\ CecStepsOf(s) \in Seq(CecSteps)
           /\ Len(CecStepsOf(s)) \in 2..5
<1> USE DEF CecStepsOf, CecStates, CecSteps, On, RC, WH, CecUnits
<1>1. CASE cecd
  BY <1>1
<1>2. CASE ~cecd /\ s = "disabled"
  BY <1>2
<1>3. CASE ~cecd /\ s = "control"
  BY <1>3
<1>4. CASE ~cecd /\ s = "wake"
  BY <1>4
<1>5. QED
  BY <1>1, <1>2, <1>3, <1>4

LEMMA PlansAreKept ==
    ASSUME NEW s \in CecStates,
           NEW j \in 1..Len(CecStepsOf(s)), NEW k \in 1..Len(CecStepsOf(s)), j < k
    PROVE  ~Undoes(CecStepsOf(s)[j], CecStepsOf(s)[k])
<1> USE DEF CecStepsOf, On, RC, WH, Undoes
<1>1. CASE cecd
  <2>1. j = 1 /\ k = 2
    BY <1>1
  <2>2. QED
    BY <1>1, <2>1
<1>2. ASSUME ~cecd PROVE j \in 1..4 /\ k \in 2..5
  BY <1>2 DEF CecStates
<1>3. CASE ~cecd /\ s = "disabled"
  <2>1. CASE k \in {2, 4}
    BY <1>2, <1>3, <2>1
  <2>2. CASE k \in {3, 5}
    BY <1>2, <1>3, <2>2
  <2>3. QED
    BY <1>2, <1>3, <2>1, <2>2
<1>4. CASE ~cecd /\ s = "control"
  <2>1. CASE k \in {2, 4}
    BY <1>2, <1>4, <2>1
  <2>2. CASE k \in {3, 5}
    BY <1>2, <1>4, <2>2
  <2>3. QED
    BY <1>2, <1>4, <2>1, <2>2
<1>5. CASE ~cecd /\ s = "wake"
  <2>1. CASE k \in {2, 4}
    BY <1>2, <1>5, <2>1
  <2>2. CASE k \in {3, 5}
    BY <1>2, <1>5, <2>2
  <2>3. QED
    BY <1>2, <1>5, <2>1, <2>2
<1>6. QED
  BY <1>1, <1>3, <1>4, <1>5 DEF CecStates

\* cecd reads the file last.
LEMMA ApplyIsLast ==
    ASSUME NEW s \in CecStates, cecd
    PROVE  Len(CecStepsOf(s)) = 2 /\ CecStepsOf(s)[2].do = "apply" /\ CecStepsOf(s)[1].do = "write"
BY DEF CecStepsOf, On

LEMMA PlanUnits ==
    ASSUME NEW s \in CecStates, NEW k \in 1..Len(CecStepsOf(s)),
           CecStepsOf(s)[k].do \in {"start", "stop"}
    PROVE  CecStepsOf(s)[k].unit \in CecUnits
<1> USE DEF CecStepsOf, CecStates, On, RC, WH, CecUnits
<1>1. CASE cecd
  BY <1>1
<1>2. ASSUME ~cecd PROVE k \in 1..5
  BY <1>2
<1>3. CASE ~cecd /\ k \in {1, 2}
  BY <1>3
<1>4. CASE ~cecd /\ k \in {3, 4, 5}
  BY <1>4
<1>5. QED
  BY <1>1, <1>2, <1>3, <1>4

LEMMA PlanMasks ==
    ASSUME NEW s \in CecStates, NEW k \in 1..Len(CecStepsOf(s)), CecStepsOf(s)[k].do = "mask"
    PROVE  CecStepsOf(s)[k].unit \in CecUnits
<1> USE DEF CecStepsOf, CecStates, On, RC, WH, CecUnits
<1>1. CASE cecd
  BY <1>1
<1>2. ASSUME ~cecd PROVE k \in 1..5
  BY <1>2
<1>3. CASE ~cecd /\ k \in {1, 2}
  BY <1>3
<1>4. CASE ~cecd /\ k \in {3, 4, 5}
  BY <1>4
<1>5. QED
  BY <1>1, <1>2, <1>3, <1>4

\* What a step does.
Effect(y, t) ==
    /\ ~Refuses(y)
    /\ masked' = CASE y.do = "mask" -> masked \cup {y.unit}
                   [] y.do = "unmask" -> masked \ {y.unit}
                   [] OTHER -> masked
    /\ known' = IF y.do = "reload" THEN masked ELSE known
    /\ unitJobs' = IF y.do \in {"start", "stop"} THEN unitJobs \cup {y} ELSE unitJobs
    /\ fragment' = IF y.do = "write" THEN Fragment(t) ELSE fragment
    /\ cecdHas' = IF y.do = "apply" THEN fragment ELSE cecdHas
    /\ UNCHANGED active

LEMMA StepDoes ==
    ASSUME NEW y \in CecSteps, NEW t, Effect(y, t)
    PROVE  HasDone(y, t)'
<1>1. y = On(y.do, y.unit)
  BY DEF CecSteps, On
<1>2. CASE y.do = "mask"
  BY <1>2 DEF Effect, HasDone
<1>3. CASE y.do = "unmask"
  BY <1>3 DEF Effect, HasDone
<1>4. CASE y.do = "stop"
  <2>1. unitJobs' = unitJobs \cup {y} /\ On("start", y.unit) \notin unitJobs
    BY <1>4 DEF Effect, Refuses
  <2>2. On("start", y.unit) # y
    BY <1>4 DEF On
  <2>3. WillBeStopped(y.unit)'
    BY <1>1, <1>4, <2>1, <2>2 DEF WillBeStopped
  <2>4. QED
    BY <1>4, <2>3 DEF HasDone
<1>5. CASE y.do = "start"
  <2>1. unitJobs' = unitJobs \cup {y} /\ On("stop", y.unit) \notin unitJobs
    BY <1>5 DEF Effect, Refuses
  <2>2. On("stop", y.unit) # y
    BY <1>5 DEF On
  <2>3. WillRun(y.unit)'
    BY <1>1, <1>5, <2>1, <2>2 DEF WillRun
  <2>4. QED
    BY <1>5, <2>3 DEF HasDone
<1>6. CASE y.do \in {"reload", "write", "apply"}
  BY <1>6 DEF Effect, HasDone
<1>7. QED
  BY <1>2, <1>3, <1>4, <1>5, <1>6 DEF CecSteps

LEMMA StepKeeps ==
    ASSUME NEW x \in CecSteps, NEW y \in CecSteps, NEW t,
           Effect(y, t), HasDone(x, t), ~Undoes(x, y)
    PROVE  HasDone(x, t)'
<1>1. x = On(x.do, x.unit) /\ y = On(y.do, y.unit)
  BY DEF CecSteps, On
<1>2. CASE x.do = "mask"
  BY <1>2 DEF Effect, HasDone, Undoes
<1>3. CASE x.do = "unmask"
  BY <1>3 DEF Effect, HasDone, Undoes
<1>4. CASE x.do = "stop"
  <2>1. WillBeStopped(x.unit) /\ On("start", x.unit) # y
    BY <1>4 DEF HasDone, Undoes, On
  <2>2. unitJobs \subseteq unitJobs' /\ \A j \in unitJobs' : j \in unitJobs \/ j = y
    BY DEF Effect
  <2>3. WillBeStopped(x.unit)'
    BY <2>1, <2>2 DEF WillBeStopped, Effect
  <2>4. QED
    BY <1>4, <2>3 DEF HasDone
<1>5. CASE x.do = "start"
  <2>1. WillRun(x.unit) /\ On("stop", x.unit) # y
    BY <1>5 DEF HasDone, Undoes, On
  <2>2. unitJobs \subseteq unitJobs' /\ \A j \in unitJobs' : j \in unitJobs \/ j = y
    BY DEF Effect
  <2>3. WillRun(x.unit)'
    BY <2>1, <2>2 DEF WillRun, Effect
  <2>4. QED
    BY <1>5, <2>3 DEF HasDone
<1>6. CASE x.do = "reload"
  BY <1>6 DEF Effect, HasDone, Undoes
<1>7. CASE x.do \in {"write", "apply"}
  BY <1>7 DEF Effect, HasDone, Undoes
<1>8. QED
  BY <1>2, <1>3, <1>4, <1>5, <1>6, <1>7 DEF CecSteps

\* systemd runs a job.
LEMMA JobKeeps ==
    ASSUME unitJobs \subseteq [do : {"start", "stop"}, unit : CecUnits], UnitJob,
           NEW x, NEW t, HasDone(x, t)
    PROVE  HasDone(x, t)'
<1>1. PICK j \in unitJobs :
         /\ unitJobs' = unitJobs \ {j}
         /\ active' = IF j.do = "start" THEN active \cup {j.unit} ELSE active \ {j.unit}
  BY DEF UnitJob
<1>2. UNCHANGED <<masked, known, fragment, cecdHas>>
  BY DEF UnitJob
<1>3. j = On(j.do, j.unit) /\ j.do \in {"start", "stop"}
  BY DEF On
<1>4. ASSUME NEW u, WillBeStopped(u) PROVE WillBeStopped(u)'
  <2>1. j # On("start", u)
    BY <1>4 DEF WillBeStopped
  <2>2. CASE j.do = "start"
    <3>1. j.unit # u /\ j # On("stop", u)
      BY <1>3, <2>1, <2>2 DEF On
    <3>2. QED
      BY <1>1, <1>4, <2>2, <3>1 DEF WillBeStopped
  <2>3. CASE j.do = "stop"
    <3>1. j = On("stop", u) <=> j.unit = u
      BY <1>3, <2>3 DEF On
    <3>2. QED
      BY <1>1, <1>4, <2>3, <3>1 DEF WillBeStopped
  <2>4. QED
    BY <1>3, <2>2, <2>3
<1>5. ASSUME NEW u, WillRun(u) PROVE WillRun(u)'
  <2>1. j # On("stop", u)
    BY <1>5 DEF WillRun
  <2>2. CASE j.do = "stop"
    <3>1. j.unit # u /\ j # On("start", u)
      BY <1>3, <2>1, <2>2 DEF On
    <3>2. QED
      BY <1>1, <1>5, <2>2, <3>1 DEF WillRun
  <2>3. CASE j.do = "start"
    <3>1. j = On("start", u) <=> j.unit = u
      BY <1>3, <2>3 DEF On
    <3>2. QED
      BY <1>1, <1>5, <2>3, <3>1 DEF WillRun
  <2>4. QED
    BY <1>3, <2>2, <2>3
<1>6. QED
  BY <1>2, <1>4, <1>5 DEF HasDone

-----------------------------------------------------------------------------

LEMMA CecTypeParts ==
    ASSUME CecTypeOK
    PROVE  /\ cecStep \in [CecCallers -> Seq(CecSteps)]
           /\ cecTarget \in [CecCallers -> CecStates \cup {"idle"}]
           /\ unitJobs \subseteq [do : {"start", "stop"}, unit : CecUnits]
           /\ \A c \in CecCallers : /\ cecStep[c] \in Seq(CecSteps) /\ Len(cecStep[c]) \in Nat
                                    /\ Running(c) => cecTarget[c] \in CecStates
<1>1. /\ cecStep \in [CecCallers -> Seq(CecSteps)]
      /\ cecTarget \in [CecCallers -> CecStates \cup {"idle"}]
      /\ unitJobs \subseteq [do : {"start", "stop"}, unit : CecUnits]
  BY DEF CecTypeOK
<1>2. QED
  BY <1>1 DEF Running

LEMMA IdleIsNoState == "idle" \notin CecStates /\ "none" \notin CecStates
                       /\ "mixed" \notin CecStates /\ "failed" \notin CecStates
BY DEF CecStates

LEMMA InitCecInv == CecInit => CecInv
<1> SUFFICES ASSUME CecInit PROVE CecInv
  OBVIOUS
<1>1. cecStep = [c \in CecCallers |-> <<>>] /\ cecTarget = [c \in CecCallers |-> "idle"]
      /\ unitJobs = {} /\ settled = "none" /\ cecdHas = fragment
  BY DEF CecInit
<1>2. PICK s \in CecStates : /\ masked = CecUnits \ UnitsOf(s)
                             /\ active = UnitsOf(s) /\ fragment = Fragment(s)
  BY DEF CecInit
<1>3. UnitsOf(s) \subseteq CecUnits /\ Fragment(s) \in Fragments
  BY DEF UnitsOf, CecUnits, CecStates, Fragment, Fragments
<1>4. CecTypeOK
  <2>1. /\ cecStep \in [CecCallers -> Seq(CecSteps)]
        /\ cecTarget \in [CecCallers -> CecStates \cup {"idle"}]
    BY <1>1
  <2>2. masked \subseteq CecUnits /\ known \subseteq CecUnits /\ active \subseteq CecUnits
    BY <1>2, <1>3 DEF CecInit
  <2>3. {fragment, cecdHas} \subseteq Fragments
    BY <1>1, <1>2, <1>3
  <2>4. cecFaults \in 0..MaxCecFaults /\ cecCalls \in 0..MaxCecCalls /\ replugs \in 0..MaxReplugs
    BY CecAssumption DEF CecInit
  <2>5. /\ listener \in {"new", "read", "send", "wait", "dead"}
        /\ {notified, inFlight} \subseteq BOOLEAN /\ cecd \in BOOLEAN
        /\ {cached, sending, address, ecAddress} \subseteq Addresses
    BY DEF CecInit
  <2>6. QED
    BY <1>1, <2>1, <2>2, <2>3, <2>4, <2>5 DEF CecTypeOK
<1>5. ListenerKnows
  BY DEF CecInit, ListenerKnows
<1>6. \A c \in CecCallers : ~Running(c) /\ cecStep[c] = <<>>
  BY <1>1 DEF Running
<1>7. QED
  BY <1>1, <1>4, <1>5, <1>6, IdleIsNoState DEF CecInv, RestOfPlan, AloneIsKept, FileWillBeRead

\* What a call does next is the next step of its plan.
LEMMA NextOfPlan ==
    ASSUME CecTypeOK, RestOfPlan, NEW c \in CecCallers, cecStep[c] # <<>>
    PROVE  /\ Running(c) /\ cecTarget[c] \in CecStates
           /\ TakenBy(c) \in Nat /\ TakenBy(c) + 1 \in 1..Len(Plan(c))
           /\ Head(cecStep[c]) = Plan(c)[TakenBy(c) + 1]
           /\ Head(cecStep[c]) \in CecSteps
           /\ Plan(c) \in Seq(CecSteps) /\ Len(Plan(c)) \in 2..5
           /\ Tail(cecStep[c]) \in Seq(CecSteps)
           /\ Len(Tail(cecStep[c])) = Len(cecStep[c]) - 1
           /\ \A k \in 1..Len(Tail(cecStep[c])) : Tail(cecStep[c])[k] = cecStep[c][k + 1]
<1>1. Running(c) /\ cecTarget[c] \in CecStates /\ cecStep[c] \in Seq(CecSteps)
  BY CecTypeParts DEF RestOfPlan
<1>2. Plan(c) \in Seq(CecSteps) /\ Len(Plan(c)) \in 2..5
  BY <1>1, PlanTypes DEF Plan
<1>3. /\ Len(cecStep[c]) \in Nat /\ 1 <= Len(cecStep[c]) /\ Head(cecStep[c]) = cecStep[c][1]
      /\ Head(cecStep[c]) \in CecSteps
      /\ Tail(cecStep[c]) \in Seq(CecSteps)
      /\ Len(Tail(cecStep[c])) = Len(cecStep[c]) - 1
      /\ \A k \in 1..Len(Tail(cecStep[c])) : Tail(cecStep[c])[k] = cecStep[c][k + 1]
  BY <1>1
<1>4. Len(cecStep[c]) <= Len(Plan(c)) /\ cecStep[c][1] = Plan(c)[TakenBy(c) + 1]
  BY <1>1, <1>3 DEF RestOfPlan
<1>5. TakenBy(c) \in Nat /\ TakenBy(c) + 1 \in 1..Len(Plan(c))
  BY <1>2, <1>3, <1>4 DEF TakenBy
<1>6. QED
  BY <1>1, <1>2, <1>3, <1>4, <1>5

-----------------------------------------------------------------------------

\* The steps of the setters leave the listener alone.
LEMMA ListenerStays ==
    ASSUME ListenerKnows, UNCHANGED <<cecd, listenerVars>>
    PROVE  ListenerKnows'
BY DEF ListenerKnows, listenerVars

LEMMA SetKeepsCecInv ==
    ASSUME CecInv, NEW c \in CecCallers, NEW s \in CecStates, SetCecState(c, s)
    PROVE  CecInv'
<1>1. CecTypeOK /\ ListenerKnows /\ RestOfPlan /\ AloneIsKept
  BY DEF CecInv
<1>2. /\ ~Running(c) /\ cecCalls < MaxCecCalls /\ cecCalls' = cecCalls + 1
      /\ cecTarget' = [cecTarget EXCEPT ![c] = s]
      /\ cecStep' = [cecStep EXCEPT ![c] = CecStepsOf(s)]
      /\ settled' \in {"none", "mixed", "failed"}
      /\ settled' = "none" => \A d \in CecCallers : ~Running(d)
      /\ UNCHANGED <<cecd, masked, known, active, unitJobs, fragment, cecdHas, cecFaults,
                     listenerVars>>
  BY DEF SetCecState
<1>3. CecStepsOf(s) \in Seq(CecSteps) /\ Len(CecStepsOf(s)) \in 2..5 /\ s # "idle"
  BY PlanTypes, IdleIsNoState
<1>4. /\ cecTarget'[c] = s /\ cecStep'[c] = CecStepsOf(s)
      /\ \A d \in CecCallers : d # c => cecTarget'[d] = cecTarget[d] /\ cecStep'[d] = cecStep[d]
  BY <1>1, <1>2, CecTypeParts
<1>5. CecTypeOK'
  <2>1. cecStep' \in [CecCallers -> Seq(CecSteps)]
    BY <1>1, <1>2, <1>3, CecTypeParts
  <2>2. cecTarget' \in [CecCallers -> CecStates \cup {"idle"}]
    BY <1>1, <1>2, CecTypeParts
  <2>3. cecCalls' \in 0..MaxCecCalls
    BY <1>1, <1>2, CecAssumption DEF CecTypeOK
  <2>4. settled' \in CecStates \cup {"none", "mixed", "failed"}
    BY <1>2
  <2>5. QED
    BY <1>1, <1>2, <2>1, <2>2, <2>3, <2>4 DEF CecTypeOK, listenerVars
<1>6. CecStepsOf(s)' = CecStepsOf(s)
  BY <1>2 DEF CecStepsOf
<1>7. Running(c)' /\ Plan(c)' = CecStepsOf(s) /\ TakenBy(c)' = 0
  BY <1>3, <1>4, <1>6 DEF Running, Plan, TakenBy
<1>8. \A d \in CecCallers : d # c => /\ Running(d)' <=> Running(d)
                                     /\ Plan(d)' = Plan(d) /\ TakenBy(d)' = TakenBy(d)
  <2>1. \A t : CecStepsOf(t)' = CecStepsOf(t)
    BY <1>2 DEF CecStepsOf
  <2>2. QED
    BY <1>4, <2>1 DEF Running, Plan, TakenBy
<1>9. RestOfPlan'
  <2> SUFFICES ASSUME NEW d \in CecCallers
               PROVE  IF Running(d)'
                      THEN /\ Len(cecStep'[d]) <= Len(Plan(d)')
                           /\ \A k \in 1..Len(cecStep'[d]) :
                                 cecStep'[d][k] = Plan(d)'[TakenBy(d)' + k]
                      ELSE cecStep'[d] = <<>>
    BY DEF RestOfPlan
  <2>1. CASE d = c
    BY <1>3, <1>4, <1>7, <2>1
  <2>2. CASE d # c
    BY <1>1, <1>4, <1>8, <2>2 DEF RestOfPlan
  <2>3. QED
    BY <2>1, <2>2
<1>10. AloneIsKept'
  <2>1. settled' \notin CecStates
    BY <1>2, IdleIsNoState
  <2>2. settled' = "none" => \A d \in CecCallers : Running(d)' => d = c
    BY <1>2, <1>8
  <2>3. \A k \in 1..TakenBy(c)' : FALSE
    BY <1>7
  <2>4. QED
    BY <2>1, <2>2, <2>3 DEF AloneIsKept
<1>11. FileWillBeRead'
  <2>1. cecStep'[c] # <<>>
    BY <1>3, <1>4
  <2>2. QED
    BY <2>1 DEF FileWillBeRead
<1>12. QED
  BY <1>1, <1>2, <1>5, <1>9, <1>10, <1>11, ListenerStays DEF CecInv

LEMMA StepKeepsCecInv ==
    ASSUME CecInv, NEW c \in CecCallers, CecStep(c)
    PROVE  CecInv'
<1>1. CecTypeOK /\ ListenerKnows /\ RestOfPlan /\ AloneIsKept /\ FileWillBeRead
  BY DEF CecInv
<1>2. PICK y : y = Head(cecStep[c])
  OBVIOUS
<1>3. /\ cecStep[c] # <<>> /\ cecStep' = [cecStep EXCEPT ![c] = Tail(cecStep[c])]
      /\ Effect(y, cecTarget[c])
      /\ UNCHANGED <<cecd, cecTarget, active, cecFaults, cecCalls, settled, listenerVars>>
  BY <1>2 DEF CecStep, Effect
<1>4. /\ Running(c) /\ cecTarget[c] \in CecStates
      /\ TakenBy(c) \in Nat /\ TakenBy(c) + 1 \in 1..Len(Plan(c))
      /\ y = Plan(c)[TakenBy(c) + 1] /\ y \in CecSteps
      /\ Plan(c) \in Seq(CecSteps) /\ Len(Plan(c)) \in 2..5
  BY <1>1, <1>2, <1>3, NextOfPlan
<1>5. /\ cecStep'[c] \in Seq(CecSteps)
      /\ Len(cecStep'[c]) = Len(cecStep[c]) - 1 /\ Len(cecStep[c]) \in Nat
      /\ \A k \in 1..Len(cecStep'[c]) : cecStep'[c][k] = cecStep[c][k + 1]
      /\ \A d \in CecCallers : d # c => cecStep'[d] = cecStep[d]
      /\ cecStep' \in [CecCallers -> Seq(CecSteps)]
  <2>1. /\ Tail(cecStep[c]) \in Seq(CecSteps)
        /\ Len(Tail(cecStep[c])) = Len(cecStep[c]) - 1
        /\ \A k \in 1..Len(Tail(cecStep[c])) : Tail(cecStep[c])[k] = cecStep[c][k + 1]
    BY <1>1, <1>3, NextOfPlan
  <2>2. cecStep \in [CecCallers -> Seq(CecSteps)] /\ Len(cecStep[c]) \in Nat
    BY <1>1, CecTypeParts
  <2>3. cecStep'[c] = Tail(cecStep[c]) /\ \A d \in CecCallers : d # c => cecStep'[d] = cecStep[d]
    BY <1>3, <2>2
  <2>4. QED
    BY <1>3, <2>1, <2>2, <2>3
<1>6. \A d \in CecCallers : (Running(d)' <=> Running(d)) /\ Plan(d)' = Plan(d)
  BY <1>3 DEF Running, Plan, CecStepsOf
<1>7. TakenBy(c)' = TakenBy(c) + 1 /\ \A d \in CecCallers : d # c => TakenBy(d)' = TakenBy(d)
  <2>1. Len(Plan(c)) \in Nat /\ Len(cecStep[c]) \in Nat /\ Len(cecStep'[c]) = Len(cecStep[c]) - 1
    BY <1>4, <1>5
  <2>2. Len(Plan(c)) - (Len(cecStep[c]) - 1) = Len(Plan(c)) - Len(cecStep[c]) + 1
    BY <2>1
  <2>3. TakenBy(c)' = TakenBy(c) + 1
    BY <1>6, <2>1, <2>2 DEF TakenBy
  <2>4. QED
    BY <1>5, <1>6, <2>3 DEF TakenBy
<1>8. RestOfPlan'
  <2> SUFFICES ASSUME NEW d \in CecCallers
               PROVE  IF Running(d)'
                      THEN /\ Len(cecStep'[d]) <= Len(Plan(d)')
                           /\ \A k \in 1..Len(cecStep'[d]) :
                                 cecStep'[d][k] = Plan(d)'[TakenBy(d)' + k]
                      ELSE cecStep'[d] = <<>>
    BY DEF RestOfPlan
  <2>1. CASE d = c
    <3>1. Len(cecStep'[c]) <= Len(Plan(c))
      BY <1>1, <1>4, <1>5 DEF RestOfPlan
    <3>2. ASSUME NEW k \in 1..Len(cecStep'[c])
          PROVE  cecStep'[c][k] = Plan(c)[TakenBy(c) + 1 + k]
      <4>1. k + 1 \in 1..Len(cecStep[c])
        BY <1>5
      <4>2. cecStep[c][k + 1] = Plan(c)[TakenBy(c) + (k + 1)]
        BY <1>1, <1>4, <4>1 DEF RestOfPlan
      <4>3. TakenBy(c) + (k + 1) = TakenBy(c) + 1 + k
        BY <1>4
      <4>4. QED
        BY <1>5, <4>2, <4>3
    <3>3. QED
      BY <1>4, <1>6, <1>7, <2>1, <3>1, <3>2
  <2>2. CASE d # c
    BY <1>1, <1>5, <1>6, <1>7, <2>2 DEF RestOfPlan
  <2>3. QED
    BY <2>1, <2>2
<1>9. AloneIsKept'
  <2>1. settled \notin CecStates
    BY <1>1, <1>4 DEF AloneIsKept
  <2>2. ASSUME settled = "none", NEW k \in 1..(TakenBy(c) + 1)
        PROVE  HasDone(Plan(c)[k], cecTarget[c])'
    <3>1. CASE k = TakenBy(c) + 1
      <4>1. HasDone(y, cecTarget[c])'
        <5>1. PICK u : u = cecTarget[c]
          OBVIOUS
        <5>2. HasDone(y, u)'
          BY <1>3, <1>4, <5>1, StepDoes
        <5>3. cecTarget'[c] = u
          BY <1>3, <5>1
        <5>4. QED
          BY <5>2, <5>3 DEF HasDone, Fragment
      <4>2. QED
        BY <1>4, <1>6, <3>1, <4>1 DEF HasDone
    <3>2. CASE k # TakenBy(c) + 1
      <4>1. k \in 1..TakenBy(c) /\ k < TakenBy(c) + 1 /\ k \in 1..Len(Plan(c))
        BY <1>4, <3>2
      <4>2. PICK x : x = Plan(c)[k]
        OBVIOUS
      <4>3. HasDone(x, cecTarget[c]) /\ x \in CecSteps
        BY <1>1, <1>4, <2>2, <4>1, <4>2 DEF AloneIsKept
      <4>4. ~Undoes(x, y)
        BY <1>4, <4>1, <4>2, PlansAreKept DEF Plan
      <4>5. PICK u : u = cecTarget[c]
        OBVIOUS
      <4>6. HasDone(x, u)'
        BY <1>3, <1>4, <4>3, <4>4, <4>5, StepKeeps
      <4>7. cecTarget'[c] = u
        BY <1>3, <4>5
      <4>8. Plan(c)'[k] = x
        BY <1>6, <4>2
      <4>9. QED
        BY <4>6, <4>7, <4>8 DEF HasDone, Fragment
    <3>3. QED
      BY <3>1, <3>2
  <2>3. settled' = settled
    BY <1>3
  <2>4. settled \in CecStates \cup {"none"} =>
           \A a, b \in CecCallers : Running(a)' /\ Running(b)' => a = b
    BY <1>1, <1>6 DEF AloneIsKept
  <2>5. ASSUME settled = "none", NEW d \in CecCallers, Running(d)',
               NEW k \in 1..TakenBy(d)'
        PROVE  HasDone(Plan(d)[k], cecTarget[d])'
    <3>1. d = c
      BY <1>4, <1>6, <2>4, <2>5
    <3>2. QED
      BY <1>7, <2>2, <2>5, <3>1
  <2>6. QED
    BY <2>1, <2>3, <2>4, <2>5 DEF AloneIsKept
<1>10. FileWillBeRead'
  <2> SUFFICES ASSUME cecd, settled # "failed"
               PROVE  cecdHas' = fragment' \/ \E d \in CecCallers : cecStep'[d] # <<>>
    BY <1>3 DEF FileWillBeRead
  <2>1. Len(Plan(c)) = 2 /\ Plan(c)[2].do = "apply" /\ Plan(c)[1].do = "write"
    BY <1>4, ApplyIsLast DEF Plan
  <2>2. CASE TakenBy(c) = 0
    <3>1. Len(cecStep'[c]) = 1
      BY <1>4, <1>5, <2>1, <2>2 DEF TakenBy
    <3>2. cecStep'[c] # <<>>
      <4>1. Len(<<>>) = 0
        OBVIOUS
      <4>2. QED
        BY <3>1, <4>1
    <3>3. QED
      BY <3>2
  <2>3. CASE TakenBy(c) = 1
    BY <1>3, <1>4, <2>1, <2>3 DEF Effect
  <2>4. QED
    BY <1>4, <2>1, <2>2, <2>3
<1>11. CecTypeOK'
  <2>1. masked' \subseteq CecUnits /\ known' \subseteq CecUnits
    <3>1. y.do = "mask" => y.unit \in CecUnits
      BY <1>4, PlanMasks DEF Plan
    <3>2. masked \subseteq CecUnits /\ known \subseteq CecUnits
      BY <1>1 DEF CecTypeOK
    <3>3. QED
      BY <1>3, <3>1, <3>2 DEF Effect
  <2>2. unitJobs' \subseteq [do : {"start", "stop"}, unit : CecUnits]
    <3>1. y.do \in {"start", "stop"} => y.unit \in CecUnits
      BY <1>4, PlanUnits DEF Plan
    <3>2. y.do \in {"start", "stop"} => y \in [do : {"start", "stop"}, unit : CecUnits]
      BY <1>4, <3>1 DEF CecSteps
    <3>3. unitJobs \subseteq [do : {"start", "stop"}, unit : CecUnits]
      BY <1>1, CecTypeParts
    <3>4. QED
      BY <1>3, <3>2, <3>3 DEF Effect
  <2>3. {fragment', cecdHas'} \subseteq Fragments
    <3>1. Fragment(cecTarget[c]) \in Fragments
      BY DEF Fragment, Fragments
    <3>2. fragment \in Fragments /\ cecdHas \in Fragments
      BY <1>1 DEF CecTypeOK
    <3>3. QED
      BY <1>3, <3>1, <3>2 DEF Effect
  <2>4. QED
    BY <1>1, <1>3, <1>5, <2>1, <2>2, <2>3 DEF CecTypeOK, listenerVars
<1>12. QED
  BY <1>1, <1>3, <1>8, <1>9, <1>10, <1>11, ListenerStays DEF CecInv

\* A call that ends without having done all leaves nobody to rely on it.
LEMMA FailKeepsCecInv ==
    ASSUME CecInv, NEW c \in CecCallers, CecFails(c)
    PROVE  CecInv'
<1>1. CecTypeOK /\ ListenerKnows /\ RestOfPlan
  BY DEF CecInv
<1>2. /\ cecStep' = [cecStep EXCEPT ![c] = <<>>] /\ cecTarget' = [cecTarget EXCEPT ![c] = "idle"]
      /\ settled' = "failed"
      /\ UNCHANGED <<cecd, masked, known, active, unitJobs, fragment, cecdHas, cecCalls,
                     listenerVars>>
  BY DEF CecFails
<1>3. cecFaults' \in 0..MaxCecFaults
  <2>1. cecFaults \in 0..MaxCecFaults /\ MaxCecFaults \in Nat
    BY <1>1, CecAssumption DEF CecTypeOK
  <2>2. cecFaults' = cecFaults \/ (cecFaults < MaxCecFaults /\ cecFaults' = cecFaults + 1)
    BY DEF CecFails
  <2>3. QED
    BY <2>1, <2>2
<1>4. /\ cecTarget'[c] = "idle" /\ cecStep'[c] = <<>>
      /\ \A d \in CecCallers : d # c => cecTarget'[d] = cecTarget[d] /\ cecStep'[d] = cecStep[d]
  BY <1>1, <1>2, CecTypeParts
<1>5. CecTypeOK'
  <2>1. cecStep' \in [CecCallers -> Seq(CecSteps)]
    <3>1. <<>> \in Seq(CecSteps)
      OBVIOUS
    <3>2. QED
      BY <1>1, <1>2, <3>1, CecTypeParts
  <2>2. cecTarget' \in [CecCallers -> CecStates \cup {"idle"}]
    BY <1>1, <1>2, CecTypeParts
  <2>3. QED
    BY <1>1, <1>2, <1>3, <2>1, <2>2 DEF CecTypeOK, listenerVars
<1>6. RestOfPlan'
  <2>1. \A t : CecStepsOf(t)' = CecStepsOf(t)
    BY <1>2 DEF CecStepsOf
  <2>2. QED
    BY <1>1, <1>4, <2>1 DEF RestOfPlan, Running, Plan, TakenBy
<1>7. AloneIsKept' /\ FileWillBeRead'
  BY <1>2, IdleIsNoState DEF AloneIsKept, FileWillBeRead
<1>8. QED
  BY <1>1, <1>2, <1>5, <1>6, <1>7, ListenerStays DEF CecInv

LEMMA DoneKeepsCecInv ==
    ASSUME CecInv, NEW c \in CecCallers, CecDone(c)
    PROVE  CecInv'
<1>1. CecTypeOK /\ ListenerKnows /\ RestOfPlan /\ AloneIsKept /\ FileWillBeRead
  BY DEF CecInv
<1>2. /\ Running(c) /\ cecStep[c] = <<>> /\ cecTarget' = [cecTarget EXCEPT ![c] = "idle"]
      /\ settled' = IF settled = "none" THEN cecTarget[c] ELSE settled
      /\ UNCHANGED <<cecd, cecStep, masked, known, active, unitJobs, fragment, cecdHas,
                     cecFaults, cecCalls, listenerVars>>
  BY DEF CecDone
<1>3. cecTarget[c] \in CecStates
  BY <1>1, <1>2, CecTypeParts
<1>4. /\ cecTarget'[c] = "idle"
      /\ \A d \in CecCallers : d # c => cecTarget'[d] = cecTarget[d]
  BY <1>1, <1>2, CecTypeParts
<1>5. CecTypeOK'
  <2>1. cecTarget' \in [CecCallers -> CecStates \cup {"idle"}]
    BY <1>1, <1>2, CecTypeParts
  <2>2. settled' \in CecStates \cup {"none", "mixed", "failed"}
    BY <1>1, <1>2, <1>3 DEF CecTypeOK
  <2>3. QED
    BY <1>1, <1>2, <2>1, <2>2 DEF CecTypeOK, listenerVars
<1>6. \A t : CecStepsOf(t)' = CecStepsOf(t)
  BY <1>2 DEF CecStepsOf
<1>7. RestOfPlan'
  <2> SUFFICES ASSUME NEW d \in CecCallers
               PROVE  IF Running(d)'
                      THEN /\ Len(cecStep'[d]) <= Len(Plan(d)')
                           /\ \A k \in 1..Len(cecStep'[d]) :
                                 cecStep'[d][k] = Plan(d)'[TakenBy(d)' + k]
                      ELSE cecStep'[d] = <<>>
    BY DEF RestOfPlan
  <2>1. CASE d = c
    BY <1>2, <1>4, <2>1 DEF Running
  <2>2. CASE d # c
    <3>1. /\ Running(d)' <=> Running(d)
          /\ Plan(d)' = Plan(d) /\ TakenBy(d)' = TakenBy(d) /\ cecStep'[d] = cecStep[d]
      BY <1>2, <1>4, <1>6, <2>2 DEF Running, Plan, TakenBy
    <3>2. QED
      BY <1>1, <3>1 DEF RestOfPlan
  <2>3. QED
    BY <2>1, <2>2
<1>8. \A d \in CecCallers : Running(d)' => d # c /\ Running(d)
  BY <1>4 DEF Running
<1>9. AloneIsKept'
  <2>1. settled \notin CecStates
    BY <1>1, <1>2 DEF AloneIsKept
  <2>2. CASE settled = "none"
    <3>1. settled' = cecTarget[c] /\ \A d \in CecCallers : ~Running(d)'
      BY <1>1, <1>2, <1>8, <2>2 DEF AloneIsKept
    <3>2. TakenBy(c) = Len(Plan(c))
      <4>1. Len(Plan(c)) \in Nat
        BY <1>3, PlanTypes DEF Plan
      <4>2. QED
        BY <1>2, <4>1 DEF TakenBy
    <3>3. \A k \in 1..Len(CecStepsOf(cecTarget[c])) :
             HasDone(CecStepsOf(cecTarget[c])[k], cecTarget[c])
      BY <1>1, <1>2, <2>2, <3>2 DEF AloneIsKept, Plan
    <3>4. \A x, t : HasDone(x, t)' <=> HasDone(x, t)
      BY <1>2 DEF HasDone, WillBeStopped, WillRun
    <3>5. PICK t : t = cecTarget[c]
      OBVIOUS
    <3>6. PICK plan : plan = CecStepsOf(t)
      OBVIOUS
    <3>7. ASSUME NEW k \in 1..Len(CecStepsOf(settled)')
          PROVE  HasDone(CecStepsOf(settled)[k], settled)'
      <4>1. settled' = t /\ CecStepsOf(settled)' = plan
        <5>1. settled' = t /\ cecd' = cecd
          BY <1>2, <3>1, <3>5
        <5>2. CecStepsOf(settled)' = CecStepsOf(t)
          BY <5>1 DEF CecStepsOf
        <5>3. QED
          BY <3>6, <5>1, <5>2
      <4>2. PICK x : x = plan[k]
        OBVIOUS
      <4>3. HasDone(x, t)'
        <5>1. HasDone(x, t)
          BY <3>3, <3>5, <3>6, <3>7, <4>1, <4>2
        <5>2. QED
          BY <3>4, <5>1
      <4>4. QED
        BY <4>1, <4>2, <4>3 DEF HasDone, Fragment
    <3>8. QED
      BY <1>3, <3>1, <3>7, IdleIsNoState DEF AloneIsKept
  <2>3. CASE settled # "none"
    BY <1>2, <2>1, <2>3 DEF AloneIsKept
  <2>4. QED
    BY <2>2, <2>3
<1>10. FileWillBeRead'
  BY <1>1, <1>2, <1>3, IdleIsNoState DEF FileWillBeRead
<1>11. QED
  BY <1>1, <1>2, <1>5, <1>7, <1>9, <1>10, ListenerStays DEF CecInv

LEMMA JobKeepsCecInv ==
    ASSUME CecInv, UnitJob
    PROVE  CecInv'
<1>1. CecTypeOK /\ ListenerKnows /\ RestOfPlan /\ AloneIsKept /\ FileWillBeRead
  BY DEF CecInv
<1>2. UNCHANGED <<cecd, cecStep, cecTarget, masked, known, fragment, cecdHas, cecFaults,
                  cecCalls, settled, listenerVars>>
  BY DEF UnitJob
<1>3. unitJobs \subseteq [do : {"start", "stop"}, unit : CecUnits]
  BY <1>1, CecTypeParts
<1>4. unitJobs' \subseteq unitJobs /\ active' \subseteq CecUnits
  <2>1. PICK j \in unitJobs :
           /\ unitJobs' = unitJobs \ {j}
           /\ active' = IF j.do = "start" THEN active \cup {j.unit} ELSE active \ {j.unit}
    BY DEF UnitJob
  <2>2. j.unit \in CecUnits /\ active \subseteq CecUnits
    BY <1>1, <1>3 DEF CecTypeOK
  <2>3. QED
    BY <2>1, <2>2
<1>5. CecTypeOK'
  BY <1>1, <1>2, <1>3, <1>4 DEF CecTypeOK, listenerVars
<1>6. \A t : CecStepsOf(t)' = CecStepsOf(t)
  BY <1>2 DEF CecStepsOf
<1>7. RestOfPlan'
  BY <1>1, <1>2, <1>6 DEF RestOfPlan, Running, Plan, TakenBy
<1>8. \A x, t : HasDone(x, t) => HasDone(x, t)'
  BY <1>3, JobKeeps
<1>9. AloneIsKept'
  <2>1. \A d \in CecCallers : /\ Running(d)' <=> Running(d)
                              /\ Plan(d)' = Plan(d) /\ TakenBy(d)' = TakenBy(d)
    BY <1>2, <1>6 DEF Running, Plan, TakenBy
  <2>2. settled' = settled /\ cecTarget' = cecTarget
    BY <1>2
  <2>3. ASSUME settled = "none", NEW d \in CecCallers, Running(d), NEW k \in 1..TakenBy(d)
        PROVE  HasDone(Plan(d)[k], cecTarget[d])'
    <3>1. PICK x, t : x = Plan(d)[k] /\ t = cecTarget[d]
      OBVIOUS
    <3>2. HasDone(x, t)'
      BY <1>1, <1>8, <2>3, <3>1 DEF AloneIsKept
    <3>3. Plan(d)'[k] = x /\ cecTarget'[d] = t
      BY <2>1, <2>2, <3>1
    <3>4. QED
      BY <3>2, <3>3 DEF HasDone, Fragment
  <2>4. ASSUME settled \in CecStates, NEW k \in 1..Len(CecStepsOf(settled))
        PROVE  HasDone(CecStepsOf(settled)[k], settled)'
    <3>1. PICK x, t : x = CecStepsOf(settled)[k] /\ t = settled
      OBVIOUS
    <3>2. HasDone(x, t)'
      BY <1>1, <1>8, <2>4, <3>1 DEF AloneIsKept
    <3>3. CecStepsOf(settled)'[k] = x /\ settled' = t
      BY <1>2, <3>1 DEF CecStepsOf
    <3>4. QED
      BY <3>2, <3>3 DEF HasDone, Fragment
  <2>5. Len(CecStepsOf(settled)') = Len(CecStepsOf(settled))
    BY <1>2 DEF CecStepsOf
  <2>6. QED
    BY <1>1, <2>1, <2>2, <2>3, <2>4, <2>5 DEF AloneIsKept
<1>10. FileWillBeRead'
  BY <1>1, <1>2 DEF FileWillBeRead
<1>11. QED
  BY <1>1, <1>2, <1>5, <1>7, <1>9, <1>10, ListenerStays DEF CecInv

\* The listener. The setters' side does not change, but for a failure.
LEMMA SettersStay ==
    ASSUME RestOfPlan, AloneIsKept, FileWillBeRead,
           UNCHANGED <<cecd, cecStep, cecTarget, masked, known, active, unitJobs,
                       fragment, cecdHas, settled>>
    PROVE  RestOfPlan' /\ AloneIsKept' /\ FileWillBeRead'
<1>1. \A t : CecStepsOf(t)' = CecStepsOf(t)
  BY DEF CecStepsOf
<1>2. \A d \in CecCallers : /\ Running(d)' <=> Running(d)
                            /\ Plan(d)' = Plan(d) /\ TakenBy(d)' = TakenBy(d)
  BY <1>1 DEF Running, Plan, TakenBy
<1>3. \A x, t : HasDone(x, t)' <=> HasDone(x, t)
  BY DEF HasDone, WillBeStopped, WillRun
<1>4. RestOfPlan' /\ FileWillBeRead'
  BY <1>2 DEF RestOfPlan, FileWillBeRead
<1>5. ASSUME settled = "none", NEW d \in CecCallers, Running(d), NEW k \in 1..TakenBy(d)
      PROVE  HasDone(Plan(d)[k], cecTarget[d])'
  <2>1. PICK x, t : x = Plan(d)[k] /\ t = cecTarget[d]
    OBVIOUS
  <2>2. HasDone(x, t)'
    BY <1>3, <1>5, <2>1 DEF AloneIsKept
  <2>3. Plan(d)'[k] = x /\ cecTarget'[d] = t
    BY <1>2, <2>1
  <2>4. QED
    BY <2>2, <2>3 DEF HasDone, Fragment
<1>6. ASSUME settled \in CecStates, NEW k \in 1..Len(CecStepsOf(settled))
      PROVE  HasDone(CecStepsOf(settled)[k], settled)'
  <2>1. PICK x, t : x = CecStepsOf(settled)[k] /\ t = settled
    OBVIOUS
  <2>2. HasDone(x, t)'
    BY <1>3, <1>6, <2>1 DEF AloneIsKept
  <2>3. CecStepsOf(settled)'[k] = x /\ settled' = t
    BY <2>1 DEF CecStepsOf
  <2>4. QED
    BY <2>2, <2>3 DEF HasDone, Fragment
<1>7. Len(CecStepsOf(settled)') = Len(CecStepsOf(settled))
  BY DEF CecStepsOf
<1>8. AloneIsKept'
  BY <1>2, <1>5, <1>6, <1>7 DEF AloneIsKept
<1>9. QED
  BY <1>4, <1>8

LEMMA ListenerKeepsCecInv ==
    ASSUME CecInv,
           \/ \E a \in Addresses : Replug(a)
           \/ CecdServiceNew \/ NoCecdService \/ AddressChanges \/ ReadAddress
           \/ SendAddress \/ SendFails \/ NextAddress
    PROVE  CecInv'
<1>1. CecTypeOK /\ ListenerKnows /\ RestOfPlan /\ AloneIsKept /\ FileWillBeRead
  BY DEF CecInv
<1>2. UNCHANGED <<cecd, cecStep, cecTarget, masked, known, active, unitJobs,
                  fragment, cecdHas, cecCalls, settled>>
  BY DEF Replug, CecdServiceNew, NoCecdService, AddressChanges, ReadAddress, SendAddress,
     SendFails, NextAddress, setterVars
<1>3. cecFaults' \in 0..MaxCecFaults /\ replugs' \in 0..MaxReplugs
  <2>1. /\ cecFaults \in 0..MaxCecFaults /\ MaxCecFaults \in Nat
        /\ replugs \in 0..MaxReplugs /\ MaxReplugs \in Nat
    BY <1>1, CecAssumption DEF CecTypeOK
  <2>2. /\ cecFaults' = cecFaults \/ (cecFaults < MaxCecFaults /\ cecFaults' = cecFaults + 1)
        /\ replugs' = replugs \/ (replugs < MaxReplugs /\ replugs' = replugs + 1)
    BY DEF Replug, CecdServiceNew, NoCecdService, AddressChanges, ReadAddress, SendAddress,
       SendFails, NextAddress, setterVars
  <2>3. QED
    BY <2>1, <2>2
<1>4. /\ listener' \in {"new", "read", "send", "wait", "dead"}
      /\ notified' \in BOOLEAN /\ inFlight' \in BOOLEAN
      /\ {cached', sending', address', ecAddress'} \subseteq Addresses
  <2>1. /\ listener \in {"new", "read", "send", "wait", "dead"}
        /\ {cached, sending, address, ecAddress} \subseteq Addresses
    BY <1>1 DEF CecTypeOK
  <2>2. notified \in BOOLEAN /\ inFlight \in BOOLEAN
    BY <1>1 DEF CecTypeOK
  <2>3. listener' \in {"new", "read", "send", "wait", "dead"}
    BY <2>1 DEF Replug, CecdServiceNew, NoCecdService, AddressChanges, ReadAddress, SendAddress,
       SendFails, NextAddress, setterVars
  <2>4. {cached', sending', address', ecAddress'} \subseteq Addresses
    BY <2>1 DEF Replug, CecdServiceNew, NoCecdService, AddressChanges, ReadAddress, SendAddress,
       SendFails, NextAddress, setterVars
  <2>5. notified' \in BOOLEAN /\ inFlight' \in BOOLEAN
    BY <2>2 DEF Replug, CecdServiceNew, NoCecdService, AddressChanges, ReadAddress, SendAddress,
       SendFails, NextAddress, setterVars
  <2>6. QED
    BY <2>3, <2>4, <2>5
<1>5. CecTypeOK'
  BY <1>1, <1>2, <1>3, <1>4 DEF CecTypeOK
<1>6. ListenerKnows'
  BY <1>1 DEF ListenerKnows, Replug, CecdServiceNew, NoCecdService, AddressChanges, ReadAddress,
     SendAddress, SendFails, NextAddress, setterVars
<1>7. QED
  BY <1>1, <1>2, <1>5, <1>6, SettersStay DEF CecInv

\* The invariant holds in every state of Cec.
THEOREM CecInvariant == CecSpec => []CecInv
<1>1. CecInv /\ UNCHANGED cecVars => CecInv'
  <2> SUFFICES ASSUME CecInv, UNCHANGED cecVars PROVE CecInv'
    OBVIOUS
  <2>1. CecTypeOK' /\ ListenerKnows'
    BY DEF CecInv, CecTypeOK, ListenerKnows, cecVars
  <2>2. RestOfPlan' /\ AloneIsKept' /\ FileWillBeRead'
    BY SettersStay DEF CecInv, cecVars
  <2>3. QED
    BY <2>1, <2>2 DEF CecInv
<1>2. CecInv /\ CecNext => CecInv'
  BY SetKeepsCecInv, StepKeepsCecInv, FailKeepsCecInv, DoneKeepsCecInv, JobKeepsCecInv,
     ListenerKeepsCecInv DEF CecNext
<1>3. QED
  BY <1>1, <1>2, InitCecInv, PTL DEF CecSpec

\* What was asked for, what systemd and cecd have, and what the embedded
\* controller has agree once nothing is under way.
THEOREM CecIsAlwaysInStep == CecSpec => []CecInStep
<1>1. CecInv => CecStateIsSet
  <2> SUFFICES ASSUME CecInv, CecQuiet PROVE CecStateIsSet
    BY DEF CecStateIsSet
  <2>1. unitJobs = {} /\ \A c \in CecCallers : ~Running(c)
    BY DEF CecQuiet
  <2>2. \A c \in CecCallers : cecStep[c] = <<>>
    BY <2>1 DEF CecInv, RestOfPlan
  <2>3. cecd /\ settled # "failed" => cecdHas = fragment
    BY <2>2 DEF CecInv, FileWillBeRead
  <2>4. ASSUME settled \in CecStates PROVE ShownCecState = settled /\ (~cecd => active = UnitsOf(settled))
    <3>1. \A k \in 1..Len(CecStepsOf(settled)) : HasDone(CecStepsOf(settled)[k], settled)
      BY <2>4 DEF CecInv, AloneIsKept
    <3>2. active \subseteq {RC, WH}
      BY DEF CecInv, CecTypeOK, CecUnits, RC, WH
    <3>3. CASE cecd
      <4>1. fragment = Fragment(settled) /\ cecdHas = fragment
        <5>1. HasDone(CecStepsOf(settled)[1], settled) /\ HasDone(CecStepsOf(settled)[2], settled)
          BY <2>4, <3>1, <3>3, ApplyIsLast
        <5>2. QED
          BY <2>4, <3>3, <5>1, ApplyIsLast DEF HasDone
      <4>2. QED
        BY <2>4, <3>3, <4>1 DEF ShownCecState, Fragment, CecStates
    <3>4. CASE ~cecd /\ settled = "disabled"
      <4>1. CecStepsOf(settled) = <<On("mask", RC), On("stop", RC), On("mask", WH),
                                    On("stop", WH), On("reload", "-")>>
        BY <3>4 DEF CecStepsOf
      <4>2. /\ HasDone(On("mask", RC), settled) /\ HasDone(On("stop", RC), settled)
            /\ HasDone(On("stop", WH), settled) /\ HasDone(On("reload", "-"), settled)
        BY <3>1, <4>1
      <4>3. RC \in known /\ RC \notin active /\ WH \notin active
        BY <2>1, <4>2 DEF HasDone, On, WillBeStopped
      <4>4. QED
        BY <3>2, <3>4, <4>3 DEF ShownCecState, UnitsOf
    <3>5. CASE ~cecd /\ settled = "control"
      <4>1. CecStepsOf(settled) = <<On("mask", WH), On("stop", WH), On("unmask", RC),
                                    On("reload", "-"), On("start", RC)>>
        BY <3>5 DEF CecStepsOf
      <4>2. /\ HasDone(On("mask", WH), settled) /\ HasDone(On("stop", WH), settled)
            /\ HasDone(On("unmask", RC), settled) /\ HasDone(On("start", RC), settled)
            /\ HasDone(On("reload", "-"), settled)
        BY <3>1, <4>1
      <4>3. RC \notin known /\ WH \in known /\ RC \in active /\ WH \notin active
        BY <2>1, <4>2 DEF HasDone, On, WillBeStopped, WillRun
      <4>4. QED
        BY <3>2, <3>5, <4>3 DEF ShownCecState, UnitsOf, RC
    <3>6. CASE ~cecd /\ settled = "wake"
      <4>1. CecStepsOf(settled) = <<On("unmask", RC), On("unmask", WH), On("reload", "-"),
                                    On("start", RC), On("start", WH)>>
        BY <3>6 DEF CecStepsOf
      <4>2. /\ HasDone(On("unmask", RC), settled) /\ HasDone(On("unmask", WH), settled)
            /\ HasDone(On("start", RC), settled) /\ HasDone(On("start", WH), settled)
            /\ HasDone(On("reload", "-"), settled)
        BY <3>1, <4>1
      <4>3. RC \notin known /\ WH \notin known /\ RC \in active /\ WH \in active
        BY <2>1, <4>2 DEF HasDone, On, WillRun
      <4>4. QED
        BY <3>2, <3>6, <4>3 DEF ShownCecState, UnitsOf, RC, WH, CecUnits
    <3>7. QED
      BY <2>4, <3>3, <3>4, <3>5, <3>6 DEF CecStates
  <2>5. QED
    BY <2>3, <2>4 DEF CecStateIsSet
<1>2. CecInv => EcHasAddress
  BY DEF CecInv, ListenerKnows, EcHasAddress
<1>3. QED
  BY <1>1, <1>2, CecInvariant, PTL DEF CecInStep

-----------------------------------------------------------------------------
(* ScreenReader. What the first call at the mutex has done so far.         *)

CallMidway ==
    /\ readerStep # "start" => mutex # <<>>
    /\ readerStep \in {"file", "unit"} => Holds("enabled")
    /\ readerStep = "reload" => Holds("rate") \/ Holds("voice")

FieldsAreInFile ==
    /\ conf # "good" => agreed = {}
    /\ "rate" \in agreed => rate = settings.rate
    /\ "voice" \in agreed => voice = settings.voice
    /\ orca /\ readerStep # "reload" /\ "orca" \in agreed =>
          /\ "rate" \in agreed => loaded.rate = rate
          /\ "voice" \in agreed => loaded.voice = voice

\* A call that gets through with a new value repairs what a failed one left.
EnabledMidway ==
    /\ readerStep \in {"start", "reload"} /\ ~halfEnabled =>
          gsetting = enabled /\ ("speech" \in agreed => settings.speech = enabled)
    /\ readerStep = "file" => gsetting = Value /\ Value # enabled
    /\ readerStep = "unit" /\ (~halfEnabled \/ Value # enabled) =>
          gsetting = Value /\ ("speech" \in agreed => settings.speech = Value)

\* The service waits for the mutex once, and for nothing else meanwhile.
Stops == {k \in 1..Len(mutex) : mutex[k].op = "stop"}
OneStop ==
    /\ Stops # {} => setup = "stopping"
    /\ \A j, k \in Stops : j = k

\* From the unit to the interfaces: who has not been told is about to be.
ModeIsOnItsWay ==
    /\ current_mode = "unknown" => modes = <<>> /\ ~exported /\ setup = "recv"
    /\ modes # <<>> => modes[Len(modes)] = current_mode
    /\ current_mode # "unknown" /\ modes = <<>> /\ setup = "recv" =>
          exported = (current_mode = "game")
    /\ modes = <<>> /\ setup = "stopping" => current_mode = "desktop"
    /\ current_mode # "unknown" /\ ~unitNotified /\ unit # "activating" =>
          (current_mode = "game") = (unit = "active")

ReaderInv ==
    /\ ReaderTypeOK /\ CallMidway /\ FieldsAreInFile /\ EnabledMidway
    /\ OneStop /\ ModeIsOnItsWay

LEMMA InvIsEnough == ReaderInv => ReaderIsInStep
<1> SUFFICES ASSUME ReaderInv PROVE ReaderIsInStep
  OBVIOUS
<1>1. ~Midway => readerStep = "start"
  BY DEF ReaderInv, CallMidway, Midway
<1>2. ~Midway =>
          /\ "rate" \in agreed =>
                rate = settings.rate /\ (orca /\ "orca" \in agreed => loaded.rate = rate)
          /\ "voice" \in agreed =>
                voice = settings.voice /\ (orca /\ "orca" \in agreed => loaded.voice = voice)
          /\ ~halfEnabled =>
                gsetting = enabled /\ ("speech" \in agreed => settings.speech = enabled)
  BY <1>1 DEF ReaderInv, FieldsAreInFile, EnabledMidway
<1>3. (/\ setup = "recv" /\ modes = <<>> /\ ~unitNotified
       /\ current_mode # "unknown" /\ unit # "activating") =>
          exported = (unit = "active")
  BY DEF ReaderInv, ModeIsOnItsWay
<1>4. QED
  BY <1>2, <1>3 DEF ReaderIsInStep

\* What types the first call's value has.
LEMMA FirstCall ==
    ASSUME ReaderTypeOK, mutex # <<>>
    PROVE  /\ Head(mutex) \in ReaderCalls \cup {StopCall}
           /\ Holds("enabled") => Value \in BOOLEAN
           /\ Holds("rate") => Value \in Rates
           /\ Holds("voice") => Value \in Voices \cup {OtherVoice}
           /\ Holds("mode") => Value \in ReaderModes
<1>1. mutex \in Seq(ReaderCalls \cup {StopCall})
  BY DEF ReaderTypeOK
<1>2. Head(mutex) \in ReaderCalls \cup {StopCall}
  BY <1>1, HeadAndTail
<1>3. QED
  BY <1>2 DEF Holds, Value, ReaderCalls, StopCall

LEMMA LeaveIsFine ==
    ASSUME ReaderInv, mutex # <<>>, Leave
    PROVE  /\ mutex' \in Seq(ReaderCalls \cup {StopCall}) /\ readerStep' = "start"
           /\ CallMidway'
           /\ \A j, k \in Stops' : j = k
           /\ Stops' # {} => Stops # {} /\ ~Holds("stop")
<1>1. mutex \in Seq(ReaderCalls \cup {StopCall})
  BY DEF ReaderInv, ReaderTypeOK
<1>2. mutex' = Tail(mutex) /\ readerStep' = "start"
  BY DEF Leave
<1>3. /\ Len(mutex) \in Nat /\ 1 <= Len(mutex) /\ Head(mutex) = mutex[1]
      /\ mutex' \in Seq(ReaderCalls \cup {StopCall}) /\ Len(mutex') = Len(mutex) - 1
      /\ \A k \in 1..Len(mutex') : mutex'[k] = mutex[k + 1]
  BY <1>1, <1>2, HeadAndTail
<1>4. \A k \in Stops' : k \in 1..Len(mutex') /\ k + 1 \in Stops
  BY <1>3 DEF Stops
<1>5. \A j, k \in Stops : j = k
  BY DEF ReaderInv, OneStop
<1>6. \A j, k \in Stops' : j = k
  BY <1>3, <1>4, <1>5
<1>7. ASSUME Stops' # {}, Holds("stop") PROVE FALSE
  <2>1. 1 \in Stops
    BY <1>3, <1>7 DEF Stops, Holds
  <2>2. QED
    BY <1>3, <1>4, <1>5, <1>7, <2>1
<1>8. CallMidway'
  BY <1>2 DEF CallMidway
<1>9. QED
  BY <1>2, <1>3, <1>4, <1>6, <1>7, <1>8

LEMMA JoinIsFine ==
    ASSUME ReaderInv, NEW c \in ReaderCalls \cup {StopCall}, mutex' = Append(mutex, c),
           readerStep' = readerStep
    PROVE  /\ mutex' \in Seq(ReaderCalls \cup {StopCall})
           /\ CallMidway'
           /\ mutex # <<>> => Value' = Value
           /\ Stops' = Stops \cup (IF c.op = "stop" THEN {Len(mutex) + 1} ELSE {})
<1>1. mutex \in Seq(ReaderCalls \cup {StopCall})
  BY DEF ReaderInv, ReaderTypeOK
<1>2. /\ mutex' \in Seq(ReaderCalls \cup {StopCall})
      /\ Len(mutex) \in Nat /\ Len(mutex') = Len(mutex) + 1 /\ mutex'[Len(mutex) + 1] = c
      /\ \A k \in 1..Len(mutex) : mutex'[k] = mutex[k]
  BY <1>1, AppendAddsOne
<1>3. mutex # <<>> => mutex' # <<>> /\ Head(mutex') = Head(mutex)
  BY <1>1
<1>4. mutex # <<>> => Value' = Value
  BY <1>3 DEF Value
<1>5. CallMidway'
  BY <1>3 DEF ReaderInv, CallMidway, Holds
<1>6. \A k : k \in Stops' <=> k \in Stops \/ (c.op = "stop" /\ k = Len(mutex) + 1)
  BY <1>2 DEF Stops
<1>7. QED
  BY <1>2, <1>4, <1>5, <1>6

\* What the daemon starts with.
LEMMA StartIsFine ==
    ASSUME settings \in SettingsFiles, conf \in {"good", "missing", "bad"}
    PROVE  /\ LoadedRate \in Rates /\ LoadedVoice \in Voices \cup {OtherVoice}
           /\ AgreedAtStart \subseteq {"rate", "voice"}
           /\ conf # "good" => AgreedAtStart = {}
           /\ "rate" \in AgreedAtStart => LoadedRate = settings.rate
           /\ "voice" \in AgreedAtStart => LoadedVoice = settings.voice
BY ReaderAssumption DEF LoadedRate, LoadedVoice, AgreedAtStart, SettingsFiles

LEMMA OthersWriteSettings == OtherFiles \subseteq SettingsFiles
BY ReaderAssumption DEF OtherFiles, SettingsFiles

LEMMA InitReaderInv == ReaderInit => ReaderInv
<1> SUFFICES ASSUME ReaderInit PROVE ReaderInv
  OBVIOUS
<1>1. settings \in SettingsFiles /\ conf \in {"good", "missing", "bad"} /\ loaded = settings
  BY OthersWriteSettings DEF ReaderInit
<1>2. /\ rate \in Rates /\ voice \in Voices \cup {OtherVoice} /\ agreed \subseteq {"rate", "voice"}
      /\ conf # "good" => agreed = {}
      /\ "rate" \in agreed => rate = settings.rate
      /\ "voice" \in agreed => voice = settings.voice
  BY <1>1, StartIsFine DEF ReaderInit
<1>3. /\ mutex = <<>> /\ readerStep = "start" /\ modes = <<>> /\ setup = "recv"
      /\ unit \in {"active", "inactive"} /\ current_mode = "unknown" /\ mode = "browse"
      /\ unitJob = "none" /\ exported = FALSE /\ gsetting = enabled /\ halfEnabled = FALSE
      /\ orca \in BOOLEAN /\ unitNotified \in BOOLEAN /\ gsetting \in BOOLEAN
  BY DEF ReaderInit
<1>4. ReaderTypeOK
  <2>1. {enabled, gsetting, orca, unitNotified, exported, halfEnabled} \subseteq BOOLEAN
    BY <1>3
  <2>2. /\ mutex \in Seq(ReaderCalls \cup {StopCall}) /\ modes \in Seq(LoginModes)
        /\ readerStep \in {"start", "file", "unit", "reload"}
    BY <1>3
  <2>3. mode \in ReaderModes /\ agreed \subseteq {"rate", "voice", "speech", "orca"}
    BY <1>2, <1>3 DEF ReaderModes
  <2>4. /\ unitJob \in {"none", "restart", "stop"} /\ unit \in UnitStates
        /\ current_mode \in LoginModes \cup {"unknown"} /\ setup \in {"recv", "stopping", "ended"}
    BY <1>3 DEF UnitStates
  <2>5. QED
    BY <1>1, <1>2, <2>1, <2>2, <2>3, <2>4 DEF ReaderTypeOK
<1>5. CallMidway /\ FieldsAreInFile /\ EnabledMidway /\ OneStop /\ ModeIsOnItsWay
  BY <1>2, <1>3 DEF CallMidway, FieldsAreInFile, EnabledMidway, OneStop, Stops, ModeIsOnItsWay
<1>6. QED
  BY <1>4, <1>5 DEF ReaderInv

\* What a call leaves alone.
LEMMA ModesStay ==
    ASSUME ReaderInv, UNCHANGED loginVars
    PROVE  ModeIsOnItsWay'
BY DEF ReaderInv, ModeIsOnItsWay, loginVars

LEMMA MutexIsKept ==
    ASSUME ReaderInv, mutex # <<>>, setup' = setup,
           \/ Leave
           \/ mutex' = mutex /\ readerStep' \in {"file", "unit"} /\ Holds("enabled")
           \/ mutex' = mutex /\ readerStep' = "reload" /\ (Holds("rate") \/ Holds("voice"))
    PROVE  /\ CallMidway' /\ OneStop'
           /\ mutex' \in Seq(ReaderCalls \cup {StopCall})
           /\ readerStep' \in {"start", "file", "unit", "reload"}
<1>1. CASE Leave
  BY <1>1, LeaveIsFine DEF OneStop, ReaderInv
<1>2. CASE mutex' = mutex /\ readerStep' \in {"file", "unit"} /\ Holds("enabled")
  BY <1>2 DEF OneStop, Stops, CallMidway, Holds, ReaderInv, ReaderTypeOK
<1>3. CASE mutex' = mutex /\ readerStep' = "reload" /\ (Holds("rate") \/ Holds("voice"))
  BY <1>3 DEF OneStop, Stops, CallMidway, Holds, ReaderInv, ReaderTypeOK
<1>4. QED
  BY <1>1, <1>2, <1>3

LEMMA CallReaderKeepsReaderInv ==
    ASSUME ReaderInv, NEW c \in ReaderCalls, CallReader(c)
    PROVE  ReaderInv'
<1>1. /\ mutex' = Append(mutex, c) /\ readerStep' = readerStep /\ UNCHANGED loginVars
      /\ UNCHANGED <<enabled, rate, voice, mode, orcaVars, halfEnabled, agreed>>
      /\ c \in ReaderCalls \cup {StopCall} /\ c.op # "stop"
  BY DEF CallReader, ReaderCalls
<1>2. /\ mutex' \in Seq(ReaderCalls \cup {StopCall}) /\ CallMidway' /\ Stops' = Stops
      /\ mutex # <<>> => Value' = Value
  BY <1>1, JoinIsFine
<1>3. ReaderTypeOK'
  BY <1>1, <1>2 DEF ReaderInv, ReaderTypeOK, orcaVars, loginVars
<1>4. FieldsAreInFile'
  BY <1>1 DEF ReaderInv, FieldsAreInFile, orcaVars
<1>5. EnabledMidway'
  BY <1>1, <1>2 DEF ReaderInv, EnabledMidway, CallMidway, orcaVars
<1>6. OneStop'
  BY <1>1, <1>2 DEF ReaderInv, OneStop, loginVars
<1>7. QED
  BY <1>1, <1>2, <1>3, <1>4, <1>5, <1>6, ModesStay DEF ReaderInv

\* A write that fails leaves the file alone, or not to be read.
LEMMA FailedWrite ==
    ASSUME ReaderInv, WriteFileFails
    PROVE  /\ settings' = settings /\ agreed' \in {agreed, {}}
           /\ conf' \in {conf, "bad"}
           /\ conf' # "good" => agreed' = {}
BY DEF WriteFileFails, ReaderInv, FieldsAreInFile

LEMMA EnabledKeepsReaderInv ==
    ASSUME ReaderInv, SetGSetting \/ SetOrcaEnabled \/ RestartOrca
    PROVE  ReaderInv'
<1>1. /\ mutex # <<>> /\ Holds("enabled") /\ UNCHANGED loginVars
      /\ UNCHANGED <<rate, voice, mode, orca, loaded>>
  BY DEF SetGSetting, SetOrcaEnabled, RestartOrca, Holds
<1>2. /\ Value \in BOOLEAN
  BY <1>1, FirstCall DEF ReaderInv
<1>3. /\ setup' = setup
      /\ Leave \/ (mutex' = mutex /\ readerStep' \in {"file", "unit"})
  BY DEF SetGSetting, SetOrcaEnabled, RestartOrca, Go, WriteFileFails, ReaderFails, loginVars
<1>4. /\ CallMidway' /\ OneStop' /\ mutex' \in Seq(ReaderCalls \cup {StopCall})
      /\ readerStep' \in {"start", "file", "unit", "reload"}
  BY <1>1, <1>3, MutexIsKept
<1>5. /\ settings \in SettingsFiles /\ enabled \in BOOLEAN /\ gsetting \in BOOLEAN
      /\ halfEnabled \in BOOLEAN /\ unitJob \in {"none", "restart", "stop"}
  BY DEF ReaderInv, ReaderTypeOK
<1>6. Leave => readerStep' = "start"
  BY DEF Leave
<1>7. mutex' = mutex => Value' = Value
  BY DEF Value
<1>8. CASE SetGSetting
  <2>1. /\ UNCHANGED <<enabled, conf, settings, unitJob, halfEnabled, agreed>>
        /\ readerStep = "start"
        /\ \/ Value = enabled /\ readerStep' = "unit" /\ mutex' = mutex /\ gsetting' = gsetting
           \/ Value # enabled /\ readerStep' = "file" /\ mutex' = mutex /\ gsetting' = Value
           \/ readerStep' = "start" /\ gsetting' = gsetting
    BY <1>6, <1>8 DEF SetGSetting, Go, ReaderFails
  <2>2. ReaderTypeOK'
    BY <1>1, <1>2, <1>4, <2>1 DEF ReaderInv, ReaderTypeOK, loginVars
  <2>3. FieldsAreInFile'
    BY <1>1, <2>1 DEF ReaderInv, FieldsAreInFile
  <2>4. EnabledMidway'
    BY <1>7, <2>1 DEF ReaderInv, EnabledMidway
  <2>5. QED
    BY <1>1, <1>4, <2>2, <2>3, <2>4, ModesStay DEF ReaderInv
<1>9. CASE SetOrcaEnabled
  <2>1. /\ UNCHANGED <<enabled, gsetting, unitJob>> /\ readerStep = "file"
        /\ \/ /\ WriteFile([settings EXCEPT !.speech = Value], "speech")
              /\ readerStep' = "unit" /\ mutex' = mutex /\ halfEnabled' = halfEnabled
           \/ /\ conf = "missing" /\ UNCHANGED <<conf, settings, agreed>>
              /\ readerStep' = "unit" /\ mutex' = mutex /\ halfEnabled' = halfEnabled
           \/ readerStep' = "start" /\ halfEnabled' = TRUE /\ WriteFileFails
    BY <1>6, <1>9 DEF SetOrcaEnabled, Go, WriteFileFails, ReaderFails
  <2>2. CASE /\ WriteFile([settings EXCEPT !.speech = Value], "speech")
             /\ readerStep' = "unit" /\ mutex' = mutex /\ halfEnabled' = halfEnabled
    <3>1. /\ settings' \in SettingsFiles /\ settings'.rate = settings.rate
          /\ settings'.voice = settings.voice /\ settings'.speech = Value
      BY <1>2, <1>5, <2>2 DEF SettingsFiles, WriteFile
    <3>2. conf = "good" /\ conf' = conf /\ agreed' = agreed \cup {"speech"}
      BY <2>2 DEF WriteFile
    <3>3. ReaderTypeOK'
      BY <1>1, <1>4, <1>5, <2>1, <2>2, <3>1, <3>2 DEF ReaderInv, ReaderTypeOK, loginVars
    <3>4. FieldsAreInFile'
      BY <1>1, <2>1, <2>2, <3>1, <3>2 DEF ReaderInv, FieldsAreInFile
    <3>5. EnabledMidway'
      BY <1>7, <2>1, <2>2, <3>1, <3>2 DEF ReaderInv, EnabledMidway
    <3>6. QED
      BY <1>1, <1>4, <3>3, <3>4, <3>5, ModesStay DEF ReaderInv
  <2>3. CASE /\ conf = "missing" /\ UNCHANGED <<conf, settings, agreed>>
             /\ readerStep' = "unit" /\ mutex' = mutex /\ halfEnabled' = halfEnabled
    <3>1. ReaderTypeOK'
      BY <1>1, <1>4, <1>5, <2>1, <2>3 DEF ReaderInv, ReaderTypeOK, loginVars
    <3>2. FieldsAreInFile' /\ agreed' = {}
      BY <1>1, <2>1, <2>3 DEF ReaderInv, FieldsAreInFile
    <3>3. EnabledMidway'
      BY <1>7, <2>1, <2>3, <3>2 DEF ReaderInv, EnabledMidway
    <3>4. QED
      BY <1>1, <1>4, <3>1, <3>2, <3>3, ModesStay DEF ReaderInv
  <2>4. CASE readerStep' = "start" /\ halfEnabled' = TRUE /\ WriteFileFails
    <3>1. ReaderTypeOK'
      BY <1>1, <1>4, <1>5, <2>1, <2>4, FailedWrite DEF ReaderInv, ReaderTypeOK, loginVars
    <3>2. FieldsAreInFile'
      BY <1>1, <2>1, <2>4, FailedWrite DEF ReaderInv, FieldsAreInFile
    <3>3. EnabledMidway'
      BY <2>1, <2>4 DEF EnabledMidway
    <3>4. QED
      BY <1>1, <1>4, <3>1, <3>2, <3>3, ModesStay DEF ReaderInv
  <2>5. QED
    BY <2>1, <2>2, <2>3, <2>4
<1>10. CASE RestartOrca
  <2>1. /\ UNCHANGED <<gsetting, conf, settings, agreed>>
        /\ readerStep = "unit" /\ readerStep' = "start"
        /\ \/ /\ unitJob' \in {"restart", "stop"} /\ enabled' = Value
              /\ halfEnabled' = (halfEnabled /\ Value = enabled)
           \/ /\ unitJob' = unitJob /\ enabled' = enabled
              /\ halfEnabled' = (halfEnabled \/ Value # enabled)
    BY <1>6, <1>10 DEF RestartOrca, ReaderFails
  <2>2. ReaderTypeOK'
    BY <1>1, <1>2, <1>4, <1>5, <2>1 DEF ReaderInv, ReaderTypeOK, loginVars
  <2>3. FieldsAreInFile'
    BY <1>1, <2>1 DEF ReaderInv, FieldsAreInFile
  <2>4. EnabledMidway'
    BY <1>5, <2>1 DEF ReaderInv, EnabledMidway
  <2>5. QED
    BY <1>1, <1>4, <2>2, <2>3, <2>4, ModesStay DEF ReaderInv
<1>11. QED
  BY <1>8, <1>9, <1>10

LEMMA OptionKeepsReaderInv ==
    ASSUME ReaderInv, SetOrcaOption \/ SetOrcaVoice \/ ReloadOrca \/ SetMode
    PROVE  ReaderInv'
<1>1. /\ mutex # <<>> /\ ~Holds("enabled") /\ UNCHANGED loginVars
      /\ UNCHANGED <<enabled, gsetting, orca, unitJob, halfEnabled>>
  BY DEF SetOrcaOption, SetOrcaVoice, ReloadOrca, SetMode, Holds, orcaVars
<1>2. readerStep \in {"start", "reload"}
  BY <1>1 DEF ReaderInv, CallMidway, ReaderTypeOK
<1>3. \/ Leave
      \/ mutex' = mutex /\ readerStep' = "reload" /\ (Holds("rate") \/ Holds("voice"))
  BY DEF SetOrcaOption, SetOrcaVoice, ReloadOrca, SetMode, Go, WriteFileFails, ReaderFails
<1>4. /\ CallMidway' /\ OneStop' /\ mutex' \in Seq(ReaderCalls \cup {StopCall})
      /\ readerStep' \in {"start", "reload"}
  BY <1>1, <1>3, MutexIsKept DEF loginVars, Leave
<1>5. settings \in SettingsFiles /\ loaded \in SettingsFiles
  BY DEF ReaderInv, ReaderTypeOK
<1>6. /\ Leave => readerStep' = "start"
      /\ Holds("rate") => Value \in Rates
      /\ Holds("mode") => Value \in ReaderModes
  BY <1>1, FirstCall DEF Leave, ReaderInv
<1>7. ASSUME UNCHANGED <<rate, voice, mode, loaded>>, readerStep = "start", Leave,
             settings' = settings, agreed' \in {agreed, {}}, conf' \in {conf, "bad"},
             conf' # "good" => agreed' = {}
      PROVE  ReaderInv'
  <2>1. ReaderTypeOK'
    BY <1>1, <1>4, <1>7 DEF ReaderInv, ReaderTypeOK, loginVars
  <2>2. FieldsAreInFile'
    BY <1>1, <1>7 DEF ReaderInv, FieldsAreInFile
  <2>3. EnabledMidway'
    BY <1>1, <1>6, <1>7 DEF ReaderInv, EnabledMidway
  <2>4. QED
    BY <1>1, <1>4, <2>1, <2>2, <2>3, ModesStay DEF ReaderInv
<1>8. CASE SetOrcaOption
  <2>1. UNCHANGED <<voice, mode, loaded>> /\ Value \in Rates /\ readerStep = "start"
    BY <1>6, <1>8 DEF SetOrcaOption
  <2>2. CASE WriteFileFails /\ UNCHANGED rate
    BY <1>7, <2>1, <2>2, FailedWrite DEF WriteFileFails, ReaderFails
  <2>3. CASE /\ WriteFile([settings EXCEPT !.rate = Value], "rate") /\ rate' = Value
             /\ Go("reload")
    <3>1. /\ settings' \in SettingsFiles /\ settings'.voice = settings.voice
          /\ settings'.speech = settings.speech /\ settings'.rate = Value
          /\ conf = "good" /\ conf' = conf /\ agreed' = agreed \cup {"rate"}
          /\ readerStep' = "reload" /\ rate' = Value
      BY <1>5, <2>1, <2>3 DEF SettingsFiles, WriteFile, Go
    <3>2. ReaderTypeOK'
      BY <1>1, <1>4, <2>1, <3>1 DEF ReaderInv, ReaderTypeOK, loginVars
    <3>3. FieldsAreInFile'
      BY <1>1, <2>1, <3>1 DEF ReaderInv, FieldsAreInFile
    <3>4. EnabledMidway'
      BY <1>1, <2>1, <3>1 DEF ReaderInv, EnabledMidway
    <3>5. QED
      BY <1>1, <1>4, <3>2, <3>3, <3>4, ModesStay DEF ReaderInv
  <2>4. QED
    BY <1>8, <2>2, <2>3 DEF SetOrcaOption
<1>9. CASE SetOrcaVoice
  <2>1. UNCHANGED <<rate, mode, loaded>> /\ readerStep = "start"
    BY <1>9 DEF SetOrcaVoice
  <2>2. CASE WriteFileFails /\ UNCHANGED voice
    BY <1>7, <2>1, <2>2, FailedWrite DEF WriteFileFails, ReaderFails
  <2>3. CASE Leave /\ UNCHANGED <<conf, settings, agreed, voice>>
    BY <1>7, <2>1, <2>3 DEF ReaderInv, FieldsAreInFile
  <2>4. CASE /\ Value \in Voices /\ WriteFile([settings EXCEPT !.voice = Value], "voice")
             /\ voice' = Value /\ Go("reload")
    <3>1. /\ settings' \in SettingsFiles /\ settings'.rate = settings.rate
          /\ settings'.speech = settings.speech /\ settings'.voice = Value
          /\ conf = "good" /\ conf' = conf /\ agreed' = agreed \cup {"voice"}
          /\ readerStep' = "reload" /\ voice' = Value
      BY <1>5, <2>1, <2>4 DEF SettingsFiles, WriteFile, Go
    <3>2. ReaderTypeOK'
      BY <1>1, <1>4, <2>1, <2>4, <3>1 DEF ReaderInv, ReaderTypeOK, loginVars
    <3>3. FieldsAreInFile'
      BY <1>1, <2>1, <3>1 DEF ReaderInv, FieldsAreInFile
    <3>4. EnabledMidway'
      BY <1>1, <2>1, <3>1 DEF ReaderInv, EnabledMidway
    <3>5. QED
      BY <1>1, <1>4, <3>2, <3>3, <3>4, ModesStay DEF ReaderInv
  <2>5. QED
    BY <1>9, <2>2, <2>3, <2>4 DEF SetOrcaVoice
<1>10. CASE ReloadOrca
  <2>1. /\ UNCHANGED <<rate, voice, mode, conf, settings>>
        /\ \/ conf = "good" /\ orca /\ loaded' = settings /\ agreed' = agreed \cup {"orca"}
           \/ ~(conf = "good" /\ orca) /\ UNCHANGED <<loaded, agreed>>
    BY <1>1, <1>10 DEF ReloadOrca, OrcaReads
  <2>2. ReaderTypeOK'
    BY <1>1, <1>4, <1>5, <2>1 DEF ReaderInv, ReaderTypeOK, loginVars
  <2>3. FieldsAreInFile'
    BY <1>1, <2>1 DEF ReaderInv, FieldsAreInFile
  <2>4. EnabledMidway'
    BY <1>1, <1>2, <1>4, <2>1 DEF ReaderInv, EnabledMidway
  <2>5. QED
    BY <1>1, <1>4, <2>2, <2>3, <2>4, ModesStay DEF ReaderInv
<1>11. CASE SetMode
  <2>1. /\ UNCHANGED <<rate, voice, conf, settings, loaded, agreed>>
        /\ readerStep = "start" /\ mode' \in ReaderModes
    <3>1. UNCHANGED <<rate, voice, conf, settings, loaded, agreed>> /\ (Holds("mode") \/ Holds("toggle"))
      BY <1>11 DEF SetMode, orcaVars
    <3>2. readerStep = "start"
      BY <1>2, <3>1 DEF ReaderInv, CallMidway, Holds
    <3>3. mode \in ReaderModes
      BY DEF ReaderInv, ReaderTypeOK
    <3>4. mode' \in ReaderModes
      BY <1>6, <1>11, <3>3 DEF SetMode, ReaderModes
    <3>5. QED
      BY <3>1, <3>2, <3>4
  <2>2. ReaderTypeOK'
    BY <1>1, <1>4, <2>1 DEF ReaderInv, ReaderTypeOK, loginVars
  <2>3. FieldsAreInFile'
    BY <1>1, <2>1 DEF ReaderInv, FieldsAreInFile
  <2>4. EnabledMidway'
    BY <1>1, <1>2, <1>4, <2>1 DEF ReaderInv, EnabledMidway
  <2>5. QED
    BY <1>1, <1>4, <2>2, <2>3, <2>4, ModesStay DEF ReaderInv
<1>12. QED
  BY <1>8, <1>10, <1>11, <1>9

LEMMA OrcaKeepsReaderInv ==
    ASSUME ReaderInv, RunJob \/ OrcaEnds \/ FileChanges
    PROVE  ReaderInv'
<1>1. UNCHANGED <<managerVars, gsetting, loginVars, halfEnabled>>
  BY DEF RunJob, OrcaEnds, FileChanges
<1>2. /\ orca' \in BOOLEAN /\ unitJob' \in {"none", "restart", "stop"}
      /\ conf' \in {"good", "missing", "bad"}
      /\ settings' \in SettingsFiles /\ loaded' \in {settings, loaded}
      /\ \/ agreed' = {}
         \/ /\ UNCHANGED <<conf, settings>>
            /\ \/ agreed' = agreed /\ loaded' = loaded /\ (orca' => orca \/ conf # "good")
               \/ conf = "good" /\ agreed' = agreed \cup {"orca"} /\ loaded' = settings
  BY OthersWriteSettings DEF RunJob, OrcaEnds, FileChanges, OrcaReads, ReaderInv, ReaderTypeOK
<1>3. ReaderTypeOK'
  BY <1>1, <1>2 DEF ReaderInv, ReaderTypeOK, managerVars, loginVars
<1>4. FieldsAreInFile'
  BY <1>1, <1>2 DEF ReaderInv, FieldsAreInFile, managerVars
<1>5. EnabledMidway'
  <2>1. UNCHANGED <<mutex, readerStep, enabled, gsetting, halfEnabled>> /\ Value' = Value
    BY <1>1 DEF managerVars, Value
  <2>2. "speech" \in agreed' => "speech" \in agreed /\ settings' = settings
    BY <1>2
  <2>3. QED
    BY <2>1, <2>2 DEF ReaderInv, EnabledMidway
<1>6. CallMidway' /\ OneStop'
  BY <1>1 DEF ReaderInv, CallMidway, OneStop, Stops, Holds, managerVars, loginVars
<1>7. QED
  BY <1>1, <1>3, <1>4, <1>5, <1>6, ModesStay DEF ReaderInv

\* What the session's services leave alone.
LEMMA ManagerStays ==
    ASSUME ReaderInv, UNCHANGED <<readerStep, enabled, rate, voice, mode, orcaVars, halfEnabled, agreed>>,
           mutex # <<>> => Value' = Value
    PROVE  /\ FieldsAreInFile' /\ EnabledMidway'
           /\ readerStep' \in {"start", "file", "unit", "reload"} /\ rate' \in Rates
           /\ voice' \in Voices \cup {OtherVoice} /\ mode' \in ReaderModes
           /\ settings' \in SettingsFiles /\ loaded' \in SettingsFiles
           /\ unitJob' \in {"none", "restart", "stop"}
           /\ conf' \in {"good", "missing", "bad"}
           /\ agreed' \subseteq {"rate", "voice", "speech", "orca"}
           /\ {enabled', gsetting', orca', halfEnabled'} \subseteq BOOLEAN
<1>1. FieldsAreInFile'
  BY DEF ReaderInv, FieldsAreInFile, orcaVars
<1>2. EnabledMidway'
  BY DEF ReaderInv, EnabledMidway, CallMidway, orcaVars
<1>3. QED
  BY <1>1, <1>2 DEF ReaderInv, ReaderTypeOK, orcaVars

LEMMA ModeSent ==
    ASSUME ReaderInv, NEW m \in LoginModes, SendMode(m)
    PROVE  /\ modes' \in Seq(LoginModes) /\ modes' # <<>> /\ modes'[Len(modes')] = m
           /\ current_mode' = m /\ m # "unknown"
<1>1. modes \in Seq(LoginModes)
  BY DEF ReaderInv, ReaderTypeOK
<1>2. modes' = Append(modes, m) /\ current_mode' = m
  BY DEF SendMode
<1>3. /\ modes' \in Seq(LoginModes) /\ Len(modes) \in Nat /\ Len(modes') = Len(modes) + 1
      /\ modes'[Len(modes) + 1] = m
  BY <1>1, <1>2, AppendAddsOne
<1>4. QED
  BY <1>2, <1>3 DEF LoginModes

LEMMA SessionKeepsReaderInv ==
    ASSUME ReaderInv,
           (\E s \in UnitStates : UnitChanges(s)) \/ StartSessionManager \/ HandleUnit
    PROVE  ReaderInv'
<1>1. UNCHANGED <<managerVars, orcaVars, setup, exported, halfEnabled, agreed>>
  BY DEF UnitChanges, StartSessionManager, HandleUnit
<1>2. /\ FieldsAreInFile' /\ EnabledMidway' /\ CallMidway' /\ OneStop'
  <2>1. FieldsAreInFile' /\ EnabledMidway'
    BY <1>1, ManagerStays DEF managerVars, Value
  <2>2. CallMidway' /\ OneStop'
    BY <1>1 DEF ReaderInv, CallMidway, OneStop, Stops, Holds, managerVars
  <2>3. QED
    BY <2>1, <2>2
<1>3. /\ unit \in UnitStates /\ unitNotified \in BOOLEAN /\ exported \in BOOLEAN
      /\ current_mode \in LoginModes \cup {"unknown"} /\ modes \in Seq(LoginModes)
  BY DEF ReaderInv, ReaderTypeOK
<1>4. CASE \E s \in UnitStates : UnitChanges(s)
  <2>1. /\ unit' \in UnitStates /\ unitNotified' = TRUE /\ UNCHANGED <<current_mode, modes>>
    BY <1>4 DEF UnitChanges
  <2>2. ModeIsOnItsWay'
    BY <1>1, <2>1 DEF ReaderInv, ModeIsOnItsWay
  <2>3. ReaderTypeOK'
    BY <1>1, <2>1 DEF ReaderInv, ReaderTypeOK, managerVars, orcaVars
  <2>4. QED
    BY <1>2, <2>2, <2>3 DEF ReaderInv
<1>5. CASE StartSessionManager
  <2>1. /\ UNCHANGED <<unit, unitNotified>> /\ current_mode = "unknown"
        /\ SendMode(IF unit = "active" THEN "game" ELSE "desktop")
    BY <1>5 DEF StartSessionManager
  <2>2. PICK m \in LoginModes : SendMode(m) /\ (m = "game" <=> unit = "active")
    BY <2>1 DEF LoginModes
  <2>3. /\ modes' \in Seq(LoginModes) /\ modes' # <<>> /\ modes'[Len(modes')] = m
        /\ current_mode' = m /\ m # "unknown"
    BY <2>2, ModeSent
  <2>4. ModeIsOnItsWay'
    BY <1>1, <2>1, <2>2, <2>3 DEF ReaderInv, ModeIsOnItsWay
  <2>5. ReaderTypeOK'
    BY <1>1, <2>1, <2>2, <2>3 DEF ReaderInv, ReaderTypeOK, managerVars, orcaVars
  <2>6. QED
    BY <1>2, <2>4, <2>5 DEF ReaderInv
<1>6. CASE HandleUnit
  <2>1. PICK m : m = ModeOf(unit, current_mode)
    OBVIOUS
  <2>2. /\ UNCHANGED unit /\ unitNotified' = FALSE /\ current_mode # "unknown"
        /\ IF m = current_mode THEN UNCHANGED <<current_mode, modes>> ELSE SendMode(m)
    BY <1>6, <2>1 DEF HandleUnit
  <2>3. m \in LoginModes /\ (unit # "activating" => (m = "game" <=> unit = "active"))
    BY <1>3, <2>1, <2>2 DEF ModeOf, LoginModes
  <2>4. CASE m = current_mode
    <3>1. ModeIsOnItsWay'
      BY <1>1, <2>2, <2>3, <2>4 DEF ReaderInv, ModeIsOnItsWay
    <3>2. ReaderTypeOK'
      BY <1>1, <2>2, <2>4 DEF ReaderInv, ReaderTypeOK, managerVars, orcaVars
    <3>3. QED
      BY <1>2, <3>1, <3>2 DEF ReaderInv
  <2>5. CASE m # current_mode
    <3>1. /\ modes' \in Seq(LoginModes) /\ modes' # <<>> /\ modes'[Len(modes')] = m
          /\ current_mode' = m /\ m # "unknown"
      BY <2>2, <2>3, <2>5, ModeSent
    <3>2. ModeIsOnItsWay'
      BY <1>1, <2>2, <2>3, <3>1 DEF ReaderInv, ModeIsOnItsWay
    <3>3. ReaderTypeOK'
      BY <1>1, <2>2, <2>3, <3>1 DEF ReaderInv, ReaderTypeOK, managerVars, orcaVars
    <3>4. QED
      BY <1>2, <3>2, <3>3 DEF ReaderInv
  <2>6. QED
    BY <2>4, <2>5
<1>7. QED
  BY <1>4, <1>5, <1>6

LEMMA ReceiveKeepsReaderInv ==
    ASSUME ReaderInv, ReceiveMode
    PROVE  ReaderInv'
<1>1. /\ UNCHANGED <<readerStep, enabled, rate, voice, mode, orcaVars, unit, unitNotified,
                     current_mode, halfEnabled, agreed>>
      /\ setup = "recv" /\ modes # <<>>
      /\ \/ setup' = "ended" /\ UNCHANGED <<modes, exported, mutex>>
         \/ /\ modes' = Tail(modes) /\ Head(modes) = "game" /\ exported' = TRUE
            /\ UNCHANGED <<setup, mutex>>
         \/ /\ modes' = Tail(modes) /\ Head(modes) # "game" /\ setup' = "stopping"
            /\ mutex' = Append(mutex, StopCall) /\ UNCHANGED exported
  BY DEF ReceiveMode
<1>2. /\ modes \in Seq(LoginModes) /\ exported \in BOOLEAN
      /\ mutex \in Seq(ReaderCalls \cup {StopCall})
  BY DEF ReaderInv, ReaderTypeOK
<1>3. /\ Len(modes) \in Nat /\ 1 <= Len(modes) /\ Head(modes) = modes[1] /\ Head(modes) \in LoginModes
      /\ Tail(modes) \in Seq(LoginModes) /\ Len(Tail(modes)) = Len(modes) - 1
      /\ \A k \in 1..Len(Tail(modes)) : Tail(modes)[k] = modes[k + 1]
  BY <1>1, <1>2, HeadAndTail
<1>4. modes[Len(modes)] = current_mode /\ current_mode # "unknown"
  BY <1>1 DEF ReaderInv, ModeIsOnItsWay
<1>5. /\ Tail(modes) # <<>> => Tail(modes)[Len(Tail(modes))] = current_mode
      /\ Tail(modes) = <<>> => Head(modes) = current_mode
  <2>1. PICK t \in Seq(LoginModes) : t = Tail(modes)
    BY <1>3
  <2>2. Len(t) \in Nat /\ (t # <<>> => Len(t) >= 1) /\ (t = <<>> => Len(t) = 0)
    OBVIOUS
  <2>3. Len(t) = Len(modes) - 1 /\ \A k \in 1..Len(t) : t[k] = modes[k + 1]
    BY <1>3, <2>1
  <2>4. Len(t) + 1 = Len(modes) /\ Head(modes) = modes[1]
    BY <1>3, <2>2, <2>3
  <2>5. t # <<>> => t[Len(t)] = modes[Len(t) + 1]
    BY <2>2, <2>3
  <2>6. t = <<>> => Head(modes) = modes[Len(modes)]
    <3>1. PICK n \in Nat : n = Len(modes)
      BY <1>3
    <3>2. t = <<>> => n = 1
      BY <2>2, <2>4, <3>1
    <3>3. QED
      BY SMTT(30), <2>4, <3>1, <3>2
  <2>7. QED
    BY <1>4, <2>1, <2>4, <2>5, <2>6
<1>6. ModeIsOnItsWay'
  BY <1>1, <1>3, <1>4, <1>5 DEF ReaderInv, ModeIsOnItsWay, LoginModes
<1>7. /\ CallMidway' /\ OneStop' /\ mutex' \in Seq(ReaderCalls \cup {StopCall})
      /\ mutex # <<>> => Value' = Value
  <2>1. CASE mutex' = mutex
    BY <1>1, <1>2, <2>1 DEF ReaderInv, CallMidway, OneStop, Stops, Holds, Value
  <2>2. CASE mutex' = Append(mutex, StopCall) /\ setup' = "stopping"
    <3>1. /\ mutex' \in Seq(ReaderCalls \cup {StopCall}) /\ CallMidway'
          /\ mutex # <<>> => Value' = Value
          /\ Stops' = Stops \cup {Len(mutex) + 1}
      BY <1>1, <2>2, JoinIsFine DEF StopCall
    <3>2. Stops = {}
      BY <1>1 DEF ReaderInv, OneStop
    <3>3. OneStop'
      BY <2>2, <3>1, <3>2 DEF OneStop
    <3>4. QED
      BY <3>1, <3>3
  <2>3. QED
    BY <1>1, <2>1, <2>2
<1>8. /\ FieldsAreInFile' /\ EnabledMidway'
      /\ readerStep' \in {"start", "file", "unit", "reload"} /\ rate' \in Rates
      /\ voice' \in Voices \cup {OtherVoice} /\ mode' \in ReaderModes
      /\ settings' \in SettingsFiles /\ loaded' \in SettingsFiles
      /\ unitJob' \in {"none", "restart", "stop"}
      /\ conf' \in {"good", "missing", "bad"}
      /\ agreed' \subseteq {"rate", "voice", "speech", "orca"}
      /\ {enabled', gsetting', orca', halfEnabled'} \subseteq BOOLEAN
  BY <1>1, <1>7, ManagerStays
<1>9. ReaderTypeOK'
  <2>1. /\ modes' \in Seq(LoginModes) /\ exported' \in BOOLEAN
        /\ setup' \in {"recv", "stopping", "ended"}
    BY <1>1, <1>2, <1>3
  <2>2. /\ unit' \in UnitStates /\ current_mode' \in LoginModes \cup {"unknown"}
        /\ unitNotified' \in BOOLEAN
    BY <1>1 DEF ReaderInv, ReaderTypeOK
  <2>3. QED
    BY <1>7, <1>8, <2>1, <2>2 DEF ReaderTypeOK
<1>10. QED
  BY <1>6, <1>7, <1>8, <1>9 DEF ReaderInv

LEMMA StopKeepsReaderInv ==
    ASSUME ReaderInv, StopOrca
    PROVE  ReaderInv'
<1>1. /\ Holds("stop") /\ mutex # <<>> /\ Leave /\ exported' = FALSE /\ setup' = "recv"
      /\ unitJob' \in {unitJob, "stop"}
      /\ UNCHANGED <<enabled, rate, voice, mode, gsetting, conf, settings, orca, loaded, unit,
                     unitNotified, current_mode, modes, halfEnabled, agreed>>
  BY DEF StopOrca, Holds
<1>2. /\ mutex' \in Seq(ReaderCalls \cup {StopCall}) /\ readerStep' = "start"
      /\ CallMidway' /\ Stops' = {}
  BY <1>1, LeaveIsFine
<1>3. readerStep = "start"
  BY <1>1 DEF ReaderInv, CallMidway, ReaderTypeOK, Holds
<1>4. setup = "stopping"
  <2>1. mutex \in Seq(ReaderCalls \cup {StopCall})
    BY DEF ReaderInv, ReaderTypeOK
  <2>2. 1 \in Stops
    BY <1>1, <2>1, HeadAndTail DEF Stops, Holds
  <2>3. QED
    BY <2>2 DEF ReaderInv, OneStop
<1>5. OneStop'
  BY <1>2 DEF OneStop
<1>6. ModeIsOnItsWay'
  BY <1>1, <1>4 DEF ReaderInv, ModeIsOnItsWay
<1>7. FieldsAreInFile' /\ EnabledMidway'
  BY <1>1, <1>2, <1>3 DEF ReaderInv, FieldsAreInFile, EnabledMidway
<1>8. ReaderTypeOK'
  BY <1>1, <1>2 DEF ReaderInv, ReaderTypeOK
<1>9. QED
  BY <1>2, <1>5, <1>6, <1>7, <1>8 DEF ReaderInv

\* The next process knows what it finds, and has asked for nothing.
LEMMA RestartKeepsReaderInv ==
    ASSUME ReaderInv, UserDaemonRestarts
    PROVE  ReaderInv'
<1>1. /\ setup' = "recv" /\ mutex' = <<>> /\ readerStep' = "start" /\ enabled' = gsetting
      /\ mode' = "browse" /\ current_mode' = "unknown" /\ modes' = <<>> /\ exported' = FALSE
      /\ unitNotified' \in BOOLEAN /\ halfEnabled' = FALSE
      /\ UNCHANGED <<gsetting, conf, settings, orca, loaded, unitJob, unit>>
      /\ rate' = LoadedRate /\ voice' = LoadedVoice /\ agreed' = AgreedAtStart
  BY DEF UserDaemonRestarts, orcaVars
<1>2. settings \in SettingsFiles /\ conf \in {"good", "missing", "bad"} /\ gsetting \in BOOLEAN
  BY DEF ReaderInv, ReaderTypeOK
<1>3. /\ rate' \in Rates /\ voice' \in Voices \cup {OtherVoice}
      /\ agreed' \subseteq {"rate", "voice"}
      /\ conf # "good" => agreed' = {}
      /\ "rate" \in agreed' => rate' = settings.rate
      /\ "voice" \in agreed' => voice' = settings.voice
  BY <1>1, <1>2, StartIsFine
<1>4. ReaderTypeOK'
  <2>1. mutex' \in Seq(ReaderCalls \cup {StopCall}) /\ modes' \in Seq(LoginModes)
    BY <1>1
  <2>2. {enabled', gsetting', orca', unitNotified', exported', halfEnabled'} \subseteq BOOLEAN
    BY <1>1 DEF ReaderInv, ReaderTypeOK
  <2>3. /\ readerStep' \in {"start", "file", "unit", "reload"} /\ mode' \in ReaderModes
        /\ agreed' \subseteq {"rate", "voice", "speech", "orca"}
        /\ current_mode' \in LoginModes \cup {"unknown"}
        /\ setup' \in {"recv", "stopping", "ended"}
    BY <1>1, <1>3 DEF ReaderModes
  <2>4. /\ conf' \in {"good", "missing", "bad"} /\ settings' \in SettingsFiles
        /\ loaded' \in SettingsFiles /\ unitJob' \in {"none", "restart", "stop"}
        /\ unit' \in UnitStates
    BY <1>1 DEF ReaderInv, ReaderTypeOK
  <2>5. QED
    BY <1>3, <2>1, <2>2, <2>3, <2>4 DEF ReaderTypeOK
<1>5. FieldsAreInFile' /\ EnabledMidway' /\ CallMidway' /\ OneStop' /\ ModeIsOnItsWay'
  BY <1>1, <1>3 DEF FieldsAreInFile, EnabledMidway, CallMidway, OneStop, Stops, ModeIsOnItsWay
<1>6. QED
  BY <1>4, <1>5 DEF ReaderInv

-----------------------------------------------------------------------------

\* Where each call, and the way from the unit to the interfaces, is.
THEOREM ReaderInvariant == ReaderSpec => []ReaderInv
<1>1. ReaderInv /\ UNCHANGED readerVars => ReaderInv'
  <2> SUFFICES ASSUME ReaderInv, UNCHANGED readerVars PROVE ReaderInv'
    OBVIOUS
  <2>1. /\ UNCHANGED <<readerStep, enabled, rate, voice, mode, orcaVars, halfEnabled, agreed>>
        /\ UNCHANGED <<mutex, loginVars>>
    BY DEF readerVars, managerVars
  <2>2. ReaderTypeOK'
    BY <2>1 DEF ReaderInv, ReaderTypeOK, orcaVars, loginVars
  <2>3. FieldsAreInFile' /\ EnabledMidway' /\ CallMidway' /\ OneStop'
    <3>1. FieldsAreInFile' /\ EnabledMidway'
      BY <2>1, ManagerStays DEF Value
    <3>2. CallMidway' /\ OneStop'
      BY <2>1 DEF ReaderInv, CallMidway, OneStop, Stops, Holds, loginVars
    <3>3. QED
      BY <3>1, <3>2
  <2>4. QED
    BY <2>1, <2>2, <2>3, ModesStay DEF ReaderInv
<1>2. ReaderInv /\ [ReaderNext]_readerVars => ReaderInv'
  BY <1>1, CallReaderKeepsReaderInv, EnabledKeepsReaderInv, OptionKeepsReaderInv,
     OrcaKeepsReaderInv, SessionKeepsReaderInv, ReceiveKeepsReaderInv, StopKeepsReaderInv,
     RestartKeepsReaderInv
     DEF ReaderNext
<1>3. QED
  BY <1>2, InitReaderInv, PTL DEF ReaderSpec

\* What the screen reader's interfaces show of a file that the daemon has read or
\* written is what the file says and what a running Orca has read, and the
\* interfaces are there in the game mode only, whatever fails, however the unit
\* changes meanwhile, and also after the daemon has stopped and come back.
THEOREM ReaderIsAlwaysInStep == ReaderSpec => []ReaderIsInStep
BY ReaderInvariant, InvIsEnough, PTL

-----------------------------------------------------------------------------
(* Wifi. A method that runs has the rest of its steps to take.             *)

Runs(op) == result = "running" /\ wifiCall.op = op
Stays(op) == result \in {"running", "ok"} /\ wifiCall.op = op

RestOfSteps ==
    /\ result # "running" => todo = <<>>
    /\ result = "running" =>
          LET plan == StepsOf(wifiCall)
          IN  /\ wifiCall \in WifiCalls
              /\ Len(todo) <= Len(plan)
              /\ \A k \in 1..Len(todo) : todo[k] = plan[Len(plan) - Len(todo) + k]

\* What a debug mode call that runs has done, by what is left to do. It finds
\* NetworkManager with iwd, and nobody else changes that.
LastSteps == IF ShouldTrace THEN 1 ELSE 0
DebugMidway ==
    Runs("debug") =>
        /\ nmConf.backend = "iwd" /\ new = nmConf
        /\ wifiCall.value = "off" =>
              /\ Len(todo) <= 3 => ~tracing
              /\ Len(todo) <= 2 => ~override
              /\ Len(todo) <= 1 => ~reloaded
              /\ Len(todo) = 0 => "restart_iwd" \in jobs \/ ~iwdDebug
        /\ wifiCall.value = "tracing" =>
              /\ Len(todo) <= 2 + LastSteps => override
              /\ Len(todo) <= 1 + LastSteps => reloaded
              /\ Len(todo) <= LastSteps => "restart_iwd" \in jobs \/ (iwdDebug /\ "iwd" \in units)
              /\ Len(todo) = 0 => tracing = ShouldTrace

\* What a backend call has done stays until the next call.
BackendMidway ==
    /\ Runs("backend") => debug = "off"
    /\ Stays("backend") =>
        /\ wifiCall.value \in Backends
        /\ new.backend = wifiCall.value
        /\ Len(todo) <= 4 => nmConf.backend = wifiCall.value
        /\ Len(todo) <= 2 => /\ Other(wifiCall.value) \notin units
                             /\ Other(wifiCall.value) = "iwd" => "restart_iwd" \notin jobs
        /\ Len(todo) <= 1 => wlan
        /\ Len(todo) = 0 => "start_nm" \in jobs \/ (nm = wifiCall.value /\ nm \in units)

\* And so does what a power management call has done.
PowerMidway ==
    /\ Runs("power") => new.backend = nmConf.backend
    /\ Stays("power") =>
        /\ new.powersave = wifiCall.value
        /\ Len(todo) <= 2 /\ wlan /\ ~oldTaken => powerSave = wifiCall.value
        /\ Len(todo) <= 1 => nmConf.powersave = wifiCall.value

\* Between the debug mode calls everything is as the mode says, or systemd is
\* about to restart iwd, which makes it so.
SystemHasMode ==
    /\ override = (debug = "tracing")
    /\ reloaded = (debug = "tracing")
    /\ tracing = (debug = "tracing" /\ ShouldTrace)
    /\ "restart_iwd" \in jobs \/ iwdDebug = (debug = "tracing")
    /\ debug = "tracing" => /\ nmConf.backend = "iwd"
                            /\ "restart_iwd" \in jobs \/ "iwd" \in units

WifiInv ==
    /\ WifiTypeOK
    /\ RestOfSteps /\ DebugMidway /\ BackendMidway /\ PowerMidway
    /\ ~halfway /\ ~Runs("debug") => SystemHasMode
    /\ tracing => ShouldTrace

LEMMA WifiIsInMode == WifiInv => SystemIsInMode
<1> SUFFICES ASSUME WifiInv PROVE SystemIsInMode
  OBVIOUS
<1>1. /\ result # "running" => todo = <<>> /\ Len(todo) = 0
      /\ units \subseteq Backends /\ result \in {"running", "ok", "error"}
  BY DEF WifiInv, RestOfSteps, WifiTypeOK
<1>2. Settled /\ ~halfway => SystemHasMode /\ jobs = {}
  BY DEF Settled, WifiInv, Runs
<1>3. Settled /\ ~halfway =>
          /\ override = (debug = "tracing")
          /\ tracing = (debug = "tracing" /\ ShouldTrace)
          /\ iwdDebug = (debug = "tracing")
          /\ debug = "tracing" => nmConf.backend = "iwd" /\ "iwd" \in units
  BY <1>2 DEF SystemHasMode
<1>4. ASSUME Settled, wifiCall.op = "backend", result = "ok"
      PROVE  nmConf.backend = wifiCall.value /\ nm = wifiCall.value /\ units = {wifiCall.value} /\ wlan
  <2>1. Stays("backend") /\ Len(todo) = 0 /\ jobs = {}
    BY <1>1, <1>4 DEF Stays, Settled
  <2>2. /\ wifiCall.value \in Backends /\ nmConf.backend = wifiCall.value /\ wlan
        /\ Other(wifiCall.value) \notin units /\ nm = wifiCall.value /\ nm \in units
    BY <2>1 DEF WifiInv, BackendMidway
  <2>3. units = {wifiCall.value}
    BY <1>1, <2>2 DEF Other, Backends
  <2>4. QED
    BY <2>2, <2>3
<1>5. ASSUME Settled, wifiCall.op = "power", result = "ok"
      PROVE  /\ nmConf.powersave = wifiCall.value
             /\ ~oldTaken => ShownPower \subseteq {wifiCall.value}
  <2>1. Stays("power") /\ Len(todo) = 0
    BY <1>1, <1>5 DEF Stays, Settled
  <2>2. QED
    BY <2>1 DEF WifiInv, PowerMidway, ShownPower
<1>6. QED
  BY <1>3, <1>4, <1>5 DEF SystemIsInMode

LEMMA OneAndThree ==
    ASSUME NEW s, NEW u, NEW v, NEW w
    PROVE  <<s, u, v, w>> = <<s>> \o <<u, v, w>>
OBVIOUS

LEMMA ThreeAndOne ==
    ASSUME NEW s, NEW u, NEW v, NEW w
    PROVE  <<u, v, w, s>> = <<u, v, w>> \o <<s>>
OBVIOUS

LEMMA OneAndTwo ==
    ASSUME NEW s, NEW u, NEW v
    PROVE  <<s, u, v>> = <<s>> \o <<u, v>>
OBVIOUS

LEMMA NoneAndThree ==
    ASSUME NEW u, NEW v, NEW w
    PROVE  <<u, v, w>> = <<>> \o <<u, v, w>>
OBVIOUS

LEMMA ThreeAndNone ==
    ASSUME NEW u, NEW v, NEW w
    PROVE  <<u, v, w>> = <<u, v, w>> \o <<>>
OBVIOUS

LEMMA NoneAndTwo ==
    ASSUME NEW u, NEW v
    PROVE  <<u, v>> = <<>> \o <<u, v>>
OBVIOUS

LEMMA SeqOfTwo ==
    ASSUME NEW S, NEW u \in S, NEW v \in S
    PROVE  <<u, v>> \in Seq(S)
OBVIOUS

LEMMA SeqOfThree ==
    ASSUME NEW S, NEW u \in S, NEW v \in S, NEW w \in S
    PROVE  <<u, v, w>> \in Seq(S)
OBVIOUS

LEMMA SeqOfFour ==
    ASSUME NEW S, NEW s \in S, NEW u \in S, NEW v \in S, NEW w \in S
    PROVE  <<s, u, v, w>> \in Seq(S)
OBVIOUS

LEMMA SeqOfFive ==
    ASSUME NEW S, NEW s \in S, NEW u \in S, NEW v \in S, NEW w \in S, NEW x \in S
    PROVE  <<s, u, v, w, x>> \in Seq(S)
OBVIOUS

\* The plans, step by step.
LEMMA DebugOffSteps ==
    ASSUME NEW c, c.op = "debug", c.value = "off"
    PROVE  /\ ShouldTrace => StepsOf(c) = <<"stop_trace", "remove_override", "reload_systemd",
                                            "restart_iwd">>
           /\ ~ShouldTrace => StepsOf(c) = <<"remove_override", "reload_systemd", "restart_iwd">>
<1>1. StepsOf(c) = If(ShouldTrace, "stop_trace") \o <<"remove_override", "reload_systemd", "restart_iwd">>
  BY DEF StepsOf
<1>2. CASE ShouldTrace
  <2>1. If(ShouldTrace, "stop_trace") = <<"stop_trace">>
    BY <1>2 DEF If
  <2>2. QED
    BY <1>1, <1>2, <2>1, OneAndThree, Zenon
<1>3. CASE ~ShouldTrace
  <2>1. If(ShouldTrace, "stop_trace") = <<>>
    BY <1>3 DEF If
  <2>2. QED
    BY <1>1, <1>3, <2>1, NoneAndThree, Zenon
<1>4. QED
  BY <1>2, <1>3

LEMMA DebugOnSteps ==
    ASSUME NEW c, c.op = "debug", c.value = "tracing"
    PROVE  /\ ShouldTrace => StepsOf(c) = <<"write_override", "reload_systemd", "restart_iwd",
                                            "start_trace">>
           /\ ~ShouldTrace => StepsOf(c) = <<"write_override", "reload_systemd", "restart_iwd">>
<1>1. StepsOf(c) = <<"write_override", "reload_systemd", "restart_iwd">> \o If(ShouldTrace, "start_trace")
  BY DEF StepsOf
<1>2. CASE ShouldTrace
  <2>1. If(ShouldTrace, "start_trace") = <<"start_trace">>
    BY <1>2 DEF If
  <2>2. QED
    BY <1>1, <1>2, <2>1, ThreeAndOne, Zenon
<1>3. CASE ~ShouldTrace
  <2>1. If(ShouldTrace, "start_trace") = <<>>
    BY <1>3 DEF If
  <2>2. QED
    BY <1>1, <1>3, <2>1, ThreeAndNone, Zenon
<1>4. QED
  BY <1>2, <1>3

LEMMA BackendSteps ==
    ASSUME NEW c, c.op = "backend"
    PROVE  StepsOf(c) = <<"write_settings", "stop_nm", "stop_other", "ensure_interface", "start_nm">>
BY DEF StepsOf

LEMMA PowerSteps ==
    ASSUME NEW c, c.op = "power"
    PROVE  /\ wlan => StepsOf(c) = <<"set_power_save", "write_settings", "reload_nm">>
           /\ ~wlan => StepsOf(c) = <<"write_settings", "reload_nm">>
<1>1. StepsOf(c) = If(wlan, "set_power_save") \o <<"write_settings", "reload_nm">>
  BY DEF StepsOf
<1>2. CASE wlan
  <2>1. If(wlan, "set_power_save") = <<"set_power_save">>
    BY <1>2 DEF If
  <2>2. QED
    BY <1>1, <1>2, <2>1, OneAndTwo, Zenon
<1>3. CASE ~wlan
  <2>1. If(wlan, "set_power_save") = <<>>
    BY <1>3 DEF If
  <2>2. QED
    BY <1>1, <1>3, <2>1, NoneAndTwo, Zenon
<1>4. QED
  BY <1>2, <1>3

\* They are of the known steps.
LEMMA PlansAreSteps ==
    ASSUME NEW c \in WifiCalls
    PROVE  /\ StepsOf(c) \in Seq(Steps)
           /\ c.op \in {"debug", "backend", "power"}
           /\ c.op = "debug" => c.value \in DebugModes
           /\ c.op = "backend" => c.value \in Backends
           /\ c.op = "power" => c.value \in PowerManagement
<1>1. /\ c.op \in {"debug", "backend", "power"}
      /\ c.op = "debug" => c.value \in DebugModes
      /\ c.op = "backend" => c.value \in Backends
      /\ c.op = "power" => c.value \in PowerManagement
  BY DEF WifiCalls
<1>2. /\ {"stop_trace", "start_trace", "remove_override", "write_override", "reload_systemd",
          "restart_iwd"} \subseteq Steps
      /\ {"write_settings", "stop_nm", "stop_other", "ensure_interface", "start_nm", "reload_nm",
          "set_power_save"} \subseteq Steps
  BY DEF Steps
<1>3. /\ <<"stop_trace", "remove_override", "reload_systemd", "restart_iwd">> \in Seq(Steps)
      /\ <<"write_override", "reload_systemd", "restart_iwd", "start_trace">> \in Seq(Steps)
  BY <1>2, SeqOfFour
<1>4. /\ <<"remove_override", "reload_systemd", "restart_iwd">> \in Seq(Steps)
      /\ <<"write_override", "reload_systemd", "restart_iwd">> \in Seq(Steps)
      /\ <<"set_power_save", "write_settings", "reload_nm">> \in Seq(Steps)
  BY <1>2, SeqOfThree
<1>5. <<"write_settings", "reload_nm">> \in Seq(Steps)
  BY <1>2, SeqOfTwo
<1>6. <<"write_settings", "stop_nm", "stop_other", "ensure_interface", "start_nm">> \in Seq(Steps)
  BY <1>2, SeqOfFive
<1>7. StepsOf(c) \in Seq(Steps)
  <2>1. CASE c.op = "debug" /\ c.value = "off"
    BY <1>3, <1>4, <2>1, DebugOffSteps, Zenon
  <2>2. CASE c.op = "debug" /\ c.value = "tracing"
    BY <1>3, <1>4, <2>2, DebugOnSteps, Zenon
  <2>3. CASE c.op = "backend"
    BY <1>6, <2>3, BackendSteps, Zenon
  <2>4. CASE c.op = "power"
    BY <1>4, <1>5, <2>4, PowerSteps, Zenon
  <2>5. QED
    BY <1>1, <2>1, <2>2, <2>3, <2>4 DEF DebugModes
<1>8. QED
  BY <1>1, <1>7

LEMMA WifiTypeParts ==
    ASSUME WifiInv
    PROVE  /\ debug \in DebugModes /\ wifiCall \in WifiCalls \cup {NoCall}
           /\ todo \in Seq(Steps) /\ result \in {"running", "ok", "error"}
           /\ new \in Settings /\ nmConf \in Settings
           /\ nm \in Backends \cup {"off"} /\ units \subseteq Backends
           /\ jobs \subseteq {"restart_iwd", "start_nm"} /\ faults \in 0..MaxWifiFaults
           /\ override \in BOOLEAN /\ reloaded \in BOOLEAN /\ tracing \in BOOLEAN
           /\ iwdDebug \in BOOLEAN /\ wlan \in BOOLEAN /\ powerSave \in BOOLEAN
           /\ halfway \in BOOLEAN /\ oldTaken \in BOOLEAN
           /\ Len(todo) \in Nat
<1>1. /\ todo \in Seq(Steps)
      /\ {override, reloaded, tracing, iwdDebug, wlan, powerSave, halfway, oldTaken} \subseteq BOOLEAN
  BY DEF WifiInv, WifiTypeOK
<1>2. /\ debug \in DebugModes /\ wifiCall \in WifiCalls \cup {NoCall}
      /\ result \in {"running", "ok", "error"}
      /\ new \in Settings /\ nmConf \in Settings
      /\ nm \in Backends \cup {"off"} /\ units \subseteq Backends
      /\ jobs \subseteq {"restart_iwd", "start_nm"} /\ faults \in 0..MaxWifiFaults
  BY DEF WifiInv, WifiTypeOK
<1>3. QED
  BY <1>1, <1>2


LEMMA LastStepsIs == (ShouldTrace => LastSteps = 1) /\ (~ShouldTrace => LastSteps = 0)
BY DEF LastSteps

\* Which step is next, by how many are left.
LEMMA NextStep ==
    ASSUME WifiInv, todo # <<>>
    PROVE  /\ result = "running" /\ wifiCall \in WifiCalls
           /\ Len(todo) \in Nat /\ Len(todo) >= 1
           /\ Tail(todo) \in Seq(Steps) /\ Len(Tail(todo)) = Len(todo) - 1
           /\ wifiCall.op = "debug" /\ wifiCall.value = "off" =>
                 \/ Len(todo) = 4 /\ Head(todo) = "stop_trace" /\ ShouldTrace
                 \/ Len(todo) = 3 /\ Head(todo) = "remove_override"
                 \/ Len(todo) = 2 /\ Head(todo) = "reload_systemd"
                 \/ Len(todo) = 1 /\ Head(todo) = "restart_iwd"
           /\ wifiCall.op = "debug" /\ wifiCall.value = "tracing" =>
                 \/ Len(todo) = 3 + LastSteps /\ Head(todo) = "write_override"
                 \/ Len(todo) = 2 + LastSteps /\ Head(todo) = "reload_systemd"
                 \/ Len(todo) = 1 + LastSteps /\ Head(todo) = "restart_iwd"
                 \/ Len(todo) = 1 /\ LastSteps = 1 /\ Head(todo) = "start_trace"
           /\ wifiCall.op = "backend" =>
                 \/ Len(todo) = 5 /\ Head(todo) = "write_settings"
                 \/ Len(todo) = 4 /\ Head(todo) = "stop_nm"
                 \/ Len(todo) = 3 /\ Head(todo) = "stop_other"
                 \/ Len(todo) = 2 /\ Head(todo) = "ensure_interface"
                 \/ Len(todo) = 1 /\ Head(todo) = "start_nm"
           /\ wifiCall.op = "power" =>
                 \/ Len(todo) = 3 /\ Head(todo) = "set_power_save"
                 \/ Len(todo) = 2 /\ Head(todo) = "write_settings"
                 \/ Len(todo) = 1 /\ Head(todo) = "reload_nm"
<1>1. todo \in Seq(Steps) /\ result = "running"
  BY DEF WifiInv, WifiTypeOK, RestOfSteps
<1>2. /\ Len(todo) \in Nat /\ Len(todo) >= 1 /\ Head(todo) = todo[1]
      /\ Tail(todo) \in Seq(Steps) /\ Len(Tail(todo)) = Len(todo) - 1
  BY SMTT(30), <1>1, HeadAndTail
<1>3. PICK n \in Nat : n = Len(todo) /\ n >= 1
  BY <1>2
<1>4. PICK plan : plan = StepsOf(wifiCall)
  OBVIOUS
<1>11. PICK h : h = Head(todo)
  OBVIOUS
<1>5. /\ wifiCall \in WifiCalls
      /\ Len(plan) \in Nat => \E m \in 1..Len(plan) : n = Len(plan) + 1 - m /\ h = plan[m]
  <2>1. /\ wifiCall \in WifiCalls /\ Len(todo) <= Len(plan)
        /\ \A k \in 1..Len(todo) : todo[k] = plan[Len(plan) - Len(todo) + k]
    BY <1>1, <1>4 DEF WifiInv, RestOfSteps
  <2>2. 1 \in 1..Len(todo)
    BY <1>2
  <2>3. h = plan[Len(plan) - n + 1] /\ n <= Len(plan)
    BY <1>2, <1>3, <1>11, <2>1, <2>2
  <2>4. ASSUME Len(plan) \in Nat
        PROVE  \E m \in 1..Len(plan) : n = Len(plan) + 1 - m /\ h = plan[m]
    <3>1. PICK l \in Nat : l = Len(plan)
      BY <2>4
    <3>2. /\ l - n + 1 \in 1..l /\ n = l + 1 - (l - n + 1) /\ h = plan[l - n + 1]
      BY <1>3, <2>3, <3>1
    <3>3. QED
      BY <3>1, <3>2
  <2>5. QED
    BY <2>1, <2>4
<1>6. ASSUME wifiCall.op = "debug", wifiCall.value = "off"
      PROVE  \/ n = 4 /\ h = "stop_trace" /\ ShouldTrace
             \/ n = 3 /\ h = "remove_override"
             \/ n = 2 /\ h = "reload_systemd"
             \/ n = 1 /\ h = "restart_iwd"
  <2>1. CASE ShouldTrace
    <3>1. plan = <<"stop_trace", "remove_override", "reload_systemd", "restart_iwd">>
      BY <1>4, <1>6, <2>1, DebugOffSteps
    <3>2. Len(plan) = 4 /\ plan[1] = "stop_trace" /\ plan[2] = "remove_override" /\ plan[3] = "reload_systemd" /\ plan[4] = "restart_iwd"
      BY <3>1
    <3>3. PICK m \in 1..4 : n = 4 + 1 - m /\ h = plan[m]
      BY <1>5, <3>2
    <3>4. \/ n = 4 /\ h = "stop_trace"
          \/ n = 3 /\ h = "remove_override"
          \/ n = 2 /\ h = "reload_systemd"
          \/ n = 1 /\ h = "restart_iwd"
      BY <3>2, <3>3
    <3>5. QED
      BY <2>1, <3>4
  <2>2. CASE ~ShouldTrace
    <3>1. plan = <<"remove_override", "reload_systemd", "restart_iwd">>
      BY <1>4, <1>6, <2>2, DebugOffSteps
    <3>2. Len(plan) = 3 /\ plan[1] = "remove_override" /\ plan[2] = "reload_systemd" /\ plan[3] = "restart_iwd"
      BY <3>1
    <3>3. PICK m \in 1..3 : n = 3 + 1 - m /\ h = plan[m]
      BY <1>5, <3>2, SMTT(30)
    <3>4. \/ n = 3 /\ h = "remove_override"
          \/ n = 2 /\ h = "reload_systemd"
          \/ n = 1 /\ h = "restart_iwd"
      BY <3>2, <3>3
    <3>5. QED
      BY <3>4
  <2>3. QED
    BY <2>1, <2>2
<1>7. ASSUME wifiCall.op = "debug", wifiCall.value = "tracing"
      PROVE  \/ n = 3 + LastSteps /\ h = "write_override"
             \/ n = 2 + LastSteps /\ h = "reload_systemd"
             \/ n = 1 + LastSteps /\ h = "restart_iwd"
             \/ n = 1 /\ LastSteps = 1 /\ h = "start_trace"
  <2>1. CASE ShouldTrace
    <3>1. plan = <<"write_override", "reload_systemd", "restart_iwd", "start_trace">>
      BY <1>4, <1>7, <2>1, DebugOnSteps
    <3>2. Len(plan) = 4 /\ plan[1] = "write_override" /\ plan[2] = "reload_systemd" /\ plan[3] = "restart_iwd" /\ plan[4] = "start_trace"
      BY <3>1
    <3>3. PICK m \in 1..4 : n = 4 + 1 - m /\ h = plan[m]
      BY <1>3, <1>5, <3>2
    <3>4. \/ n = 4 /\ h = "write_override"
          \/ n = 3 /\ h = "reload_systemd"
          \/ n = 2 /\ h = "restart_iwd"
          \/ n = 1 /\ h = "start_trace"
      BY <3>2, <3>3
    <3>5. LastSteps = 1
      BY <2>1, LastStepsIs
    <3>6. QED
      BY <3>4, <3>5
  <2>2. CASE ~ShouldTrace
    <3>1. plan = <<"write_override", "reload_systemd", "restart_iwd">>
      BY <1>4, <1>7, <2>2, DebugOnSteps
    <3>2. Len(plan) = 3 /\ plan[1] = "write_override" /\ plan[2] = "reload_systemd" /\ plan[3] = "restart_iwd"
      BY <3>1
    <3>3. PICK m \in 1..3 : n = 3 + 1 - m /\ h = plan[m]
      BY <1>3, <1>5, <3>2
    <3>4. \/ n = 3 /\ h = "write_override"
          \/ n = 2 /\ h = "reload_systemd"
          \/ n = 1 /\ h = "restart_iwd"
      BY <3>2, <3>3
    <3>5. LastSteps = 0
      BY <2>2, LastStepsIs
    <3>6. QED
      BY <3>4, <3>5
  <2>3. QED
    BY <2>1, <2>2
<1>8. ASSUME wifiCall.op = "backend"
      PROVE  \/ n = 5 /\ h = "write_settings"
             \/ n = 4 /\ h = "stop_nm"
             \/ n = 3 /\ h = "stop_other"
             \/ n = 2 /\ h = "ensure_interface"
             \/ n = 1 /\ h = "start_nm"
  <2>1. plan = <<"write_settings", "stop_nm", "stop_other", "ensure_interface", "start_nm">>
    BY <1>4, <1>8, BackendSteps
  <2>2. Len(plan) = 5 /\ plan[1] = "write_settings" /\ plan[2] = "stop_nm" /\ plan[3] = "stop_other" /\ plan[4] = "ensure_interface" /\ plan[5] = "start_nm"
    BY <2>1
  <2>3. PICK m \in 1..5 : n = 5 + 1 - m /\ h = plan[m]
    BY <1>3, <1>5, <2>2
  <2>4. \/ n = 5 /\ h = "write_settings"
        \/ n = 4 /\ h = "stop_nm"
        \/ n = 3 /\ h = "stop_other"
        \/ n = 2 /\ h = "ensure_interface"
        \/ n = 1 /\ h = "start_nm"
    BY <2>2, <2>3
  <2>5. QED
    BY <2>4
<1>9. ASSUME wifiCall.op = "power"
      PROVE  \/ n = 3 /\ h = "set_power_save"
             \/ n = 2 /\ h = "write_settings"
             \/ n = 1 /\ h = "reload_nm"
  <2>1. CASE wlan
    <3>1. plan = <<"set_power_save", "write_settings", "reload_nm">>
      BY <1>4, <1>9, <2>1, PowerSteps
    <3>2. Len(plan) = 3 /\ plan[1] = "set_power_save" /\ plan[2] = "write_settings" /\ plan[3] = "reload_nm"
      BY <3>1
    <3>3. PICK m \in 1..3 : n = 3 + 1 - m /\ h = plan[m]
      BY <1>3, <1>5, <3>2
    <3>4. \/ n = 3 /\ h = "set_power_save"
          \/ n = 2 /\ h = "write_settings"
          \/ n = 1 /\ h = "reload_nm"
      BY <3>2, <3>3
    <3>5. QED
      BY <3>4
  <2>2. CASE ~wlan
    <3>1. plan = <<"write_settings", "reload_nm">>
      BY <1>4, <1>9, <2>2, PowerSteps
    <3>2. Len(plan) = 2 /\ plan[1] = "write_settings" /\ plan[2] = "reload_nm"
      BY <3>1
    <3>3. PICK m \in 1..2 : n = 2 + 1 - m /\ h = plan[m]
      BY <1>3, <1>5, <3>2
    <3>4. \/ n = 2 /\ h = "write_settings"
          \/ n = 1 /\ h = "reload_nm"
      BY <3>2, <3>3
    <3>5. QED
      BY <3>4
  <2>3. QED
    BY <2>1, <2>2
<1>10. QED
  BY SMTT(30), <1>1, <1>2, <1>3, <1>11, <1>5, <1>6, <1>7, <1>8, <1>9

LEMMA PlanOfCall ==
    ASSUME NEW c \in WifiCalls, wifiCall' = c, c.op = "power" => wlan' = wlan
    PROVE  StepsOf(wifiCall)' = StepsOf(c)
<1>1. /\ c.op \in {"debug", "backend", "power"}
      /\ c.op = "debug" => c.value \in {"off", "tracing"}
  BY PlansAreSteps DEF DebugModes
<1>2. CASE c.op = "debug" /\ c.value = "off"
  BY <1>2 DEF StepsOf
<1>3. CASE c.op = "debug" /\ c.value = "tracing"
  BY <1>3 DEF StepsOf
<1>4. CASE c.op = "backend"
  BY <1>4 DEF StepsOf
<1>5. CASE c.op = "power"
  BY <1>5 DEF StepsOf
<1>6. QED
  BY <1>1, <1>2, <1>3, <1>4, <1>5

LEMMA TailOfPlan ==
    ASSUME WifiInv, todo # <<>>, todo' = Tail(todo), wifiCall' = wifiCall, result' = result,
           wifiCall.op = "power" => wlan' = wlan
    PROVE  RestOfSteps'
<1>1. /\ result = "running" /\ wifiCall \in WifiCalls /\ Len(todo) \in Nat /\ Len(todo) >= 1
      /\ Len(todo') = Len(todo) - 1
  BY NextStep
<1>2. StepsOf(wifiCall)' = StepsOf(wifiCall)
  BY <1>1, PlanOfCall
<1>3. PICK plan : plan = StepsOf(wifiCall)
  OBVIOUS
<1>4. Len(plan) \in Nat
  BY <1>1, <1>3, PlansAreSteps
<1>5. /\ Len(todo) <= Len(plan)
      /\ \A k \in 1..Len(todo) : todo[k] = plan[Len(plan) - Len(todo) + k]
  BY <1>1, <1>3 DEF WifiInv, RestOfSteps
<1>6. \A k \in 1..Len(todo') : todo'[k] = todo[k + 1]
  BY HeadAndTail DEF WifiInv, WifiTypeOK
<1>7. ASSUME NEW k \in 1..Len(todo') PROVE todo'[k] = plan[Len(plan) - Len(todo') + k]
  <2>1. k + 1 \in 1..Len(todo)
    BY <1>1
  <2>2. Len(plan) - Len(todo) + (k + 1) = Len(plan) - Len(todo') + k
    BY <1>1, <1>4
  <2>3. todo'[k] = todo[k + 1]
    BY <1>6
  <2>4. QED
    BY <1>5, <2>1, <2>2, <2>3
<1>8. Len(todo') <= Len(plan)
  BY <1>1, <1>4, <1>5
<1>9. QED
  BY <1>1, <1>2, <1>3, <1>7, <1>8 DEF RestOfSteps

LEMMA InitWifiInv == WifiInit => WifiInv
<1> SUFFICES ASSUME WifiInit PROVE WifiInv
  OBVIOUS
<1>1. /\ Defaults \in Settings /\ Defaults.backend = "iwd" /\ Defaults.powersave = TRUE
  BY DEF Defaults, Settings, Backends, PowerManagement
<1>2. WifiTypeOK
  <2>1. todo \in Seq(Steps)
    BY DEF WifiInit
  <2>2. {override, reloaded, tracing, iwdDebug, wlan, powerSave, halfway, oldTaken} \subseteq BOOLEAN
    BY <1>1 DEF WifiInit
  <2>3. /\ debug \in DebugModes /\ wifiCall \in WifiCalls \cup {NoCall}
        /\ result \in {"running", "ok", "error"}
        /\ new \in Settings /\ nmConf \in Settings
        /\ nm \in Backends \cup {"off"} /\ units \subseteq Backends
        /\ jobs \subseteq {"restart_iwd", "start_nm"}
    BY <1>1 DEF WifiInit, DebugModes, Backends
  <2>4. faults \in 0..MaxWifiFaults
    BY WifiAssumption DEF WifiInit
  <2>5. QED
    BY <2>1, <2>2, <2>3, <2>4 DEF WifiTypeOK
<1>3. RestOfSteps
  BY DEF WifiInit, RestOfSteps
<1>4. DebugMidway /\ BackendMidway /\ PowerMidway
  BY DEF WifiInit, DebugMidway, BackendMidway, PowerMidway, Runs, Stays, NoCall
<1>5. SystemHasMode /\ (tracing => ShouldTrace)
  BY DEF WifiInit, SystemHasMode
<1>6. QED
  BY <1>2, <1>3, <1>4, <1>5 DEF WifiInv

LEMMA AcceptKeepsWifiInv ==
    ASSUME WifiInv, NEW c \in WifiCalls, Accept(c)
    PROVE  WifiInv'
<1>1. /\ result # "running" /\ wifiCall' = c /\ new' = NewSettings(c) /\ oldTaken' = FALSE
      /\ UNCHANGED <<debug, override, reloaded, nmConf, tracing, nm, units, iwdDebug, wlan,
                     powerSave, jobs, faults, halfway>>
      /\ \/ WifiRefused(c) /\ result' = "error" /\ todo' = <<>>
         \/ ~WifiRefused(c) /\ result' = "running" /\ todo' = StepsOf(c)
  BY DEF Accept, filePart, unitPart
<1>2. /\ StepsOf(c) \in Seq(Steps) /\ c.op \in {"debug", "backend", "power"}
      /\ c.op = "debug" => c.value \in DebugModes
      /\ c.op = "backend" => c.value \in Backends
      /\ c.op = "power" => c.value \in PowerManagement
  BY PlansAreSteps
<1>3. /\ nmConf \in Settings /\ wlan \in BOOLEAN
  BY WifiTypeParts
<1>4. /\ new' \in Settings
      /\ c.op = "debug" => new' = nmConf
      /\ c.op = "backend" => new'.backend = c.value
      /\ c.op = "power" => new'.powersave = c.value /\ new'.backend = nmConf.backend
  <2>1. CASE c.op = "debug"
    BY <1>1, <1>3, <2>1 DEF NewSettings
  <2>2. CASE c.op = "backend"
    BY <1>1, <1>2, <1>3, <2>2 DEF NewSettings, Settings
  <2>3. CASE c.op = "power"
    BY <1>1, <1>2, <1>3, <2>3 DEF NewSettings, Settings
  <2>4. QED
    BY <1>2, <2>1, <2>2, <2>3
<1>5. WifiTypeOK'
  <2>1. todo' \in Seq(Steps)
    <3>1. todo' = <<>> \/ todo' = StepsOf(c)
      BY <1>1
    <3>2. <<>> \in Seq(Steps)
      OBVIOUS
    <3>3. QED
      BY <1>2, <3>1, <3>2, Zenon
  <2>2. {override, reloaded, tracing, iwdDebug, wlan, powerSave, halfway, oldTaken}' \subseteq BOOLEAN
    BY <1>1, WifiTypeParts
  <2>3. wifiCall' \in WifiCalls \cup {NoCall} /\ result' \in {"running", "ok", "error"}
    BY <1>1
  <2>4. QED
    BY <1>1, <1>4, <2>1, <2>2, <2>3 DEF WifiInv, WifiTypeOK
<1>6. StepsOf(wifiCall)' = StepsOf(c)
  BY <1>1, PlanOfCall
<1>7. RestOfSteps'
  <2>1. PICK p : p = StepsOf(c)
    OBVIOUS
  <2>2. Len(p) \in Nat /\ \A k \in 1..Len(p) : Len(p) - Len(p) + k = k
    BY <1>2, <2>1
  <2>3. QED
    BY <1>1, <1>6, <2>1, <2>2 DEF RestOfSteps
<1>8. ASSUME result' = "running"
      PROVE  /\ c.op = "debug" => Len(todo') = 3 + LastSteps
             /\ c.op = "backend" => Len(todo') = 5
             /\ c.op = "power" => Len(todo') = IF wlan THEN 3 ELSE 2
  <2>1. todo' = StepsOf(c)
    BY <1>1, <1>8
  <2>2. CASE c.op = "debug"
    <3>1. CASE ShouldTrace
      <4>1. Len(StepsOf(c)) = 4 /\ LastSteps = 1
        BY <1>2, <2>2, <3>1, DebugOffSteps, DebugOnSteps, LastStepsIs DEF DebugModes
      <4>2. QED
        BY <2>1, <2>2, <4>1
    <3>2. CASE ~ShouldTrace
      <4>1. Len(StepsOf(c)) = 3 /\ LastSteps = 0
        BY <1>2, <2>2, <3>2, DebugOffSteps, DebugOnSteps, LastStepsIs DEF DebugModes
      <4>2. QED
        BY <2>1, <2>2, <4>1
    <3>3. QED
      BY <3>1, <3>2
  <2>3. CASE c.op = "backend"
    BY <2>1, <2>3, BackendSteps
  <2>4. CASE c.op = "power"
    <3>1. CASE wlan
      BY <2>1, <2>4, <3>1, PowerSteps
    <3>2. CASE ~wlan
      BY <2>1, <2>4, <3>2, PowerSteps
    <3>3. QED
      BY <3>1, <3>2
  <2>5. QED
    BY <1>2, <2>2, <2>3, <2>4
<1>9. DebugMidway'
  <2> SUFFICES ASSUME Runs("debug")' PROVE /\ nmConf'.backend = "iwd" /\ new' = nmConf'
                                           /\ wifiCall'.value = "off" => (Len(todo') <= 3 => ~tracing')
                                           /\ Len(todo') >= 3 /\ Len(todo') = 3 + LastSteps
    BY LastStepsIs DEF DebugMidway
  <2>1. c.op = "debug" /\ result' = "running" /\ ~WifiRefused(c)
    BY <1>1 DEF Runs
  <2>2. nmConf.backend = "iwd"
    BY <2>1 DEF WifiRefused
  <2>3. Len(todo') = 3 + LastSteps
    BY <1>8, <2>1
  <2>4. Len(todo') <= 3 => ~tracing
    BY <2>3, LastStepsIs DEF WifiInv
  <2>5. QED
    BY <1>1, <1>4, <2>1, <2>2, <2>3, <2>4, LastStepsIs
<1>10. BackendMidway'
  <2>1. Stays("backend")' => Len(todo') = 5 /\ c.op = "backend" /\ result' = "running"
    BY <1>1, <1>8 DEF Stays
  <2>2. Runs("backend")' => debug = "off"
    BY <1>1, WifiTypeParts DEF Runs, WifiRefused, DebugModes
  <2>3. Stays("backend")' =>
            ~(Len(todo') <= 4) /\ ~(Len(todo') <= 2) /\ ~(Len(todo') <= 1) /\ ~(Len(todo') = 0)
    <3>1. ASSUME NEW n, n = 5 PROVE ~(n <= 4) /\ ~(n <= 2) /\ ~(n <= 1) /\ ~(n = 0)
      BY <3>1
    <3>2. QED
      BY <2>1, <3>1, Zenon
  <2>4. Stays("backend")' => wifiCall'.value \in Backends /\ new'.backend = wifiCall'.value
    BY <1>1, <1>2, <1>4, <2>1
  <2>5. QED
    BY <1>1, <2>2, <2>3, <2>4 DEF BackendMidway
<1>11. PowerMidway'
  <2>1. Stays("power")' => (Len(todo') = IF wlan THEN 3 ELSE 2) /\ c.op = "power" /\ result' = "running"
    BY <1>1, <1>8 DEF Stays
  <2>2. Stays("power")' => ~(Len(todo') <= 1) /\ ~(Len(todo') <= 2 /\ wlan')
    <3>1. ASSUME NEW n, n = IF wlan THEN 3 ELSE 2 PROVE ~(n <= 1) /\ ~(n <= 2 /\ wlan)
      BY <3>1
    <3>2. wlan' = wlan
      BY <1>1
    <3>3. QED
      BY <2>1, <3>1, <3>2, Zenon
  <2>3. Stays("power")' => new'.powersave = wifiCall'.value
    BY <1>1, <1>4, <2>1
  <2>4. Runs("power")' => new'.backend = nmConf'.backend
    BY <1>1, <1>4 DEF Runs
  <2>5. QED
    BY <2>2, <2>3, <2>4 DEF PowerMidway
<1>12. ~halfway' /\ ~Runs("debug")' => SystemHasMode'
  <2>1. ~halfway => SystemHasMode
    BY <1>1 DEF WifiInv, Runs
  <2>2. QED
    BY <1>1, <2>1 DEF SystemHasMode
<1>13. QED
  BY <1>1, <1>5, <1>7, <1>9, <1>10, <1>11, <1>12 DEF WifiInv

\* What a step does, and that all else stays.
LEMMA StepTypes ==
    ASSUME WifiInv, Step
    PROVE  WifiTypeOK'
<1>1. /\ todo # <<>> /\ todo' = Tail(todo) /\ WifiFiles(Head(todo)) /\ Units(Head(todo))
      /\ UNCHANGED <<debug, wifiCall, result, new, faults, halfway, oldTaken>>
  BY DEF Step, wifiGhosts
<1>2. result = "running" /\ wifiCall \in WifiCalls /\ Tail(todo) \in Seq(Steps)
  BY <1>1, NextStep
<1>3. Head(todo) = "set_power_save" => wifiCall.value \in BOOLEAN
  <2>1. Head(todo) = "set_power_save" => wifiCall.op = "power"
    <3>1. /\ wifiCall.op \in {"debug", "backend", "power"}
          /\ wifiCall.op = "debug" => wifiCall.value \in {"off", "tracing"}
      BY <1>2, PlansAreSteps DEF DebugModes
    <3>2. QED
      BY <1>1, <3>1, NextStep
  <2>2. QED
    BY <1>2, <2>1, PlansAreSteps DEF PowerManagement
<1>4. override' \in BOOLEAN /\ reloaded' \in BOOLEAN /\ nmConf' \in Settings
  BY <1>1, WifiTypeParts DEF WifiFiles
<1>5. /\ tracing' \in BOOLEAN /\ nm' \in Backends \cup {"off"}
      /\ jobs' \subseteq {"restart_iwd", "start_nm"}
  BY <1>1, WifiTypeParts DEF Units
<1>6. units' \subseteq Backends /\ iwdDebug' \in BOOLEAN /\ wlan' \in BOOLEAN /\ powerSave' \in BOOLEAN
  <2>1. CASE Head(todo) = "stop_other"
    BY <1>1, <2>1, WifiTypeParts DEF Units, StopUnit
  <2>2. CASE Head(todo) = "ensure_interface"
    BY <1>1, <2>2, WifiTypeParts DEF Units, EnsureInterface
  <2>3. CASE Head(todo) = "set_power_save"
    BY <1>1, <1>3, <2>3, WifiTypeParts DEF Units
  <2>4. CASE Head(todo) \notin {"stop_other", "ensure_interface", "set_power_save"}
    BY <1>1, <2>4, WifiTypeParts DEF Units
  <2>5. QED
    BY <2>1, <2>2, <2>3, <2>4
<1>7. {override, reloaded, tracing, iwdDebug, wlan, powerSave, halfway, oldTaken}' \subseteq BOOLEAN
  BY <1>1, <1>4, <1>5, <1>6, WifiTypeParts
<1>8. QED
  BY <1>1, <1>2, <1>4, <1>5, <1>6, <1>7 DEF WifiInv, WifiTypeOK

LEMMA DebugStepKeepsWifiInv ==
    ASSUME WifiInv, Step, wifiCall.op = "debug"
    PROVE  WifiInv'
<1>1. /\ todo # <<>> /\ todo' = Tail(todo) /\ WifiFiles(Head(todo)) /\ Units(Head(todo))
      /\ UNCHANGED <<debug, wifiCall, result, new, faults, halfway, oldTaken>>
  BY SMTT(30) DEF Step, wifiGhosts
<1>2. PICK h : h = Head(todo)
  BY SMTT(30)
<1>3. PICK n \in Nat : n = Len(todo) /\ n >= 1
  BY <1>1, NextStep
<1>4. Len(todo') = n - 1 /\ n - 1 \in Nat
  BY <1>1, <1>3, NextStep
<1>5. result = "running" /\ wifiCall \in WifiCalls /\ wifiCall.value \in {"off", "tracing"}
  BY <1>1, NextStep, PlansAreSteps DEF DebugModes
<1>6. /\ wifiCall.value = "off" =>
            \/ n = 4 /\ h = "stop_trace" /\ ShouldTrace
            \/ n = 3 /\ h = "remove_override"
            \/ n = 2 /\ h = "reload_systemd"
            \/ n = 1 /\ h = "restart_iwd"
      /\ wifiCall.value = "tracing" =>
            \/ n = 3 + LastSteps /\ h = "write_override"
            \/ n = 2 + LastSteps /\ h = "reload_systemd"
            \/ n = 1 + LastSteps /\ h = "restart_iwd"
            \/ n = 1 /\ LastSteps = 1 /\ h = "start_trace"
  BY <1>1, <1>2, <1>3, NextStep
<1>7. h \in {"stop_trace", "remove_override", "reload_systemd", "restart_iwd",
            "write_override", "start_trace"}
  BY <1>5, <1>6
<1>8. /\ UNCHANGED <<nm, units, iwdDebug, wlan, powerSave, nmConf>>
      /\ h \notin {"write_override", "remove_override"} => override' = override
      /\ h # "reload_systemd" => reloaded' = reloaded
      /\ h \notin {"start_trace", "stop_trace"} => tracing' = tracing
      /\ h # "restart_iwd" => jobs' = jobs
      /\ h = "write_override" => override' = TRUE
      /\ h = "remove_override" => override' = FALSE
      /\ h = "reload_systemd" => reloaded' = override
      /\ h = "start_trace" => tracing' = TRUE
      /\ h = "stop_trace" => tracing' = FALSE
      /\ h = "restart_iwd" => jobs' = jobs \cup {"restart_iwd"}
  BY <1>1, <1>2, <1>7 DEF WifiFiles, Units
<1>9. RestOfSteps'
  BY <1>1, <1>8, TailOfPlan
<1>10. Runs("debug")
  BY <1>5 DEF Runs
<1>11. nmConf.backend = "iwd" /\ new = nmConf
  BY <1>10 DEF WifiInv, DebugMidway
<1>12. CASE wifiCall.value = "off"
  <2>1. /\ n <= 3 => ~tracing
        /\ n <= 2 => ~override
        /\ n <= 1 => ~reloaded
    BY <1>3, <1>10, <1>12 DEF WifiInv, DebugMidway
  <2>2. /\ n - 1 <= 3 => ~tracing'
        /\ n - 1 <= 2 => ~override'
        /\ n - 1 <= 1 => ~reloaded'
        /\ n - 1 = 0 => "restart_iwd" \in jobs'
    <3>1. CASE n = 4 /\ h = "stop_trace"
      BY <1>8, <2>1, <3>1
    <3>2. CASE n = 3 /\ h = "remove_override"
      BY <1>8, <2>1, <3>2
    <3>3. CASE n = 2 /\ h = "reload_systemd"
      BY <1>8, <2>1, <3>3
    <3>4. CASE n = 1 /\ h = "restart_iwd"
      BY <1>8, <2>1, <3>4
    <3>5. QED
      BY <1>6, <1>12, <3>1, <3>2, <3>3, <3>4
  <2>3. DebugMidway'
    BY <1>1, <1>4, <1>8, <1>11, <1>12, <2>2 DEF DebugMidway
  <2>4. tracing' => ShouldTrace
    BY <1>6, <1>8, <1>12 DEF WifiInv
  <2>5. QED
    BY <1>1, <1>5, <1>9, <2>3, <2>4, StepTypes
       DEF WifiInv, BackendMidway, PowerMidway, Runs, Stays
<1>13. CASE wifiCall.value = "tracing"
  <2>1. PICK l \in {0, 1} : l = LastSteps /\ (l = 1 <=> ShouldTrace)
    BY LastStepsIs
  <2>2. /\ n <= 2 + l => override
        /\ n <= 1 + l => reloaded
        /\ n <= l => "restart_iwd" \in jobs \/ (iwdDebug /\ "iwd" \in units)
        /\ tracing => l = 1
    BY <1>3, <1>10, <1>13, <2>1 DEF WifiInv, DebugMidway
  <2>3. /\ n - 1 <= 2 + l => override'
        /\ n - 1 <= 1 + l => reloaded'
        /\ n - 1 <= l => "restart_iwd" \in jobs' \/ (iwdDebug' /\ "iwd" \in units')
        /\ n - 1 = 0 => (tracing' <=> l = 1)
        /\ tracing' => l = 1
    <3>1. CASE n = 3 + l /\ h = "write_override"
      BY <1>8, <2>2, <3>1
    <3>2. CASE n = 2 + l /\ h = "reload_systemd"
      BY <1>8, <2>2, <3>2
    <3>3. CASE n = 1 + l /\ h = "restart_iwd"
      BY <1>8, <2>2, <3>3
    <3>4. CASE n = 1 /\ l = 1 /\ h = "start_trace"
      BY <1>8, <2>2, <3>4
    <3>5. QED
      BY <1>6, <1>13, <2>1, <3>1, <3>2, <3>3, <3>4
  <2>4. tracing' \in BOOLEAN /\ ShouldTrace \in BOOLEAN
    BY StepTypes, WifiAssumption DEF WifiTypeOK
  <2>5. DebugMidway'
    BY <1>1, <1>4, <1>8, <1>11, <1>13, <2>1, <2>3, <2>4 DEF DebugMidway
  <2>6. tracing' => ShouldTrace
    BY <2>1, <2>3
  <2>7. QED
    BY <1>1, <1>5, <1>9, <2>5, <2>6, StepTypes
       DEF WifiInv, BackendMidway, PowerMidway, Runs, Stays
<1>14. QED
  BY <1>5, <1>12, <1>13

LEMMA BackendStepKeepsWifiInv ==
    ASSUME WifiInv, Step, wifiCall.op = "backend"
    PROVE  WifiInv'
<1>1. /\ todo # <<>> /\ todo' = Tail(todo) /\ WifiFiles(Head(todo)) /\ Units(Head(todo))
      /\ ~Impossible(Head(todo))
      /\ UNCHANGED <<debug, wifiCall, result, new, faults, halfway, oldTaken>>
  BY DEF Step, wifiGhosts
<1>2. PICK h : h = Head(todo)
  BY SMTT(30)
<1>3. PICK n \in Nat : n = Len(todo) /\ n >= 1
  BY <1>1, NextStep
<1>4. Len(todo') = n - 1 /\ n - 1 \in Nat
  BY <1>1, <1>3, NextStep
<1>5. result = "running" /\ wifiCall \in WifiCalls
  BY <1>1, NextStep
<1>6. \/ n = 5 /\ h = "write_settings"
      \/ n = 4 /\ h = "stop_nm"
      \/ n = 3 /\ h = "stop_other"
      \/ n = 2 /\ h = "ensure_interface"
      \/ n = 1 /\ h = "start_nm"
  BY <1>1, <1>2, <1>3, NextStep
<1>7. Runs("backend") /\ Stays("backend")
  BY <1>5 DEF Runs, Stays
<1>8. PICK v \in Backends : v = wifiCall.value /\ v = new.backend
  BY <1>7 DEF WifiInv, BackendMidway
<1>9. debug = "off"
  BY <1>7 DEF WifiInv, BackendMidway
<1>10. /\ n <= 4 => nmConf.backend = v
       /\ n <= 2 => Other(v) \notin units /\ (Other(v) = "iwd" => "restart_iwd" \notin jobs)
       /\ n <= 1 => wlan
  BY <1>3, <1>7, <1>8 DEF WifiInv, BackendMidway
<1>11. /\ UNCHANGED <<override, reloaded, tracing>>
       /\ h # "write_settings" => nmConf' = nmConf
       /\ h = "write_settings" => nmConf' = new
       /\ h # "start_nm" => jobs' = jobs
       /\ h = "start_nm" => jobs' = jobs \cup {"start_nm"}
       /\ h = "stop_other" => /\ units' = units \ {Other(v)} /\ (Other(v) = "iwd" => "restart_iwd" \notin jobs)
                              /\ iwdDebug' = (iwdDebug /\ Other(v) # "iwd")
       /\ h # "stop_other" => units' = units /\ iwdDebug' = iwdDebug
       /\ h \notin {"stop_other", "ensure_interface"} => wlan' = wlan
       /\ h = "ensure_interface" => wlan' = TRUE
  <2>1. CASE h = "stop_other"
    BY <1>1, <1>2, <1>8, <2>1 DEF WifiFiles, Units, StopUnit, Impossible
  <2>2. CASE h = "ensure_interface"
    BY <1>1, <1>2, <1>8, <2>2 DEF WifiFiles, Units, EnsureInterface
  <2>3. CASE h \in {"write_settings", "stop_nm", "start_nm"}
    BY <1>1, <1>2, <1>8, <2>3 DEF WifiFiles, Units
  <2>4. QED
    BY <1>6, <2>1, <2>2, <2>3
<1>12. RestOfSteps'
  BY <1>1, TailOfPlan
<1>13. /\ n - 1 <= 4 => nmConf'.backend = v
       /\ n - 1 <= 2 => Other(v) \notin units' /\ (Other(v) = "iwd" => "restart_iwd" \notin jobs')
       /\ n - 1 <= 1 => wlan'
       /\ n - 1 = 0 => "start_nm" \in jobs'
  <2>1. CASE n = 5 /\ h = "write_settings"
    BY <1>8, <1>10, <1>11, <2>1
  <2>2. CASE n = 4 /\ h = "stop_nm"
    BY <1>10, <1>11, <2>2
  <2>3. CASE n = 3 /\ h = "stop_other"
    BY <1>10, <1>11, <2>3
  <2>4. CASE n = 2 /\ h = "ensure_interface"
    BY <1>10, <1>11, <2>4
  <2>5. CASE n = 1 /\ h = "start_nm"
    BY <1>10, <1>11, <2>5
  <2>6. QED
    BY <1>6, <2>1, <2>2, <2>3, <2>4, <2>5
<1>14. BackendMidway'
  BY <1>1, <1>4, <1>8, <1>9, <1>13 DEF BackendMidway
<1>15. ~halfway' /\ ~Runs("debug")' => SystemHasMode'
  <2>1. ~halfway => SystemHasMode
    BY <1>7 DEF WifiInv, Runs
  <2>2. "restart_iwd" \in jobs => "restart_iwd" \in jobs'
    BY <1>11
  <2>3. iwdDebug = FALSE => iwdDebug' = FALSE
    BY <1>11
  <2>4. SystemHasMode => SystemHasMode'
    BY <1>1, <1>9, <1>11, <2>2, <2>3 DEF SystemHasMode
  <2>5. QED
    BY <1>1, <2>1, <2>4
<1>16. tracing' => ShouldTrace
  BY <1>11 DEF WifiInv
<1>17. QED
  BY <1>1, <1>7, <1>12, <1>14, <1>15, <1>16, StepTypes
     DEF WifiInv, DebugMidway, PowerMidway, Runs, Stays

LEMMA PowerStepKeepsWifiInv ==
    ASSUME WifiInv, Step, wifiCall.op = "power"
    PROVE  WifiInv'
<1>1. /\ todo # <<>> /\ todo' = Tail(todo) /\ WifiFiles(Head(todo)) /\ Units(Head(todo))
      /\ UNCHANGED <<debug, wifiCall, result, new, faults, halfway, oldTaken>>
  BY SMTT(30) DEF Step, wifiGhosts
<1>2. PICK h : h = Head(todo)
  BY SMTT(30)
<1>3. PICK n \in Nat : n = Len(todo) /\ n >= 1
  BY <1>1, NextStep
<1>4. Len(todo') = n - 1 /\ n - 1 \in Nat
  BY <1>1, <1>3, NextStep
<1>5. result = "running" /\ wifiCall \in WifiCalls
  BY <1>1, NextStep
<1>6. \/ n = 3 /\ h = "set_power_save"
      \/ n = 2 /\ h = "write_settings"
      \/ n = 1 /\ h = "reload_nm"
  BY <1>1, <1>2, <1>3, NextStep
<1>7. Runs("power") /\ Stays("power")
  BY <1>5 DEF Runs, Stays
<1>8. PICK v : v = wifiCall.value
  OBVIOUS
<1>9. /\ new.backend = nmConf.backend /\ new.powersave = v
      /\ n <= 2 /\ wlan /\ ~oldTaken => powerSave = v
      /\ n <= 1 => nmConf.powersave = v
  BY <1>3, <1>7, <1>8 DEF WifiInv, PowerMidway
<1>10. /\ UNCHANGED <<override, reloaded, tracing, nm, units, iwdDebug, wlan, jobs>>
       /\ h # "write_settings" => nmConf' = nmConf
       /\ h = "write_settings" => nmConf' = new
       /\ h = "set_power_save" => powerSave' = v
       /\ h # "set_power_save" => powerSave' = powerSave
  BY <1>1, <1>2, <1>6, <1>8 DEF WifiFiles, Units
<1>11. RestOfSteps'
  BY <1>1, <1>10, TailOfPlan
<1>12. /\ new.backend = nmConf'.backend
       /\ n - 1 <= 2 /\ wlan /\ ~oldTaken => powerSave' = v
       /\ n - 1 <= 1 => nmConf'.powersave = v
  <2>1. CASE n = 3 /\ h = "set_power_save"
    BY <1>9, <1>10, <2>1
  <2>2. CASE n = 2 /\ h = "write_settings"
    BY <1>9, <1>10, <2>2
  <2>3. CASE n = 1 /\ h = "reload_nm"
    BY <1>9, <1>10, <2>3
  <2>4. QED
    BY <1>6, <2>1, <2>2, <2>3
<1>13. PowerMidway'
  BY <1>1, <1>4, <1>8, <1>9, <1>10, <1>12 DEF PowerMidway
<1>14. ~halfway' /\ ~Runs("debug")' => SystemHasMode'
  <2>1. ~halfway => SystemHasMode
    BY <1>7 DEF WifiInv, Runs
  <2>2. nmConf'.backend = nmConf.backend
    BY <1>9, <1>12
  <2>3. SystemHasMode => SystemHasMode'
    BY <1>1, <1>10, <2>2 DEF SystemHasMode
  <2>4. QED
    BY <1>1, <2>1, <2>3
<1>15. tracing' => ShouldTrace
  BY <1>10 DEF WifiInv
<1>16. QED
  BY <1>1, <1>7, <1>11, <1>13, <1>14, <1>15, StepTypes
     DEF WifiInv, DebugMidway, BackendMidway, Runs, Stays

LEMMA StepKeepsWifiInv ==
    ASSUME WifiInv, Step
    PROVE  WifiInv'
<1>1. wifiCall.op \in {"debug", "backend", "power"}
  BY NextStep, PlansAreSteps DEF Step
<1>2. QED
  BY <1>1, DebugStepKeepsWifiInv, BackendStepKeepsWifiInv, PowerStepKeepsWifiInv

LEMMA FaultsCount ==
    ASSUME WifiInv, faults' = faults \/ (faults < MaxWifiFaults /\ faults' = faults + 1)
    PROVE  faults' \in 0..MaxWifiFaults
BY WifiTypeParts, WifiAssumption

LEMMA FailKeepsWifiInv ==
    ASSUME WifiInv, StepFails
    PROVE  WifiInv'
<1>1. /\ todo # <<>> /\ todo' = <<>> /\ result' = "error"
      /\ halfway' = (halfway \/ wifiCall.op = "debug")
      /\ UNCHANGED <<debug, wifiCall, new, override, reloaded, nmConf, tracing, nm, units,
                     iwdDebug, wlan, powerSave, jobs, oldTaken>>
      /\ faults' = faults \/ (faults < MaxWifiFaults /\ faults' = faults + 1)
  BY DEF StepFails, filePart, unitPart
<1>2. WifiTypeOK'
  <2>1. todo' \in Seq(Steps)
    BY <1>1
  <2>2. {override, reloaded, tracing, iwdDebug, wlan, powerSave, halfway, oldTaken}' \subseteq BOOLEAN
    BY <1>1, WifiTypeParts
  <2>3. QED
    BY <1>1, <2>1, <2>2, FaultsCount DEF WifiInv, WifiTypeOK
<1>3. RestOfSteps' /\ DebugMidway' /\ BackendMidway' /\ PowerMidway'
  BY <1>1 DEF RestOfSteps, DebugMidway, BackendMidway, PowerMidway, Runs, Stays
<1>4. ~halfway' => SystemHasMode'
  <2>1. ~halfway' => SystemHasMode
    BY <1>1 DEF WifiInv, Runs
  <2>2. QED
    BY <1>1, <2>1 DEF SystemHasMode
<1>5. QED
  BY <1>1, <1>2, <1>3, <1>4 DEF WifiInv

LEMMA SucceedKeepsWifiInv ==
    ASSUME WifiInv, Succeed
    PROVE  WifiInv'
<1>1. /\ result = "running" /\ todo = <<>> /\ result' = "ok"
      /\ debug' = IF wifiCall.op = "debug" THEN wifiCall.value ELSE debug
      /\ halfway' = (halfway /\ wifiCall.op # "debug")
      /\ UNCHANGED <<wifiCall, todo, new, override, reloaded, nmConf, tracing, nm, units,
                     iwdDebug, wlan, powerSave, jobs, faults, oldTaken>>
  BY DEF Succeed, filePart, unitPart
<1>2. /\ wifiCall \in WifiCalls /\ Len(todo) = 0
      /\ wifiCall.op = "debug" => wifiCall.value \in {"off", "tracing"}
  BY <1>1, PlansAreSteps DEF WifiInv, RestOfSteps, DebugModes
<1>3. WifiTypeOK'
  <2>1. {override, reloaded, tracing, iwdDebug, wlan, powerSave, halfway, oldTaken}' \subseteq BOOLEAN
    BY <1>1, WifiTypeParts
  <2>2. debug' \in DebugModes
    BY <1>1, <1>2, WifiTypeParts DEF DebugModes
  <2>3. QED
    BY <1>1, <2>1, <2>2 DEF WifiInv, WifiTypeOK
<1>4. RestOfSteps' /\ DebugMidway' /\ BackendMidway' /\ PowerMidway'
  BY <1>1 DEF WifiInv, RestOfSteps, DebugMidway, BackendMidway, PowerMidway, Runs, Stays
<1>5. ~halfway' => SystemHasMode'
  <2>1. CASE wifiCall.op # "debug"
    <3>1. ~halfway' => SystemHasMode
      BY <1>1, <2>1 DEF WifiInv, Runs
    <3>2. QED
      BY <1>1, <2>1, <3>1 DEF SystemHasMode
  <2>2. CASE wifiCall.op = "debug"
    <3>1. Runs("debug") /\ debug' = wifiCall.value
      BY <1>1, <2>2 DEF Runs
    <3>2. PICK l \in {0, 1} : l = LastSteps
      BY LastStepsIs
    <3>3. PICK n \in Nat : n = Len(todo) /\ n = 0
      BY <1>2
    <3>4. nmConf.backend = "iwd"
      BY <3>1 DEF WifiInv, DebugMidway
    <3>5. CASE wifiCall.value = "off"
      <4>1. /\ ~tracing /\ ~override /\ ~reloaded
            /\ "restart_iwd" \in jobs \/ ~iwdDebug
        BY <3>1, <3>3, <3>5 DEF WifiInv, DebugMidway
      <4>2. QED
        BY <1>1, <3>1, <3>5, <4>1, WifiTypeParts DEF SystemHasMode
    <3>6. CASE wifiCall.value = "tracing"
      <4>1. /\ override /\ reloaded /\ tracing = ShouldTrace
            /\ "restart_iwd" \in jobs \/ (iwdDebug /\ "iwd" \in units)
        BY <3>1, <3>2, <3>3, <3>6 DEF WifiInv, DebugMidway
      <4>2. QED
        BY <1>1, <3>1, <3>4, <3>6, <4>1, WifiTypeParts, WifiAssumption DEF SystemHasMode
    <3>7. QED
      BY <1>2, <2>2, <3>5, <3>6
  <2>3. QED
    BY <2>1, <2>2
<1>6. QED
  BY <1>1, <1>3, <1>4, <1>5 DEF WifiInv

LEMMA RestartKeepsWifiInv ==
    ASSUME WifiInv, RestartRoot
    PROVE  WifiInv'
<1>1. /\ faults < MaxWifiFaults /\ faults' = faults + 1
      /\ halfway' = (halfway \/ debug = "tracing" \/ (result = "running" /\ wifiCall.op = "debug"))
      /\ debug' = "off" /\ wifiCall' = NoCall /\ todo' = <<>> /\ result' = "ok"
      /\ UNCHANGED <<new, override, reloaded, nmConf, tracing, nm, units, iwdDebug, wlan,
                     powerSave, jobs, oldTaken>>
  BY DEF RestartRoot, filePart, unitPart
<1>2. debug \in {"off", "tracing"}
  BY WifiTypeParts DEF DebugModes
<1>3. WifiTypeOK'
  <2>1. todo' \in Seq(Steps)
    BY <1>1
  <2>2. {override, reloaded, tracing, iwdDebug, wlan, powerSave, halfway, oldTaken}' \subseteq BOOLEAN
    BY <1>1, WifiTypeParts
  <2>3. debug' \in DebugModes /\ wifiCall' \in WifiCalls \cup {NoCall}
    BY <1>1 DEF DebugModes
  <2>4. QED
    BY <1>1, <2>1, <2>2, <2>3, FaultsCount DEF WifiInv, WifiTypeOK
<1>4. RestOfSteps' /\ DebugMidway' /\ BackendMidway' /\ PowerMidway'
  BY <1>1 DEF RestOfSteps, DebugMidway, BackendMidway, PowerMidway, Runs, Stays, NoCall
<1>5. ~halfway' => SystemHasMode'
  <2>1. ~halfway' => SystemHasMode /\ debug = "off"
    BY <1>1, <1>2 DEF WifiInv, Runs
  <2>2. QED
    BY <1>1, <2>1 DEF SystemHasMode
<1>6. QED
  BY <1>1, <1>3, <1>4, <1>5 DEF WifiInv

\* A job of systemd's makes so what its call has left to it.
LEMMA IwdKeepsWifiInv ==
    ASSUME WifiInv, IwdRestarts
    PROVE  WifiInv'
<1>1. /\ "restart_iwd" \in jobs /\ jobs' = jobs \ {"restart_iwd"}
      /\ units' = units \cup {"iwd"} /\ iwdDebug' = reloaded
      /\ UNCHANGED <<debug, wifiCall, todo, result, new, override, reloaded, nmConf, tracing, nm,
                     wlan, powerSave, faults, halfway, oldTaken>>
  BY DEF IwdRestarts, daemonPart, filePart, wifiGhosts
<1>2. WifiTypeOK'
  <2>1. {override, reloaded, tracing, iwdDebug, wlan, powerSave, halfway, oldTaken}' \subseteq BOOLEAN
    BY <1>1, WifiTypeParts
  <2>2. units' \subseteq Backends /\ jobs' \subseteq {"restart_iwd", "start_nm"}
    BY <1>1, WifiTypeParts DEF Backends
  <2>3. QED
    BY <1>1, <2>1, <2>2 DEF WifiInv, WifiTypeOK
<1>3. RestOfSteps'
  <2>1. result = "running" => wifiCall \in WifiCalls
    BY DEF WifiInv, RestOfSteps
  <2>2. result = "running" => StepsOf(wifiCall)' = StepsOf(wifiCall)
    BY <1>1, <2>1, PlanOfCall
  <2>3. QED
    BY <1>1, <2>2 DEF WifiInv, RestOfSteps
<1>4. DebugMidway'
  <2> SUFFICES ASSUME Runs("debug") PROVE DebugMidway'
    BY <1>1 DEF DebugMidway, Runs
  <2>1. PICK n \in Nat : n = Len(todo)
    BY WifiTypeParts
  <2>2. PICK l \in {0, 1} : l = LastSteps
    BY LastStepsIs
  <2>3. nmConf'.backend = "iwd" /\ new' = nmConf'
    BY <1>1 DEF WifiInv, DebugMidway
  <2>4. wifiCall.value = "off" =>
              /\ n <= 3 => ~tracing'
              /\ n <= 2 => ~override'
              /\ n <= 1 => ~reloaded'
              /\ n = 0 => ~iwdDebug'
    BY <1>1, <2>1 DEF WifiInv, DebugMidway
  <2>5. wifiCall.value = "tracing" =>
              /\ n <= 2 + l => override'
              /\ n <= 1 + l => reloaded'
              /\ n <= l => iwdDebug' /\ "iwd" \in units'
              /\ n = 0 => tracing' = ShouldTrace
    BY <1>1, <2>1, <2>2 DEF WifiInv, DebugMidway
  <2>6. QED
    BY <1>1, <2>1, <2>2, <2>3, <2>4, <2>5 DEF DebugMidway
<1>5. BackendMidway'
  <2>1. Runs("backend")' => debug' = "off"
    BY <1>1 DEF WifiInv, BackendMidway, Runs
  <2>2. ASSUME Stays("backend")'
        PROVE  /\ wifiCall'.value \in Backends
               /\ new'.backend = wifiCall'.value
               /\ Len(todo') <= 4 => nmConf'.backend = wifiCall'.value
               /\ Len(todo') <= 2 => /\ Other(wifiCall'.value) \notin units'
                                     /\ Other(wifiCall'.value) = "iwd" => "restart_iwd" \notin jobs'
               /\ Len(todo') <= 1 => wlan'
               /\ Len(todo') = 0 => "start_nm" \in jobs' \/ (nm' = wifiCall'.value /\ nm' \in units')
    <3>1. Stays("backend")
      BY <1>1, <2>2 DEF Stays
    <3>2. PICK v : v = wifiCall.value
      OBVIOUS
    <3>3. /\ v \in Backends /\ new.backend = v
          /\ Len(todo) <= 4 => nmConf.backend = v
          /\ Len(todo) <= 2 => Other(v) \notin units /\ (Other(v) = "iwd" => "restart_iwd" \notin jobs)
          /\ Len(todo) <= 1 => wlan
          /\ Len(todo) = 0 => "start_nm" \in jobs \/ (nm = v /\ nm \in units)
      BY <3>1, <3>2 DEF WifiInv, BackendMidway
    <3>4. QED
      BY <1>1, <3>2, <3>3
  <2>3. QED
    BY <2>1, <2>2 DEF BackendMidway
<1>6. PowerMidway'
  BY <1>1 DEF WifiInv, PowerMidway, Runs, Stays
<1>7. ~halfway' /\ ~Runs("debug")' => SystemHasMode'
  <2>1. ~halfway' /\ ~Runs("debug")' => SystemHasMode
    BY <1>1 DEF WifiInv, Runs
  <2>2. QED
    BY <1>1, <2>1 DEF SystemHasMode
<1>8. QED
  BY <1>1, <1>2, <1>3, <1>4, <1>5, <1>6, <1>7 DEF WifiInv

LEMMA NmKeepsWifiInv ==
    ASSUME WifiInv, NmStarts
    PROVE  WifiInv'
<1>1. /\ "start_nm" \in jobs /\ jobs' = jobs \ {"start_nm"}
      /\ nm' = nmConf.backend
      /\ wlan => units' = units \cup {nmConf.backend} /\ powerSave' = nmConf.powersave
      /\ ~wlan => units' = units /\ powerSave' = powerSave
      /\ iwdDebug' = IF wlan /\ nmConf.backend = "iwd" /\ "iwd" \notin units
                     THEN reloaded ELSE iwdDebug
      /\ oldTaken' = (result = "running")
      /\ UNCHANGED <<debug, wifiCall, todo, result, new, override, reloaded, nmConf, tracing, wlan,
                     faults, halfway>>
  BY DEF NmStarts, daemonPart, filePart
<1>2. /\ units \subseteq units'
      /\ iwdDebug' = iwdDebug \/ (iwdDebug' = reloaded /\ "iwd" \notin units)
      /\ "restart_iwd" \in jobs' <=> "restart_iwd" \in jobs
  BY <1>1
<1>3. WifiTypeOK'
  <2>1. nmConf.backend \in Backends /\ nmConf.powersave \in BOOLEAN
    BY WifiTypeParts DEF Settings, PowerManagement
  <2>2. iwdDebug' \in BOOLEAN
    BY <1>2, WifiTypeParts
  <2>3. powerSave' \in BOOLEAN
    BY <1>1, <2>1, WifiTypeParts
  <2>4. {override, reloaded, tracing, iwdDebug, wlan, powerSave, halfway, oldTaken}' \subseteq BOOLEAN
    <3>1. oldTaken' \in BOOLEAN
      BY <1>1
    <3>2. QED
      BY <1>1, <2>2, <2>3, <3>1, WifiTypeParts
  <2>5. units' \subseteq Backends /\ nm' \in Backends \cup {"off"}
    BY <1>1, <2>1, WifiTypeParts
  <2>6. jobs' \subseteq {"restart_iwd", "start_nm"}
    BY <1>1, WifiTypeParts
  <2>7. QED
    BY <1>1, <2>4, <2>5, <2>6 DEF WifiInv, WifiTypeOK
<1>4. RestOfSteps'
  <2>1. result = "running" => wifiCall \in WifiCalls
    BY DEF WifiInv, RestOfSteps
  <2>2. result = "running" => StepsOf(wifiCall)' = StepsOf(wifiCall)
    BY <1>1, <2>1, PlanOfCall
  <2>3. QED
    BY <1>1, <2>2 DEF WifiInv, RestOfSteps
<1>5. DebugMidway'
  <2> SUFFICES ASSUME Runs("debug") PROVE DebugMidway'
    BY <1>1 DEF DebugMidway, Runs
  <2>1. PICK n \in Nat : n = Len(todo)
    BY WifiTypeParts
  <2>2. PICK l \in {0, 1} : l = LastSteps
    BY LastStepsIs
  <2>3. nmConf'.backend = "iwd" /\ new' = nmConf'
    BY <1>1 DEF WifiInv, DebugMidway
  <2>4. wifiCall.value = "off" =>
              /\ n <= 3 => ~tracing'
              /\ n <= 2 => ~override'
              /\ n <= 1 => ~reloaded'
              /\ n = 0 => "restart_iwd" \in jobs' \/ ~iwdDebug'
    BY <1>1, <1>2, <2>1 DEF WifiInv, DebugMidway
  <2>5. wifiCall.value = "tracing" =>
              /\ n <= 2 + l => override'
              /\ n <= 1 + l => reloaded'
              /\ n <= l => "restart_iwd" \in jobs' \/ (iwdDebug' /\ "iwd" \in units')
              /\ n = 0 => tracing' = ShouldTrace
    BY <1>1, <1>2, <2>1, <2>2 DEF WifiInv, DebugMidway
  <2>6. QED
    BY <1>1, <2>1, <2>2, <2>3, <2>4, <2>5 DEF DebugMidway
<1>6. BackendMidway'
  <2>1. Runs("backend")' => debug' = "off"
    BY <1>1 DEF WifiInv, BackendMidway, Runs
  <2>2. ASSUME Stays("backend")'
        PROVE  /\ wifiCall'.value \in Backends
               /\ new'.backend = wifiCall'.value
               /\ Len(todo') <= 4 => nmConf'.backend = wifiCall'.value
               /\ Len(todo') <= 2 => /\ Other(wifiCall'.value) \notin units'
                                     /\ Other(wifiCall'.value) = "iwd" => "restart_iwd" \notin jobs'
               /\ Len(todo') <= 1 => wlan'
               /\ Len(todo') = 0 => "start_nm" \in jobs' \/ (nm' = wifiCall'.value /\ nm' \in units')
    <3>1. Stays("backend")
      BY <1>1, <2>2 DEF Stays
    <3>2. PICK v : v = wifiCall.value
      OBVIOUS
    <3>3. PICK n \in Nat : n = Len(todo)
      BY WifiTypeParts
    <3>4. PICK o : o = Other(v)
      OBVIOUS
    <3>5. /\ v \in Backends /\ new.backend = v
          /\ n <= 4 => nmConf.backend = v
          /\ n <= 2 => o \notin units /\ (o = "iwd" => "restart_iwd" \notin jobs)
          /\ n <= 1 => wlan
      BY <3>1, <3>2, <3>3, <3>4 DEF WifiInv, BackendMidway
    <3>6. o # v
      BY <3>4, <3>5 DEF Other, Backends
    <3>7. n <= 2 => o \notin units'
      BY <1>1, <3>5, <3>6
    <3>8. n = 0 => nm' = v /\ nm' \in units'
      BY <1>1, <3>5
    <3>9. QED
      BY <1>1, <1>2, <3>2, <3>3, <3>4, <3>5, <3>7, <3>8
  <2>3. QED
    BY <2>1, <2>2 DEF BackendMidway
<1>7. PowerMidway'
  <2>1. Runs("power")' => new'.backend = nmConf'.backend
    BY <1>1 DEF WifiInv, PowerMidway, Runs
  <2>2. ASSUME Stays("power")
        PROVE  /\ new.powersave = wifiCall.value
               /\ Len(todo) <= 1 => nmConf.powersave = wifiCall.value
               /\ wlan /\ ~oldTaken' => powerSave' = wifiCall.value
    <3>1. /\ new.powersave = wifiCall.value
          /\ Len(todo) <= 1 => nmConf.powersave = wifiCall.value
      BY <2>2 DEF WifiInv, PowerMidway
    <3>2. result = "running" \/ Len(todo) = 0
      BY DEF WifiInv, RestOfSteps
    <3>3. ASSUME wlan, ~oldTaken' PROVE powerSave' = wifiCall.value
      <4>1. Len(todo) = 0
        BY <1>1, <3>2, <3>3
      <4>2. nmConf.powersave = wifiCall.value
        BY <3>1, <4>1
      <4>3. QED
        BY <1>1, <3>3, <4>2
    <3>4. QED
      BY <3>1, <3>3
  <2>3. QED
    BY <1>1, <2>1, <2>2 DEF PowerMidway, Stays
<1>8. ~halfway' /\ ~Runs("debug")' => SystemHasMode'
  <2>1. ~halfway' /\ ~Runs("debug")' => SystemHasMode
    BY <1>1 DEF WifiInv, Runs
  <2>2. SystemHasMode => SystemHasMode'
    BY <1>1, <1>2 DEF SystemHasMode
  <2>3. QED
    BY <2>1, <2>2
<1>9. QED
  BY <1>1, <1>3, <1>4, <1>5, <1>6, <1>7, <1>8 DEF WifiInv

LEMMA NextKeepsWifiInv == WifiInv /\ [WifiNext]_wifiVars => WifiInv'
<1> SUFFICES ASSUME WifiInv, [WifiNext]_wifiVars PROVE WifiInv'
  OBVIOUS
<1>1. CASE UNCHANGED wifiVars
  <2>1. UNCHANGED <<debug, wifiCall, todo, result, new, override, reloaded, nmConf, tracing, nm,
                    units, iwdDebug, wlan, powerSave, jobs, faults, halfway, oldTaken>>
    BY <1>1 DEF wifiVars, daemonPart, filePart, unitPart, wifiGhosts
  <2>2. WifiTypeOK' /\ DebugMidway' /\ BackendMidway' /\ PowerMidway'
    BY <2>1 DEF WifiInv, WifiTypeOK, DebugMidway, BackendMidway, PowerMidway, Runs, Stays
  <2>3. RestOfSteps'
    <3>1. result = "running" => StepsOf(wifiCall)' = StepsOf(wifiCall)
      BY <2>1, PlanOfCall DEF WifiInv, RestOfSteps
    <3>2. QED
      BY <2>1, <3>1 DEF WifiInv, RestOfSteps
  <2>4. ~halfway' /\ ~Runs("debug")' => SystemHasMode'
    BY <2>1 DEF WifiInv, SystemHasMode, Runs
  <2>5. QED
    BY <2>1, <2>2, <2>3, <2>4 DEF WifiInv
<1>2. ASSUME NEW c \in WifiCalls, Accept(c) PROVE WifiInv'
  BY <1>2, AcceptKeepsWifiInv
<1>3. CASE Step
  BY <1>3, StepKeepsWifiInv
<1>4. CASE StepFails
  BY <1>4, FailKeepsWifiInv
<1>5. CASE Succeed
  BY <1>5, SucceedKeepsWifiInv
<1>6. CASE RestartRoot
  BY <1>6, RestartKeepsWifiInv
<1>7. CASE IwdRestarts
  BY <1>7, IwdKeepsWifiInv
<1>8. CASE NmStarts
  BY <1>8, NmKeepsWifiInv
<1>9. QED
  BY <1>1, <1>2, <1>3, <1>4, <1>5, <1>6, <1>7, <1>8 DEF WifiNext

\* Whatever the calls, failures, restarts of the daemon and late jobs of
\* systemd: set_wifi_debug_mode, set_nm_settings and
\* set_wifi_power_management_state (wifi.rs) take their steps on a system in the
\* state WifiInv says.
THEOREM WifiInvariant == WifiSpec => []WifiInv
<1>1. WifiInit => WifiInv
  BY InitWifiInv
<1>2. WifiInv /\ [WifiNext]_wifiVars => WifiInv'
  BY NextKeepsWifiInv
<1>3. QED
  BY <1>1, <1>2, PTL DEF WifiSpec

\* What the Wi-Fi properties of the interface show is what the files, iwd,
\* NetworkManager and trace-cmd do (wifi.rs, the methods of manager/root.rs).
THEOREM SystemIsAlwaysInMode == WifiSpec => []SystemIsInMode
<1>1. WifiInv => SystemIsInMode
  BY WifiIsInMode
<1>2. QED
  BY <1>1, WifiInvariant, PTL

-----------------------------------------------------------------------------
(* HardwareSettings. How far a call got, and what it may leave halfway.    *)

In(q) == {q[k] : k \in 1..Len(q)}
Has(w) == IF w.file = "cached" THEN held = w.value ELSE file[w.file] = w.value

\* What a call still has to write, and what it has written.
Underway(W) == writes \in Seq(W) /\ \A w \in W : w \in In(writes) \/ Has(w)

FilesAreThere ==
    /\ driver = "gpu_profile" => DOMAIN file = {"power_profile"}
    /\ driver = "gpu_amdgpu" => DOMAIN file = {"force_level", "s0", "s1", "min", "max"}
    /\ driver = "gpu_intel" => DOMAIN file = {"min", "max"}
    /\ driver = "tdp_amdgpu" =>
          DOMAIN file = {"power1_cap"} \/ DOMAIN file = {"power1_cap", "power2_cap"}
    /\ driver = "tdp_firmware" => DOMAIN file = {"spl", "sppt", "fppt"}
    /\ driver = "tdp_alib" => DOMAIN file = {"acpi_call"}
    /\ driver = "profile" => DOMAIN file = {"profile"}
    /\ driver = "governor" => DOMAIN file = PolicyFiles
    /\ driver = "boost" => DOMAIN file = {"no_turbo"} \/ DOMAIN file = {"boost", "no_turbo"}
    /\ driver = "scheduler" => DOMAIN file = {"unit"}
    /\ driver = "fan" => DOMAIN file = {"unit"} \/ DOMAIN file = {"fan_script"}
    /\ driver = "audio" => DOMAIN file = {"mono_key"}
    /\ driver = "wake" => DOMAIN file = {"port0", "port1"}

HwTypes ==
    /\ driver \in Drivers /\ found \in BOOLEAN /\ outOfStep \in BOOLEAN
    /\ hwJobs \subseteq {"start", "stop"}
    /\ hwJobs # {} => driver \in {"scheduler", "fan"} /\ DOMAIN file = {"unit"}
    /\ answer \in {"running", "ok", "error"}
    /\ answer # "running" => writes = <<>>
    /\ answer = "running" => setting.op # "none"
    /\ driver = "scheduler" => held \in CpuScheduler
    /\ driver = "wake" => file["port1"] = 0

OpOf == [gpu_profile |-> "power_profile", gpu_amdgpu |-> "level", gpu_intel |-> "level",
         tdp_amdgpu |-> "tdp", tdp_firmware |-> "tdp", tdp_alib |-> "tdp",
         profile |-> "profile", governor |-> "governor", boost |-> "boost",
         scheduler |-> "scheduler", fan |-> "fan", audio |-> "audio", wake |-> "wake"]

\* A call that was let through.
Taken(c) ==
    /\ \/ c.op = OpOf[driver]
       \/ c.op = "clock" /\ driver \in {"gpu_amdgpu", "gpu_intel"}
    /\ Parses(c) /\ ~Missing(c)
    /\ c.op \in {"boost", "wake"} => c.value \in BOOLEAN
    /\ c.op = "tdp" => c.value \in Lo..Hi

\* Its files have no life of their own, and are written whatever they say.
Plain(c) ==
    /\ driver \notin {"scheduler", "audio"} /\ c.op # "clock"
    /\ driver = "fan" => "unit" \notin DOMAIN file

ClockUnderway(v) ==
    \/ writes = <<Write("s0", v), Write("s1", v), Write("commit", 0)>>
    \/ writes = <<Write("s1", v), Write("commit", 0)>> /\ file["s0"] = v
    \/ writes = <<Write("commit", 0)>> /\ file["s0"] = v /\ file["s1"] = v
    \/ writes = <<>> /\ file["min"] = v /\ file["max"] = v

\* A value that a manager's field gets last.
CachedUnderway(name, v) ==
    \/ writes = <<Write(name, v), Write("cached", v)>>
    \/ writes = <<Write("cached", v)>>
    \/ writes = <<>> /\ held = v

JobOf(v) == IF Starts(v) THEN "start" ELSE "stop"

Progress(c) ==
    /\ Plain(c) => Underway(In(WritesOf(c)))
    /\ c.op = "clock" /\ driver = "gpu_intel" =>
          \/ writes = <<>> /\ ShownIntelLevel(file) = "auto"
          \/ Underway({Write("min", c.value), Write("max", c.value)})
    /\ c.op = "clock" /\ driver = "gpu_amdgpu" => ClockUnderway(c.value)
    /\ driver = "fan" /\ ~Plain(c) =>
          \/ writes = <<Write("unit", c.value)>>
          \/ writes = <<>> /\ hwJobs \subseteq {JobOf(c.value)}
                           /\ (HwSettled => file["unit"] = c.value)
    /\ driver = "scheduler" => CachedUnderway("unit", c.value)
    /\ driver = "audio" => CachedUnderway("mono_key", c.value)

\* What the manager will have in its field when the call is over.
Owed == writes # <<>> /\ Head(writes).file = "cached"
Remembers(v) == IF Owed THEN v = Head(writes).value ELSE v = held

SchedulerInStep ==
    driver = "scheduler" /\ found /\ ~outOfStep =>
        /\ hwJobs = {} => Remembers(file["unit"])
        /\ "start" \in hwJobs => Remembers("lavd")
        /\ "stop" \in hwJobs => Remembers("none")

AudioInStep ==
    driver = "audio" /\ ~outOfStep => Remembers(file["mono_key"]) \/ (~Owed /\ held = Error)

HwInv ==
    /\ HwTypes /\ FilesAreThere /\ SchedulerInStep /\ AudioInStep
    /\ setting.op # "none" /\ answer # "error" => Taken(setting) /\ Progress(setting)

\* What waits in the channel are TDP limits.
QueueInv == queued \in Seq(TdpLimit1) /\ (queued # <<>> => driver \in TdpDrivers)

LEMMA InOfTuples ==
    /\ In(<<>>) = {}
    /\ \A a : <<a>> \in Seq({a}) /\ In(<<a>>) = {a}
    /\ \A a, b : <<a, b>> \in Seq({a, b}) /\ In(<<a, b>>) = {a, b}
    /\ \A a, b, c : <<a, b, c>> \in Seq({a, b, c}) /\ In(<<a, b, c>>) = {a, b, c}
<1>1. In(<<>>) = {}
  BY DEF In
<1>2. ASSUME NEW a PROVE <<a>> \in Seq({a}) /\ In(<<a>>) = {a}
  BY DEF In
<1>3. ASSUME NEW a, NEW b PROVE <<a, b>> \in Seq({a, b}) /\ In(<<a, b>>) = {a, b}
  BY DEF In
<1>4. ASSUME NEW a, NEW b, NEW c
      PROVE  <<a, b, c>> \in Seq({a, b, c}) /\ In(<<a, b, c>>) = {a, b, c}
  BY DEF In
<1>5. QED
  BY <1>1, <1>2, <1>3, <1>4

LEMMA InOfHeadAndTail ==
    ASSUME NEW S, NEW s \in Seq(S), s # <<>>
    PROVE  Head(s) \in S /\ Tail(s) \in Seq(S) /\ In(s) = {Head(s)} \cup In(Tail(s))
<1>1. /\ Len(s) \in Nat /\ 1 <= Len(s) /\ Head(s) = s[1] /\ Head(s) \in S
      /\ Tail(s) \in Seq(S) /\ Len(Tail(s)) = Len(s) - 1
      /\ \A k \in 1..Len(Tail(s)) : Tail(s)[k] = s[k + 1]
  BY HeadAndTail
<1>2. \A x : x \in In(s) => x = Head(s) \/ x \in In(Tail(s))
  <2> SUFFICES ASSUME NEW k \in 1..Len(s), s[k] # Head(s) PROVE s[k] \in In(Tail(s))
    BY DEF In
  <2>1. k # 1 /\ k - 1 \in 1..Len(Tail(s)) /\ Tail(s)[k - 1] = s[(k - 1) + 1]
    BY <1>1
  <2>2. QED
    BY <2>1 DEF In
<1>3. \A x : x \in In(Tail(s)) => x \in In(s)
  <2> SUFFICES ASSUME NEW k \in 1..Len(Tail(s)) PROVE Tail(s)[k] \in In(s)
    BY DEF In
  <2>1. k + 1 \in 1..Len(s) /\ Tail(s)[k] = s[k + 1]
    BY <1>1
  <2>2. QED
    BY <2>1 DEF In
<1>4. Head(s) \in In(s)
  BY <1>1 DEF In
<1>5. QED
  BY <1>1, <1>2, <1>3, <1>4

\* A sequence is one of the values it has.
LEMMA SeqOfIn ==
    ASSUME NEW S, NEW s \in Seq(S)
    PROVE  s \in Seq(In(s))
<1>1. Len(s) \in Nat /\ s \in [1..Len(s) -> S]
  OBVIOUS
<1>2. s \in [1..Len(s) -> In(s)]
  BY <1>1 DEF In
<1>3. QED
  BY <1>1, <1>2

-----------------------------------------------------------------------------
(* HardwareSettings. A write brings a call on.                             *)

PlainSet(W) ==
    \A w \in W :
        /\ w.file \in DOMAIN file \cup {"cached"} /\ w.file \notin {"commit", "unit", "mono_key"}
        /\ \A x \in W : x.file = w.file => x.value = w.value

LEMMA WritesGetOn ==
    ASSUME NEW W, Underway(W), PlainSet(W), writes # <<>>,
           Put(Head(writes)), writes' = Tail(writes)
    PROVE  Underway(W)'
<1> DEFINE h == Head(writes)
<1>1. h \in W /\ Tail(writes) \in Seq(W) /\ In(writes) = {h} \cup In(Tail(writes))
  BY InOfHeadAndTail DEF Underway
<1>2. /\ h.file \in DOMAIN file \cup {"cached"} /\ h.file \notin {"commit", "unit"}
      /\ \A x \in W : x.file = h.file => x.value = h.value
  BY <1>1 DEF PlainSet
<1>3. h.file = "cached" => file' = file /\ held' = h.value
  BY <1>2 DEF Put
<1>4. h.file # "cached" => /\ file' = [file EXCEPT ![h.file] = h.value] /\ held' = held
                           /\ h.file \in DOMAIN file
  BY <1>2 DEF Put
<1>5. ASSUME NEW w \in W, Has(w) \/ w = h PROVE Has(w)'
  <2>1. w.file = h.file => w.value = h.value
    BY <1>2
  <2>2. w.file # "cached" => w.file \in DOMAIN file
    BY DEF PlainSet
  <2>3. w.file = h.file => Has(w)'
    BY <1>3, <1>4, <2>1 DEF Has
  <2>4. w.file # h.file => Has(w)
    BY <1>5
  <2>5. w.file # h.file => Has(w)'
    BY <1>3, <1>4, <2>2, <2>4 DEF Has
  <2>6. QED
    BY <2>3, <2>5
<1>6. ASSUME NEW w \in W PROVE w \in In(writes') \/ Has(w)'
  <2>1. CASE Has(w)
    BY <1>5, <2>1
  <2>2. CASE w \in In(writes)
    BY <1>1, <1>5, <2>2
  <2>3. QED
    BY <2>1, <2>2 DEF Underway
<1>7. QED
  BY <1>1, <1>6 DEF Underway

\* A write changes what files say, and never which there are.
LEMMA PutKeepsFiles ==
    ASSUME NEW w, Put(w)
    PROVE  DOMAIN file' = DOMAIN file
<1>1. CASE w.file = "commit"
  BY <1>1 DEF Put
<1>2. CASE w.file \in {"unit", "cached"}
  BY <1>2 DEF Put
<1>3. CASE w.file \notin {"commit", "unit", "cached"}
  BY <1>3 DEF Put
<1>4. QED
  BY <1>1, <1>2, <1>3

-----------------------------------------------------------------------------
(* HardwareSettings. What each call writes.                                *)

LEMMA OpIs ==
    ASSUME NEW c, Taken(c)
    PROVE  /\ driver = "gpu_profile" => c.op = "power_profile"
           /\ driver = "gpu_amdgpu" => c.op \in {"level", "clock"}
           /\ driver = "gpu_intel" => c.op \in {"level", "clock"}
           /\ driver \in {"tdp_amdgpu", "tdp_firmware", "tdp_alib"} => c.op = "tdp"
           /\ driver = "profile" => c.op = "profile"
           /\ driver = "governor" => c.op = "governor"
           /\ driver = "boost" => c.op = "boost"
           /\ driver = "scheduler" => c.op = "scheduler"
           /\ driver = "fan" => c.op = "fan"
           /\ driver = "audio" => c.op = "audio"
           /\ driver = "wake" => c.op = "wake"
BY DEF Taken, OpOf

LEMMA NamesWrite ==
    ASSUME NEW c, Taken(c), c.op = "power_profile"
    PROVE  \E k \in KernelProfiles : LowerCase[k] = c.value
                                     /\ WritesOf(c) = <<Write("power_profile", k)>>
<1>1. c.value \in {"video", "capped", "uncapped"}
  BY DEF Taken, Parses, AmdgpuPowerProfile
<1>2. KernelProfiles = {"POWER_SAVING", "VIDEO", "CAPPED", "UNCAPPED"}
  BY DEF KernelProfiles, LowerCase
<1>3. \E k \in KernelProfiles : LowerCase[k] = c.value
  BY <1>1, <1>2 DEF LowerCase
<1>4. LowerCase[CHOOSE k \in KernelProfiles : LowerCase[k] = c.value] = c.value
  BY <1>3
<1>5. WritesOf(c) = <<Write("power_profile", CHOOSE k \in KernelProfiles : LowerCase[k] = c.value)>>
  BY DEF WritesOf, PowerProfileWrites
<1>6. QED
  BY <1>3, <1>4, <1>5

LEMMA OneFileWrites ==
    ASSUME NEW c
    PROVE  /\ c.op = "level" /\ driver = "gpu_amdgpu" =>
                 WritesOf(c) = <<Write("force_level", c.value)>>
           /\ c.op = "profile" => WritesOf(c) = <<Write("profile", c.value)>>
           /\ c.op = "boost" => WritesOf(c) = BoostWrites(c.value, file)
           /\ c.op = "fan" => WritesOf(c) = FanWrites(c.value, file)
           /\ c.op = "wake" => WritesOf(c) = <<Write("port0", IF c.value THEN 1 ELSE 0)>>
BY DEF WritesOf, AmdgpuLevelWrites, PlatformProfileWrites, AwakenWrites, EcPort

LEMMA ManyFileWrites ==
    ASSUME NEW c
    PROVE  /\ c.op = "level" /\ driver = "gpu_intel" => WritesOf(c) = IntelLevelWrites(c.value)
           /\ c.op = "clock" /\ driver = "gpu_intel" =>
                 WritesOf(c) = IntelClockWrites(c.value, file)
           /\ c.op = "clock" /\ driver = "gpu_amdgpu" => WritesOf(c) = AmdgpuClockWrites(c.value)
           /\ c.op = "tdp" /\ driver = "tdp_amdgpu" => WritesOf(c) = AmdgpuLimitWrites(c.value, file)
           /\ c.op = "tdp" /\ driver = "tdp_firmware" => WritesOf(c) = FirmwareLimitWrites(c.value)
           /\ c.op = "tdp" /\ driver = "tdp_alib" => WritesOf(c) = AlibLimitWrites(c.value)
           /\ c.op = "governor" => WritesOf(c) = GovernorWrites(c.value)
           /\ c.op = "scheduler" => WritesOf(c) = SchedulerWrites(c.value, held, found)
           /\ c.op = "audio" => WritesOf(c) = AudioWrites(c.value, held)
BY DEF WritesOf

\* The writes of a plain call, to as many files.
PlainWrites(c) ==
    /\ WritesOf(c) \in Seq(In(WritesOf(c)))
    /\ PlainSet(In(WritesOf(c)))

LEMMA OneIsPlain ==
    ASSUME NEW c, NEW w, WritesOf(c) = <<w>>,
           w.file \in DOMAIN file, w.file \notin {"commit", "unit", "mono_key"}
    PROVE  PlainWrites(c)
<1>1. <<w>> \in Seq({w}) /\ In(<<w>>) = {w}
  BY InOfTuples
<1>2. QED
  BY <1>1 DEF PlainWrites, PlainSet

LEMMA TwoArePlain ==
    ASSUME NEW c, NEW w, NEW x, WritesOf(c) = <<w, x>>, w.file # x.file,
           {w.file, x.file} \subseteq DOMAIN file \cup {"cached"},
           {"commit", "unit", "mono_key"} \cap {w.file, x.file} = {}
    PROVE  PlainWrites(c)
<1>1. <<w, x>> \in Seq({w, x}) /\ In(<<w, x>>) = {w, x}
  BY InOfTuples
<1>2. w.file \notin {"commit", "unit", "mono_key"} /\ x.file \notin {"commit", "unit", "mono_key"}
  OBVIOUS
<1>3. PlainSet({w, x})
  BY <1>2 DEF PlainSet
<1>4. QED
  BY <1>1, <1>3 DEF PlainWrites

LEMMA FileOfWrite == \A n, v : Write(n, v).file = n /\ Write(n, v).value = v
BY DEF Write

LEMMA BoostIsOne ==
    ASSUME NEW c, Taken(c), FilesAreThere, driver = "boost"
    PROVE  \E v \in {0, 1} :
              /\ WritesOf(c) = <<Write(BoostFile(file), v)>>
              /\ BoostFile(file) \in {"boost", "no_turbo"} \cap DOMAIN file
              /\ c.value = (v = (IF BoostFile(file) = "boost" THEN 1 ELSE 0))
<1>1. c.op = "boost" /\ c.value \in BOOLEAN
  BY OpIs DEF Taken
<1>2. BoostFile(file) \in {"boost", "no_turbo"} \cap DOMAIN file
  BY DEF FilesAreThere, BoostFile
<1>3. WritesOf(c) = <<Write(BoostFile(file), IF c.value = (BoostFile(file) = "boost") THEN 1 ELSE 0)>>
  BY <1>1, OneFileWrites DEF BoostWrites
<1>4. CASE c.value
  BY <1>2, <1>3, <1>4
<1>5. CASE ~c.value
  BY <1>1, <1>2, <1>3, <1>5
<1>6. QED
  BY <1>4, <1>5

LEMMA TuplesConcat ==
    \A a, b : <<a>> \o <<b>> = <<a, b>> /\ <<a>> \o <<>> = <<a>> /\ <<>> \o <<a>> = <<a>>
<1> SUFFICES ASSUME NEW a, NEW b
             PROVE  <<a>> \o <<b>> = <<a, b>> /\ <<a>> \o <<>> = <<a>> /\ <<>> \o <<a>> = <<a>>
  OBVIOUS
<1>1. <<a>> \in Seq({a, b}) /\ <<b>> \in Seq({a, b}) /\ <<>> \in Seq({a, b})
  OBVIOUS
<1>2. /\ <<a>> \o <<b>> \in Seq({a, b}) /\ Len(<<a>> \o <<b>>) = 2
      /\ (<<a>> \o <<b>>)[1] = a /\ (<<a>> \o <<b>>)[2] = b
  BY <1>1
<1>3. <<a>> \o <<>> \in Seq({a, b}) /\ Len(<<a>> \o <<>>) = 1 /\ (<<a>> \o <<>>)[1] = a
  BY <1>1
<1>4. <<>> \o <<a>> \in Seq({a, b}) /\ Len(<<>> \o <<a>>) = 1 /\ (<<>> \o <<a>>)[1] = a
  BY <1>1
<1>5. \A s \in Seq({a, b}) : Len(s) = 2 /\ s[1] = a /\ s[2] = b => s = <<a, b>>
  OBVIOUS
<1>6. \A s \in Seq({a, b}) : Len(s) = 1 /\ s[1] = a => s = <<a>>
  OBVIOUS
<1>7. QED
  BY <1>2, <1>3, <1>4, <1>5, <1>6

LEMMA LimitWrites ==
    ASSUME NEW c, c.op = "tdp", driver = "tdp_amdgpu", FilesAreThere
    PROVE  IF "power2_cap" \in DOMAIN file
           THEN WritesOf(c) = <<Write("power1_cap", c.value), Write("power2_cap", c.value)>>
           ELSE WritesOf(c) = <<Write("power1_cap", c.value)>>
BY ManyFileWrites, TuplesConcat DEF AmdgpuLimitWrites

LEMMA GovernorIsPlain ==
    ASSUME NEW c, Taken(c), FilesAreThere, driver = "governor"
    PROVE  /\ PlainWrites(c)
           /\ \A n \in DOMAIN file : Write(n, c.value) \in In(WritesOf(c))
<1> DEFINE q == WritesOf(c)
<1>1. /\ PolicyFile \in Seq(STRING) /\ Len(PolicyFile) \in Nat
      /\ PolicyFiles \cap {"profile", "unit", "mono_key", "commit", "cached"} = {}
  BY DriverAssumption
<1>2. DOMAIN file = PolicyFiles
  BY DEF FilesAreThere
<1>3. q = [i \in 1..Len(PolicyFile) |-> Write(PolicyFile[i], c.value)]
  BY OpIs, ManyFileWrites DEF GovernorWrites
<1>4. DOMAIN q = 1..Len(PolicyFile) /\ \A i \in 1..Len(PolicyFile) : q[i] = Write(PolicyFile[i], c.value)
  BY <1>3
<1> DEFINE S == {Write(PolicyFile[i], c.value) : i \in 1..Len(PolicyFile)}
<1>5. q \in Seq(S) /\ Len(q) = Len(PolicyFile)
  BY <1>1, <1>3
<1>6. q \in Seq(In(q))
  BY <1>5, SeqOfIn
<1>7. \A w \in In(q) : w.file \in PolicyFiles /\ w.value = c.value
  BY <1>4, <1>5, FileOfWrite DEF In, PolicyFiles
<1>8. \A n \in PolicyFiles : Write(n, c.value) \in In(q)
  <2> SUFFICES ASSUME NEW i \in 1..Len(PolicyFile) PROVE Write(PolicyFile[i], c.value) \in In(q)
    BY DEF PolicyFiles
  <2>1. QED
    BY <1>4, <1>5 DEF In
<1>9. PlainSet(In(q))
  BY <1>1, <1>2, <1>7 DEF PlainSet
<1>10. QED
  BY <1>2, <1>6, <1>8, <1>9 DEF PlainWrites

LEMMA FirmwareIsPlain ==
    ASSUME NEW c, Taken(c), FilesAreThere, driver = "tdp_firmware"
    PROVE  /\ PlainWrites(c)
           /\ In(WritesOf(c)) = {Write("spl", c.value), Write("sppt", AtLeast(c.value, SpptMin)),
                                 Write("fppt", AtLeast(c.value, FpptMin))}
<1>1. PICK a : a = Write("spl", c.value)
  OBVIOUS
<1>2. PICK b : b = Write("sppt", AtLeast(c.value, SpptMin))
  OBVIOUS
<1>3. PICK d : d = Write("fppt", AtLeast(c.value, FpptMin))
  OBVIOUS
<1>4. a.file = "spl" /\ b.file = "sppt" /\ d.file = "fppt"
  BY <1>1, <1>2, <1>3, FileOfWrite
<1>5. WritesOf(c) = <<a, b, d>>
  BY <1>1, <1>2, <1>3, OpIs, ManyFileWrites DEF FirmwareLimitWrites
<1>6. <<a, b, d>> \in Seq({a, b, d}) /\ In(<<a, b, d>>) = {a, b, d}
  BY InOfTuples
<1>7. DOMAIN file = {"spl", "sppt", "fppt"}
  BY DEF FilesAreThere
<1>8. PlainSet({a, b, d})
  BY <1>4, <1>7 DEF PlainSet
<1>9. QED
  BY <1>1, <1>2, <1>3, <1>5, <1>6, <1>8 DEF PlainWrites

LEMMA PlainIsPlain ==
    ASSUME NEW c, Taken(c), Plain(c), FilesAreThere, HwTypes
    PROVE  PlainWrites(c)
<1>1. CASE driver = "gpu_profile"
  <2>1. DOMAIN file = {"power_profile"} /\ c.op = "power_profile"
    BY <1>1, OpIs DEF FilesAreThere
  <2>2. PICK k : WritesOf(c) = <<Write("power_profile", k)>>
    BY <2>1, NamesWrite
  <2>3. QED
    BY <2>1, <2>2, FileOfWrite, OneIsPlain
<1>2. CASE driver = "gpu_amdgpu"
  <2>1. "force_level" \in DOMAIN file /\ c.op = "level"
    BY <1>2, OpIs DEF FilesAreThere, Plain
  <2>2. WritesOf(c) = <<Write("force_level", c.value)>>
    BY <1>2, <2>1, OneFileWrites
  <2>3. QED
    BY <2>1, <2>2, FileOfWrite, OneIsPlain
<1>3. CASE driver = "gpu_intel"
  <2>1. DOMAIN file = {"min", "max"} /\ c.op = "level"
    BY <1>3, OpIs DEF FilesAreThere, Plain
  <2>2. PICK v, x : WritesOf(c) = <<Write("min", v), Write("max", x)>>
    BY <1>3, <2>1, ManyFileWrites DEF IntelLevelWrites
  <2>3. QED
    BY <2>1, <2>2, FileOfWrite, TwoArePlain
<1>4. CASE driver = "tdp_amdgpu"
  <2>1. "power1_cap" \in DOMAIN file /\ c.op = "tdp"
    BY <1>4, OpIs DEF FilesAreThere
  <2>2. CASE "power2_cap" \in DOMAIN file
    BY <1>4, <2>1, <2>2, LimitWrites, FileOfWrite, TwoArePlain
  <2>3. CASE "power2_cap" \notin DOMAIN file
    BY <1>4, <2>1, <2>3, LimitWrites, FileOfWrite, OneIsPlain
  <2>4. QED
    BY <2>2, <2>3
<1>5. CASE driver = "tdp_firmware"
  BY <1>5, FirmwareIsPlain
<1>6. CASE driver = "tdp_alib"
  <2>1. DOMAIN file = {"acpi_call"} /\ c.op = "tdp"
    BY <1>6, OpIs DEF FilesAreThere
  <2>2. WritesOf(c) = <<Write("acpi_call", AlibPayload(c.value)), Write("cached", c.value)>>
    BY <1>6, <2>1, ManyFileWrites DEF AlibLimitWrites
  <2>3. QED
    BY <2>1, <2>2, FileOfWrite, TwoArePlain
<1>7. CASE driver = "profile"
  <2>1. DOMAIN file = {"profile"} /\ c.op = "profile"
    BY <1>7, OpIs DEF FilesAreThere
  <2>2. QED
    BY <2>1, OneFileWrites, FileOfWrite, OneIsPlain
<1>8. CASE driver = "governor"
  BY <1>8, GovernorIsPlain
<1>9. CASE driver = "boost"
  <2>1. PICK v : /\ WritesOf(c) = <<Write(BoostFile(file), v)>>
                 /\ BoostFile(file) \in {"boost", "no_turbo"} \cap DOMAIN file
    BY <1>9, BoostIsOne
  <2>2. QED
    BY <2>1, FileOfWrite, OneIsPlain
<1>10. CASE driver = "fan"
  <2>1. DOMAIN file = {"fan_script"} /\ c.op = "fan"
    BY <1>10, OpIs DEF FilesAreThere, Plain
  <2>2. WritesOf(c) = <<Write("fan_script", c.value)>>
    BY <2>1, OneFileWrites DEF FanWrites
  <2>3. QED
    BY <2>1, <2>2, FileOfWrite, OneIsPlain
<1>11. CASE driver = "wake"
  <2>1. DOMAIN file = {"port0", "port1"} /\ c.op = "wake"
    BY <1>11, OpIs DEF FilesAreThere
  <2>2. PICK v : WritesOf(c) = <<Write("port0", v)>>
    BY <2>1, OneFileWrites
  <2>3. QED
    BY <2>1, <2>2, FileOfWrite, OneIsPlain
<1>12. QED
  BY <1>1, <1>2, <1>3, <1>4, <1>5, <1>6, <1>7, <1>8, <1>9, <1>10, <1>11
     DEF HwTypes, Drivers, Plain

\* What a plain call writes hangs on the files there are, not on what they say.
LEMMA PlainWritesStay ==
    ASSUME NEW c, Taken(c), Plain(c), HwTypes, driver' = driver, DOMAIN file' = DOMAIN file
    PROVE  WritesOf(c)' = WritesOf(c)
<1>1. CASE c.op = "power_profile" \/ c.op = "profile" \/ c.op = "governor" \/ c.op = "wake"
  BY <1>1 DEF WritesOf
<1>2. CASE c.op = "level"
  BY <1>2 DEF WritesOf
<1>3. CASE c.op = "tdp"
  <2>1. driver \in {"tdp_amdgpu", "tdp_firmware", "tdp_alib"}
    BY <1>3 DEF Taken, OpOf, HwTypes, Drivers
  <2>2. AmdgpuLimitWrites(c.value, file)' = AmdgpuLimitWrites(c.value, file)
    BY DEF AmdgpuLimitWrites
  <2>3. CASE driver = "tdp_amdgpu"
    BY <1>3, <2>2, <2>3 DEF WritesOf
  <2>4. CASE driver \in {"tdp_firmware", "tdp_alib"}
    BY <1>3, <2>4 DEF WritesOf
  <2>5. QED
    BY <2>1, <2>3, <2>4
<1>4. CASE c.op = "boost"
  <2>1. BoostFile(file)' = BoostFile(file)
    BY DEF BoostFile
  <2>2. QED
    BY <1>4, <2>1 DEF WritesOf, BoostWrites
<1>5. CASE c.op = "fan"
  BY <1>5 DEF WritesOf, FanWrites
<1>6. QED
  BY <1>1, <1>2, <1>3, <1>4, <1>5 DEF Taken, Plain, OpOf, HwTypes, Drivers

-----------------------------------------------------------------------------
(* HardwareSettings. The invariant holds at first, and a call that is let  *)
(* through has all its writes before it.                                   *)

LEMMA HwInitHasFiles == HardwareInit => FilesAreThere
<1> SUFFICES ASSUME HardwareInit PROVE FilesAreThere
  OBVIOUS
<1>1. file \in InitialFiles(driver)
  BY DEF HardwareInit
<1>2. \A n, v : DOMAIN FilesAre(n, v) = n
  BY DEF FilesAre
<1>3. CASE driver = "gpu_profile"
  BY <1>1, <1>2, <1>3 DEF InitialFiles, FilesAreThere
<1>4. CASE driver = "gpu_amdgpu"
  BY <1>1, <1>4 DEF InitialFiles, FilesAreThere
<1>5. CASE driver = "gpu_intel"
  BY <1>1, <1>5 DEF InitialFiles, FilesAreThere
<1>6. CASE driver = "tdp_amdgpu"
  BY <1>1, <1>2, <1>6 DEF InitialFiles, FilesAreThere
<1>7. CASE driver = "tdp_firmware"
  BY <1>1, <1>2, <1>7 DEF InitialFiles, FilesAreThere
<1>8. CASE driver = "tdp_alib"
  BY <1>1, <1>2, <1>8 DEF InitialFiles, FilesAreThere
<1>9. CASE driver = "profile"
  BY <1>1, <1>2, <1>9 DEF InitialFiles, FilesAreThere
<1>10. CASE driver = "governor"
  BY <1>1, <1>2, <1>10 DEF InitialFiles, FilesAreThere
<1>11. CASE driver = "boost"
  BY <1>1, <1>2, <1>11 DEF InitialFiles, FilesAreThere
<1>12. CASE driver = "scheduler"
  BY <1>1, <1>2, <1>12 DEF InitialFiles, FilesAreThere
<1>13. CASE driver = "fan"
  BY <1>1, <1>2, <1>13 DEF InitialFiles, FilesAreThere
<1>14. CASE driver = "audio"
  BY <1>1, <1>2, <1>14 DEF InitialFiles, FilesAreThere
<1>15. CASE driver = "wake"
  BY <1>1, <1>2, <1>15 DEF InitialFiles, FilesAreThere
<1>16. QED
  BY <1>3, <1>4, <1>5, <1>6, <1>7, <1>8, <1>9, <1>10, <1>11, <1>12, <1>13, <1>14, <1>15
     DEF HardwareInit, Drivers

LEMMA HwInitHasInv == HardwareInit => HwInv
<1> SUFFICES ASSUME HardwareInit PROVE HwInv
  OBVIOUS
<1>1. FilesAreThere
  BY HwInitHasFiles
<1>2. setting.op = "none" /\ writes = <<>> /\ hwJobs = {} /\ ~Owed
  BY DEF HardwareInit, Is, Owed
<1>3. /\ driver = "scheduler" => held \in CpuScheduler /\ (~outOfStep => held = file["unit"])
      /\ outOfStep \in BOOLEAN
  BY DEF HardwareInit, Loaded, OfferedSchedulers, CpuScheduler
<1>4. driver = "audio" => held \in {file["mono_key"], Error}
  BY DEF HardwareInit, Loaded, LoadedMode
<1>5. driver = "wake" => file["port1"] = 0
  BY DEF HardwareInit, InitialFiles, FilesAre
<1>6. HwTypes
  BY <1>2, <1>3, <1>5 DEF HardwareInit, HwTypes
<1>7. SchedulerInStep /\ AudioInStep
  BY <1>2, <1>3, <1>4 DEF SchedulerInStep, AudioInStep, Remembers
<1>8. QED
  BY <1>1, <1>2, <1>6, <1>7 DEF HwInv

\* What the clients call is the setting that this is about.
LEMMA CallsAre ==
    ASSUME HwTypes, NEW c \in HardwareCalls
    PROVE  c.op = OpOf[driver]
<1>1. \A op, values : c \in Sets(op, values) => c.op = op /\ c.value \in values
  BY DEF Sets, Is
<1>2. CASE driver = "gpu_profile"
  BY <1>1, <1>2 DEF HardwareCalls, TdpDrivers, GpuPowerProfile1, OpOf
<1>3. CASE driver \in {"gpu_amdgpu", "gpu_intel"}
  BY <1>1, <1>3 DEF HardwareCalls, TdpDrivers, GpuPerformanceLevel1, OpOf
<1>4. CASE driver \in TdpDrivers
  BY <1>1, <1>4 DEF HardwareCalls, TdpDrivers, TdpLimit1, OpOf
<1>5. CASE driver = "profile"
  BY <1>1, <1>5 DEF HardwareCalls, PerformanceProfile1, OpOf
<1>6. CASE driver = "governor"
  BY <1>1, <1>6 DEF HardwareCalls, CpuScaling1, OpOf
<1>7. CASE driver = "boost"
  BY <1>1, <1>7 DEF HardwareCalls, CpuBoost1, OpOf
<1>8. CASE driver = "scheduler"
  BY <1>1, <1>8 DEF HardwareCalls, CpuScheduler1, OpOf
<1>9. CASE driver = "fan"
  BY <1>1, <1>9 DEF HardwareCalls, FanControl1, OpOf
<1>10. CASE driver = "audio"
  BY <1>1, <1>10 DEF HardwareCalls, Audio1, OpOf
<1>11. CASE driver = "wake"
  BY <1>1, <1>11 DEF HardwareCalls, HdmiCecAwaken, OpOf
<1>12. QED
  BY <1>2, <1>3, <1>4, <1>5, <1>6, <1>7, <1>8, <1>9, <1>10, <1>11
     DEF HwTypes, Drivers, TdpDrivers

\* A call of the clients that is let through.
LEMMA LetThroughIsTaken ==
    ASSUME HwTypes, NEW c, Parses(c), ~Missing(c), ~InvalidLimit(c),
           c \in HardwareCalls \/ (driver \in {"gpu_amdgpu", "gpu_intel"} /\ c \in GpuClocks1)
    PROVE  Taken(c) /\ c.op # "none"
<1>1. \A op, values : c \in Sets(op, values) => c.op = op /\ c.value \in values
  BY DEF Sets, Is
<1>2. CASE driver \in {"gpu_amdgpu", "gpu_intel"} /\ c \in GpuClocks1
  BY <1>1, <1>2 DEF GpuClocks1, Taken
<1>3. CASE c \in HardwareCalls
  <2>1. c.op = OpOf[driver]
    BY <1>3, CallsAre
  <2>2. c.op \in {"power_profile", "level", "tdp", "profile", "governor", "boost", "scheduler",
                  "fan", "audio", "wake"}
    BY <2>1 DEF OpOf, HwTypes, Drivers
  <2>3. (c.op = "boost" => driver = "boost") /\ (c.op = "wake" => driver = "wake")
    BY <2>1 DEF OpOf, HwTypes, Drivers
  <2>4. c.op \in {"boost", "wake"} => c.value \in BOOLEAN
    BY <1>1, <1>3, <2>3 DEF HardwareCalls, CpuBoost1, HdmiCecAwaken
  <2>5. c.op = "tdp" => c.value \in Lo..Hi
    BY DEF InvalidLimit
  <2>6. QED
    BY <2>1, <2>2, <2>4, <2>5 DEF Taken
<1>4. QED
  BY <1>2, <1>3

LEMMA SetBegins ==
    ASSUME HwInv, NEW c, Taken(c), answer # "running",
           setting' = c, writes' = WritesOf(c),
           UNCHANGED <<driver, found, file, held, hwJobs, outOfStep>>
    PROVE  Taken(c)' /\ Progress(c)' /\ SchedulerInStep' /\ AudioInStep'
<1>1. HwTypes /\ FilesAreThere /\ writes = <<>> /\ ~Owed
  BY DEF HwInv, HwTypes, Owed
<1>2. Taken(c)'
  BY DEF Taken, Parses, Missing
<1>3. Plain(c)' <=> Plain(c)
  BY DEF Plain
<1>4. ASSUME Plain(c) PROVE Underway(In(WritesOf(c)))'
  <2>1. WritesOf(c) \in Seq(In(WritesOf(c)))
    BY <1>1, <1>4, PlainIsPlain DEF PlainWrites
  <2>2. WritesOf(c)' = WritesOf(c)
    BY <1>1, <1>4, PlainWritesStay
  <2>3. PICK q : q = WritesOf(c)
    OBVIOUS
  <2>4. writes' = q /\ q \in Seq(In(q)) /\ (In(WritesOf(c)))' = In(q)
    BY <2>1, <2>2, <2>3 DEF In
  <2>5. Underway(In(q))'
    BY <2>4 DEF Underway
  <2>6. QED
    BY <2>4, <2>5 DEF Underway
<1>5. ASSUME c.op = "clock", driver = "gpu_intel"
      PROVE  \/ writes' = <<>> /\ ShownIntelLevel(file)' = "auto"
             \/ Underway({Write("min", c.value), Write("max", c.value)})'
  <2>1. WritesOf(c) = IntelClockWrites(c.value, file)
    BY <1>5, ManyFileWrites
  <2>2. CASE ShownIntelLevel(file) = "auto"
    BY <2>1, <2>2 DEF IntelClockWrites, ShownIntelLevel
  <2>3. CASE ShownIntelLevel(file) # "auto"
    <3>1. PICK a, b : a = Write("min", c.value) /\ b = Write("max", c.value)
      OBVIOUS
    <3>2. writes' = <<a, b>>
      BY <2>1, <2>3, <3>1 DEF IntelClockWrites
    <3>3. <<a, b>> \in Seq({a, b}) /\ In(<<a, b>>) = {a, b}
      BY InOfTuples
    <3>4. Underway({a, b})'
      BY <3>2, <3>3 DEF Underway
    <3>5. QED
      BY <3>1, <3>4
  <2>4. QED
    BY <2>2, <2>3
<1>6. ASSUME c.op = "clock", driver = "gpu_amdgpu" PROVE ClockUnderway(c.value)'
  BY <1>6, ManyFileWrites DEF ClockUnderway, AmdgpuClockWrites
<1>7. ASSUME driver = "fan", ~Plain(c) PROVE writes' = <<Write("unit", c.value)>>
  BY <1>7, OpIs, OneFileWrites DEF FanWrites, Plain
<1>8. ASSUME driver = "scheduler"
      PROVE  /\ CachedUnderway("unit", c.value)'
             /\ found => \/ writes' = <<>>
                         \/ writes' = <<Write("unit", c.value), Write("cached", c.value)>>
  <2>1. writes' = SchedulerWrites(c.value, held, found)
    BY <1>8, OpIs, ManyFileWrites
  <2>2. PICK a, b : a = Write("unit", c.value) /\ b = Write("cached", c.value)
    OBVIOUS
  <2>3. CASE c.value = held
    BY <2>1, <2>3 DEF SchedulerWrites, CachedUnderway
  <2>4. CASE c.value # held /\ found
    <3>1. writes' = <<a>> \o <<b>>
      BY <2>1, <2>2, <2>4 DEF SchedulerWrites
    <3>2. writes' = <<a, b>>
      BY <3>1, TuplesConcat
    <3>3. QED
      BY <2>2, <3>2 DEF CachedUnderway
  <2>5. CASE c.value # held /\ ~found
    <3>1. writes' = <<>> \o <<b>>
      BY <2>1, <2>2, <2>5 DEF SchedulerWrites
    <3>2. writes' = <<b>>
      BY <3>1, TuplesConcat
    <3>3. QED
      BY <2>2, <2>5, <3>2 DEF CachedUnderway
  <2>6. QED
    BY <2>3, <2>4, <2>5
<1>9. ASSUME driver = "audio"
      PROVE  /\ CachedUnderway("mono_key", c.value)'
             /\ \/ writes' = <<>>
                \/ writes' = <<Write("mono_key", c.value), Write("cached", c.value)>>
  <2>1. writes' = AudioWrites(c.value, held)
    BY <1>9, OpIs, ManyFileWrites
  <2>2. QED
    BY <2>1 DEF AudioWrites, CachedUnderway
<1>10. Progress(c)'
  BY <1>3, <1>4, <1>5, <1>6, <1>7, <1>8, <1>9 DEF Progress
<1>11. SchedulerInStep'
  <2> SUFFICES ASSUME driver = "scheduler", found, ~outOfStep PROVE SchedulerInStep'
    BY DEF SchedulerInStep
  <2>1. ~Owed'
    <3>1. \A a, b : Head(<<a, b>>) = a /\ <<a, b>> # <<>>
      OBVIOUS
    <3>2. QED
      BY <1>8, <3>1, FileOfWrite DEF Owed
  <2>2. \A v : Remembers(v) <=> Remembers(v)'
    BY <1>1, <2>1 DEF Remembers
  <2>3. QED
    BY <2>2 DEF HwInv, SchedulerInStep
<1>12. AudioInStep'
  <2> SUFFICES ASSUME driver = "audio", ~outOfStep PROVE AudioInStep'
    BY DEF AudioInStep
  <2>1. ~Owed'
    <3>1. \A a, b : Head(<<a, b>>) = a /\ <<a, b>> # <<>>
      OBVIOUS
    <3>2. QED
      BY <1>9, <3>1, FileOfWrite DEF Owed
  <2>2. QED
    BY <1>1, <2>1 DEF HwInv, AudioInStep, Remembers
<1>13. QED
  BY <1>2, <1>10, <1>11, <1>12

LEMMA BeginKeepsHw ==
    ASSUME HwInv, NEW c, Begin(c),
           c \in HardwareCalls \/ (driver \in {"gpu_amdgpu", "gpu_intel"} /\ c \in GpuClocks1)
    PROVE  HwInv'
<1>1. /\ answer # "running" /\ setting' = c
      /\ UNCHANGED <<driver, found, file, held, hwJobs, outOfStep>>
  BY DEF Begin
<1>2. HwTypes /\ FilesAreThere /\ writes = <<>>
  BY <1>1 DEF HwInv, HwTypes
<1>3. FilesAreThere'
  BY <1>1, <1>2 DEF FilesAreThere
<1>4. CASE ~Parses(c) \/ Missing(c) \/ InvalidLimit(c)
  <2>1. answer' = "error" /\ writes' = <<>>
    BY <1>4 DEF Begin
  <2>2. HwTypes'
    BY <1>1, <1>2, <2>1 DEF HwTypes
  <2>3. SchedulerInStep' /\ AudioInStep'
    BY <1>1, <1>2, <2>1 DEF HwInv, SchedulerInStep, AudioInStep, Remembers, Owed
  <2>4. QED
    BY <1>3, <2>1, <2>2, <2>3 DEF HwInv
<1>5. CASE ~(~Parses(c) \/ Missing(c) \/ InvalidLimit(c))
  <2>1. answer' = "running" /\ writes' = WritesOf(c)
    BY <1>5 DEF Begin
  <2>2. Taken(c) /\ c.op # "none"
    BY <1>2, <1>5, LetThroughIsTaken
  <2>3. HwTypes'
    BY <1>1, <1>2, <2>1, <2>2 DEF HwTypes
  <2>4. Taken(c)' /\ Progress(c)' /\ SchedulerInStep' /\ AudioInStep'
    BY <1>1, <2>1, <2>2, SetBegins
  <2>5. (Taken(setting) /\ Progress(setting))'
    BY <1>1, <2>4 DEF Taken, Parses, Missing, Progress
  <2>6. QED
    BY <1>3, <2>3, <2>4, <2>5 DEF HwInv
<1>6. QED
  BY <1>4, <1>5

-----------------------------------------------------------------------------
(* HardwareSettings. One more write.                                       *)

LEMMA PlainGetsOn ==
    ASSUME HwInv, NEW c, setting = c, Taken(c), Progress(c), Plain(c), WriteNext
    PROVE  HwInv'
<1>1. PICK W : W = In(WritesOf(c))
  OBVIOUS
<1>2. HwTypes /\ FilesAreThere
  BY DEF HwInv
<1>3. PlainSet(W) /\ Underway(W)
  BY <1>1, <1>2, PlainIsPlain DEF PlainWrites, Progress
<1>4. PICK h : h = Head(writes)
  OBVIOUS
<1>5. /\ writes # <<>> /\ Put(h) /\ writes' = Tail(writes)
      /\ UNCHANGED <<driver, found, setting, answer>>
  BY <1>4 DEF WriteNext
<1>6. h \in W /\ h.file \notin {"commit", "unit", "mono_key"}
  BY <1>3, <1>4, <1>5, InOfHeadAndTail DEF Underway, PlainSet
<1>7. Underway(W)'
  BY <1>3, <1>4, <1>5, WritesGetOn
<1>8. DOMAIN file' = DOMAIN file
  BY <1>5, PutKeepsFiles
<1>9. hwJobs' = hwJobs /\ outOfStep' = outOfStep
  BY <1>2, <1>6, <1>5 DEF Put, HwTypes
<1>10. FilesAreThere'
  BY <1>2, <1>5, <1>8 DEF FilesAreThere
<1>11. In(WritesOf(c))' = W
  BY <1>1, <1>2, <1>5, <1>8, PlainWritesStay DEF In
<1>12. Taken(c)' /\ (Plain(c)' <=> Plain(c))
  BY <1>5, <1>8 DEF Taken, Parses, Missing, Plain
<1>13. Progress(c)'
  <2>1. Underway(In(WritesOf(c)))'
    BY <1>7, <1>11 DEF Underway
  <2>2. QED
    BY <1>5, <1>12, <2>1 DEF Progress, Plain
<1>14. driver = "wake" => file'["port1"] = 0
  <2> SUFFICES ASSUME driver = "wake" PROVE file'["port1"] = 0
    OBVIOUS
  <2>1. \E v : WritesOf(c) = <<Write("port0", v)>>
    BY OpIs, OneFileWrites
  <2>2. h.file = "port0"
    BY <1>1, <1>6, <2>1, InOfTuples, FileOfWrite
  <2>3. "port1" \in DOMAIN file /\ file["port1"] = 0
    BY <1>2 DEF FilesAreThere, HwTypes
  <2>4. QED
    BY <1>5, <2>2, <2>3 DEF Put
<1>15. driver \notin {"scheduler", "audio"}
  BY DEF Plain
<1>16. answer = "running" /\ answer' = "running"
  BY <1>2, <1>5 DEF HwTypes
<1>17. HwTypes'
  BY <1>2, <1>5, <1>8, <1>9, <1>14, <1>15, <1>16 DEF HwTypes
<1>18. SchedulerInStep' /\ AudioInStep'
  BY <1>5, <1>15 DEF SchedulerInStep, AudioInStep
<1>19. (Taken(setting) /\ Progress(setting))'
  BY <1>5, <1>12, <1>13 DEF Taken, Parses, Missing, Progress
<1>20. QED
  BY <1>10, <1>17, <1>18, <1>19 DEF HwInv

LEMMA IntelClockGetsOn ==
    ASSUME HwInv, NEW c, setting = c, Taken(c), Progress(c), c.op = "clock",
           driver = "gpu_intel", WriteNext
    PROVE  HwInv'
<1>1. PICK W : W = {Write("min", c.value), Write("max", c.value)}
  OBVIOUS
<1>2. HwTypes /\ FilesAreThere
  BY DEF HwInv
<1>3. PICK h : h = Head(writes)
  OBVIOUS
<1>4. /\ writes # <<>> /\ Put(h) /\ writes' = Tail(writes)
      /\ UNCHANGED <<driver, found, setting, answer>>
  BY <1>3 DEF WriteNext
<1>5. DOMAIN file = {"min", "max"}
  BY <1>2 DEF FilesAreThere
<1>6. Underway(W) /\ PlainSet(W)
  <2>1. Underway(W)
    BY <1>1, <1>4 DEF Progress, Plain
  <2>2. PlainSet(W)
    BY <1>1, <1>5, FileOfWrite DEF PlainSet
  <2>3. QED
    BY <2>1, <2>2
<1>7. h \in W /\ h.file \in {"min", "max"}
  BY <1>1, <1>3, <1>4, <1>6, InOfHeadAndTail, FileOfWrite DEF Underway
<1>8. Underway(W)' /\ DOMAIN file' = DOMAIN file
  BY <1>3, <1>4, <1>6, WritesGetOn, PutKeepsFiles
<1>9. hwJobs' = hwJobs /\ outOfStep' = outOfStep
  BY <1>2, <1>4, <1>7 DEF Put, HwTypes
<1>10. FilesAreThere'
  BY <1>2, <1>4, <1>8 DEF FilesAreThere
<1>11. Taken(c)' /\ Progress(c)'
  <2>1. Underway({Write("min", c.value), Write("max", c.value)})'
    BY <1>1, <1>8
  <2>2. Progress(c)'
    BY <1>4, <2>1 DEF Progress, Plain
  <2>3. QED
    BY <1>4, <2>2 DEF Taken, Parses, Missing
<1>12. HwTypes'
  BY <1>2, <1>4, <1>8, <1>9 DEF HwTypes
<1>13. SchedulerInStep' /\ AudioInStep'
  BY <1>4 DEF SchedulerInStep, AudioInStep
<1>14. (Taken(setting) /\ Progress(setting))'
  BY <1>4, <1>11 DEF Taken, Parses, Missing, Progress
<1>15. QED
  BY <1>10, <1>12, <1>13, <1>14 DEF HwInv

LEMMA HeadsOfTuples ==
    /\ \A a : <<a>> # <<>> /\ Head(<<a>>) = a /\ Tail(<<a>>) = <<>>
    /\ \A a, b : <<a, b>> # <<>> /\ Head(<<a, b>>) = a /\ Tail(<<a, b>>) = <<b>>
    /\ \A a, b, d : <<a, b, d>> # <<>> /\ Head(<<a, b, d>>) = a /\ Tail(<<a, b, d>>) = <<b, d>>
OBVIOUS

LEMMA AmdgpuClockGetsOn ==
    ASSUME HwInv, NEW c, setting = c, Taken(c), Progress(c), c.op = "clock",
           driver = "gpu_amdgpu", WriteNext
    PROVE  HwInv'
<1>1. PICK v : v = c.value
  OBVIOUS
<1>2. HwTypes /\ FilesAreThere /\ ClockUnderway(v)
  BY <1>1 DEF HwInv, Progress
<1>3. PICK h : h = Head(writes)
  OBVIOUS
<1>4. /\ writes # <<>> /\ Put(h) /\ writes' = Tail(writes)
      /\ UNCHANGED <<driver, found, setting, answer>>
  BY <1>3 DEF WriteNext
<1>5. DOMAIN file = {"force_level", "s0", "s1", "min", "max"}
  BY <1>2 DEF FilesAreThere
<1>6. DOMAIN file' = DOMAIN file
  BY <1>4, PutKeepsFiles
<1>7. h.file \in {"s0", "s1", "commit"} /\ ClockUnderway(v)'
  <2>1. PICK x, y, z : x = Write("s0", v) /\ y = Write("s1", v) /\ z = Write("commit", 0)
    OBVIOUS
  <2>2. /\ x.file = "s0" /\ x.value = v /\ y.file = "s1" /\ y.value = v /\ z.file = "commit"
    BY <2>1, FileOfWrite
  <2>3. CASE writes = <<x, y, z>>
    <3>1. h = x /\ writes' = <<y, z>>
      BY <1>3, <1>4, <2>3, HeadsOfTuples
    <3>2. file' = [file EXCEPT !["s0"] = v]
      BY <1>4, <2>2, <3>1 DEF Put
    <3>3. file'["s0"] = v
      BY <1>5, <3>2
    <3>4. QED
      BY <2>1, <2>2, <3>1, <3>3 DEF ClockUnderway
  <2>4. CASE writes = <<y, z>> /\ file["s0"] = v
    <3>1. h = y /\ writes' = <<z>>
      BY <1>3, <1>4, <2>4, HeadsOfTuples
    <3>2. file' = [file EXCEPT !["s1"] = v]
      BY <1>4, <2>2, <3>1 DEF Put
    <3>3. file'["s0"] = v /\ file'["s1"] = v
      BY <1>5, <2>4, <3>2
    <3>4. QED
      BY <2>1, <2>2, <3>1, <3>3 DEF ClockUnderway
  <2>5. CASE writes = <<z>> /\ file["s0"] = v /\ file["s1"] = v
    <3>1. h = z /\ writes' = <<>>
      BY <1>3, <1>4, <2>5, HeadsOfTuples
    <3>2. file' = [file EXCEPT !["min"] = file["s0"], !["max"] = file["s1"]]
      BY <1>4, <2>2, <3>1 DEF Put
    <3>3. file'["min"] = v /\ file'["max"] = v
      BY <1>5, <2>5, <3>2
    <3>4. QED
      BY <2>2, <3>1, <3>3 DEF ClockUnderway
  <2>6. QED
    BY <1>2, <1>4, <2>1, <2>3, <2>4, <2>5 DEF ClockUnderway
<1>8. hwJobs' = hwJobs /\ outOfStep' = outOfStep /\ held' = held
  BY <1>2, <1>4, <1>7 DEF Put, HwTypes
<1>9. FilesAreThere'
  BY <1>2, <1>4, <1>6 DEF FilesAreThere
<1>10. (Taken(setting) /\ Progress(setting))'
  <2>1. Taken(setting)'
    BY <1>4 DEF Taken, Parses, Missing
  <2>2. Progress(setting)'
    BY <1>1, <1>4, <1>7 DEF Progress, Plain, ClockUnderway
  <2>3. QED
    BY <2>1, <2>2
<1>11. HwTypes'
  BY <1>2, <1>4, <1>6, <1>8 DEF HwTypes
<1>12. SchedulerInStep' /\ AudioInStep'
  BY <1>4 DEF SchedulerInStep, AudioInStep
<1>13. QED
  BY <1>9, <1>10, <1>11, <1>12 DEF HwInv

\* A unit is told to start or to stop only while nothing else is asked of it.
LEMMA UnitIsTold ==
    ASSUME NEW h, h.file = "unit", Put(h), ~WriteRefused(h), hwJobs \subseteq {"start", "stop"},
           driver \in {"scheduler", "fan"}, outOfStep \in BOOLEAN
    PROVE  hwJobs' = {JobOf(h.value)} /\ outOfStep' = FALSE /\ file' = file /\ held' = held
<1>1. /\ hwJobs' = hwJobs \cup {JobOf(h.value)} /\ outOfStep' = FALSE /\ file' = file /\ held' = held
  BY DEF Put, JobOf
<1>2. (IF Starts(h.value) THEN "stop" ELSE "start") \notin hwJobs
  BY DEF WriteRefused
<1>3. QED
  BY <1>1, <1>2 DEF JobOf

LEMMA FanGetsOn ==
    ASSUME HwInv, NEW c, setting = c, Taken(c), Progress(c), driver = "fan", ~Plain(c), WriteNext
    PROVE  HwInv'
<1>1. HwTypes /\ FilesAreThere
  BY DEF HwInv
<1>2. PICK h : h = Head(writes)
  OBVIOUS
<1>3. /\ writes # <<>> /\ Put(h) /\ ~WriteRefused(h) /\ writes' = Tail(writes)
      /\ UNCHANGED <<driver, found, setting, answer>>
  BY <1>2 DEF WriteNext
<1>4. c.op = "fan" /\ DOMAIN file = {"unit"}
  BY <1>1, OpIs DEF FilesAreThere, Plain
<1>5. h = Write("unit", c.value) /\ writes' = <<>>
  BY <1>2, <1>3, HeadsOfTuples DEF Progress
<1>6. h.file = "unit" /\ h.value = c.value
  BY <1>5, FileOfWrite
<1>7. hwJobs' = {JobOf(c.value)} /\ outOfStep' = FALSE /\ file' = file
  BY <1>1, <1>3, <1>6, UnitIsTold DEF HwTypes
<1>8. HwTypes'
  <2>1. hwJobs' \subseteq {"start", "stop"} /\ outOfStep' \in BOOLEAN
    BY <1>7 DEF JobOf
  <2>2. answer' = "running" /\ setting' = setting /\ setting.op # "none" /\ DOMAIN file' = {"unit"}
    BY <1>1, <1>3, <1>4, <1>7 DEF HwTypes
  <2>3. QED
    BY <1>1, <1>3, <2>1, <2>2 DEF HwTypes
<1>9. FilesAreThere'
  BY <1>1, <1>3, <1>7 DEF FilesAreThere
<1>10. (Taken(setting) /\ Progress(setting))'
  <2>1. Taken(setting)'
    BY <1>3 DEF Taken, Parses, Missing
  <2>2. ~Plain(setting)' /\ ~HwSettled'
    BY <1>3, <1>7 DEF Plain, HwSettled
  <2>3. Progress(setting)'
    BY <1>3, <1>4, <1>5, <1>7, <2>2 DEF Progress, JobOf
  <2>4. QED
    BY <2>1, <2>3
<1>11. SchedulerInStep' /\ AudioInStep'
  BY <1>3 DEF SchedulerInStep, AudioInStep
<1>12. QED
  BY <1>8, <1>9, <1>10, <1>11 DEF HwInv

LEMMA SchedulerGetsOn ==
    ASSUME HwInv, NEW c, setting = c, Taken(c), Progress(c), driver = "scheduler", WriteNext
    PROVE  HwInv'
<1>1. HwTypes /\ FilesAreThere
  BY DEF HwInv
<1>2. PICK h : h = Head(writes)
  OBVIOUS
<1>3. /\ writes # <<>> /\ Put(h) /\ ~WriteRefused(h) /\ writes' = Tail(writes)
      /\ UNCHANGED <<driver, found, setting, answer>>
  BY <1>2 DEF WriteNext
<1>4. c.op = "scheduler" /\ DOMAIN file = {"unit"} /\ c.value \in {"none", "lavd"}
  BY <1>1, OpIs DEF FilesAreThere, Taken, Parses, CpuScheduler
<1>5. PICK v : v = c.value
  OBVIOUS
<1>6. PICK w, x : w = Write("unit", v) /\ x = Write("cached", v)
  OBVIOUS
<1>7. w.file = "unit" /\ w.value = v /\ x.file = "cached" /\ x.value = v
  BY <1>6, FileOfWrite
<1>8. writes = <<w, x>> \/ writes = <<x>>
  BY <1>3, <1>5, <1>6 DEF Progress, CachedUnderway
<1>9. CASE writes = <<w, x>>
  <2>1. h = w /\ writes' = <<x>>
    BY <1>2, <1>3, <1>9, HeadsOfTuples
  <2>2. hwJobs' = {JobOf(v)} /\ outOfStep' = FALSE /\ file' = file /\ held' = held
    BY <1>1, <1>3, <1>7, <2>1, UnitIsTold DEF HwTypes
  <2>3. Head(writes') = x /\ writes' # <<>>
    BY <2>1, HeadsOfTuples
  <2>4. \A u : Remembers(u)' <=> u = v
    BY <1>7, <2>3 DEF Remembers, Owed
  <2>5. JobOf("none") = "stop" /\ JobOf("lavd") = "start"
    BY DEF JobOf, Starts
  <2>6. SchedulerInStep'
    <3>1. CASE v = "none"
      BY <2>2, <2>4, <2>5, <3>1 DEF SchedulerInStep
    <3>2. CASE v = "lavd"
      BY <2>2, <2>4, <2>5, <3>2 DEF SchedulerInStep
    <3>3. QED
      BY <1>4, <1>5, <3>1, <3>2
  <2>7. HwTypes' /\ FilesAreThere'
    <3>1. HwTypes'
      BY <1>1, <1>3, <1>4, <2>2 DEF HwTypes, JobOf
    <3>2. FilesAreThere'
      BY <1>1, <1>3, <2>2 DEF FilesAreThere
    <3>3. QED
      BY <3>1, <3>2
  <2>8. CachedUnderway("unit", v)'
    BY <1>6, <2>1 DEF CachedUnderway
  <2>9. (Taken(setting) /\ Progress(setting))'
    <3>1. Taken(setting)'
      BY <1>3 DEF Taken, Parses, Missing
    <3>2. driver' = "scheduler" /\ setting' = c /\ c.op = "scheduler" /\ CachedUnderway("unit", c.value)'
      BY <1>3, <1>4, <1>5, <2>8 DEF CachedUnderway
    <3>3. Progress(setting)'
      BY <3>2 DEF Progress, Plain, CachedUnderway
    <3>4. QED
      BY <3>1, <3>3
  <2>10. QED
    BY <1>3, <2>6, <2>7, <2>9 DEF HwInv, AudioInStep
<1>10. CASE writes = <<x>>
  <2>1. h = x /\ writes' = <<>>
    BY <1>2, <1>3, <1>10, HeadsOfTuples
  <2>2. hwJobs' = hwJobs /\ outOfStep' = outOfStep /\ file' = file /\ held' = v
    BY <1>1, <1>3, <1>7, <2>1 DEF Put, HwTypes
  <2>3. \A u : Remembers(u)' <=> Remembers(u)
    BY <1>2, <1>3, <1>7, <2>1, <2>2 DEF Remembers, Owed
  <2>4. SchedulerInStep'
    BY <1>3, <2>2, <2>3 DEF HwInv, SchedulerInStep
  <2>5. HwTypes' /\ FilesAreThere'
    <3>1. HwTypes'
      BY <1>1, <1>3, <1>4, <1>5, <2>2 DEF HwTypes, CpuScheduler
    <3>2. FilesAreThere'
      BY <1>1, <1>3, <2>2 DEF FilesAreThere
    <3>3. QED
      BY <3>1, <3>2
  <2>6. CachedUnderway("unit", v)'
    BY <2>1, <2>2 DEF CachedUnderway
  <2>7. (Taken(setting) /\ Progress(setting))'
    <3>1. Taken(setting)'
      BY <1>3 DEF Taken, Parses, Missing
    <3>2. driver' = "scheduler" /\ setting' = c /\ c.op = "scheduler" /\ CachedUnderway("unit", c.value)'
      BY <1>3, <1>4, <1>5, <2>6 DEF CachedUnderway
    <3>3. Progress(setting)'
      BY <3>2 DEF Progress, Plain, CachedUnderway
    <3>4. QED
      BY <3>1, <3>3
  <2>8. QED
    BY <1>3, <2>4, <2>5, <2>7 DEF HwInv, AudioInStep
<1>11. QED
  BY <1>8, <1>9, <1>10

LEMMA AudioGetsOn ==
    ASSUME HwInv, NEW c, setting = c, Taken(c), Progress(c), driver = "audio", WriteNext
    PROVE  HwInv'
<1>1. HwTypes /\ FilesAreThere /\ hwJobs = {}
  BY DEF HwInv, HwTypes
<1>2. PICK h : h = Head(writes)
  OBVIOUS
<1>3. /\ writes # <<>> /\ Put(h) /\ writes' = Tail(writes)
      /\ UNCHANGED <<driver, found, setting, answer>>
  BY <1>2 DEF WriteNext
<1>4. c.op = "audio" /\ DOMAIN file = {"mono_key"}
  BY <1>1, OpIs DEF FilesAreThere
<1>5. PICK v : v = c.value
  OBVIOUS
<1>6. PICK w, x : w = Write("mono_key", v) /\ x = Write("cached", v)
  OBVIOUS
<1>7. w.file = "mono_key" /\ w.value = v /\ x.file = "cached" /\ x.value = v
  BY <1>6, FileOfWrite
<1>8. writes = <<w, x>> \/ writes = <<x>>
  BY <1>3, <1>5, <1>6 DEF Progress, CachedUnderway
<1>9. CASE writes = <<w, x>>
  <2>1. h = w /\ writes' = <<x>>
    BY <1>2, <1>3, <1>9, HeadsOfTuples
  <2>2. hwJobs' = hwJobs /\ outOfStep' = FALSE /\ file' = [file EXCEPT !["mono_key"] = v]
    BY <1>1, <1>3, <1>7, <2>1 DEF Put
  <2>3. file'["mono_key"] = v /\ DOMAIN file' = DOMAIN file
    BY <1>4, <2>2
  <2>4. Head(writes') = x /\ writes' # <<>>
    BY <2>1, HeadsOfTuples
  <2>5. AudioInStep'
    BY <1>7, <2>3, <2>4 DEF AudioInStep, Remembers, Owed
  <2>6. HwTypes' /\ FilesAreThere'
    <3>1. HwTypes'
      BY <1>1, <1>3, <2>2, <2>3 DEF HwTypes
    <3>2. FilesAreThere'
      BY <1>1, <1>3, <2>3 DEF FilesAreThere
    <3>3. QED
      BY <3>1, <3>2
  <2>7. CachedUnderway("mono_key", v)'
    BY <1>6, <2>1 DEF CachedUnderway
  <2>8. (Taken(setting) /\ Progress(setting))'
    <3>1. Taken(setting)'
      BY <1>3 DEF Taken, Parses, Missing
    <3>2. driver' = "audio" /\ setting' = c /\ c.op = "audio" /\ CachedUnderway("mono_key", c.value)'
      BY <1>3, <1>4, <1>5, <2>7 DEF CachedUnderway
    <3>3. Progress(setting)'
      BY <3>2 DEF Progress, Plain, CachedUnderway
    <3>4. QED
      BY <3>1, <3>3
  <2>9. QED
    BY <1>3, <2>5, <2>6, <2>8 DEF HwInv, SchedulerInStep
<1>10. CASE writes = <<x>>
  <2>1. h = x /\ writes' = <<>>
    BY <1>2, <1>3, <1>10, HeadsOfTuples
  <2>2. hwJobs' = hwJobs /\ outOfStep' = outOfStep /\ file' = file /\ held' = v
    BY <1>1, <1>3, <1>7, <2>1 DEF Put, HwTypes
  <2>3. Owed /\ \A u : Remembers(u)' <=> Remembers(u)
    BY <1>2, <1>3, <1>7, <2>1, <2>2 DEF Remembers, Owed
  <2>4. AudioInStep'
    BY <1>3, <2>2, <2>3 DEF HwInv, AudioInStep
  <2>5. HwTypes' /\ FilesAreThere'
    <3>1. HwTypes'
      BY <1>1, <1>3, <2>2 DEF HwTypes
    <3>2. FilesAreThere'
      BY <1>1, <1>3, <2>2 DEF FilesAreThere
    <3>3. QED
      BY <3>1, <3>2
  <2>6. CachedUnderway("mono_key", v)'
    BY <2>1, <2>2 DEF CachedUnderway
  <2>7. (Taken(setting) /\ Progress(setting))'
    <3>1. Taken(setting)'
      BY <1>3 DEF Taken, Parses, Missing
    <3>2. driver' = "audio" /\ setting' = c /\ c.op = "audio" /\ CachedUnderway("mono_key", c.value)'
      BY <1>3, <1>4, <1>5, <2>6 DEF CachedUnderway
    <3>3. Progress(setting)'
      BY <3>2 DEF Progress, Plain, CachedUnderway
    <3>4. QED
      BY <3>1, <3>3
  <2>8. QED
    BY <1>3, <2>4, <2>5, <2>7 DEF HwInv, SchedulerInStep
<1>11. QED
  BY <1>8, <1>9, <1>10

LEMMA WriteKeepsHw == HwInv /\ WriteNext => HwInv'
<1> SUFFICES ASSUME HwInv, WriteNext PROVE HwInv'
  OBVIOUS
<1>1. PICK c : c = setting
  OBVIOUS
<1>2. answer = "running" /\ HwTypes
  BY DEF HwInv, HwTypes, WriteNext
<1>3. Taken(c) /\ Progress(c)
  BY <1>1, <1>2 DEF HwInv, HwTypes
<1>4. CASE Plain(c)
  BY <1>1, <1>3, <1>4, PlainGetsOn
<1>5. CASE driver = "scheduler"
  BY <1>1, <1>3, <1>5, SchedulerGetsOn
<1>6. CASE driver = "audio"
  BY <1>1, <1>3, <1>6, AudioGetsOn
<1>7. CASE c.op = "clock"
  <2>1. driver \in {"gpu_amdgpu", "gpu_intel"}
    BY <1>2, <1>3, <1>7 DEF Taken, OpOf, HwTypes, Drivers
  <2>2. QED
    BY <1>1, <1>3, <1>7, <2>1, IntelClockGetsOn, AmdgpuClockGetsOn
<1>8. CASE driver = "fan" /\ ~Plain(c)
  BY <1>1, <1>3, <1>8, FanGetsOn
<1>9. QED
  BY <1>4, <1>5, <1>6, <1>7, <1>8 DEF Plain

-----------------------------------------------------------------------------
(* HardwareSettings. The other steps.                                      *)

\* What a step leaves alone, as far as the invariant looks.
LEMMA SameIsKept ==
    ASSUME HwInv, UNCHANGED <<driver, found, file, held, hwJobs, setting, writes, answer, outOfStep>>
    PROVE  HwInv'
<1>1. HwTypes' /\ FilesAreThere'
  BY DEF HwInv, HwTypes, FilesAreThere
<1>2. SchedulerInStep' /\ AudioInStep'
  BY DEF HwInv, SchedulerInStep, AudioInStep, Remembers, Owed
<1>3. ASSUME setting.op # "none", answer # "error" PROVE (Taken(setting) /\ Progress(setting))'
  <2>1. PICK c : c = setting
    OBVIOUS
  <2>2. Taken(c) /\ Progress(c) /\ HwTypes
    BY <1>3, <2>1 DEF HwInv
  <2>3. Taken(c)' /\ (Plain(c)' <=> Plain(c))
    BY <2>2 DEF Taken, Parses, Missing, Plain
  <2>4. Plain(c) => Underway(In(WritesOf(c)))'
    <3>1. SUFFICES ASSUME Plain(c) PROVE Underway(In(WritesOf(c)))'
      OBVIOUS
    <3>2. WritesOf(c)' = WritesOf(c)
      BY <2>2, <3>1, PlainWritesStay
    <3>3. QED
      BY <2>2, <3>1, <3>2 DEF Progress, Underway, In, Has
  <2>5. Progress(c)'
    BY <2>2, <2>3, <2>4
       DEF Progress, ShownIntelLevel, Underway, In, Has, ClockUnderway, CachedUnderway, HwSettled
  <2>6. QED
    BY <2>1, <2>3, <2>5 DEF Taken, Parses, Missing, Progress
<1>4. QED
  BY <1>1, <1>2, <1>3 DEF HwInv

LEMMA FailsKeepsHw == HwInv /\ WriteFails => HwInv'
<1> SUFFICES ASSUME HwInv, WriteFails PROVE HwInv'
  OBVIOUS
<1>1. /\ writes' = <<>> /\ answer' = "error"
      /\ driver # "tdp_alib" => Head(writes).file # "cached"
      /\ UNCHANGED <<driver, found, file, held, hwJobs, setting, outOfStep>>
  BY DEF WriteFails
<1>2. HwTypes' /\ FilesAreThere'
  BY <1>1 DEF HwInv, HwTypes, FilesAreThere
<1>3. driver # "tdp_alib" => \A v : Remembers(v)' <=> Remembers(v)
  BY <1>1 DEF Remembers, Owed
<1>4. SchedulerInStep' /\ AudioInStep'
  BY <1>1, <1>3 DEF HwInv, SchedulerInStep, AudioInStep, Owed
<1>5. QED
  BY <1>1, <1>2, <1>4 DEF HwInv

LEMMA AnswersKeepsHw == HwInv /\ SetAnswers => HwInv'
<1> SUFFICES ASSUME HwInv, SetAnswers PROVE HwInv'
  OBVIOUS
<1>1. /\ answer = "running" /\ writes = <<>> /\ answer' = "ok"
      /\ UNCHANGED <<driver, found, file, held, hwJobs, setting, writes, outOfStep>>
  BY DEF SetAnswers
<1>2. HwTypes' /\ FilesAreThere'
  BY <1>1 DEF HwInv, HwTypes, FilesAreThere
<1>3. SchedulerInStep' /\ AudioInStep'
  BY <1>1 DEF HwInv, SchedulerInStep, AudioInStep, Remembers, Owed
<1>4. PICK c : c = setting
  OBVIOUS
<1>5. Taken(c) /\ Progress(c) /\ HwTypes
  BY <1>1, <1>4 DEF HwInv, HwTypes
<1>6. Taken(c)' /\ (Plain(c)' <=> Plain(c))
  BY <1>1, <1>5 DEF Taken, Parses, Missing, Plain
<1>7. Plain(c) => Underway(In(WritesOf(c)))'
  <2>1. SUFFICES ASSUME Plain(c) PROVE Underway(In(WritesOf(c)))'
    OBVIOUS
  <2>2. WritesOf(c)' = WritesOf(c)
    BY <1>1, <1>5, <2>1, PlainWritesStay
  <2>3. QED
    BY <1>1, <1>5, <2>1, <2>2 DEF Progress, Underway, In, Has
<1>8. Progress(c)'
  BY <1>1, <1>5, <1>6, <1>7
     DEF Progress, ShownIntelLevel, Underway, In, Has, ClockUnderway, CachedUnderway, HwSettled
<1>9. (Taken(setting) /\ Progress(setting))'
  BY <1>1, <1>4, <1>6, <1>8 DEF Taken, Parses, Missing, Progress
<1>10. QED
  BY <1>2, <1>3, <1>9 DEF HwInv

LEMMA JobKeepsHw == HwInv /\ UnitJobRuns => HwInv'
<1> SUFFICES ASSUME HwInv, UnitJobRuns PROVE HwInv'
  OBVIOUS
<1>1. HwTypes /\ FilesAreThere
  BY DEF HwInv
<1>2. PICK j \in hwJobs, ok \in BOOLEAN :
        /\ outOfStep' = (outOfStep \/ ~ok) /\ hwJobs' = hwJobs \ {j}
        /\ file' = IF ok
                   THEN [file EXCEPT !["unit"] =
                           IF driver = "scheduler" THEN IF j = "start" THEN "lavd" ELSE "none"
                           ELSE IF j = "start" THEN "os" ELSE "bios"]
                   ELSE file
        /\ UNCHANGED <<driver, found, held, setting, writes, answer>>
  BY DEF UnitJobRuns
<1>3. j \in {"start", "stop"} /\ driver \in {"scheduler", "fan"} /\ DOMAIN file = {"unit"}
  BY <1>1, <1>2 DEF HwTypes
<1>4. DOMAIN file' = {"unit"}
  BY <1>2, <1>3
<1>5. ok => file'["unit"] = IF driver = "scheduler" THEN IF j = "start" THEN "lavd" ELSE "none"
                            ELSE IF j = "start" THEN "os" ELSE "bios"
  BY <1>2, <1>3
<1>6. HwTypes'
  BY <1>1, <1>2, <1>3, <1>4 DEF HwTypes
<1>7. FilesAreThere'
  BY <1>2, <1>3, <1>4 DEF FilesAreThere
<1>8. SchedulerInStep'
  <2> SUFFICES ASSUME driver = "scheduler", found, ~outOfStep, ok PROVE SchedulerInStep'
    BY <1>2 DEF SchedulerInStep
  <2>1. \A v : Remembers(v)' <=> Remembers(v)
    BY <1>2 DEF Remembers, Owed
  <2>2. PICK v : Remembers(v)
    BY DEF Remembers
  <2>3. \A u : Remembers(u) => u = v
    BY <2>2 DEF Remembers
  <2>4. ("start" \in hwJobs => v = "lavd") /\ ("stop" \in hwJobs => v = "none")
    BY <2>3 DEF HwInv, SchedulerInStep
  <2>5. hwJobs' = {} /\ file'["unit"] = v
    BY <1>1, <1>2, <1>3, <1>5, <2>4 DEF HwTypes
  <2>6. QED
    BY <2>1, <2>2, <2>5 DEF SchedulerInStep
<1>9. AudioInStep'
  BY <1>2, <1>3 DEF AudioInStep
<1>10. ASSUME setting.op # "none", answer # "error" PROVE (Taken(setting) /\ Progress(setting))'
  <2>1. PICK c : c = setting
    OBVIOUS
  <2>2. Taken(c) /\ Progress(c)
    BY <1>10, <2>1 DEF HwInv
  <2>3. Taken(c)' /\ c.op \in {"scheduler", "fan"}
    BY <1>2, <1>3, <2>2, OpIs DEF Taken, Parses, Missing
  <2>4. ~Plain(c) /\ ~Plain(c)'
    BY <1>2, <1>3, <1>4 DEF Plain
  <2>5. CASE driver = "scheduler"
    <3>1. Progress(c)'
      BY <1>2, <2>2, <2>3, <2>4, <2>5 DEF Progress, CachedUnderway
    <3>2. QED
      BY <1>2, <2>1, <2>3, <3>1 DEF Taken, Parses, Missing, Progress
  <2>6. CASE driver = "fan"
    <3>1. c.value \in {"bios", "os"}
      BY <2>2, <2>6, OpIs DEF Taken, Parses, FanControlState
    <3>2. driver' = "fan" /\ c.op = "fan" /\ writes' = writes
      BY <1>2, <2>2, <2>6, OpIs
    <3>3. ASSUME writes = <<>>, hwJobs \subseteq {JobOf(c.value)}, HwSettled'
          PROVE  file'["unit"] = c.value
      <4>1. ok /\ j = JobOf(c.value)
        BY <1>2, <3>3 DEF HwSettled
      <4>2. JobOf("os") = "start" /\ JobOf("bios") = "stop"
        BY DEF JobOf, Starts
      <4>3. QED
        BY <1>3, <1>5, <2>6, <3>1, <4>1, <4>2
    <3>4. Progress(c)'
      <4>1. \/ writes' = <<Write("unit", c.value)>>
            \/ writes' = <<>> /\ hwJobs' \subseteq {JobOf(c.value)}
                              /\ (HwSettled' => file'["unit"] = c.value)
        BY <1>2, <2>2, <2>4, <2>6, <3>2, <3>3 DEF Progress
      <4>2. QED
        BY <2>4, <3>2, <4>1 DEF Progress, JobOf
    <3>5. QED
      BY <1>2, <2>1, <2>3, <3>4 DEF Taken, Parses, Missing, Progress
  <2>7. QED
    BY <1>3, <2>5, <2>6
<1>11. QED
  BY <1>2, <1>6, <1>7, <1>8, <1>9, <1>10 DEF HwInv

LEMMA OtherKeepsHw == HwInv /\ OtherSets => HwInv'
<1> SUFFICES ASSUME HwInv, OtherSets PROVE HwInv'
  OBVIOUS
<1>1. HwTypes /\ FilesAreThere
  BY DEF HwInv
<1>2. PICK m : /\ driver = "audio" /\ file' = [file EXCEPT !["mono_key"] = m] /\ outOfStep' = TRUE
               /\ UNCHANGED <<driver, found, held, hwJobs, setting, writes, answer>>
  BY DEF OtherSets
<1>3. DOMAIN file' = DOMAIN file
  BY <1>2
<1>4. HwTypes'
  BY <1>1, <1>2, <1>3 DEF HwTypes
<1>5. FilesAreThere'
  BY <1>1, <1>2, <1>3 DEF FilesAreThere
<1>6. ASSUME setting.op # "none", answer # "error" PROVE (Taken(setting) /\ Progress(setting))'
  <2>1. PICK c : c = setting
    OBVIOUS
  <2>2. Taken(c) /\ Progress(c) /\ c.op = "audio"
    BY <1>2, <1>6, <2>1, OpIs DEF HwInv
  <2>3. Taken(c)' /\ Progress(c)'
    <3>1. Taken(c)'
      BY <1>2, <2>2 DEF Taken, Parses, Missing
    <3>2. Progress(c)'
      BY <1>2, <2>2 DEF Progress, Plain, CachedUnderway
    <3>3. QED
      BY <3>1, <3>2
  <2>4. QED
    BY <1>2, <2>1, <2>3 DEF Taken, Parses, Missing, Progress
<1>7. QED
  BY <1>2, <1>4, <1>5, <1>6 DEF HwInv, SchedulerInStep, AudioInStep

LEMMA RestartKeepsHw == HwInv /\ DaemonRestarts => HwInv'
<1> SUFFICES ASSUME HwInv, DaemonRestarts PROVE HwInv'
  OBVIOUS
<1>1. HwTypes /\ FilesAreThere
  BY DEF HwInv
<1>2. /\ driver \in {"scheduler", "audio"} \cup TdpDrivers /\ held' \in Loaded /\ writes' = <<>>
      /\ setting' = Is("none", 0) /\ answer' = "ok" /\ outOfStep' = (driver = "scheduler")
      /\ UNCHANGED <<driver, found, file, hwJobs>>
  BY DEF DaemonRestarts
<1>3. setting'.op = "none" /\ ~Owed'
  BY <1>2 DEF Is, Owed
<1>4. driver = "scheduler" => held' \in CpuScheduler
  BY <1>2 DEF Loaded, OfferedSchedulers, CpuScheduler
<1>5. driver = "audio" => held' \in {file["mono_key"], Error}
  BY <1>2 DEF Loaded, LoadedMode
<1>6. HwTypes'
  BY <1>1, <1>2, <1>3, <1>4, Zenon DEF HwTypes, TdpDrivers
<1>7. FilesAreThere'
  BY <1>1, <1>2 DEF FilesAreThere
<1>8. SchedulerInStep' /\ AudioInStep'
  BY <1>2, <1>3, <1>5 DEF SchedulerInStep, AudioInStep, Remembers
<1>9. QED
  BY <1>3, <1>6, <1>7, <1>8 DEF HwInv

LEMMA QueueIsOfLimits == QueueInv => (queued # <<>> => Head(queued) \in HardwareCalls)
<1>1. driver \in TdpDrivers => HardwareCalls = TdpLimit1
  BY DEF HardwareCalls, TdpDrivers
<1>2. QED
  BY <1>1 DEF QueueInv

LEMMA QueueStep == QueueInv /\ [HardwareNext]_hardwareVars => QueueInv'
<1> SUFFICES ASSUME QueueInv, [HardwareNext]_hardwareVars PROVE QueueInv'
  OBVIOUS
<1>1. driver' = driver
  BY DEF HardwareNext, Set, QueueLimit, TakeLimit, Begin, WriteNext, WriteFails, SetAnswers,
         ProfileChanges, UnitJobRuns, OtherSets, DaemonRestarts, hardwareVars
<1>2. TdpLimit1' = TdpLimit1
  BY DEF TdpLimit1
<1>3. ASSUME NEW c \in HardwareCalls, QueueLimit(c) PROVE QueueInv'
  <2>1. driver \in TdpDrivers /\ queued' = Append(queued, c)
    BY <1>3 DEF QueueLimit
  <2>2. c \in TdpLimit1
    BY <2>1 DEF HardwareCalls, TdpDrivers
  <2>3. QED
    BY <1>1, <1>2, <2>1, <2>2 DEF QueueInv
<1>4. CASE TakeLimit
  BY <1>1, <1>2, <1>4 DEF TakeLimit, QueueInv
<1>5. CASE DaemonRestarts
  BY <1>1, <1>5 DEF DaemonRestarts, QueueInv
<1>6. CASE queued' = queued
  BY <1>1, <1>2, <1>6 DEF QueueInv
<1>7. QED
  BY <1>3, <1>4, <1>5, <1>6 DEF HardwareNext, Set, WriteNext, WriteFails, SetAnswers,
     ProfileChanges, UnitJobRuns, OtherSets, hardwareVars

LEMMA HwStepKeepsInv == HwInv /\ QueueInv /\ [HardwareNext]_hardwareVars => HwInv'
<1> SUFFICES ASSUME HwInv, QueueInv, [HardwareNext]_hardwareVars PROVE HwInv'
  OBVIOUS
<1>1. CASE (\E c \in HardwareCalls : Set(c)) \/ TakeLimit
  BY <1>1, QueueIsOfLimits, BeginKeepsHw DEF Set, TakeLimit
<1>2. CASE driver \in {"gpu_amdgpu", "gpu_intel"} /\ \E c \in GpuClocks1 : Set(c)
  BY <1>2, BeginKeepsHw DEF Set
<1>12. CASE \E c \in HardwareCalls : QueueLimit(c)
  BY <1>12, SameIsKept DEF QueueLimit
<1>3. CASE WriteNext
  BY <1>3, WriteKeepsHw
<1>4. CASE WriteFails
  BY <1>4, FailsKeepsHw
<1>5. CASE SetAnswers
  BY <1>5, AnswersKeepsHw
<1>6. CASE ProfileChanges
  BY <1>6, SameIsKept DEF ProfileChanges
<1>7. CASE UnitJobRuns
  BY <1>7, JobKeepsHw
<1>8. CASE OtherSets
  BY <1>8, OtherKeepsHw
<1>9. CASE DaemonRestarts
  BY <1>9, RestartKeepsHw
<1>10. CASE UNCHANGED hardwareVars
  BY <1>10, SameIsKept DEF hardwareVars
<1>11. QED
  BY <1>1, <1>2, <1>3, <1>4, <1>5, <1>6, <1>7, <1>8, <1>9, <1>10, <1>12 DEF HardwareNext

\* The invariant holds in every state of HardwareSettings.
LEMMA HwInvariant == HardwareSpec => [](HwInv /\ QueueInv)
<1>1. HardwareInit => QueueInv
  BY DEF HardwareInit, QueueInv
<1>2. QED
  BY <1>1, HwInitHasInv, HwStepKeepsInv, QueueStep, PTL DEF HardwareSpec

-----------------------------------------------------------------------------
(* HardwareSettings. A call that answers is in force.                      *)

LEMMA OneHas ==
    ASSUME NEW c, Plain(c), Progress(c), writes = <<>>, NEW n, NEW v,
           WritesOf(c) = <<Write(n, v)>>, n # "cached"
    PROVE  file[n] = v
<1>1. PICK w : w = Write(n, v)
  OBVIOUS
<1>2. w \in In(WritesOf(c)) /\ w.file = n /\ w.value = v
  BY <1>1, InOfTuples, FileOfWrite
<1>3. QED
  BY <1>2, InOfTuples DEF Progress, Underway, Has

LEMMA TwoHave ==
    ASSUME NEW c, Plain(c), Progress(c), writes = <<>>, NEW n, NEW v, NEW m, NEW u,
           WritesOf(c) = <<Write(n, v), Write(m, u)>>, n # "cached"
    PROVE  file[n] = v /\ IF m = "cached" THEN held = u ELSE file[m] = u
<1>1. PICK w, x : w = Write(n, v) /\ x = Write(m, u)
  OBVIOUS
<1>2. /\ w \in In(WritesOf(c)) /\ w.file = n /\ w.value = v
      /\ x \in In(WritesOf(c)) /\ x.file = m /\ x.value = u
  BY <1>1, InOfTuples, FileOfWrite
<1>3. Has(w) /\ Has(x)
  BY <1>2, InOfTuples DEF Progress, Underway
<1>4. QED
  BY <1>2, <1>3 DEF Has

LEMMA HwInvIsEnough == HwInv => AnswerIsInForce
<1> SUFFICES ASSUME HwInv, answer = "ok", setting.op # "none"
             PROVE  /\ InForce(setting)
                    /\ \/ Shown(setting.op) = setting.value
                       \/ setting.op = "clock" /\ Shown("level") # "manual"
                       \/ setting.op = "tdp" /\ ~tdpActive
                       \/ setting.op = "level" /\ driver = "gpu_intel" /\ Lo = Hi
                       \/ setting.op = "fan" /\ ~HwSettled
  BY DEF AnswerIsInForce
<1>1. PICK c : c = setting
  OBVIOUS
<1>2. Taken(c) /\ Progress(c) /\ HwTypes /\ FilesAreThere /\ writes = <<>>
  BY <1>1 DEF HwInv, HwTypes
<1> DEFINE Goal == /\ InForce(c)
                   /\ \/ Shown(c.op) = c.value
                      \/ c.op = "clock" /\ Shown("level") # "manual"
                      \/ c.op = "tdp" /\ ~tdpActive
                      \/ c.op = "level" /\ driver = "gpu_intel" /\ Lo = Hi
                      \/ c.op = "fan" /\ ~HwSettled
<1>3. ASSUME driver = "gpu_profile" PROVE Goal
  <2>1. c.op = "power_profile" /\ Plain(c)
    BY <1>2, <1>3, OpIs DEF Plain
  <2>2. PICK k \in KernelProfiles : LowerCase[k] = c.value
                                    /\ WritesOf(c) = <<Write("power_profile", k)>>
    BY <1>2, <2>1, NamesWrite
  <2>3. file["power_profile"] = k
    BY <1>2, <2>1, <2>2, OneHas
  <2>4. c.value \in AmdgpuPowerProfile
    BY <1>2, <2>1 DEF Taken, Parses
  <2>5. QED
    BY <2>1, <2>2, <2>3, <2>4 DEF InForce, Shown, ShownPowerProfile
<1>4. ASSUME c.op = "level", driver = "gpu_amdgpu" PROVE Goal
  <2>1. Plain(c) /\ WritesOf(c) = <<Write("force_level", c.value)>>
    BY <1>4, OneFileWrites DEF Plain
  <2>2. file["force_level"] = c.value
    BY <1>2, <2>1, OneHas
  <2>3. c.value \in AmdgpuPerformanceLevel
    BY <1>2, <1>4 DEF Taken, Parses
  <2>4. QED
    BY <1>4, <2>2, <2>3 DEF InForce, Shown, ShownAmdgpuLevel
<1>5. ASSUME c.op = "level", driver = "gpu_intel" PROVE Goal
  <2>1. c.value \in {"auto", "manual"}
    BY <1>2, <1>5 DEF Taken, Parses, IntelPerformanceLevel
  <2>2. WritesOf(c) = IntelLevelWrites(c.value) /\ Plain(c)
    BY <1>5, ManyFileWrites DEF Plain
  <2>3. InForce(c) /\ Shown(c.op) = ShownIntelLevel(file)
    BY <1>5 DEF InForce, Shown
  <2>4. CASE c.value = "auto"
    <3>1. WritesOf(c) = <<Write("min", Lo), Write("max", Hi)>>
      BY <2>2, <2>4 DEF IntelLevelWrites
    <3>2. file["min"] = Lo /\ file["max"] = Hi
      BY <1>2, <2>2, <3>1, TwoHave
    <3>3. Lo < Hi => ShownIntelLevel(file) = "auto"
      BY <3>2 DEF ShownIntelLevel
    <3>4. Lo < Hi \/ Lo = Hi
      BY DriverAssumption
    <3>5. QED
      BY <1>5, <2>3, <2>4, <3>3, <3>4
  <2>5. CASE c.value = "manual"
    <3>1. PICK mean : mean = (Lo + Hi) \div 2
      OBVIOUS
    <3>2. WritesOf(c) = <<Write("min", mean), Write("max", mean)>>
      BY <2>2, <2>5, <3>1 DEF IntelLevelWrites
    <3>3. file["min"] = mean /\ file["max"] = mean
      BY <1>2, <2>2, <3>2, TwoHave
    <3>4. mean \in Int
      BY <3>1, DriverAssumption
    <3>5. ShownIntelLevel(file) = "manual"
      BY <3>3, <3>4 DEF ShownIntelLevel
    <3>6. QED
      BY <2>3, <2>5, <3>5
  <2>6. QED
    BY <2>1, <2>4, <2>5
<1>6. ASSUME c.op = "clock" PROVE Goal
  <2>1. driver \in {"gpu_amdgpu", "gpu_intel"}
    BY <1>2, <1>6 DEF Taken, OpOf, HwTypes, Drivers
  <2>2. CASE driver = "gpu_amdgpu"
    <3>1. ClockUnderway(c.value)
      BY <1>2, <1>6, <2>2 DEF Progress
    <3>2. file["min"] = c.value /\ file["max"] = c.value
      BY <1>2, <3>1, HeadsOfTuples DEF ClockUnderway
    <3>3. QED
      BY <1>6, <3>2 DEF InForce, Shown, ShownAmdgpuClock
  <2>3. CASE driver = "gpu_intel" /\ ShownIntelLevel(file) = "auto"
    BY <1>6, <2>3 DEF InForce, Shown
  <2>4. CASE driver = "gpu_intel" /\ ShownIntelLevel(file) # "auto"
    <3>1. PICK w, x : w = Write("min", c.value) /\ x = Write("max", c.value)
      OBVIOUS
    <3>2. Has(w) /\ Has(x)
      BY <1>2, <1>6, <2>4, <3>1, InOfTuples DEF Progress, Underway
    <3>3. file["min"] = c.value /\ file["max"] = c.value
      BY <3>1, <3>2, FileOfWrite DEF Has
    <3>4. QED
      BY <1>6, <3>3 DEF InForce, Shown, ShownAmdgpuClock
  <2>5. QED
    BY <2>1, <2>2, <2>3, <2>4
<1>7. ASSUME driver = "tdp_amdgpu" PROVE Goal
  <2>1. c.op = "tdp" /\ Plain(c) /\ c.value \in Lo..Hi
    BY <1>2, <1>7, OpIs DEF Plain, Taken
  <2>2. file["power1_cap"] = c.value /\ \A n \in DOMAIN file : file[n] = c.value
    <3>1. CASE "power2_cap" \in DOMAIN file
      <4>1. WritesOf(c) = <<Write("power1_cap", c.value), Write("power2_cap", c.value)>>
        BY <1>2, <1>7, <2>1, <3>1, LimitWrites
      <4>2. file["power1_cap"] = c.value /\ file["power2_cap"] = c.value
        BY <1>2, <2>1, <4>1, TwoHave
      <4>3. QED
        BY <1>2, <1>7, <4>2 DEF FilesAreThere
    <3>2. CASE "power2_cap" \notin DOMAIN file
      <4>1. WritesOf(c) = <<Write("power1_cap", c.value)>>
        BY <1>2, <1>7, <2>1, <3>2, LimitWrites
      <4>2. file["power1_cap"] = c.value
        BY <1>2, <2>1, <4>1, OneHas
      <4>3. QED
        BY <1>2, <1>7, <3>2, <4>2 DEF FilesAreThere
    <3>3. QED
      BY <3>1, <3>2
  <2>3. QED
    BY <1>7, <2>1, <2>2 DEF InForce, Shown, ShownAmdgpuLimit
<1>8. ASSUME driver = "tdp_firmware" PROVE Goal
  <2>1. c.op = "tdp" /\ Plain(c) /\ c.value \in Lo..Hi
    BY <1>2, <1>8, OpIs DEF Plain, Taken
  <2>2. \A w \in In(WritesOf(c)) : Has(w)
    BY <1>2, <2>1, InOfTuples DEF Progress, Underway
  <2>3. /\ file["spl"] = c.value /\ file["sppt"] = AtLeast(c.value, SpptMin)
        /\ file["fppt"] = AtLeast(c.value, FpptMin)
    BY <1>2, <1>8, <2>2, FirmwareIsPlain, FileOfWrite DEF Has
  <2>4. {Lo, Hi, SpptMin, FpptMin} \subseteq Nat /\ c.value \in Nat
    BY <2>1, DriverAssumption
  <2>5. /\ c.value <= AtLeast(c.value, SpptMin) /\ c.value <= AtLeast(c.value, FpptMin)
        /\ AtLeast(c.value, SpptMin) >= SpptMin /\ AtLeast(c.value, FpptMin) >= FpptMin
    BY <2>4 DEF AtLeast
  <2>6. QED
    BY <1>8, <2>1, <2>3, <2>5 DEF InForce, Shown, ShownFirmwareLimit
<1>9. ASSUME driver = "tdp_alib" PROVE Goal
  <2>1. c.op = "tdp" /\ Plain(c) /\ c.value \in Lo..Hi
    BY <1>2, <1>9, OpIs DEF Plain, Taken
  <2>2. WritesOf(c) = <<Write("acpi_call", AlibPayload(c.value)), Write("cached", c.value)>>
    BY <1>9, <2>1, ManyFileWrites DEF AlibLimitWrites
  <2>3. file["acpi_call"] = AlibPayload(c.value) /\ held = c.value
    BY <1>2, <2>1, <2>2, TwoHave
  <2>4. QED
    BY <1>9, <2>1, <2>3 DEF InForce, Shown
<1>10. ASSUME driver = "profile" PROVE Goal
  <2>1. c.op = "profile" /\ Plain(c)
    BY <1>2, <1>10, OpIs DEF Plain
  <2>2. file["profile"] = c.value
    BY <1>2, <2>1, OneFileWrites, OneHas
  <2>3. QED
    BY <2>1, <2>2 DEF InForce, Shown, ShownPlatformProfile
<1>11. ASSUME driver = "governor" PROVE Goal
  <2>1. c.op = "governor" /\ Plain(c) /\ c.value \in CPUScalingGovernor
    BY <1>2, <1>11, OpIs DEF Plain, Taken, Parses
  <2>2. \A w \in In(WritesOf(c)) : Has(w)
    BY <1>2, <2>1, InOfTuples DEF Progress, Underway
  <2>3. DOMAIN file = PolicyFiles /\ "policy0" \in PolicyFiles /\ "cached" \notin PolicyFiles
    BY <1>2, <1>11, DriverAssumption DEF FilesAreThere
  <2>4. \A n \in DOMAIN file : file[n] = c.value
    BY <1>2, <1>11, <2>2, <2>3, GovernorIsPlain, FileOfWrite DEF Has
  <2>5. QED
    BY <2>1, <2>3, <2>4 DEF InForce, Shown, ShownGovernor
<1>12. ASSUME driver = "boost" PROVE Goal
  <2>1. c.op = "boost" /\ Plain(c)
    BY <1>2, <1>12, OpIs DEF Plain
  <2>2. PICK v \in {0, 1} :
           /\ WritesOf(c) = <<Write(BoostFile(file), v)>>
           /\ BoostFile(file) \in {"boost", "no_turbo"} \cap DOMAIN file
           /\ c.value = (v = (IF BoostFile(file) = "boost" THEN 1 ELSE 0))
    BY <1>2, <1>12, BoostIsOne
  <2>3. file[BoostFile(file)] = v
    BY <1>2, <2>1, <2>2, OneHas
  <2>4. ShownBoost(file) = c.value
    BY <2>2, <2>3 DEF ShownBoost
  <2>5. QED
    BY <2>1, <2>4 DEF InForce, Shown
<1>13. ASSUME driver = "scheduler" PROVE Goal
  <2>1. c.op = "scheduler" /\ held = c.value /\ ~Owed
    BY <1>2, <1>13, OpIs, HeadsOfTuples DEF Progress, CachedUnderway, Owed
  <2>2. HwSettled /\ found => file["unit"] = c.value
    BY <1>13, <2>1 DEF HwInv, SchedulerInStep, HwSettled, Remembers
  <2>3. QED
    BY <2>1, <2>2 DEF InForce, Shown
<1>14. ASSUME driver = "fan" PROVE Goal
  <2>1. c.op = "fan" /\ c.value \in FanControlState
    BY <1>2, <1>14, OpIs DEF Taken, Parses
  <2>2. InForce(c)
    BY <2>1 DEF InForce
  <2>3. CASE Plain(c)
    <3>1. DOMAIN file = {"fan_script"}
      BY <1>2, <1>14, <2>3 DEF FilesAreThere, Plain
    <3>2. WritesOf(c) = <<Write("fan_script", c.value)>>
      BY <2>1, <3>1, OneFileWrites DEF FanWrites
    <3>3. file["fan_script"] = c.value
      BY <1>2, <2>3, <3>2, OneHas
    <3>4. QED
      BY <2>1, <2>2, <3>1, <3>3 DEF Shown, ShownFanState
  <2>4. CASE ~Plain(c)
    <3>1. DOMAIN file = {"unit"}
      BY <1>2, <1>14, <2>1, <2>4 DEF FilesAreThere, Plain
    <3>2. HwSettled => file["unit"] = c.value
      BY <1>2, <1>14, <2>4, HeadsOfTuples DEF Progress
    <3>3. QED
      BY <2>1, <2>2, <3>1, <3>2 DEF Shown, ShownFanState
  <2>5. QED
    BY <2>3, <2>4
<1>15. ASSUME driver = "audio" PROVE Goal
  <2>1. c.op = "audio" /\ held = c.value /\ ~Owed /\ c.value \in AudioModes
    BY <1>2, <1>15, OpIs, HeadsOfTuples DEF Progress, CachedUnderway, Owed, Taken, Parses
  <2>2. ~outOfStep => file["mono_key"] = c.value
    BY <1>15, <2>1 DEF HwInv, AudioInStep, Remembers, AudioModes, Error
  <2>3. QED
    BY <2>1, <2>2 DEF InForce, Shown
<1>16. ASSUME driver = "wake" PROVE Goal
  <2>1. c.op = "wake" /\ Plain(c)
    BY <1>2, <1>16, OpIs DEF Plain
  <2>2. file["port0"] = IF c.value THEN 1 ELSE 0
    BY <1>2, <2>1, OneFileWrites, OneHas
  <2>3. DOMAIN file = {"port0", "port1"} /\ file["port1"] = 0
    BY <1>2, <1>16 DEF FilesAreThere, HwTypes
  <2>4. c.value \in BOOLEAN
    BY <1>2, <2>1 DEF Taken
  <2>5. QED
    BY <2>1, <2>2, <2>3, <2>4 DEF InForce, Shown, ShownAwaken, CanAwaken, EcPort
<1>17. Goal
  <2>1. driver = "gpu_amdgpu" \/ driver = "gpu_intel" => c.op \in {"level", "clock"}
    BY <1>2, OpIs
  <2>2. QED
    BY <1>2, <1>3, <1>4, <1>5, <1>6, <1>7, <1>8, <1>9, <1>10, <1>11, <1>12, <1>13, <1>14,
       <1>15, <1>16, <2>1 DEF HwTypes, Drivers
<1>18. QED
  BY <1>1, <1>17

\* A setter that the root daemon has answered has set the whole setting, and the
\* getter shows it, that of the TDP limit as long as limiting is active, whatever the setters, the failures, the jobs of systemd and the restarts
\* before it left halfway.
THEOREM AnswerIsAlwaysInForce == HardwareSpec => []AnswerIsInForce
BY HwInvariant, HwInvIsEnough, PTL

-----------------------------------------------------------------------------
(* HardwareSettings. The types.                                            *)

\* What the invariant does not say: how the machine is, and what was called.
HwOthers ==
    /\ {deck, tdpActive} \subseteq BOOLEAN
    /\ setting.op # "none" =>
          setting \in IF setting.op = "clock" THEN GpuClocks1 ELSE HardwareCalls
    /\ hwFaults \in 0..MaxHwFaults

\* The calls hang on the files there are, not on what they say.
LEMMA CallsStay ==
    ASSUME HwTypes, UNCHANGED <<driver, deck, found>>, DOMAIN file' = DOMAIN file
    PROVE  HardwareCalls' = HardwareCalls
<1>1. OfferedAmdgpuLevels(file)' = OfferedAmdgpuLevels(file)
  BY DEF OfferedAmdgpuLevels
<1>2. driver = "gpu_amdgpu" => GpuPerformanceLevel1' = GpuPerformanceLevel1
  BY <1>1 DEF GpuPerformanceLevel1
<1>3. driver = "gpu_intel" => GpuPerformanceLevel1' = GpuPerformanceLevel1
  BY DEF GpuPerformanceLevel1
<1>4. GpuPowerProfile1' = GpuPowerProfile1 /\ CpuScheduler1' = CpuScheduler1
  BY DEF GpuPowerProfile1, CpuScheduler1
<1>5. CASE driver \in {"gpu_amdgpu", "gpu_intel"}
  BY <1>2, <1>3, <1>5 DEF HardwareCalls
<1>6. CASE driver \notin {"gpu_amdgpu", "gpu_intel"}
  BY <1>4, <1>6 DEF HardwareCalls, TdpDrivers, TdpLimit1, PerformanceProfile1, CpuScaling1, CpuBoost1,
     FanControl1, Audio1, HdmiCecAwaken
<1>7. QED
  BY <1>5, <1>6

LEMMA FilesStay ==
    ASSUME [HardwareNext]_hardwareVars
    PROVE  DOMAIN file' = DOMAIN file /\ UNCHANGED <<driver, deck, found>>
<1>1. CASE WriteNext
  BY <1>1, PutKeepsFiles DEF WriteNext
<1>2. CASE UnitJobRuns \/ OtherSets
  BY <1>2 DEF UnitJobRuns, OtherSets
<1>3. CASE WriteFails \/ SetAnswers \/ ProfileChanges \/ DaemonRestarts \/ UNCHANGED hardwareVars
  BY <1>3 DEF WriteFails, SetAnswers, ProfileChanges, DaemonRestarts, hardwareVars
<1>4. ASSUME NEW c, Set(c) \/ QueueLimit(c) \/ TakeLimit
      PROVE  DOMAIN file' = DOMAIN file /\ UNCHANGED <<driver, deck, found>>
  BY <1>4 DEF Set, QueueLimit, TakeLimit, Begin
<1>5. QED
  BY <1>1, <1>2, <1>3, <1>4 DEF HardwareNext

LEMMA OthersAreKept ==
    ASSUME HwInv, QueueInv, HwOthers, [HardwareNext]_hardwareVars
    PROVE  HwOthers'
<1>1. HwTypes /\ MaxHwFaults \in Nat /\ hwFaults \in 0..MaxHwFaults
  BY HardwareAssumption DEF HwInv, HwOthers
<1>2. /\ HardwareCalls' = HardwareCalls /\ GpuClocks1' = GpuClocks1
      /\ UNCHANGED <<driver, deck, found>>
  BY <1>1, FilesStay, CallsStay DEF GpuClocks1
<1>3. hwFaults' \in 0..MaxHwFaults
  BY <1>1 DEF HardwareNext, Set, QueueLimit, TakeLimit, Begin, WriteNext, WriteFails, SetAnswers,
              ProfileChanges, UnitJobRuns, OtherSets, DaemonRestarts, hardwareVars
<1>4. {deck, tdpActive}' \subseteq BOOLEAN
  <2>1. CASE ProfileChanges
    BY <1>2, <2>1 DEF ProfileChanges, HwOthers
  <2>2. CASE ~ProfileChanges
    <3>1. tdpActive' = tdpActive
      BY <2>2 DEF HardwareNext, Set, QueueLimit, TakeLimit, Begin, WriteNext, WriteFails,
                  SetAnswers, UnitJobRuns, OtherSets, DaemonRestarts, hardwareVars
    <3>2. QED
      BY <1>2, <3>1 DEF HwOthers
  <2>3. QED
    BY <2>1, <2>2
<1> DEFINE Called == setting.op # "none" =>
              setting \in IF setting.op = "clock" THEN GpuClocks1 ELSE HardwareCalls
<1>5. Called'
  <2>1. ASSUME NEW c \in HardwareCalls, Begin(c) PROVE Called'
    <3>1. c.op # "clock"
      BY <1>1, CallsAre DEF OpOf, HwTypes, Drivers
    <3>2. QED
      BY <1>2, <2>1, <3>1 DEF Begin
  <2>2. ASSUME NEW c \in GpuClocks1, Begin(c) PROVE Called'
    <3>1. c.op = "clock"
      BY DEF GpuClocks1, Sets, Is
    <3>2. QED
      BY <1>2, <2>2, <3>1 DEF Begin
  <2>3. CASE DaemonRestarts
    BY <2>3 DEF DaemonRestarts, Is
  <2>4. CASE setting' = setting
    BY <1>2, <2>4 DEF HwOthers
  <2>5. QED
    BY <2>1, <2>2, <2>3, <2>4, QueueIsOfLimits
       DEF HardwareNext, Set, QueueLimit, TakeLimit, WriteNext, WriteFails, SetAnswers,
           ProfileChanges, UnitJobRuns, OtherSets, hardwareVars
<1>6. QED
  BY <1>3, <1>4, <1>5 DEF HwOthers

\* What is still to be written is of a file there is.
LEMMA WritesHaveFiles ==
    ASSUME HwInv
    PROVE  \A i \in 1..Len(writes) : writes[i].file \in DOMAIN file \cup {"commit", "cached"}
<1> DEFINE Goal == \A i \in 1..Len(writes) :
                      writes[i].file \in DOMAIN file \cup {"commit", "cached"}
<1>1. HwTypes /\ FilesAreThere
  BY DEF HwInv
<1>2. CASE writes = <<>>
  BY <1>2
<1>3. ASSUME NEW W, Underway(W), \A w \in W : w.file \in DOMAIN file \cup {"commit", "cached"}
      PROVE  Goal
  <2>1. \A i \in 1..Len(writes) : writes[i] \in W
    BY <1>3 DEF Underway
  <2>2. QED
    BY <1>3, <2>1
<1>4. ASSUME NEW n, NEW v, CachedUnderway(n, v), n \in DOMAIN file PROVE Goal
  BY <1>4, FileOfWrite DEF CachedUnderway
<1>5. CASE writes # <<>>
  <2> DEFINE c == setting
  <2>1. answer = "running" /\ Taken(c) /\ Progress(c)
    BY <1>1, <1>5 DEF HwInv, HwTypes
  <2>2. CASE Plain(c)
    <3>1. PlainSet(In(WritesOf(c))) /\ Underway(In(WritesOf(c)))
      BY <1>1, <2>1, <2>2, PlainIsPlain DEF PlainWrites, Progress
    <3>2. QED
      BY <1>3, <3>1 DEF PlainSet
  <2>3. CASE c.op = "clock" /\ driver = "gpu_intel"
    <3>1. Underway({Write("min", c.value), Write("max", c.value)})
      BY <1>5, <2>1, <2>3 DEF Progress
    <3>2. DOMAIN file = {"min", "max"}
      BY <1>1, <2>3 DEF FilesAreThere
    <3>3. QED
      BY <1>3, <3>1, <3>2, FileOfWrite
  <2>4. CASE c.op = "clock" /\ driver = "gpu_amdgpu"
    <3>1. ClockUnderway(c.value) /\ {"s0", "s1"} \subseteq DOMAIN file
      BY <1>1, <2>1, <2>4 DEF Progress, FilesAreThere
    <3>2. QED
      BY <1>5, <3>1, FileOfWrite DEF ClockUnderway
  <2>5. CASE driver = "fan" /\ ~Plain(c)
    <3>1. writes = <<Write("unit", c.value)>> /\ "unit" \in DOMAIN file
      BY <1>1, <1>5, <2>1, <2>5, OpIs DEF Progress, Plain
    <3>2. QED
      BY <3>1, FileOfWrite
  <2>6. CASE driver \in {"scheduler", "audio"}
    <3>1. \/ CachedUnderway("unit", c.value) /\ "unit" \in DOMAIN file
          \/ CachedUnderway("mono_key", c.value) /\ "mono_key" \in DOMAIN file
      BY <1>1, <2>1, <2>6 DEF Progress, FilesAreThere
    <3>2. QED
      BY <1>4, <3>1
  <2>7. QED
    BY <2>1, <2>2, <2>3, <2>4, <2>5, <2>6 DEF HwInv, HwTypes, Drivers, OpOf, Taken, Plain
<1>6. QED
  BY <1>2, <1>5

\* Each driver's files are those it was found with.
LEMMA FilesAreInitial ==
    ASSUME HwInv
    PROVE  \E f \in InitialFiles(driver) : DOMAIN file = DOMAIN f
<1>1. driver \in Drivers /\ FilesAreThere
  BY DEF HwInv, HwTypes
<1>2. \A n, v : DOMAIN FilesAre(n, v) = n
  BY DEF FilesAre
<1>3. "CAPPED" \in KernelProfiles /\ "powersave" \in KernelGovernors
  BY DEF KernelProfiles, LowerCase, KernelGovernors
<1>4. CASE driver = "gpu_profile"
  BY <1>1, <1>2, <1>3, <1>4 DEF InitialFiles, FilesAreThere
<1>5. CASE driver \in {"gpu_amdgpu", "gpu_intel"}
  BY <1>1, <1>5 DEF InitialFiles, FilesAreThere
<1>6. CASE driver = "governor"
  BY <1>1, <1>2, <1>3, <1>6 DEF InitialFiles, FilesAreThere
<1>7. CASE driver = "tdp_amdgpu"
  BY <1>1, <1>2, <1>7 DEF InitialFiles, FilesAreThere
<1>8. CASE driver \in {"tdp_firmware", "tdp_alib", "profile"}
  BY <1>1, <1>2, <1>8 DEF InitialFiles, FilesAreThere
<1>9. CASE driver = "boost"
  BY <1>1, <1>2, <1>9 DEF InitialFiles, FilesAreThere
<1>10. CASE driver = "fan"
  BY <1>1, <1>2, <1>10 DEF InitialFiles, FilesAreThere
<1>11. CASE driver \in {"audio", "wake"}
  BY <1>1, <1>2, <1>11 DEF InitialFiles, FilesAreThere
<1>13. CASE driver = "scheduler"
  <2>1. "none" \in OfferedSchedulers(found)
    BY DEF OfferedSchedulers, CpuScheduler
  <2>2. QED
    BY <1>1, <1>2, <1>13, <2>1 DEF InitialFiles, FilesAreThere
<1>12. QED
  BY <1>1, <1>4, <1>5, <1>6, <1>7, <1>8, <1>9, <1>10, <1>11, <1>13 DEF Drivers

\* The types hold: a driver writes files of its own only, it has the same ones
\* all the time, and what was set last is one of the calls of its interface.
THEOREM HardwareTypeCorrect == HardwareSpec => []HardwareTypeOK
<1>1. HardwareInit => HwInv /\ HwOthers
  <2>1. HardwareInit => HwOthers
    BY HardwareAssumption DEF HardwareInit, HwOthers, Is
  <2>2. QED
    BY <2>1, HwInitHasInv
<1>2. HwInv /\ QueueInv /\ HwOthers /\ [HardwareNext]_hardwareVars => HwOthers'
  BY OthersAreKept
<1>3. HwInv /\ QueueInv /\ HwOthers => HardwareTypeOK
  <2> SUFFICES ASSUME HwInv, QueueInv, HwOthers PROVE HardwareTypeOK
    OBVIOUS
  <2>3. queued \in Seq(HardwareCalls)
    <3>1. driver \in TdpDrivers => HardwareCalls = TdpLimit1
      BY DEF HardwareCalls, TdpDrivers
    <3>2. queued = <<>> => queued \in Seq(HardwareCalls)
      OBVIOUS
    <3>3. QED
      BY <3>1, <3>2 DEF QueueInv
  <2>1. {deck, found, tdpActive, outOfStep} \subseteq BOOLEAN
    BY DEF HwInv, HwTypes, HwOthers
  <2>2. QED
    BY <2>1, <2>3, WritesHaveFiles, FilesAreInitial DEF HwInv, HwTypes, HwOthers, HardwareTypeOK
<1>4. QED
  BY <1>1, <1>2, <1>3, HwInvariant, PTL DEF HardwareSpec
=============================================================================
