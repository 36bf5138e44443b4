------------------------ MODULE SessionManagerProofs -------------------------
(***************************************************************************)
(* Theorems about SessionManager, for any setters, any desktop sessions    *)
(* and a channel of any capacity, and about LoginSwitch, for any calls,    *)
(* sessions, logins and failures. SessionManager runs the loop of Daemon,  *)
(* so the invariant of DaemonProofs is a part of its own, instantiated (P) *)
(* as Daemon is there (D).                                                 *)
(***************************************************************************)
EXTENDS SessionManager, LoginSwitch, TLAPS

-----------------------------------------------------------------------------
(* The default login mode and the default desktop session.                 *)

\* The theorems about the loop.
P == INSTANCE DaemonProofs
         WITH Clients <- Setters, States <- SessionStates,
              Default <- DefaultState, HandlersFail <- FALSE

LEMMA DaemonAssumed == P!DaemonAssumption
BY SessionAssumption DEF P!DaemonAssumption, SessionStates, DefaultState, Modes

\* The types of what SessionManager adds to the daemon.
SetterTypeOK ==
    /\ step \in [Setters -> {"idle", "lock", "state", "desktop", "root", "write", "sent"}]
    /\ request \in [Setters -> Requests]
    /\ seen \in [Setters -> SessionStates]
    /\ session \in [Setters -> Sessions]
    /\ boot \in Sessions
    /\ wanted \in SessionStates

LEMMA SetterTypes == TypeOK => SetterTypeOK
BY DEF TypeOK, SetterTypeOK

LEMMA ChangedType ==
    ASSUME SetterTypeOK, NEW c \in Setters
    PROVE  Changed(c) \in SessionStates /\ With(wanted, request[c]) \in SessionStates
<1>1. request[c] \in Requests /\ seen[c] \in SessionStates /\ wanted \in SessionStates
  BY DEF SetterTypeOK
<1>2. QED
  BY <1>1 DEF Changed, With, Requests, SessionStates

-----------------------------------------------------------------------------
(* The daemon of SessionManager is a Daemon.                               *)

SameDaemon == daemonVars' = daemonVars

LEMMA SetterIsClient ==
    ASSUME SetterTypeOK, NEW c \in Setters, SetterStep(c)
    PROVE  D!Request(c) \/ SameDaemon
<1>1. CASE GetState(c)
  BY <1>1 DEF GetState, D!Request
<1>2. CASE GotState(c)
  BY <1>2 DEF GotState, D!Request, SameDaemon
<1>3. CASE SendState(c)
  BY <1>3, ChangedType DEF SendState, D!Request
<1>4. CASE GotDesktop(c) \/ SetDefaultSession(c) \/ Done(c)
  BY <1>4 DEF GotDesktop, SetDefaultSession, Done, SameDaemon
<1>5. QED
  BY <1>1, <1>2, <1>3, <1>4 DEF SetterStep

LEMMA StepIsDaemonStep ==
    ASSUME SetterTypeOK, [Next]_vars
    PROVE  D!Next \/ SameDaemon
<1>1. CASE DaemonRuns
  BY <1>1 DEF DaemonRuns, D!Next, D!DaemonStep
<1>2. CASE DaemonRestarts
  BY <1>2 DEF DaemonRestarts, D!Next, D!DaemonStep
<1>3. ASSUME NEW c \in Setters, SetterStep(c) PROVE D!Next \/ SameDaemon
  BY <1>3, SetterIsClient DEF D!Next
<1>4. ASSUME NEW c \in Setters, NEW r \in Requests, CallSetter(c, r) PROVE SameDaemon
  BY <1>4 DEF CallSetter, SameDaemon
<1>5. CASE UNCHANGED vars
  BY <1>5 DEF vars, SameDaemon
<1>6. QED
  BY <1>1, <1>2, <1>3, <1>4, <1>5 DEF Next

\* The two instances of Daemon say the same.
LEMMA SameInit == D!Init => P!Init
BY DEF D!Init, P!Init, D!Loaded, P!Loaded

LEMMA SameRequest ==
    ASSUME NEW c \in Setters, D!Request(c) PROVE P!Request(c)
BY DEF D!Request, P!Request, D!Submit, P!Submit, D!Get, P!Get, D!Set, P!Set, D!ReadConfig,
       P!ReadConfig, D!UnderWay, P!UnderWay, D!Cardinality, P!Cardinality,
       D!WriteState, P!WriteState, D!loopVars, P!loopVars, D!signals, P!signals

LEMMA SameStep == D!DaemonStep => P!DaemonStep
<1> USE DEF D!loopVars, P!loopVars, D!signals, P!signals, D!clientVars, P!clientVars,
            D!WriteState, P!WriteState, D!Loaded, P!Loaded
<1>1. ASSUME NEW c \in Setters, D!Enqueue(c) PROVE P!Enqueue(c)
  BY <1>1 DEF D!Enqueue, P!Enqueue
<1>2. D!Handle => P!Handle
  BY DEF D!Handle, P!Handle, D!HandleSet, P!HandleSet, D!HandleGet, P!HandleGet, D!Take, P!Take,
         D!HandleWriteState, P!HandleWriteState, D!HandleReadConfig, P!HandleReadConfig,
         D!Set, P!Set, D!Get, P!Get, D!ReadConfig, P!ReadConfig
<1>3. D!Proceed => P!Proceed
  BY DEF D!Proceed, P!Proceed, D!Apply, P!Apply, D!SendWriteState, P!SendWriteState,
         D!Truncate, P!Truncate, D!Write, P!Write, D!Reload, P!Reload
<1>4. /\ D!HearHup => P!HearHup
      /\ D!HearTerm => P!HearTerm
      /\ D!SendHup => P!SendHup
      /\ D!SendTerm => P!SendTerm
  BY DEF D!HearHup, P!HearHup, D!HearTerm, P!HearTerm, D!SendHup, P!SendHup, D!SendTerm,
         P!SendTerm
<1>5. /\ D!LoseSignal => P!LoseSignal
      /\ D!Crash => P!Crash
      /\ D!Restart => P!Restart
  BY DEF D!LoseSignal, P!LoseSignal, D!Crash, P!Crash, D!Restart, P!Restart
<1>6. QED
  BY <1>1, <1>2, <1>3, <1>4, <1>5 DEF D!DaemonStep, P!DaemonStep

\* So what is proved about the loop holds in SessionManager.
LEMMA DaemonInvStays ==
    ASSUME SetterTypeOK, P!DaemonInv, [Next]_vars
    PROVE  P!DaemonInv'
<1>1. P!Next \/ UNCHANGED P!vars
  BY StepIsDaemonStep, SameRequest, SameStep
     DEF D!Next, P!Next, SameDaemon, daemonVars, P!vars, P!loopVars, P!clientVars, P!signals
<1>2. QED
  BY <1>1, DaemonAssumed, P!StepInv

LEMMA DaemonInvMeans ==
    /\ P!DaemonInv => D!TypeOK /\ D!AppliedIsState
    /\ D!TypeOK => channel \in Seq(D!Command)
BY DEF P!DaemonInv, P!TypeOK, D!TypeOK, P!AppliedIsState, D!AppliedIsState, P!Command,
       D!Command, P!Set, D!Set, P!Get, D!Get, P!ReadConfig, D!ReadConfig, P!WriteState,
       D!WriteState

-----------------------------------------------------------------------------
(* The channel: behind the question of the setter there is nothing, and    *)
(* before it at most the state that the one before it sent.                *)

NoneOf(type) == \A k \in 1..Len(channel) : channel[k].type # type

InOrder ==
    \A j, k \in 1..Len(channel) : j < k =>
       /\ channel[j].type = "Get" => channel[k].type \notin {"Get", "Set"}
       /\ channel[j].type = "Set" => channel[k].type # "Set"

\* A setter has the interface from its question to the end of its command.
Asking == {"state", "desktop"}

HolderIsAlone ==
    /\ lock \in Setters \cup {None}
    /\ \A c \in Setters :
          IF c = lock THEN step[c] \notin {"idle", "lock"}
          ELSE step[c] \in {"idle", "lock"} /\ call[c] = None

GetsAreHolders ==
    NoneOf("Get") \/ /\ lock \in Setters /\ step[lock] \in Asking
                     /\ call[lock] = None /\ reply[lock] = None
                     /\ \A k \in 1..Len(channel) :
                           channel[k].type = "Get" => channel[k] = D!Get(lock)

SetIsWanted ==
    \A k \in 1..Len(channel) : channel[k].type = "Set" => channel[k] = D!Set(wanted)

\* What the holder knows, wherever it is; what it is sending; and what it has
\* the root daemon write.
HolderKnows(c) ==
    /\ step[c] = "state" => /\ call[c] \in {None, D!Get(c)}
                            /\ reply[c] # None =>
                                  call[c] = None /\ NoneOf("Set") /\ reply[c] = wanted
    /\ step[c] = "desktop" => /\ call[c] \in {None, D!Get(c)}
                              /\ NoneOf("Set") /\ seen[c] = wanted
                              /\ reply[c] # None => call[c] = None /\ reply[c] = wanted
    /\ step[c] \in {"root", "write"} => call[c] = None /\ NoneOf("Set") /\ seen[c] = wanted
    /\ step[c] = "desktop" => request[c].type = "mode" /\ request[c].value = "desktop"
    /\ step[c] = "root" => session[c] = SessionFor(Changed(c))
    /\ step[c] = "sent" => call[c] = None \/ (call[c] = D!Set(wanted) /\ NoneOf("Set"))

\* The state that is to be is in the daemon, in the channel or in the call.
Sending == lock # None /\ step[lock] = "sent" /\ call[lock] # None
StateIsWanted == NoneOf("Set") /\ ~Sending => state = wanted

\* The boot configuration is one step ahead.
BootFollows ==
    ~apart => boot = IF lock # None /\ step[lock] = "write" THEN SessionFor(Changed(lock))
                     ELSE SessionFor(wanted)

SessionInv ==
    /\ P!DaemonInv /\ SetterTypeOK
    /\ HolderIsAlone
    /\ InOrder /\ GetsAreHolders /\ SetIsWanted
    /\ lock # None => HolderKnows(lock)
    /\ StateIsWanted
    /\ BootFollows

LEMMA CommandFacts ==
    /\ \A s : D!Set(s).type = "Set" /\ D!Set(s).state = s
    /\ \A c : D!Get(c).type = "Get" /\ D!Get(c).client = c
    /\ D!WriteState.type = "WriteState" /\ D!ReadConfig.type = "ReadConfig"
    /\ \A c, d : D!Get(c) = D!Get(d) => c = d
    /\ \A s, t : D!Set(s) = D!Set(t) => s = t
<1>1. /\ \A s : D!Set(s).type = "Set" /\ D!Set(s).state = s
      /\ \A c : D!Get(c).type = "Get" /\ D!Get(c).client = c
      /\ D!WriteState.type = "WriteState" /\ D!ReadConfig.type = "ReadConfig"
  BY DEF D!Set, D!Get, D!WriteState, D!ReadConfig
<1>2. QED
  BY <1>1

LEMMA ChannelShrinks ==
    ASSUME channel \in Seq(D!Command), InOrder, channel # <<>>, channel' = Tail(channel)
    PROVE  /\ InOrder'
           /\ \A type : NoneOf(type) => NoneOf(type)'
           /\ Head(channel).type = "Set" => NoneOf("Set")'
           /\ Head(channel).type = "Get" => NoneOf("Set") /\ NoneOf("Get")'
           /\ \A k \in 1..Len(channel') : k + 1 \in 1..Len(channel) /\ channel'[k] = channel[k + 1]
<1>1. \A k \in 1..Len(channel') : k + 1 \in 1..Len(channel) /\ channel'[k] = channel[k + 1]
  OBVIOUS
<1>2. 1 \in 1..Len(channel) /\ Head(channel) = channel[1] /\ Len(channel) \in Nat
  OBVIOUS
<1>3. \A k \in 1..Len(channel') : 1 < k + 1
  OBVIOUS
<1>4. InOrder'
  BY <1>1, <1>2 DEF InOrder
<1>5. \A type : NoneOf(type) => NoneOf(type)'
  BY <1>1 DEF NoneOf
<1>6. Head(channel).type = "Set" => NoneOf("Set")'
  BY <1>1, <1>2, <1>3 DEF InOrder, NoneOf
<1>7. Head(channel).type = "Get" => NoneOf("Set") /\ NoneOf("Get")'
  <2> SUFFICES ASSUME Head(channel).type = "Get" PROVE NoneOf("Set") /\ NoneOf("Get")'
    OBVIOUS
  <2>1. NoneOf("Get")'
    BY <1>1, <1>2, <1>3 DEF InOrder, NoneOf
  <2>2. ASSUME NEW k \in 1..Len(channel) PROVE channel[k].type # "Set"
    <3>1. CASE k = 1
      BY <1>2, <3>1
    <3>2. CASE k # 1
      <4>1. 1 < k
        BY <3>2
      <4>2. QED
        BY <1>2, <4>1 DEF InOrder
    <3>3. QED
      BY <3>1, <3>2
  <2>3. QED
    BY <2>1, <2>2 DEF NoneOf
<1>8. QED
  BY <1>1, <1>4, <1>5, <1>6, <1>7

LEMMA ChannelGrows ==
    ASSUME channel \in Seq(D!Command), InOrder, NEW cmd \in D!Command,
           channel' = Append(channel, cmd),
           cmd.type = "Get" => NoneOf("Get"),
           cmd.type = "Set" => NoneOf("Get") /\ NoneOf("Set")
    PROVE  /\ InOrder'
           /\ \A type : cmd.type # type => (NoneOf(type)' <=> NoneOf(type))
           /\ \A k \in 1..Len(channel') :
                 (k \in 1..Len(channel) /\ channel'[k] = channel[k]) \/ channel'[k] = cmd
<1>1. /\ Len(channel) \in Nat /\ Len(channel') = Len(channel) + 1
      /\ \A k \in 1..Len(channel) : channel'[k] = channel[k]
      /\ channel'[Len(channel) + 1] = cmd
  OBVIOUS
<1>2. \A k \in 1..Len(channel') :
         (k \in 1..Len(channel) /\ channel'[k] = channel[k]) \/ (k = Len(channel) + 1 /\ channel'[k] = cmd)
  BY <1>1
<1>3. \A k \in 1..Len(channel) : k \in 1..Len(channel') /\ channel'[k] = channel[k]
  BY <1>1
<1>4. InOrder'
  <2> SUFFICES ASSUME NEW j \in 1..Len(channel'), NEW k \in 1..Len(channel'), j < k
               PROVE  /\ channel'[j].type = "Get" => channel'[k].type \notin {"Get", "Set"}
                      /\ channel'[j].type = "Set" => channel'[k].type # "Set"
    BY DEF InOrder
  <2>1. j \in 1..Len(channel) /\ channel'[j] = channel[j]
    BY <1>1, <1>2
  <2>2. CASE k \in 1..Len(channel)
    BY <1>1, <2>1, <2>2 DEF InOrder
  <2>3. CASE channel'[k] = cmd
    BY <2>1, <2>3 DEF NoneOf
  <2>4. QED
    BY <1>2, <2>2, <2>3
<1>5. \A type : cmd.type # type => (NoneOf(type)' <=> NoneOf(type))
  BY <1>2, <1>3 DEF NoneOf
<1>6. QED
  BY <1>2, <1>4, <1>5

-----------------------------------------------------------------------------
(* The invariant.                                                          *)

\* All of it but what the theorems about the loop and the types say.
Agreement ==
    /\ HolderIsAlone
    /\ InOrder /\ GetsAreHolders /\ SetIsWanted
    /\ lock # None => HolderKnows(lock)
    /\ StateIsWanted
    /\ BootFollows

LEMMA InitSessionInv == Init => SessionInv
<1> SUFFICES ASSUME Init PROVE SessionInv
  OBVIOUS
<1>1. P!DaemonInv
  BY DaemonAssumed, SameInit, P!InitInv DEF Init
<1>2. SetterTypeOK
  <2>1. state \in SessionStates
    BY <1>1, DaemonInvMeans DEF D!TypeOK
  <2>2. SessionFor(state) \in Sessions /\ Gamescope \in Sessions
    BY <2>1, SessionAssumption DEF SessionFor, DesktopOf, SessionStates, Sessions
  <2>3. \A r \in [type : {"mode"}, value : {"game"}] : r \in Requests
    BY DEF Requests, Modes
  <2>4. QED
    BY <2>1, <2>2, <2>3 DEF Init, SetterTypeOK
<1>3. channel = <<>> /\ lock = None
  BY DEF Init, D!Init
<1>4. NoneOf("Get") /\ NoneOf("Set") /\ InOrder /\ SetIsWanted
  BY <1>3 DEF NoneOf, InOrder, SetIsWanted
<1>5. HolderIsAlone
  BY <1>3, SessionAssumption DEF Init, D!Init, HolderIsAlone
<1>6. StateIsWanted /\ BootFollows
  BY <1>3 DEF Init, StateIsWanted, BootFollows
<1>7. QED
  BY <1>1, <1>2, <1>3, <1>4, <1>5, <1>6 DEF SessionInv, GetsAreHolders

LEMMA NoneIsNoSetter == None \notin Setters
BY SessionAssumption

\* A command of the holder gets into the channel.
LEMMA EnqueueKeeps ==
    ASSUME SessionInv, NEW c \in Setters, D!Enqueue(c), UNCHANGED <<setterVars, boot, ghosts>>
    PROVE  Agreement'
<1>1. /\ call[c] # None /\ channel' = Append(channel, call[c])
      /\ call' = [call EXCEPT ![c] = None]
      /\ UNCHANGED <<state, reply, lock, step, request, seen, session, boot, wanted, apart>>
  BY DEF D!Enqueue, setterVars, ghosts
<1>2. channel \in Seq(D!Command) /\ call[c] \in D!Command /\ call \in [Setters -> D!Command \cup {None}]
  BY <1>1, DaemonInvMeans DEF SessionInv, D!TypeOK
<1>3. c = lock /\ lock # None /\ step[c] \in Asking \cup {"sent"}
  BY <1>1, NoneIsNoSetter DEF SessionInv, HolderIsAlone, HolderKnows, Asking, SetterTypeOK
<1>4. /\ call'[c] = None
      /\ \A d \in Setters : d # c => call'[d] = call[d]
  BY <1>1, <1>2
<1>5. HolderIsAlone'
  BY <1>1, <1>3, <1>4 DEF SessionInv, HolderIsAlone
<1>6. NoneOf("Get")
  BY <1>1, <1>3 DEF SessionInv, GetsAreHolders
<1>7. CASE step[c] \in Asking
  <2>1. call[c] = D!Get(c) /\ reply[c] = None
    BY <1>1, <1>3, <1>7 DEF SessionInv, HolderKnows, Asking
  <2>2. /\ InOrder'
        /\ \A type : type # "Get" => (NoneOf(type)' <=> NoneOf(type))
        /\ \A k \in 1..Len(channel') :
              (k \in 1..Len(channel) /\ channel'[k] = channel[k]) \/ channel'[k] = D!Get(c)
    BY <1>1, <1>2, <1>6, <2>1, CommandFacts, ChannelGrows DEF SessionInv
  <2>3. GetsAreHolders'
    BY <1>1, <1>3, <1>4, <1>6, <1>7, <2>1, <2>2 DEF GetsAreHolders, NoneOf
  <2>4. SetIsWanted'
    BY <1>1, <2>2, CommandFacts DEF SessionInv, SetIsWanted
  <2>5. HolderKnows(lock)'
    BY <1>1, <1>3, <1>4, <1>7, <2>1, <2>2
       DEF SessionInv, HolderKnows, Asking, Changed, With, SessionFor, DesktopOf
  <2>6. StateIsWanted'
    BY <1>1, <1>3, <1>7, <2>2 DEF SessionInv, StateIsWanted, Sending, Asking
  <2>7. BootFollows'
    BY <1>1 DEF SessionInv, BootFollows, Changed, With, SessionFor, DesktopOf
  <2>8. QED
    BY <1>5, <2>2, <2>3, <2>4, <2>5, <2>6, <2>7 DEF Agreement
<1>8. CASE step[c] = "sent"
  <2>1. call[c] = D!Set(wanted) /\ NoneOf("Set")
    BY <1>1, <1>3, <1>8 DEF SessionInv, HolderKnows
  <2>2. /\ InOrder'
        /\ \A type : type # "Set" => (NoneOf(type)' <=> NoneOf(type))
        /\ \A k \in 1..Len(channel') :
              (k \in 1..Len(channel) /\ channel'[k] = channel[k]) \/ channel'[k] = D!Set(wanted)
    BY <1>1, <1>2, <1>6, <2>1, CommandFacts, ChannelGrows DEF SessionInv
  <2>3. GetsAreHolders'
    BY <1>6, <2>2 DEF GetsAreHolders
  <2>4. SetIsWanted'
    BY <1>1, <2>2 DEF SessionInv, SetIsWanted
  <2>5. HolderKnows(lock)'
    BY <1>1, <1>3, <1>4, <1>8 DEF HolderKnows
  <2>6. ~NoneOf("Set")'
    <3>1. Len(channel') \in 1..Len(channel') /\ channel'[Len(channel')] = D!Set(wanted)
      BY <1>1, <1>2, <2>1
    <3>2. QED
      BY <3>1, CommandFacts DEF NoneOf
  <2>7. BootFollows'
    BY <1>1 DEF SessionInv, BootFollows, Changed, With, SessionFor, DesktopOf
  <2>8. QED
    BY <1>5, <2>2, <2>3, <2>4, <2>5, <2>6, <2>7 DEF Agreement, StateIsWanted
<1>9. QED
  BY <1>3, <1>7, <1>8

\* The loop takes the next command.
LEMMA HandleKeepsAgreement ==
    ASSUME SessionInv, D!Handle, UNCHANGED <<setterVars, boot, ghosts>>
    PROVE  Agreement'
<1>1. /\ channel # <<>> /\ channel' = Tail(channel) /\ loop = "select"
      /\ call' = call
      /\ UNCHANGED <<lock, step, request, seen, session, boot, wanted, apart>>
  BY DEF D!Handle, D!HandleSet, D!HandleGet, D!HandleWriteState, D!HandleReadConfig, D!Take,
         D!clientVars, setterVars, ghosts
<1>2. channel \in Seq(D!Command) /\ reply \in [Setters -> SessionStates \cup {None}]
  BY DaemonInvMeans DEF SessionInv, D!TypeOK
<1>3. /\ InOrder'
      /\ \A type : NoneOf(type) => NoneOf(type)'
      /\ Head(channel).type = "Set" => NoneOf("Set")'
      /\ Head(channel).type = "Get" => NoneOf("Set") /\ NoneOf("Get")'
      /\ \A k \in 1..Len(channel') : k + 1 \in 1..Len(channel) /\ channel'[k] = channel[k + 1]
  BY <1>1, <1>2, ChannelShrinks DEF SessionInv
<1>4. 1 \in 1..Len(channel) /\ Head(channel) = channel[1]
  BY <1>1, <1>2
<1>5. HolderIsAlone' /\ SetIsWanted'
  BY <1>1, <1>3 DEF SessionInv, HolderIsAlone, SetIsWanted
<1>6. BootFollows'
  BY <1>1 DEF SessionInv, BootFollows, Changed, With, SessionFor, DesktopOf
<1>7. ASSUME reply' = reply PROVE GetsAreHolders' /\ (lock # None => HolderKnows(lock)')
  BY <1>1, <1>3, <1>7
     DEF SessionInv, GetsAreHolders, HolderKnows, Changed, With, SessionFor, DesktopOf
<1>8. ASSUME NEW s \in SessionStates, D!HandleSet(s) PROVE Agreement'
  <2>1. Head(channel) = D!Set(s) /\ state' = s /\ reply' = reply
    BY <1>8 DEF D!HandleSet, D!Take, D!clientVars
  <2>2. s = wanted
    BY <1>4, <2>1, CommandFacts DEF SessionInv, SetIsWanted
  <2>3. QED
    BY <1>1, <1>3, <1>5, <1>6, <1>7, <2>1, <2>2 DEF Agreement, StateIsWanted
<1>9. ASSUME NEW c \in Setters, D!HandleGet(c) PROVE Agreement'
  <2>1. Head(channel) = D!Get(c) /\ state' = state /\ reply' = [reply EXCEPT ![c] = applied]
    BY <1>9 DEF D!HandleGet, D!Take
  <2>2. /\ NoneOf("Set") /\ NoneOf("Get")'
        /\ lock = c /\ step[c] \in Asking /\ call[c] = None
    BY <1>3, <1>4, <2>1, CommandFacts DEF SessionInv, GetsAreHolders, NoneOf
  <2>3. applied = wanted
    BY <1>1, <2>2, DaemonInvMeans DEF SessionInv, StateIsWanted, Sending, Asking,
       D!AppliedIsState
  <2>4. reply'[c] = wanted
    BY <1>2, <2>1, <2>3
  <2>5. HolderKnows(lock)'
    BY <1>1, <1>3, <2>2, <2>4, NoneIsNoSetter DEF SessionInv, HolderKnows, Asking
  <2>6. StateIsWanted'
    BY <1>1, <2>1, <2>2 DEF SessionInv, StateIsWanted, Sending, Asking
  <2>7. QED
    BY <1>3, <1>5, <1>6, <2>2, <2>5, <2>6 DEF Agreement, GetsAreHolders
<1>10. CASE D!HandleWriteState \/ D!HandleReadConfig
  <2>1. state' = state /\ reply' = reply
    BY <1>10 DEF D!HandleWriteState, D!HandleReadConfig, D!clientVars
  <2>2. Head(channel).type # "Set"
    BY <1>10, CommandFacts DEF D!HandleWriteState, D!HandleReadConfig, D!Take
  <2>3. NoneOf("Set")' => NoneOf("Set")
    <3>1. ASSUME NoneOf("Set")', NEW k \in 1..Len(channel) PROVE channel[k].type # "Set"
      <4>1. CASE k = 1
        BY <1>4, <2>2, <4>1
      <4>2. CASE k # 1
        <5>1. k - 1 \in 1..Len(channel') /\ channel'[k - 1] = channel[k]
          BY <1>1, <1>2, <4>2
        <5>2. QED
          BY <3>1, <5>1 DEF NoneOf
      <4>3. QED
        BY <4>1, <4>2
    <3>2. QED
      BY <3>1 DEF NoneOf
  <2>4. StateIsWanted'
    BY <1>1, <2>1, <2>3 DEF SessionInv, StateIsWanted, Sending
  <2>5. QED
    BY <1>3, <1>5, <1>6, <1>7, <1>1, <2>1, <2>4 DEF Agreement
<1>11. QED
  BY <1>8, <1>9, <1>10 DEF D!Handle

\* What else the loop does, and the signals.
LEMMA LoopKeepsAgreement ==
    ASSUME SessionInv,
           D!Proceed \/ D!SendTerm \/ D!HearTerm \/ D!LoseSignal \/ D!Crash,
           UNCHANGED <<setterVars, boot, ghosts>>
    PROVE  Agreement'
<1>1. /\ UNCHANGED <<state, call, reply, lock, step, request, seen, session, boot, wanted, apart>>
      /\ channel' = channel \/ channel' = Append(channel, D!WriteState)
  BY DEF D!Proceed, D!Apply, D!SendWriteState, D!Truncate, D!Write, D!Reload, D!SendTerm,
         D!HearTerm, D!LoseSignal, D!Crash, D!clientVars, D!loopVars, setterVars, ghosts
<1>2. /\ InOrder'
      /\ NoneOf("Get")' <=> NoneOf("Get")
      /\ NoneOf("Set")' <=> NoneOf("Set")
      /\ \A k \in 1..Len(channel') :
            (k \in 1..Len(channel) /\ channel'[k] = channel[k]) \/ channel'[k] = D!WriteState
  <2>1. CASE channel' = channel
    BY <2>1 DEF SessionInv, InOrder, NoneOf
  <2>2. CASE channel' = Append(channel, D!WriteState)
    <3>1. channel \in Seq(D!Command) /\ D!WriteState \in D!Command
      BY DaemonInvMeans DEF SessionInv, D!Command
    <3>2. QED
      BY <2>2, <3>1, CommandFacts, ChannelGrows DEF SessionInv
  <2>3. QED
    BY <1>1, <2>1, <2>2
<1>3. HolderIsAlone' /\ SetIsWanted' /\ GetsAreHolders'
  BY <1>1, <1>2, CommandFacts DEF SessionInv, HolderIsAlone, SetIsWanted, GetsAreHolders
<1>4. lock # None => HolderKnows(lock)'
  BY <1>1, <1>2 DEF SessionInv, HolderKnows, Changed, With, SessionFor, DesktopOf
<1>5. StateIsWanted' /\ BootFollows'
  BY <1>1, <1>2
     DEF SessionInv, StateIsWanted, Sending, BootFollows, Changed, With, SessionFor, DesktopOf
<1>6. QED
  BY <1>1, <1>2, <1>3, <1>4, <1>5 DEF Agreement

\* Only the channel, the state and the answers of a daemon count here.
LEMMA ChannelStays ==
    ASSUME SessionInv, UNCHANGED channel
    PROVE  /\ InOrder' /\ \A type : NoneOf(type)' <=> NoneOf(type)
           /\ wanted' = wanted => SetIsWanted'
BY DEF SessionInv, InOrder, NoneOf, SetIsWanted

LEMMA SetterKeepsTypes ==
    ASSUME SessionInv, NEW c \in Setters,
           SetterStep(c) \/ \E r \in Requests : CallSetter(c, r)
    PROVE  SetterTypeOK'
<1>1. /\ SetterTypeOK /\ reply \in [Setters -> SessionStates \cup {None}]
      /\ Changed(c) \in SessionStates
  BY DaemonInvMeans, ChangedType DEF SessionInv, D!TypeOK
<1>2. step' \in [Setters -> {"idle", "lock", "state", "desktop", "root", "write", "sent"}]
  BY <1>1 DEF SetterStep, CallSetter, GetState, GotState, GotDesktop, SetDefaultSession,
              SendState, Done, Goto, SetterTypeOK
<1>3. request' \in [Setters -> Requests]
  BY <1>1 DEF SetterStep, CallSetter, GetState, GotState, GotDesktop, SetDefaultSession,
              SendState, Done, SetterTypeOK
<1>4. seen' \in [Setters -> SessionStates]
  BY <1>1 DEF SetterStep, CallSetter, GetState, GotState, GotDesktop, SetDefaultSession,
              SendState, Done, SetterTypeOK
<1>5. session' \in [Setters -> Sessions]
  <2>1. CASE GotState(c)
    <3>1. Gamescope \in Sessions
      BY DEF Sessions
    <3>2. request[c].type = "desktop" => request[c].value \in Sessions
      BY <1>1 DEF SetterTypeOK, Requests, Sessions
    <3>3. QED
      BY <1>1, <2>1, <3>1, <3>2 DEF GotState, SetterTypeOK
  <2>2. CASE GotDesktop(c)
    <3>1. reply[c] \in SessionStates
      BY <1>1, <2>2 DEF GotDesktop
    <3>2. DesktopOf(reply[c]) \in Sessions
      BY <3>1, SessionAssumption DEF DesktopOf, SessionStates, Sessions
    <3>3. QED
      BY <1>1, <2>2, <3>2 DEF GotDesktop, SetterTypeOK
  <2>3. QED
    BY <1>1, <2>1, <2>2 DEF SetterStep, CallSetter, GetState, SetDefaultSession, SendState, Done,
                            SetterTypeOK
<1>6. boot' \in Sessions /\ wanted' \in SessionStates
  BY <1>1, ChangedType DEF SetterStep, CallSetter, GetState, GotState, GotDesktop,
              SetDefaultSession, SendState, Done, ghosts, SetterTypeOK
<1>7. QED
  BY <1>2, <1>3, <1>4, <1>5, <1>6 DEF SetterTypeOK

\* A setter asks for the interface, and gets it when nobody has it.
LEMMA BeginKeeps ==
    ASSUME SessionInv, NEW c \in Setters, GetState(c) \/ \E r \in Requests : CallSetter(c, r)
    PROVE  Agreement'
<1>1. SetterTypeOK /\ call \in [Setters -> D!Command \cup {None}] /\
      reply \in [Setters -> SessionStates \cup {None}]
  BY DaemonInvMeans DEF SessionInv, D!TypeOK
<1>2. UNCHANGED <<channel, state, seen, session, boot, wanted, apart>>
  BY DEF GetState, CallSetter, D!Submit, D!loopVars, daemonVars, ghosts
<1>3. InOrder' /\ SetIsWanted' /\ (NoneOf("Get")' <=> NoneOf("Get")) /\ (NoneOf("Set")' <=> NoneOf("Set"))
  BY <1>2, ChannelStays
<1>4. CASE GetState(c)
  <2>1. /\ lock = None /\ lock' = c /\ step' = [step EXCEPT ![c] = "state"]
        /\ call' = [call EXCEPT ![c] = D!Get(c)] /\ reply' = [reply EXCEPT ![c] = None]
        /\ UNCHANGED request
    BY <1>4 DEF GetState, D!Submit, Goto
  <2>2. /\ step'[c] = "state" /\ call'[c] = D!Get(c) /\ reply'[c] = None
        /\ \A d \in Setters : d # c => step'[d] = step[d] /\ call'[d] = call[d]
    BY <1>1, <2>1 DEF SetterTypeOK
  <2>3. HolderIsAlone'
    BY <2>1, <2>2, NoneIsNoSetter DEF SessionInv, HolderIsAlone
  <2>4. NoneOf("Get")
    BY <2>1, NoneIsNoSetter DEF SessionInv, GetsAreHolders
  <2>5. HolderKnows(lock)'
    BY <2>1, <2>2 DEF HolderKnows
  <2>6. StateIsWanted' /\ BootFollows'
    BY <1>2, <1>3, <2>1, <2>2 DEF SessionInv, StateIsWanted, Sending, BootFollows, SessionFor,
       DesktopOf
  <2>7. QED
    BY <1>3, <2>3, <2>4, <2>5, <2>6 DEF Agreement, GetsAreHolders
<1>5. ASSUME NEW r \in Requests, CallSetter(c, r) PROVE Agreement'
  <2>1. /\ step[c] = "idle" /\ step' = [step EXCEPT ![c] = "lock"]
        /\ request' = [request EXCEPT ![c] = r] /\ UNCHANGED <<call, reply, lock>>
    BY <1>5 DEF CallSetter, Goto, daemonVars
  <2>2. c # lock
    BY <2>1 DEF SessionInv, HolderIsAlone
  <2>3. /\ step'[c] = "lock"
        /\ \A d \in Setters : d # c => step'[d] = step[d] /\ request'[d] = request[d]
    BY <1>1, <2>1 DEF SetterTypeOK
  <2>4. lock # None => step'[lock] = step[lock] /\ request'[lock] = request[lock]
    BY <2>2, <2>3 DEF SessionInv, HolderIsAlone
  <2>5. HolderIsAlone'
    BY <2>1, <2>2, <2>3 DEF SessionInv, HolderIsAlone
  <2>6. GetsAreHolders'
    BY <1>2, <1>3, <2>1, <2>4, NoneIsNoSetter DEF SessionInv, GetsAreHolders
  <2>7. lock # None => HolderKnows(lock)'
    BY <1>2, <1>3, <2>1, <2>4 DEF SessionInv, HolderKnows, Changed, With, SessionFor, DesktopOf
  <2>8. StateIsWanted' /\ BootFollows'
    BY <1>2, <1>3, <2>1, <2>4
       DEF SessionInv, StateIsWanted, Sending, BootFollows, Changed, With, SessionFor, DesktopOf
  <2>9. QED
    BY <1>3, <2>1, <2>5, <2>6, <2>7, <2>8 DEF Agreement
<1>6. QED
  BY <1>4, <1>5

\* The session it has the root daemon write is the one of what it will send.
LEMMA SessionIsForChanged ==
    ASSUME SetterTypeOK, NEW c \in Setters
    PROVE  /\ request[c].type = "mode" /\ request[c].value = "game" =>
                 SessionFor(Changed(c)) = Gamescope
           /\ request[c].type = "mode" /\ request[c].value = "desktop" =>
                 SessionFor(Changed(c)) = DesktopOf(seen[c])
           /\ request[c].type = "desktop" =>
                 SessionFor(Changed(c)) = IF seen[c].mode = "desktop" THEN request[c].value
                                          ELSE SessionFor(seen[c])
<1>1. request[c] \in Requests /\ seen[c] \in SessionStates
  BY DEF SetterTypeOK
<1>2. /\ request[c].type \in {"mode", "desktop"}
      /\ request[c].type = "desktop" => request[c].value \in Desktops /\ request[c].value # None
      /\ seen[c].mode \in Modes
  BY <1>1, SessionAssumption DEF Requests, SessionStates, Sessions
<1>3. QED
  BY <1>1, <1>2 DEF Changed, With, SessionFor, DesktopOf, SessionStates, Modes

\* The same after a step.
LEMMA SessionIsForChanged2 ==
    ASSUME SetterTypeOK', NEW c \in Setters
    PROVE  /\ request'[c].type = "mode" /\ request'[c].value = "game" =>
                 SessionFor(Changed(c))' = Gamescope
           /\ request'[c].type = "desktop" =>
                 SessionFor(Changed(c))' = IF seen'[c].mode = "desktop" THEN request'[c].value
                                           ELSE SessionFor(seen[c])'
<1>1. request'[c] \in Requests /\ seen'[c] \in SessionStates
  BY DEF SetterTypeOK
<1>2. /\ request'[c].type \in {"mode", "desktop"}
      /\ request'[c].type = "desktop" => request'[c].value \in Desktops /\ request'[c].value # None
      /\ seen'[c].mode \in Modes
  BY <1>1, SessionAssumption DEF Requests, SessionStates, Sessions
<1>3. QED
  BY <1>1, <1>2 DEF Changed, With, SessionFor, DesktopOf, SessionStates, Modes

\* The holder goes on.
LEMMA HolderKeeps ==
    ASSUME SessionInv, NEW c \in Setters,
           GotState(c) \/ GotDesktop(c) \/ SetDefaultSession(c) \/ SendState(c) \/ Done(c)
    PROVE  Agreement'
<1>1. /\ SetterTypeOK /\ call \in [Setters -> D!Command \cup {None}]
      /\ reply \in [Setters -> SessionStates \cup {None}]
  BY DaemonInvMeans DEF SessionInv, D!TypeOK
<1>2. c = lock /\ lock # None /\ HolderKnows(c)
  BY NoneIsNoSetter DEF SessionInv, HolderIsAlone, GotState, GotDesktop, SetDefaultSession,
     SendState, Done
<1>3. UNCHANGED <<channel, state, request, apart>>
  BY DEF GotState, GotDesktop, SetDefaultSession, SendState, Done, D!Submit, D!loopVars,
         daemonVars, ghosts
<1>4. InOrder' /\ (NoneOf("Get")' <=> NoneOf("Get")) /\ (NoneOf("Set")' <=> NoneOf("Set"))
  BY <1>3, ChannelStays
<1>5. wanted' = wanted \/ NoneOf("Set") => SetIsWanted'
  BY <1>3, <1>4, ChannelStays DEF SetIsWanted, NoneOf
<1>6. step' = [step EXCEPT ![c] = step'[c]] /\ \A d \in Setters : d # c => step'[d] = step[d]
  BY <1>1 DEF GotState, GotDesktop, SetDefaultSession, SendState, Done, Goto, SetterTypeOK
<1>7. \A d \in Setters : d # c => call'[d] = call[d]
  BY <1>1 DEF GotState, GotDesktop, SetDefaultSession, SendState, Done, D!Submit, daemonVars
<1>8. CASE GotState(c)
  <2>1. /\ step[c] = "state" /\ reply[c] = wanted /\ call[c] = None /\ NoneOf("Set")
        /\ UNCHANGED <<lock, boot, wanted>> /\ seen' = [seen EXCEPT ![c] = reply[c]]
    BY <1>2, <1>8 DEF GotState, HolderKnows, ghosts
  <2>2. seen'[c] = wanted /\ NoneOf("Get")
    BY <1>1, <1>8, <1>2, <2>1 DEF SetterTypeOK, GotState, SessionInv, GetsAreHolders
  <2>3. SetterTypeOK'
    BY <1>8, SetterKeepsTypes DEF SetterStep
  <2>4. StateIsWanted /\ ~Sending /\ state = wanted
    BY <1>2, <2>1 DEF SessionInv, StateIsWanted, Sending
  <2>5. ~apart => boot = SessionFor(wanted)
    BY <1>2, <2>1 DEF SessionInv, BootFollows
  <2>6. CASE request[c] = [type |-> "mode", value |-> "desktop"]
    <3>1. /\ step'[c] = "desktop" /\ call'[c] = D!Get(c) /\ reply'[c] = None
          /\ UNCHANGED session
      BY <1>1, <1>8, <2>6 DEF GotState, D!Submit, Goto, SetterTypeOK
    <3>2. HolderKnows(lock)'
      BY <1>2, <1>3, <1>4, <2>1, <2>2, <2>6, <3>1 DEF HolderKnows
    <3>3. HolderIsAlone'
      BY <1>2, <1>6, <1>7, <2>1, <3>1 DEF SessionInv, HolderIsAlone
    <3>4. StateIsWanted' /\ BootFollows'
      BY <1>2, <1>3, <2>1, <2>4, <2>5, <3>1 DEF StateIsWanted, Sending, BootFollows, SessionFor,
         DesktopOf
    <3>5. QED
      BY <1>4, <1>5, <2>1, <2>2, <3>2, <3>3, <3>4 DEF Agreement, GetsAreHolders
  <2>7. CASE request[c] # [type |-> "mode", value |-> "desktop"]
    <3>1. /\ UNCHANGED <<call, reply>>
          /\ \/ /\ request[c] = [type |-> "mode", value |-> "game"]
                /\ session'[c] = Gamescope /\ step'[c] = "root"
             \/ /\ request[c].type = "desktop" /\ session'[c] = request[c].value
                /\ step'[c] = IF seen'[c].mode = "desktop" THEN "root" ELSE "write"
      BY <1>1, <1>8, <2>1, <2>2, <2>7 DEF GotState, Goto, SetterTypeOK, daemonVars
    <3>2. /\ request'[c].type = "mode" /\ request'[c].value = "game" =>
                 SessionFor(Changed(c))' = Gamescope
          /\ request'[c].type = "desktop" =>
                 SessionFor(Changed(c))' = IF seen'[c].mode = "desktop" THEN request'[c].value
                                           ELSE SessionFor(seen'[c])
      <4>1. SessionFor(seen[c])' = SessionFor(seen'[c])
        BY DEF SessionFor, DesktopOf
      <4>2. QED
        BY <2>3, <4>1, SessionIsForChanged2
    <3>3. step'[c] = "root" => session'[c] = SessionFor(Changed(c))'
      BY <1>3, <3>1, <3>2
    <3>4. step'[c] = "write" => SessionFor(Changed(c))' = SessionFor(wanted)
      BY <1>3, <2>2, <3>1, <3>2
    <3>5. HolderKnows(lock)'
      BY <1>2, <1>4, <2>1, <2>2, <3>1, <3>3 DEF HolderKnows
    <3>6. HolderIsAlone'
      BY <1>2, <1>6, <1>7, <2>1, <3>1 DEF SessionInv, HolderIsAlone
    <3>7. StateIsWanted'
      BY <1>3, <2>1, <2>4 DEF StateIsWanted
    <3>8. BootFollows'
      BY <1>2, <1>3, <2>1, <2>5, <3>1, <3>4 DEF BootFollows, SessionFor, DesktopOf
    <3>9. QED
      BY <1>4, <1>5, <2>1, <2>2, <3>5, <3>6, <3>7, <3>8 DEF Agreement, GetsAreHolders
  <2>8. QED
    BY <2>6, <2>7
<1>9. CASE GotDesktop(c)
  <2>1. /\ step[c] = "desktop" /\ reply[c] = wanted /\ call[c] = None /\ NoneOf("Set")
        /\ seen[c] = wanted /\ request[c].type = "mode" /\ request[c].value = "desktop"
        /\ UNCHANGED <<lock, boot, wanted, seen, call, reply>>
    BY <1>2, <1>9 DEF GotDesktop, HolderKnows, ghosts, daemonVars
  <2>2. step'[c] = "root" /\ session'[c] = DesktopOf(reply[c])
    BY <1>1, <1>9 DEF GotDesktop, Goto, SetterTypeOK
  <2>3. NoneOf("Get")
    BY <1>2, <1>9, <2>1 DEF SessionInv, GetsAreHolders, GotDesktop
  <2>4. session'[c] = SessionFor(Changed(c))'
    <3>1. SessionFor(Changed(c))' = SessionFor(Changed(c))
      BY <1>3, <2>1 DEF SessionFor, Changed, With, DesktopOf
    <3>2. QED
      BY <1>1, <2>1, <2>2, <3>1, SessionIsForChanged
  <2>5. HolderKnows(lock)' /\ HolderIsAlone'
    BY <1>2, <1>4, <1>6, <2>1, <2>2, <2>4 DEF HolderKnows, SessionInv, HolderIsAlone
  <2>6. StateIsWanted' /\ BootFollows'
    BY <1>2, <1>3, <1>4, <2>1, <2>2
       DEF SessionInv, StateIsWanted, Sending, BootFollows, SessionFor, DesktopOf
  <2>7. QED
    BY <1>4, <1>5, <2>1, <2>3, <2>5, <2>6 DEF Agreement, GetsAreHolders
<1>10. CASE SetDefaultSession(c)
  <2>1. /\ step[c] = "root" /\ call[c] = None /\ NoneOf("Set") /\ seen[c] = wanted
        /\ session[c] = SessionFor(Changed(c))
        /\ UNCHANGED <<wanted, seen, session, call, reply>>
    BY <1>2, <1>10 DEF SetDefaultSession, HolderKnows, ghosts, daemonVars
  <2>2. SessionFor(Changed(c))' = SessionFor(Changed(c)) /\ SessionFor(wanted)' = SessionFor(wanted)
    BY <1>3, <2>1 DEF SessionFor, Changed, With, DesktopOf
  <2>3. NoneOf("Get")
    BY <1>2, <2>1 DEF SessionInv, GetsAreHolders, Asking
  <2>4. ~Sending /\ state = wanted /\ (~apart => boot = SessionFor(wanted))
    BY <1>2, <2>1 DEF SessionInv, StateIsWanted, Sending, BootFollows
  <2>5. \/ step'[c] = "write" /\ boot' = session[c] /\ lock' = lock
        \/ step'[c] = "idle" /\ boot' = boot /\ lock' = None
    BY <1>1, <1>10 DEF SetDefaultSession, Goto, SetterTypeOK
  <2>6. HolderIsAlone' /\ (lock' # None => HolderKnows(lock)')
    BY <1>2, <1>4, <1>6, <2>1, <2>5, NoneIsNoSetter DEF HolderKnows, SessionInv, HolderIsAlone
  <2>7. StateIsWanted' /\ BootFollows'
    BY <1>2, <1>3, <2>1, <2>2, <2>4, <2>5 DEF StateIsWanted, BootFollows
  <2>8. QED
    BY <1>4, <1>5, <2>1, <2>3, <2>6, <2>7 DEF Agreement, GetsAreHolders
<1>11. CASE SendState(c)
  <2>1. /\ step[c] = "write" /\ call[c] = None /\ NoneOf("Set")
        /\ UNCHANGED <<lock, boot, seen, session>> /\ wanted' = Changed(c)
    BY <1>2, <1>11 DEF SendState, HolderKnows, Changed
  <2>2. step'[c] = "sent" /\ call'[c] = D!Set(Changed(c))
    BY <1>1, <1>11 DEF SendState, D!Submit, Goto, SetterTypeOK
  <2>3. NoneOf("Get")
    BY <1>2, <2>1 DEF SessionInv, GetsAreHolders, Asking
  <2>4. D!Set(wanted)' = D!Set(Changed(c)) /\ call'[c] # None
    <3>1. D!Set(wanted)' = D!Set(Changed(c))
      BY <2>1 DEF D!Set
    <3>2. D!Set(Changed(c)) # None
      BY <1>1, ChangedType, NoneIsNoCommand DEF D!Command
    <3>3. QED
      BY <2>2, <3>1, <3>2
  <2>5. HolderIsAlone' /\ HolderKnows(lock)'
    BY <1>2, <1>4, <1>6, <1>7, <2>1, <2>2, <2>4 DEF HolderKnows, SessionInv, HolderIsAlone
  <2>6. StateIsWanted'
    BY <1>2, <2>1, <2>2, <2>4 DEF StateIsWanted, Sending
  <2>7. BootFollows'
    BY <1>2, <1>3, <2>1, <2>2 DEF SessionInv, BootFollows, SessionFor, DesktopOf
  <2>8. QED
    BY <1>2, <1>4, <1>5, <2>1, <2>3, <2>5, <2>6, <2>7 DEF Agreement, GetsAreHolders
<1>12. CASE Done(c)
  <2>1. /\ step[c] = "sent" /\ call[c] = None /\ lock' = None
        /\ UNCHANGED <<wanted, seen, session, boot, call, reply>>
    BY <1>2, <1>12 DEF Done, ghosts, daemonVars
  <2>2. step'[c] = "idle"
    BY <1>1, <1>12 DEF Done, Goto, SetterTypeOK
  <2>3. NoneOf("Get")
    BY <1>2, <2>1 DEF SessionInv, GetsAreHolders, Asking
  <2>4. HolderIsAlone'
    BY <1>2, <1>6, <2>1, <2>2, NoneIsNoSetter DEF SessionInv, HolderIsAlone
  <2>5. StateIsWanted' /\ BootFollows'
    BY <1>2, <1>3, <1>4, <2>1
       DEF SessionInv, StateIsWanted, Sending, BootFollows, SessionFor, DesktopOf
  <2>6. QED
    BY <1>4, <1>5, <2>1, <2>3, <2>4, <2>5 DEF Agreement, GetsAreHolders
<1>13. QED
  BY <1>8, <1>9, <1>10, <1>11, <1>12

\* The daemon starts, with what its file says and without its setters.
LEMMA RestartKeepsSession ==
    ASSUME SessionInv, DaemonRestarts, state' \in SessionStates
    PROVE  Agreement' /\ SetterTypeOK'
<1>1. /\ channel' = <<>> /\ call' = [c \in Setters |-> None] /\ lock' = None
      /\ step' = [c \in Setters |-> "idle"] /\ wanted' = state'
      /\ apart' = (boot # SessionFor(state')) /\ UNCHANGED <<request, seen, session, boot>>
  BY DEF DaemonRestarts, D!Restart
<1>2. NoneOf("Get")' /\ NoneOf("Set")' /\ InOrder' /\ SetIsWanted'
  BY <1>1 DEF NoneOf, InOrder, SetIsWanted
<1>3. HolderIsAlone' /\ StateIsWanted'
  BY <1>1, NoneIsNoSetter DEF HolderIsAlone, StateIsWanted
<1>4. BootFollows'
  <2>1. SessionFor(wanted)' = SessionFor(state')
    BY <1>1 DEF SessionFor, DesktopOf
  <2>2. QED
    BY <1>1, <2>1 DEF BootFollows
<1>5. SetterTypeOK'
  BY <1>1 DEF SessionInv, SetterTypeOK
<1>6. QED
  BY <1>1, <1>2, <1>3, <1>4, <1>5 DEF Agreement, GetsAreHolders

LEMMA SessionStepInv == SessionInv /\ [Next]_vars => SessionInv'
<1> SUFFICES ASSUME SessionInv, [Next]_vars PROVE SessionInv'
  OBVIOUS
<1>1. P!DaemonInv'
  BY DaemonInvStays DEF SessionInv
<1>2. CASE DaemonRuns
  <2>1. Agreement'
    BY <1>2, EnqueueKeeps, HandleKeepsAgreement, LoopKeepsAgreement DEF DaemonRuns
  <2>2. SetterTypeOK'
    BY <1>2 DEF DaemonRuns, setterVars, ghosts, SessionInv, SetterTypeOK
  <2>3. QED
    BY <1>1, <2>1, <2>2 DEF SessionInv, Agreement
<1>3. CASE DaemonRestarts
  <2>1. state' \in SessionStates
    BY <1>1 DEF P!DaemonInv, P!TypeOK
  <2>2. QED
    BY <1>1, <1>3, <2>1, RestartKeepsSession DEF SessionInv, Agreement
<1>4. ASSUME NEW c \in Setters, SetterStep(c) \/ \E r \in Requests : CallSetter(c, r)
      PROVE  SessionInv'
  <2>1. Agreement'
    BY <1>4, BeginKeeps, HolderKeeps DEF SetterStep
  <2>2. QED
    BY <1>1, <1>4, <2>1, SetterKeepsTypes DEF SessionInv, Agreement
<1>5. CASE UNCHANGED vars
  BY <1>1, <1>5 DEF vars, daemonVars, setterVars, ghosts, SessionInv, SetterTypeOK, HolderIsAlone,
     InOrder, GetsAreHolders, SetIsWanted, HolderKnows, StateIsWanted, Sending, BootFollows,
     NoneOf, Changed, With, SessionFor, DesktopOf
<1>6. QED
  BY <1>2, <1>3, <1>4, <1>5 DEF Next

\* The invariant holds in every state of SessionManager.
THEOREM SessionInvariant == Spec => []SessionInv
BY InitSessionInv, SessionStepInv, PTL DEF Spec

\* What the setters talk to is the loop of Daemon.
THEOREM SessionRunsDaemon == Spec => D!Spec
<1>1. Init => D!Init
  BY DEF Init
<1>2. SessionInv /\ [Next]_vars => [D!Next]_(D!vars)
  BY StepIsDaemonStep DEF SessionInv, SameDaemon, daemonVars, D!vars, D!loopVars, D!clientVars,
     D!signals
<1>3. QED
  BY <1>1, <1>2, SessionInvariant, PTL DEF Spec, D!Spec

\* No setter undoes what another one set.
THEOREM NoUpdateIsLost == Spec => []NoUpdateLost
<1>1. SessionInv => NoUpdateLost
  <2> SUFFICES ASSUME SessionInv, Settled PROVE state = wanted
    BY DEF NoUpdateLost
  <2>1. lock = None
    BY DEF SessionInv, Settled, HolderIsAlone
  <2>2. NoneOf("Set")
    <3>1. ASSUME NEW k \in 1..Len(channel), channel[k].type = "Set" PROVE FALSE
      <4>1. channel[k] = D!Set(wanted) /\ wanted \in SessionStates
        BY <3>1 DEF SessionInv, SetIsWanted, SetterTypeOK
      <4>2. channel \in Seq(D!Command)
        BY DaemonInvMeans DEF SessionInv
      <4>3. QED
        BY <4>1, <4>2 DEF Settled, D!Has
    <3>2. QED
      BY <3>1 DEF NoneOf
  <2>3. QED
    BY <2>1, <2>2 DEF SessionInv, StateIsWanted, Sending
<1>2. QED
  BY <1>1, SessionInvariant, PTL

\* The login mode that is shown is the one the system boots into.
THEOREM StateIsAlwaysBoots == Spec => []StateIsBoots
<1>1. SessionInv /\ NoUpdateLost => StateIsBoots
  BY DEF SessionInv, NoUpdateLost, StateIsBoots, Settled, BootFollows, HolderIsAlone
<1>2. QED
  BY <1>1, SessionInvariant, NoUpdateIsLost, PTL

-----------------------------------------------------------------------------
(* Room in the channel. Whatever the number of setters, a second place is   *)
(* enough: while the loop owes a WriteState, there is at most one question. *)

\* A WriteState is ahead of the next Set.
SavesGoFirst ==
    \A j, k \in 1..Len(channel) :
        j < k /\ channel[j].type = "Set" => channel[k].type # "WriteState"

\* The holder is behind the loop: it has not been answered since the Set that
\* the loop is busy with, or that Set is its own.
HolderIsBehind ==
    lock # None => \/ step[lock] = "state" /\ reply[lock] = None
                   \/ step[lock] = "sent" /\ call[lock] = None

SaveIsOwed == loop \in {"apply", "send"}

RoomInv ==
    /\ NoneOf("ReadConfig")
    /\ SavesGoFirst
    /\ SaveIsOwed => NoneOf("Set") /\ NoneOf("WriteState") /\ HolderIsBehind

LEMMA InitRoom == Init => RoomInv
<1> SUFFICES ASSUME Init PROVE RoomInv
  OBVIOUS
<1>1. channel = <<>> /\ loop = "select"
  BY DEF Init, D!Init
<1>2. QED
  BY <1>1 DEF RoomInv, NoneOf, SavesGoFirst, SaveIsOwed

\* What is put at the end: a question, the state of a setter, or the WriteState
\* of a loop that has taken every Set.
LEMMA RoomAtTheEnd ==
    ASSUME SessionInv, RoomInv, NEW cmd \in D!Command, channel' = Append(channel, cmd),
           cmd.type = "Get" => NoneOf("Get"),
           cmd.type = "Set" => NoneOf("Get") /\ NoneOf("Set"),
           cmd.type = "WriteState" => NoneOf("Set")
    PROVE  /\ SavesGoFirst'
           /\ \A type : cmd.type # type => (NoneOf(type)' <=> NoneOf(type))
<1>1. channel \in Seq(D!Command)
  BY DaemonInvMeans DEF SessionInv
<1>2. \A type : cmd.type # type => (NoneOf(type)' <=> NoneOf(type))
  BY <1>1, ChannelGrows DEF SessionInv
<1>3. /\ Len(channel) \in Nat /\ Len(channel') = Len(channel) + 1
      /\ \A k \in 1..Len(channel) : channel'[k] = channel[k]
      /\ channel'[Len(channel) + 1] = cmd
  BY <1>1
<1>4. SavesGoFirst'
  <2> SUFFICES ASSUME NEW j \in 1..Len(channel'), NEW k \in 1..Len(channel'), j < k,
                      channel'[j].type = "Set"
               PROVE  channel'[k].type # "WriteState"
    BY DEF SavesGoFirst
  <2>1. j \in 1..Len(channel) /\ channel[j].type = "Set"
    BY <1>3
  <2>2. CASE k \in 1..Len(channel)
    BY <1>3, <2>1, <2>2 DEF RoomInv, SavesGoFirst
  <2>3. CASE k = Len(channel) + 1
    BY <1>3, <2>1, <2>3 DEF NoneOf
  <2>4. QED
    BY <1>3, <2>2, <2>3
<1>5. QED
  BY <1>2, <1>4

LEMMA EnqueueKeepsRoom ==
    ASSUME SessionInv, RoomInv, NEW c \in Setters, D!Enqueue(c),
           UNCHANGED <<setterVars, boot, ghosts>>
    PROVE  RoomInv'
<1>1. /\ call[c] # None /\ channel' = Append(channel, call[c])
      /\ call' = [call EXCEPT ![c] = None]
      /\ UNCHANGED <<loop, reply, lock, step>>
  BY DEF D!Enqueue, setterVars
<1>2. call[c] \in D!Command /\ call \in [Setters -> D!Command \cup {None}]
  BY <1>1, DaemonInvMeans DEF SessionInv, D!TypeOK
<1>3. c = lock /\ lock # None
  BY <1>1, NoneIsNoSetter DEF SessionInv, HolderIsAlone
<1>4. \/ call[c] = D!Get(c) /\ step[c] \in Asking
      \/ call[c] = D!Set(wanted) /\ NoneOf("Set") /\ step[c] = "sent"
  BY <1>1, <1>3 DEF SessionInv, HolderIsAlone, HolderKnows, Asking, SetterTypeOK
<1>5. NoneOf("Get")
  BY <1>1, <1>3 DEF SessionInv, GetsAreHolders
<1>6. /\ SavesGoFirst'
      /\ \A type : call[c].type # type => (NoneOf(type)' <=> NoneOf(type))
  BY <1>1, <1>2, <1>4, <1>5, CommandFacts, RoomAtTheEnd
<1>7. SaveIsOwed' => call[c] = D!Get(c)
  BY <1>1, <1>3, <1>4 DEF RoomInv, SaveIsOwed, HolderIsBehind, Asking
<1>8. HolderIsBehind => HolderIsBehind'
  BY <1>1, <1>2, <1>3 DEF HolderIsBehind
<1>9. QED
  BY <1>1, <1>4, <1>6, <1>7, <1>8, CommandFacts DEF RoomInv, SaveIsOwed

LEMMA HandleKeepsRoom ==
    ASSUME SessionInv, RoomInv, D!Handle, UNCHANGED <<setterVars, boot, ghosts>>
    PROVE  RoomInv'
<1>1. /\ channel # <<>> /\ channel' = Tail(channel) /\ loop = "select"
      /\ UNCHANGED <<call, lock, step>>
  BY DEF D!Handle, D!HandleSet, D!HandleGet, D!HandleWriteState, D!HandleReadConfig, D!Take,
         D!clientVars, setterVars
<1>2. channel \in Seq(D!Command)
  BY DaemonInvMeans DEF SessionInv
<1>3. /\ \A type : NoneOf(type) => NoneOf(type)'
      /\ Head(channel).type = "Set" => NoneOf("Set")'
      /\ \A k \in 1..Len(channel') : k + 1 \in 1..Len(channel) /\ channel'[k] = channel[k + 1]
  BY <1>1, <1>2, ChannelShrinks DEF SessionInv
<1>4. 1 \in 1..Len(channel) /\ Head(channel) = channel[1]
  BY <1>1, <1>2
<1>5. SavesGoFirst'
  BY <1>3 DEF RoomInv, SavesGoFirst
<1>6. ASSUME NEW s \in SessionStates, D!HandleSet(s) PROVE RoomInv'
  <2>1. Head(channel).type = "Set" /\ reply' = reply
    BY <1>6, CommandFacts DEF D!HandleSet, D!Take, D!clientVars
  <2>2. ~NoneOf("Set")
    BY <1>4, <2>1 DEF NoneOf
  <2>3. NoneOf("WriteState")'
    <3>1. \A k \in 1..Len(channel') : 1 < k + 1
      OBVIOUS
    <3>2. QED
      BY <1>3, <1>4, <2>1, <3>1 DEF RoomInv, SavesGoFirst, NoneOf
  <2>4. HolderIsBehind
    BY <2>2 DEF SessionInv, HolderIsAlone, HolderKnows, HolderIsBehind, SetterTypeOK
  <2>5. HolderIsBehind'
    BY <1>1, <2>1, <2>4 DEF HolderIsBehind
  <2>6. QED
    BY <1>3, <1>5, <2>1, <2>3, <2>5 DEF RoomInv
<1>7. CASE (\E c \in Setters : D!HandleGet(c)) \/ D!HandleWriteState \/ D!HandleReadConfig
  <2>1. ~SaveIsOwed'
    BY <1>1, <1>7 DEF SaveIsOwed, D!HandleGet, D!HandleWriteState, D!HandleReadConfig
  <2>2. QED
    BY <1>3, <1>5, <2>1 DEF RoomInv
<1>8. QED
  BY <1>6, <1>7 DEF D!Handle

LEMMA LoopKeepsRoom ==
    ASSUME SessionInv, RoomInv,
           D!Proceed \/ D!SendTerm \/ D!HearTerm \/ D!LoseSignal \/ D!Crash,
           UNCHANGED <<setterVars, boot, ghosts>>
    PROVE  RoomInv'
<1>1. UNCHANGED <<call, reply, lock, step>>
  BY DEF D!Proceed, D!Apply, D!SendWriteState, D!Truncate, D!Write, D!Reload, D!SendTerm,
         D!HearTerm, D!LoseSignal, D!Crash, D!clientVars, setterVars
<1>2. CASE D!SendWriteState
  <2>1. channel' = Append(channel, D!WriteState) /\ SaveIsOwed /\ ~SaveIsOwed'
    BY <1>2 DEF D!SendWriteState, SaveIsOwed
  <2>2. D!WriteState \in D!Command /\ NoneOf("Set")
    BY <2>1 DEF D!Command, RoomInv
  <2>3. SavesGoFirst' /\ (NoneOf("ReadConfig")' <=> NoneOf("ReadConfig"))
    BY <2>1, <2>2, CommandFacts, RoomAtTheEnd
  <2>4. QED
    BY <2>1, <2>3 DEF RoomInv
<1>3. CASE ~D!SendWriteState
  <2>1. channel' = channel /\ (SaveIsOwed' => SaveIsOwed)
    BY <1>3 DEF SaveIsOwed, D!Proceed, D!Apply, D!Truncate, D!Write, D!Reload, D!SendTerm,
       D!HearTerm, D!LoseSignal, D!Crash, D!loopVars
  <2>2. QED
    BY <1>1, <2>1 DEF RoomInv, NoneOf, SavesGoFirst, HolderIsBehind
<1>4. QED
  BY <1>2, <1>3

\* The holder goes on only when the loop owes nothing, or is done.
LEMMA SetterKeepsRoom ==
    ASSUME SessionInv, RoomInv, NEW c \in Setters,
           SetterStep(c) \/ \E r \in Requests : CallSetter(c, r)
    PROVE  RoomInv'
<1>1. /\ step \in [Setters -> {"idle", "lock", "state", "desktop", "root", "write", "sent"}]
      /\ call \in [Setters -> D!Command \cup {None}]
      /\ reply \in [Setters -> SessionStates \cup {None}]
  BY DaemonInvMeans DEF SessionInv, D!TypeOK, SetterTypeOK
<1>2. channel' = channel /\ loop' = loop
  BY DEF SetterStep, CallSetter, GetState, GotState, GotDesktop, SetDefaultSession, SendState,
         Done, D!Submit, D!loopVars, daemonVars
<1>3. SaveIsOwed /\ HolderIsBehind => HolderIsBehind'
  <2> SUFFICES ASSUME HolderIsBehind PROVE HolderIsBehind'
    OBVIOUS
  <2>1. CASE GetState(c)
    <3>1. lock' = c /\ step'[c] = "state" /\ reply'[c] = None
      BY <1>1, <2>1 DEF GetState, D!Submit, Goto
    <3>2. QED
      BY <3>1 DEF HolderIsBehind
  <2>2. CASE \E r \in Requests : CallSetter(c, r)
    <3>1. /\ step[c] = "idle" /\ step' = [step EXCEPT ![c] = "lock"]
          /\ UNCHANGED <<lock, call, reply>>
      BY <2>2 DEF CallSetter, Goto, daemonVars
    <3>2. lock # None => lock # c /\ step'[lock] = step[lock]
      BY <1>1, <3>1 DEF SessionInv, HolderIsAlone
    <3>3. QED
      BY <3>1, <3>2 DEF HolderIsBehind
  <2>3. CASE Done(c)
    BY <2>3 DEF Done, HolderIsBehind
  <2>4. CASE GotState(c) \/ GotDesktop(c) \/ SetDefaultSession(c) \/ SendState(c)
    <3>1. c = lock /\ lock # None
      BY <2>4, NoneIsNoSetter DEF SessionInv, HolderIsAlone, GotState, GotDesktop,
         SetDefaultSession, SendState
    <3>2. QED
      BY <2>4, <3>1 DEF HolderIsBehind, GotState, GotDesktop, SetDefaultSession, SendState
  <2>5. QED
    BY <2>1, <2>2, <2>3, <2>4 DEF SetterStep
<1>4. QED
  BY <1>2, <1>3 DEF RoomInv, NoneOf, SavesGoFirst, SaveIsOwed

LEMMA RoomStep ==
    ASSUME SessionInv, RoomInv, [Next]_vars PROVE RoomInv'
<1>1. CASE DaemonRuns
  BY <1>1, EnqueueKeepsRoom, HandleKeepsRoom, LoopKeepsRoom DEF DaemonRuns
<1>2. CASE DaemonRestarts
  BY <1>2 DEF DaemonRestarts, D!Restart, RoomInv, NoneOf, SavesGoFirst, SaveIsOwed
<1>3. ASSUME NEW c \in Setters, SetterStep(c) \/ \E r \in Requests : CallSetter(c, r)
      PROVE  RoomInv'
  BY <1>3, SetterKeepsRoom
<1>4. CASE UNCHANGED vars
  BY <1>4 DEF vars, daemonVars, setterVars, RoomInv, NoneOf, SavesGoFirst, SaveIsOwed,
     HolderIsBehind
<1>5. QED
  BY <1>1, <1>2, <1>3, <1>4 DEF Next

\* With nothing but questions in the channel there is no more than one.
LEMMA OneQuestion ==
    ASSUME SessionInv, RoomInv, SaveIsOwed PROVE Len(channel) <= 1
<1>1. channel \in Seq(D!Command)
  BY DaemonInvMeans DEF SessionInv
<1>2. \A k \in 1..Len(channel) : channel[k].type = "Get"
  <2> SUFFICES ASSUME NEW k \in 1..Len(channel) PROVE channel[k].type = "Get"
    OBVIOUS
  <2>1. channel[k] \in D!Command
    BY <1>1
  <2>2. channel[k].type \in {"Set", "Get", "ReadConfig", "WriteState"}
    BY <2>1, CommandFacts DEF D!Command
  <2>3. QED
    BY <2>2 DEF RoomInv, NoneOf
<1>3. CASE Len(channel) > 1
  <2>1. 1 \in 1..Len(channel) /\ 2 \in 1..Len(channel) /\ 1 < 2
    BY <1>1, <1>3
  <2>2. QED
    BY <1>2, <2>1 DEF SessionInv, InOrder
<1>4. QED
  BY <1>1, <1>3

\* However many setters there are, the loop finds room for its WriteState in a
\* channel of two: it never waits for itself. (With one place it does: the next
\* setter's question takes it.)
THEOREM SettersAlwaysLeaveRoom ==
    ASSUME Capacity > 1
    PROVE  Spec => []SettersLeaveRoom
<1>1. SessionInv /\ RoomInv => SettersLeaveRoom
  BY OneQuestion, SessionAssumption DEF SettersLeaveRoom, D!LoopHasRoom, SaveIsOwed
<1>2. Spec => []RoomInv
  BY InitRoom, RoomStep, SessionInvariant, PTL DEF Spec
<1>3. QED
  BY <1>1, <1>2, SessionInvariant, PTL

-----------------------------------------------------------------------------
(* The temporary session: a switch counts for the next login and for no    *)
(* other.                                                                  *)

\* What the file says is what was written last, and nothing once it has been
\* cleaned up and not written again.
FileIsSwitch ==
    /\ last # NoSession /\ ~raced => temporary = last
    /\ last = NoSession /\ cleaned => temporary = NoSession

LoginInv == LoginTypeOK /\ FileIsSwitch

LEMMA InitLoginInv == LoginInit => LoginInv
<1> SUFFICES ASSUME LoginInit PROVE LoginInv
  OBVIOUS
<1>1. logins \in 0..MaxLogins /\ loginFaults \in 0..MaxLoginFaults
  BY LoginAssumption DEF LoginInit
<1>2. LoginTypeOK
  BY <1>1 DEF LoginInit, LoginTypeOK
<1>3. FileIsSwitch
  BY DEF LoginInit, FileIsSwitch
<1>4. QED
  BY <1>2, <1>3 DEF LoginInv

\* The calls: only the one that writes the file touches what FileIsSwitch says.
LEMMA CallKeepsInv ==
    ASSUME LoginInv, NEW c \in Switchers,
           \/ SwitchToLoginMode(c) \/ SessionForMode(c) \/ SwitchFails(c)
           \/ SetTemporarySession(c) \/ Logout(c)
    PROVE  LoginInv' /\ current' = current
<1> USE LoginAssumption DEF At, Move, loginFiles, loginBounds, loginGhosts
<1>1. CASE SetTemporarySession(c)
  <2>1. target[c] \in LoginSessions /\ target[c] # NoSession
    BY DEF LoginInv, LoginTypeOK
  <2>2. LoginTypeOK'
    BY <1>1, <2>1 DEF SetTemporarySession, LoginInv, LoginTypeOK
  <2>3. FileIsSwitch'
    BY <1>1, <2>1 DEF SetTemporarySession, FileIsSwitch
  <2>4. QED
    BY <1>1, <2>2, <2>3 DEF SetTemporarySession, LoginInv
<1>2. CASE SwitchToLoginMode(c)
  BY <1>2 DEF SwitchToLoginMode, LoginInv, LoginTypeOK, FileIsSwitch
<1>3. CASE SessionForMode(c)
  BY <1>3 DEF SessionForMode, LoginInv, LoginTypeOK, FileIsSwitch
<1>4. CASE SwitchFails(c)
  <2>1. loginFaults' \in 0..MaxLoginFaults
    BY <1>4 DEF SwitchFails, LoginInv, LoginTypeOK
  <2>2. QED
    BY <1>4, <2>1 DEF SwitchFails, LoginInv, LoginTypeOK, FileIsSwitch
<1>5. CASE Logout(c)
  BY <1>5 DEF Logout, LoginInv, LoginTypeOK, FileIsSwitch
<1>6. QED
  BY <1>1, <1>2, <1>3, <1>4, <1>5

\* The display manager, the new session's clean-up and the machine.
LEMMA MachineKeepsInv ==
    ASSUME LoginInv, SessionEnds \/ Login \/ CleanTemporarySessions \/ PowerOff
    PROVE  LoginInv'
<1> USE LoginAssumption DEF switchVars, loginBounds, loginGhosts
<1>1. CASE SessionEnds
  BY <1>1 DEF SessionEnds, LoginInv, LoginTypeOK, FileIsSwitch
<1>2. CASE Login
  <2>1. logins' \in 0..MaxLogins
    BY <1>2 DEF Login, LoginInv, LoginTypeOK
  <2>2. QED
    BY <1>2, <2>1 DEF Login, LoginInv, LoginTypeOK, FileIsSwitch
<1>3. CASE CleanTemporarySessions
  <2>1. loginFaults' \in 0..MaxLoginFaults
    BY <1>3 DEF CleanTemporarySessions, LoginInv, LoginTypeOK
  <2>2. LoginTypeOK'
    BY <1>3, <2>1 DEF CleanTemporarySessions, LoginInv, LoginTypeOK
  <2>3. FileIsSwitch'
    <3>1. CASE UNCHANGED <<temporary, raced, cleaned>>
      <4>1. last' = last /\ temporary' = temporary /\ raced' = raced /\ cleaned' = cleaned
        BY <1>3, <3>1 DEF CleanTemporarySessions
      <4>2. QED
        BY <4>1 DEF LoginInv, FileIsSwitch
    <3>2. CASE temporary' = NoSession /\ raced' = (last # NoSession)
      <4>1. last' = last
        BY <1>3 DEF CleanTemporarySessions
      <4>2. QED
        BY <3>2, <4>1, Zenon DEF FileIsSwitch
    <3>3. QED
      BY <1>3, <3>1, <3>2 DEF CleanTemporarySessions
  <2>4. QED
    BY <2>2, <2>3 DEF LoginInv
<1>4. CASE PowerOff
  <2>1. loginFaults' \in 0..MaxLoginFaults
    BY <1>4 DEF PowerOff, LoginInv, LoginTypeOK
  <2>2. QED
    BY <1>4, <2>1 DEF PowerOff, LoginInv, LoginTypeOK, FileIsSwitch
<1>5. QED
  BY <1>1, <1>2, <1>3, <1>4

\* The invariant holds in every state of LoginSwitch.
THEOREM LoginInvariant == LoginSpec => []LoginInv
<1>1. ASSUME LoginInv, [LoginNext]_loginAll PROVE LoginInv'
  <2>1. CASE UNCHANGED loginAll
    BY <1>1, <2>1 DEF LoginInv, LoginTypeOK, FileIsSwitch, loginAll, switchVars,
                      loginFiles, loginBounds, loginGhosts
  <2>2. CASE LoginNext
    BY <1>1, <2>2, CallKeepsInv, MachineKeepsInv DEF LoginNext
  <2>3. QED
    BY <1>1, <2>1, <2>2
<1>2. QED
  BY <1>1, InitLoginInv, PTL DEF LoginSpec

\* The next login is into the session written last, unless the clean-up of the
\* session before came late; and a login that no switch led to is into the
\* default session, once the file has been cleaned up.
THEOREM SwitchIsAlwaysForOnce == LoginSpec => SwitchIsForOnce
<1> DEFINE Once == current = NoSession /\ current' # NoSession =>
                     /\ last # NoSession /\ ~raced => current' = last
                     /\ last = NoSession /\ cleaned => current' = default
<1>1. ASSUME LoginInv, [LoginNext]_loginAll PROVE [Once]_loginAll
  <2>1. CASE UNCHANGED loginAll
    BY <2>1
  <2>2. CASE Login
    <3>1. current' = IF temporary = NoSession THEN default ELSE temporary
      BY <2>2 DEF Login
    <3>2. QED
      BY <1>1, <3>1 DEF LoginInv, FileIsSwitch
  <2>3. CASE SessionEnds \/ CleanTemporarySessions \/ PowerOff
    BY <2>3 DEF SessionEnds, CleanTemporarySessions, PowerOff
  <2>4. CASE LoginNext /\ ~Login /\ ~SessionEnds /\ ~CleanTemporarySessions /\ ~PowerOff
    <3>1. current' = current
      BY <1>1, <2>4, CallKeepsInv DEF LoginNext
    <3>2. QED
      BY <3>1
  <2>5. QED
    BY <1>1, <2>1, <2>2, <2>3, <2>4
<1>2. QED
  BY <1>1, LoginInvariant, PTL DEF LoginSpec, SwitchIsForOnce
=============================================================================
