--------------------------- MODULE SessionManager ---------------------------
(***************************************************************************)
(* The default login mode and the default desktop session                  *)
(* (src/steamos-manager/src/session.rs), on top of the user daemon's loop  *)
(* (Daemon): a setter reads the session manager's state through the        *)
(* channel, has the root daemon write the session to boot into, and sends  *)
(* the new state back. The state and the boot configuration are two files  *)
(* of two processes, and have to agree.                                    *)
(*                                                                         *)
(* The setters take &mut self: zbus runs one at a time.                    *)
(***************************************************************************)
EXTENDS Naturals, Sequences

CONSTANTS
    Setters,             (* the D-Bus calls that set one of the properties *)
    Desktops,            (* the valid desktop sessions                     *)
    Plasma,              (* DesktopSession::default()                      *)
    Gamescope,           (* the session of the game mode                   *)
    None, Empty, Capacity, Stops, Burst,
    RootFails            (* may set_default_session be refused?            *)

Modes == {"game", "desktop"}
Sessions == Desktops \cup {Gamescope}
SessionStates == [mode : Modes, desktop : Desktops \cup {None}]
DefaultState == [mode |-> "game", desktop |-> None]

ASSUME SessionAssumption ==
    /\ Plasma \in Desktops
    /\ Gamescope \notin Desktops
    /\ None \notin Sessions \cup Setters
    /\ Empty \notin SessionStates
    /\ Capacity \in Nat \ {0}
    /\ Burst \in Nat
    /\ {RootFails, Stops} \subseteq BOOLEAN

VARIABLES
    channel, loop, state, applied, file, call, reply, hup, term,
    lock,                (* the setter that has the interface              *)
    step,                (* where each setter is                           *)
    request,             (* what it is to set                              *)
    seen,                (* the state it read                              *)
    session,             (* the session it has the root daemon write       *)
    boot,                (* the session in zz-steamos-autologin.conf       *)
    wanted,              (* the state the daemon started with, with the one *)
                         (* field changed that each setter since then set  *)
    apart                (* did a stop of the daemon, between the writing  *)
                         (* of the two files, leave them in disagreement?  *)

D == INSTANCE Daemon
         WITH Clients <- Setters, States <- SessionStates,
              Default <- DefaultState, HandlersFail <- FALSE

ASSUME NoneIsNoCommand == None \notin D!Command

daemonVars == <<channel, loop, state, applied, file, call, reply, hup, term>>
setterVars == <<lock, step, request, seen, session>>
ghosts == <<wanted, apart>>
vars == <<daemonVars, setterVars, boot, ghosts>>

Requests == [type : {"mode"}, value : Modes]
                \cup [type : {"desktop"}, value : Desktops]

\* The types of the setters and of the boot configuration.
TypeOK ==
    /\ D!TypeOK
    /\ lock \in Setters \cup {None}
    /\ step \in [Setters -> {"idle", "lock", "state", "desktop", "root",
                             "write", "sent"}]
    /\ request \in [Setters -> Requests]
    /\ seen \in [Setters -> SessionStates]
    /\ session \in [Setters -> Sessions]
    /\ boot \in Sessions
    /\ wanted \in SessionStates
    /\ apart \in BOOLEAN

DesktopOf(s) == IF s.desktop = None THEN Plasma ELSE s.desktop
SessionFor(s) == IF s.mode = "game" THEN Gamescope ELSE DesktopOf(s)

\* With no configuration of its own, the system boots into the game mode.
Init ==
    /\ D!Init
    /\ lock = None
    /\ step = [c \in Setters |-> "idle"]
    /\ request \in [Setters -> [type : {"mode"}, value : {"game"}]]
    /\ seen = [c \in Setters |-> state]
    /\ session = [c \in Setters |-> Gamescope]
    /\ boot = SessionFor(state)
    /\ wanted = state
    /\ apart = FALSE

-----------------------------------------------------------------------------
(* A setter, from await to await.                                          *)

Goto(c, s) == step' = [step EXCEPT ![c] = s]

\* State s with the one field changed that request r is about.
With(s, r) ==
    IF r.type = "mode" THEN [s EXCEPT !.mode = r.value]
                       ELSE [s EXCEPT !.desktop = r.value]

\* The state the setter sends back: all of what it read, with one field changed.
Changed(c) == With(seen[c], request[c])

CallSetter(c, r) ==
    /\ step[c] = "idle"
    /\ request' = [request EXCEPT ![c] = r]
    /\ Goto(c, "lock")
    /\ UNCHANGED <<daemonVars, lock, seen, session, boot, ghosts>>

\* MUTANT of GetState: the setters take &self, and run side by side.
GetStateShared(c) ==
    /\ step[c] = "lock"
    /\ D!Submit(c, D!Get(c))
    /\ Goto(c, "state")
    /\ UNCHANGED <<lock, request, seen, session, boot, ghosts>>

GetState(c) ==
    /\ step[c] = "lock"
    /\ lock = None
    /\ lock' = c
    /\ D!Submit(c, D!Get(c))
    /\ Goto(c, "state")
    /\ UNCHANGED <<request, seen, session, boot, ghosts>>

\* MUTANT of GotState: a new desktop session is not told to the root daemon.
GotStateUntold(c) ==
    /\ step[c] = "state"
    /\ reply[c] # None
    /\ seen' = [seen EXCEPT ![c] = reply[c]]
    /\ IF request[c] = [type |-> "mode", value |-> "desktop"]
       THEN D!Submit(c, D!Get(c)) /\ Goto(c, "desktop")
       ELSE /\ Goto(c, IF request[c].type = "mode" THEN "root" ELSE "write")
            /\ UNCHANGED daemonVars
    /\ session' = [session EXCEPT ![c] = Gamescope]
    /\ UNCHANGED <<lock, request, boot, ghosts>>

\* set_default_login_mode asks for the desktop session once more, if it needs
\* it; set_default_desktop_session leaves the boot configuration alone in the
\* game mode.
GotState(c) ==
    /\ step[c] = "state"
    /\ reply[c] # None
    /\ seen' = [seen EXCEPT ![c] = reply[c]]
    /\ \/ /\ request[c] = [type |-> "mode", value |-> "game"]
          /\ session' = [session EXCEPT ![c] = Gamescope]
          /\ Goto(c, "root")
          /\ UNCHANGED daemonVars
       \/ /\ request[c] = [type |-> "mode", value |-> "desktop"]
          /\ D!Submit(c, D!Get(c))
          /\ Goto(c, "desktop")
          /\ UNCHANGED session
       \/ /\ request[c].type = "desktop"
          /\ session' = [session EXCEPT ![c] = request[c].value]
          /\ Goto(c, IF reply[c].mode = "desktop" THEN "root" ELSE "write")
          /\ UNCHANGED daemonVars
    /\ UNCHANGED <<lock, request, boot, ghosts>>

\* MUTANT of GotDesktop: the session is asked for through the property of the
\* interface that the setter itself has.
GotDesktopOverDBus(c) ==
    /\ step[c] = "desktop"
    /\ lock = None
    /\ reply[c] # None
    /\ session' = [session EXCEPT ![c] = DesktopOf(reply[c])]
    /\ Goto(c, "root")
    /\ UNCHANGED <<daemonVars, lock, request, seen, boot, ghosts>>

GotDesktop(c) ==
    /\ step[c] = "desktop"
    /\ reply[c] # None
    /\ session' = [session EXCEPT ![c] = DesktopOf(reply[c])]
    /\ Goto(c, "root")
    /\ UNCHANGED <<daemonVars, lock, request, seen, boot, ghosts>>

\* root::set_default_session; refused, it leaves the file alone, and the setter
\* returns the error.
SetDefaultSession(c) ==
    /\ step[c] = "root"
    /\ \/ boot' = session[c] /\ Goto(c, "write") /\ UNCHANGED lock
       \/ RootFails /\ Goto(c, "idle") /\ lock' = None /\ UNCHANGED boot
    /\ UNCHANGED <<daemonVars, request, seen, session, ghosts>>

\* The command carries what the setter read; what is wanted of it is its own
\* field alone, beside whatever the other setters have set meanwhile.
SendState(c) ==
    /\ step[c] = "write"
    /\ D!Submit(c, D!Set(Changed(c)))
    /\ wanted' = With(wanted, request[c])
    /\ Goto(c, "sent")
    /\ UNCHANGED <<lock, request, seen, session, boot, apart>>

\* The setter is done when its command is in the channel.
Done(c) ==
    /\ step[c] = "sent"
    /\ call[c] = None
    /\ lock' = None
    /\ Goto(c, "idle")
    /\ UNCHANGED <<daemonVars, request, seen, session, boot, ghosts>>

SetterStep(c) ==
    \/ GetState(c) \/ GotState(c) \/ GotDesktop(c) \/ SetDefaultSession(c)
    \/ SendState(c) \/ Done(c)

-----------------------------------------------------------------------------
(* The user daemon. Its setters are lost with it.                          *)

DaemonRuns ==
    /\ \/ \E c \in Setters : D!Enqueue(c)
       \/ D!Handle \/ D!Proceed
       \/ D!SendTerm \/ D!HearTerm \/ D!LoseSignal \/ D!Crash
    /\ UNCHANGED <<setterVars, boot, ghosts>>

DaemonRestarts ==
    /\ D!Restart
    /\ lock' = None
    /\ step' = [c \in Setters |-> "idle"]
    /\ wanted' = state'
    /\ apart' = (boot # SessionFor(state'))
    /\ UNCHANGED <<request, seen, session, boot>>

Next ==
    \/ \E c \in Setters :
          \/ \E r \in Requests : CallSetter(c, r)
          \/ SetterStep(c)
    \/ DaemonRuns
    \/ DaemonRestarts

Spec == Init /\ [][Next]_vars

\* The loop goes on as long as it can, a command gets into a channel that has
\* room, a setter goes on when it can, and each gets the interface in its turn.
Fairness ==
    /\ WF_vars((D!Proceed \/ D!Handle) /\ DaemonRuns)
    /\ \A c \in Setters :
          /\ WF_vars(D!Enqueue(c) /\ DaemonRuns)
          /\ SF_vars(GetState(c))
          /\ WF_vars(GotState(c) \/ GotDesktop(c) \/ SetDefaultSession(c)
                        \/ SendState(c) \/ Done(c))

FairSpec == Spec /\ Fairness

-----------------------------------------------------------------------------
(* Properties.                                                             *)

Settled ==
    /\ D!Running
    /\ \A c \in Setters : step[c] \in {"idle", "lock"}
    /\ \A s \in SessionStates : ~D!Has(D!Set(s))

\* No setter undoes what another one set: each reads the whole state, waits for
\* other processes and writes the whole state back (get_state, write_state), and
\* still the state is the one that only the field of each setter, in the order
\* they sent theirs, leads to. A field another setter set in between would be
\* back at its old value. A stop of the daemon loses whole updates, never half
\* of one.
NoUpdateLost == Settled => state = wanted

\* DefaultLoginMode is "the default login mode on boot": once the setters are
\* done, the state the property shows and the session the root daemon was told
\* to boot into agree, unless the daemon was stopped between the writing of the
\* one and the saving of the other.
StateIsBoots == Settled /\ ~apart => boot = SessionFor(state)

\* The commands of the setters leave the loop room in the channel for the
\* WriteState that it owes itself (write_state sends, handle_command sends too):
\* a setter writes only after its own question was answered, which is after the
\* loop is through with the setter before it.
SettersLeaveRoom == D!LoopHasRoom

\* Every setter returns, although it waits for the daemon and the root daemon
\* while it has the interface, unless the daemon is stopped and takes it along.
SettersReturn ==
    \A c \in Setters : step[c] # "idle" ~> step[c] = "idle" \/ ~D!Running

\* And what they set is kept: a state that stays is saved in the end, as the
\* commands of the setters leave room in the channel for the WriteState of each.
SettersSettle == SettersReturn /\ D!StateIsSaved
=============================================================================
