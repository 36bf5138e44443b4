------------------------------- MODULE Daemon -------------------------------
(***************************************************************************)
(* The main loop of a daemon (src/steamos-manager/src/daemon/): one task   *)
(* that waits for signals and for commands in a bounded channel, keeps the *)
(* state of its context (ds_inhibit in the root daemon, the session        *)
(* manager's in the user daemon) and saves it to state.toml. A handler     *)
(* that changes the state sends WriteState to the loop's own channel.      *)
(*                                                                         *)
(* The clients of the channel are tasks of the same process, one per D-Bus *)
(* call: when the process goes, they go with it.                           *)
(***************************************************************************)
EXTENDS Naturals, Sequences, FiniteSets

CONSTANTS
    Clients,             (* the tasks that send commands                   *)
    States,              (* the states of the context                      *)
    Default,             (* State::default()                               *)
    None,                (* no command, no reply                           *)
    Empty,               (* the contents of a truncated file               *)
    Capacity,            (* of the channel: 10 in the code                 *)
    HandlersFail,        (* may applying a state fail, or saving it?       *)
    Stops,               (* may the daemon be stopped, crash, and start?   *)
    Burst                (* bound: commands of clients under way at a time *)

ASSUME DaemonAssumption ==
    /\ Default \in States
    /\ Empty \notin States
    /\ Capacity \in Nat \ {0}
    /\ Burst \in Nat
    /\ {HandlersFail, Stops} \subseteq BOOLEAN

VARIABLES
    channel,             (* the commands in the channel                    *)
    loop,                (* where the loop is                              *)
    state,               (* context.state                                  *)
    applied,             (* the state its services run with                *)
    file,                (* state.toml                                     *)
    call,                (* the command each client is sending, or None    *)
    reply,               (* what it was answered                           *)
    hup,                 (* a SIGHUP: "none", "sent" or "lost"             *)
    term                 (* a SIGTERM                                      *)

loopVars == <<channel, loop, state, applied, file>>
clientVars == <<call, reply>>
signals == <<hup, term>>
vars == <<loopVars, clientVars, signals>>

Set(s)     == [type |-> "Set", state |-> s]
Get(c)     == [type |-> "Get", client |-> c]
ReadConfig == [type |-> "ReadConfig"]
WriteState == [type |-> "WriteState"]

Command == {Set(s) : s \in States} \cup {Get(c) : c \in Clients}
               \cup {ReadConfig, WriteState}

\* The types of the loop, of its clients and of the signals.
TypeOK ==
    /\ channel \in Seq(Command)
    /\ Len(channel) <= Capacity
    /\ loop \in {"select", "apply", "send", "truncate", "write", "reload", "stopped"}
    /\ state \in States
    /\ applied \in States
    /\ file \in States \cup {Empty}
    /\ call \in [Clients -> Command \cup {None}]
    /\ reply \in [Clients -> States \cup {None}]
    /\ hup \in {"none", "sent", "lost"}
    /\ term \in {"none", "sent", "lost"}

\* read_state: there being nothing in the file means the default.
Loaded == IF file = Empty THEN Default ELSE file

Init ==
    /\ channel = <<>>
    /\ loop = "select"
    /\ file \in States \cup {Empty}
    /\ state = Loaded
    /\ applied = state
    /\ call = [c \in Clients |-> None]
    /\ reply = [c \in Clients |-> None]
    /\ hup = "none"
    /\ term = "none"

-----------------------------------------------------------------------------
(* The clients.                                                            *)

UnderWay == Cardinality({c \in Clients : call[c] # None})
                + Cardinality({k \in DOMAIN channel : channel[k] # WriteState})

Submit(c, cmd) ==
    /\ call[c] = None
    /\ UnderWay < Burst
    /\ loop # "stopped"
    /\ call' = [call EXCEPT ![c] = cmd]
    /\ reply' = [reply EXCEPT ![c] = None]
    /\ UNCHANGED <<loopVars, signals>>

\* channel.send(..).await: there must be room.
Enqueue(c) ==
    /\ call[c] # None
    /\ Len(channel) < Capacity
    /\ channel' = Append(channel, call[c])
    /\ call' = [call EXCEPT ![c] = None]
    /\ UNCHANGED <<loop, state, applied, file, reply, signals>>

-----------------------------------------------------------------------------
(* run, handle_message and the contexts' handle_command.                   *)

Take(cmd) ==
    /\ loop = "select"
    /\ channel # <<>>
    /\ Head(channel) = cmd
    /\ channel' = Tail(channel)

\* SetDsInhibit, SetSessionManagerState: the state changes first.
HandleSet(s) ==
    /\ Take(Set(s))
    /\ state' = s
    /\ loop' = "apply"
    /\ UNCHANGED <<applied, file, clientVars, signals>>

\* MUTANT of Apply: the error is logged, and the loop goes on.
ApplyLogged ==
    /\ loop = "apply"
    /\ loop' = "send"
    /\ \/ applied' = state
       \/ HandlersFail /\ UNCHANGED applied
    /\ UNCHANGED <<channel, state, file, clientVars, signals>>

\* reload_ds_inhibit starts or cancels the service; an error ends the loop.
Apply ==
    /\ loop = "apply"
    /\ \/ applied' = state /\ loop' = "send"
       \/ HandlersFail /\ loop' = "stopped" /\ UNCHANGED applied
    /\ UNCHANGED <<channel, state, file, clientVars, signals>>

\* MUTANT of SendWriteState: try_send, which gives up when there is no room.
SendWriteStateTry ==
    /\ loop = "send"
    /\ channel' = IF Len(channel) < Capacity THEN Append(channel, WriteState)
                                             ELSE channel
    /\ loop' = "select"
    /\ UNCHANGED <<state, applied, file, clientVars, signals>>

\* The handler, which is the receiver, sends to its own channel.
SendWriteState ==
    /\ loop = "send"
    /\ Len(channel) < Capacity
    /\ channel' = Append(channel, WriteState)
    /\ loop' = "select"
    /\ UNCHANGED <<state, applied, file, clientVars, signals>>

HandleGet(c) ==
    /\ Take(Get(c))
    /\ reply' = [reply EXCEPT ![c] = applied]
    /\ UNCHANGED <<loop, state, applied, file, call, signals>>

HandleWriteState ==
    /\ Take(WriteState)
    /\ loop' = "truncate"
    /\ UNCHANGED <<state, applied, file, clientVars, signals>>

\* write: the file is truncated, and then gets the contents.
Truncate ==
    /\ loop = "truncate"
    /\ \/ file' = Empty /\ loop' = "write"
       \/ HandlersFail /\ loop' = "stopped" /\ UNCHANGED file
    /\ UNCHANGED <<channel, state, applied, clientVars, signals>>

Write ==
    /\ loop = "write"
    /\ \/ file' = state /\ loop' = "select"
       \/ HandlersFail /\ loop' = "stopped" /\ UNCHANGED file
    /\ UNCHANGED <<channel, state, applied, clientVars, signals>>

HandleReadConfig ==
    /\ Take(ReadConfig)
    /\ loop' = "reload"
    /\ UNCHANGED <<state, applied, file, clientVars, signals>>

\* read_config, and reload, which has nothing to do; an error is logged.
Reload ==
    /\ loop = "reload"
    /\ loop' = "select"
    /\ UNCHANGED <<channel, state, applied, file, clientVars, signals>>

HearHup ==
    /\ loop = "select"
    /\ hup = "sent"
    /\ hup' = "none"
    /\ loop' = "reload"
    /\ UNCHANGED <<channel, state, applied, file, clientVars, term>>

HearTerm ==
    /\ loop = "select"
    /\ term = "sent"
    /\ term' = "none"
    /\ loop' = "stopped"
    /\ UNCHANGED <<channel, state, applied, file, clientVars, hup>>

Handle ==
    \/ \E s \in States : HandleSet(s)
    \/ \E c \in Clients : HandleGet(c)
    \/ HandleWriteState
    \/ HandleReadConfig

Proceed == Apply \/ SendWriteState \/ Truncate \/ Write \/ Reload

-----------------------------------------------------------------------------
(* The signals and the process.                                            *)

SendHup ==
    /\ hup # "sent"
    /\ loop # "stopped"
    /\ hup' = "sent"
    /\ UNCHANGED <<loopVars, clientVars, term>>

SendTerm ==
    /\ Stops
    /\ term # "sent"
    /\ loop # "stopped"
    /\ term' = "sent"
    /\ UNCHANGED <<loopVars, clientVars, hup>>

\* The listeners are made anew for every turn of the loop: the listener of
\* this turn, which nobody polls while the handler runs, takes the signal
\* with it.
LoseSignal ==
    /\ loop \notin {"select", "stopped"}
    /\ \/ hup = "sent" /\ hup' = "lost" /\ UNCHANGED term
       \/ term = "sent" /\ term' = "lost" /\ UNCHANGED hup
    /\ UNCHANGED <<loopVars, clientVars>>

Crash ==
    /\ Stops
    /\ loop # "stopped"
    /\ loop' = "stopped"
    /\ UNCHANGED <<channel, state, applied, file, clientVars, signals>>

\* systemd, or D-Bus activation, starts the daemon: read_state, start.
Restart ==
    /\ loop = "stopped"
    /\ loop' = "select"
    /\ channel' = <<>>
    /\ state' = Loaded
    /\ applied' = Loaded
    /\ call' = [c \in Clients |-> None]
    /\ reply' = [c \in Clients |-> None]
    /\ hup' = "none"
    /\ term' = "none"
    /\ UNCHANGED file

DaemonStep ==
    \/ \E c \in Clients : Enqueue(c)
    \/ Handle \/ Proceed \/ HearHup \/ HearTerm
    \/ SendHup \/ SendTerm \/ LoseSignal \/ Crash \/ Restart

\* The D-Bus methods behind which there is no more than one command.
Request(c) ==
    \/ \E s \in States : Submit(c, Set(s))
    \/ Submit(c, Get(c))
    \/ Submit(c, ReadConfig)

Next ==
    \/ DaemonStep
    \/ \E c \in Clients : Request(c)

Spec == Init /\ [][Next]_vars

\* The loop goes on as long as it can; select! and the semaphore of the
\* channel pass nobody over for ever.
Fairness ==
    /\ WF_vars(Proceed)
    /\ SF_vars(Handle)
    /\ SF_vars(HearHup)
    /\ SF_vars(HearTerm)
    /\ \A c \in Clients : SF_vars(Enqueue(c))

FairSpec == Spec /\ Fairness

-----------------------------------------------------------------------------
(* Properties.                                                             *)

Running == loop # "stopped"
Has(cmd) == \E k \in DOMAIN channel : channel[k] = cmd

\* Between two handlers, a state that is not in the file is announced by a
\* WriteState in the channel, whatever was set, read or reloaded in between
\* and wherever a crash cut an earlier write.
UnsavedIsPending ==
    loop = "select" /\ Loaded # state => Has(WriteState)

\* The services run with the state there is (reload_ds_inhibit), so that what
\* GetDsInhibit reports is what SetDsInhibit set.
AppliedIsState == loop \notin {"apply", "stopped"} => applied = state

\* The handler that sends WriteState to the channel it empties finds room in it
\* (state changes of run and handle_message): the loop never waits for itself.
LoopHasRoom == loop = "send" => Len(channel) < Capacity

\* A state that stays is saved in the end.
StateIsSaved == Running /\ Loaded # state ~> Loaded = state \/ ~Running

\* "Reloads the configuration from disk": a ReloadConfig is taken up.
ReloadConfigIsHandled ==
    Has(ReadConfig) ~> loop = "reload" \/ ~Running
=============================================================================
