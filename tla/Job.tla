-------------------------------- MODULE Job ---------------------------------
(***************************************************************************)
(* A job (src/steamos-manager/src/job.rs): a child process of the root     *)
(* daemon and the D-Bus object Job1 through which clients pause, resume,   *)
(* cancel and wait for it. The user daemon mirrors the object: MirroredJob *)
(* passes each call on to the root daemon's.                               *)
(*                                                                         *)
(* All methods take &mut self, so that zbus gives the object to one call   *)
(* at a time, for as long as the call lasts; the mirror's too. Only Wait   *)
(* suspends itself in the middle. The process goes its own way meanwhile.  *)
(***************************************************************************)
EXTENDS Naturals

CONSTANTS
    Clients,             (* those who call a method of the job             *)
    Mirrored,            (* those among them who call the mirror's         *)
    None,                (* no client, no code                             *)
    HonoursTerm          (* does the process end when it gets a SIGTERM?   *)

ASSUME JobAssumption ==
    /\ Mirrored \subseteq Clients
    /\ None \notin Clients \cup {"exit", "SIGTERM", "SIGKILL"}
    /\ HonoursTerm \in BOOLEAN

VARIABLES
    (* struct Job *)
    paused,
    exit_code,
    (* the process, a child that is a zombie until it is waited for *)
    process,
    signalled,           (* the signal that is to end it, or "none"        *)
    status,              (* how it ended                                   *)
    (* the calls *)
    pc,                  (* where each client's call is                    *)
    method,              (* the method it called, or calls                 *)
    reply,               (* the answer to it, or "none"                    *)
    mirror_lock,         (* the call that has the MirroredJob              *)
    job_lock             (* the call that has the Job                      *)

jobVars == <<paused, exit_code>>
processVars == <<process, signalled, status>>
callVars == <<pc, method, reply, mirror_lock, job_lock>>
vars == <<jobVars, processVars, callVars>>

Methods == {"Pause", "Resume", "Cancel", "Kill", "Wait"}
Codes == {"exit", "SIGTERM", "SIGKILL"}

\* The types of the object, of the process and of the calls.
TypeOK ==
    /\ paused \in BOOLEAN
    /\ exit_code \in Codes \cup {None}
    /\ process \in {"running", "stopped", "zombie", "reaped"}
    /\ signalled \in {"none", "SIGTERM", "SIGKILL"}
    /\ status \in Codes \cup {None}
    /\ pc \in [Clients -> {"idle", "mirror", "job", "wait", "reply"}]
    /\ method \in [Clients -> Methods]
    /\ reply \in [Clients -> Codes \cup {"ok", "error", "none"}]
    /\ mirror_lock \in Clients \cup {None}
    /\ job_lock \in Clients \cup {None}

\* Job::spawn
Init ==
    /\ paused = FALSE
    /\ exit_code = None
    /\ process = "running"
    /\ signalled = "none"
    /\ status = None
    /\ pc = [c \in Clients |-> "idle"]
    /\ method \in [Clients -> Methods]
    /\ reply = [c \in Clients |-> "none"]
    /\ mirror_lock = None
    /\ job_lock = None

-----------------------------------------------------------------------------
(* The process and the signals it gets.                                    *)

Alive == process \in {"running", "stopped"}

\* It ends by itself, or, once asked, because of a signal: SIGKILL ends a
\* stopped process too, SIGTERM waits until it is continued.
Exit(s) ==
    /\ process' = "zombie"
    /\ status' = s
    /\ UNCHANGED <<signalled, jobVars, callVars>>

ExitByItself == process = "running" /\ Exit("exit")
ExitOnTerm ==
    HonoursTerm /\ process = "running" /\ signalled = "SIGTERM" /\ Exit("SIGTERM")
ExitOnKill == Alive /\ signalled = "SIGKILL" /\ Exit("SIGKILL")

Stop == process' = IF process = "running" THEN "stopped" ELSE process
Cont == process' = IF process = "stopped" THEN "running" ELSE process

\* send_signal fails when the process has been waited for.
HasPid == process # "reaped"

-----------------------------------------------------------------------------
(* A call, from the client through the locks and back.                     *)

Call(c, m) ==
    /\ pc[c] = "idle"
    /\ method' = [method EXCEPT ![c] = m]
    /\ reply' = [reply EXCEPT ![c] = "none"]
    /\ pc' = [pc EXCEPT ![c] = IF c \in Mirrored THEN "mirror" ELSE "job"]
    /\ UNCHANGED <<mirror_lock, job_lock, jobVars, processVars>>

\* A method of MirroredJob starts: it calls the same method of the job.
MirrorCall(c) ==
    /\ pc[c] = "mirror"
    /\ mirror_lock = None
    /\ mirror_lock' = c
    /\ pc' = [pc EXCEPT ![c] = "job"]
    /\ UNCHANGED <<method, reply, job_lock, jobVars, processVars>>

\* MUTANT of Start: the methods take &self, and share the job.
StartShared(c, m) == pc[c] = "job" /\ method[c] = m

\* The job is free for a call of method m, which ends at once with reply r.
Start(c, m) == pc[c] = "job" /\ method[c] = m /\ job_lock = None

Finish(c, r) ==
    /\ pc' = [pc EXCEPT ![c] = "reply"]
    /\ reply' = [reply EXCEPT ![c] = r]
    /\ job_lock' = None
    /\ UNCHANGED <<method, mirror_lock>>

\* The reply reaches the client, and leaves the mirror on its way.
Deliver(c) ==
    /\ pc[c] = "reply"
    /\ pc' = [pc EXCEPT ![c] = "idle"]
    /\ mirror_lock' = IF mirror_lock = c THEN None ELSE mirror_lock
    /\ UNCHANGED <<method, reply, job_lock, jobVars, processVars>>

-----------------------------------------------------------------------------
(* The methods.                                                            *)

Refuse(c) == Finish(c, "error") /\ UNCHANGED <<jobVars, processVars>>

\* The job counts as paused even if there was no process to stop.
Pause(c) ==
    /\ Start(c, "Pause")
    /\ \/ paused /\ Refuse(c)
       \/ /\ ~paused
          /\ paused' = TRUE
          /\ Stop
          /\ Finish(c, IF HasPid THEN "ok" ELSE "error")
          /\ UNCHANGED <<exit_code, signalled, status>>

Resume(c) ==
    /\ Start(c, "Resume")
    /\ \/ ~paused /\ Refuse(c)
       \/ /\ paused
          /\ paused' = FALSE
          /\ Cont
          /\ Finish(c, IF HasPid THEN "ok" ELSE "error")
          /\ UNCHANGED <<exit_code, signalled, status>>

\* MUTANT of Cancel: a paused process gets its signal and stays stopped.
CancelPaused(c, force) ==
    /\ Start(c, IF force THEN "Kill" ELSE "Cancel")
    /\ \/ /\ Alive
          /\ signalled' = IF force THEN "SIGKILL"
                          ELSE IF signalled = "none" THEN "SIGTERM" ELSE signalled
          /\ paused' = FALSE
          /\ UNCHANGED <<exit_code, process, status>>
       \/ /\ ~Alive
          /\ process' = "reaped"
          /\ exit_code' = status
          /\ UNCHANGED <<paused, signalled, status>>
    /\ Finish(c, "ok")

\* try_wait: a zombie is reaped on the way, and then there is nothing to do;
\* otherwise the signal is sent, and a paused process continued to take it.
Cancel(c, force) ==
    /\ Start(c, IF force THEN "Kill" ELSE "Cancel")
    /\ \/ /\ Alive
          /\ signalled' = IF force THEN "SIGKILL"
                          ELSE IF signalled = "none" THEN "SIGTERM" ELSE signalled
          /\ paused' = FALSE
          /\ IF paused THEN Cont ELSE UNCHANGED process
          /\ UNCHANGED <<exit_code, status>>
       \/ /\ ~Alive
          /\ process' = "reaped"
          /\ exit_code' = status
          /\ UNCHANGED <<paused, signalled, status>>
    /\ Finish(c, "ok")

\* MUTANT of Wait: a paused job is not resumed.
WaitPaused(c) ==
    /\ Start(c, "Wait")
    /\ \/ exit_code # None /\ Finish(c, exit_code)
       \/ /\ exit_code = None
          /\ job_lock' = c
          /\ pc' = [pc EXCEPT ![c] = "wait"]
          /\ UNCHANGED <<method, reply, mirror_lock>>
    /\ UNCHANGED <<jobVars, processVars>>

\* wait resumes a paused job first; it fails if that fails.
Wait(c) ==
    /\ Start(c, "Wait")
    /\ paused' = FALSE
    /\ IF paused THEN Cont ELSE UNCHANGED process
    /\ \/ paused /\ ~HasPid /\ Finish(c, "error")
       \/ ~paused /\ exit_code # None /\ Finish(c, exit_code)
       \/ /\ exit_code = None
          /\ job_lock' = c
          /\ pc' = [pc EXCEPT ![c] = "wait"]
          /\ UNCHANGED <<method, reply, mirror_lock>>
    /\ UNCHANGED <<exit_code, signalled, status>>

\* MUTANT of WaitEnds: the exit code is given and not kept.
WaitEndsUnkept(c) ==
    /\ pc[c] = "wait"
    /\ process = "zombie"
    /\ process' = "reaped"
    /\ Finish(c, status)
    /\ UNCHANGED <<jobVars, signalled, status>>

\* process.wait() returns.
WaitEnds(c) ==
    /\ pc[c] = "wait"
    /\ process = "zombie"
    /\ process' = "reaped"
    /\ exit_code' = status
    /\ Finish(c, status)
    /\ UNCHANGED <<paused, signalled, status>>

Run(c) ==
    \/ Pause(c)
    \/ Resume(c)
    \/ \E force \in BOOLEAN : Cancel(c, force)
    \/ Wait(c)

Next ==
    \/ ExitByItself \/ ExitOnTerm \/ ExitOnKill
    \/ \E c \in Clients :
          \/ \E m \in Methods : Call(c, m)
          \/ MirrorCall(c) \/ Run(c) \/ WaitEnds(c) \/ Deliver(c)

Spec == Init /\ [][Next]_vars

\* The locks are handed to every call that waits for them, and a signal takes
\* effect; nobody has to call, and the process need not end by itself.
Fairness ==
    /\ \A c \in Clients :
          /\ SF_vars(MirrorCall(c))
          /\ SF_vars(Run(c))
          /\ WF_vars(WaitEnds(c))
          /\ WF_vars(Deliver(c))
    /\ WF_vars(ExitOnTerm)
    /\ WF_vars(ExitOnKill)

\* A job that does its work and ends, unless it is stopped for good.
EndingSpec == Spec /\ Fairness /\ SF_vars(ExitByItself)

-----------------------------------------------------------------------------
(* Properties.                                                             *)

\* A process is stopped only while its job counts as paused: no order of
\* calls, and no signal that comes late, leaves a stopped process that Resume
\* refuses to continue ("Not paused").
StoppedIsPaused == process = "stopped" => paused

\* Nobody can stop a job somebody waits for: the wait would not end.
WaitedForRuns == \A c \in Clients : pc[c] = "wait" => process # "stopped"

\* The exit code is that of the process, known exactly when it was reaped,
\* and every wait that gave one gave the same (wait, try_wait).
CodeIsStatus ==
    /\ exit_code # None <=> process = "reaped"
    /\ exit_code # None => exit_code = status
    /\ \A c \in Clients : reply[c] \in Codes => reply[c] = exit_code

\* If the process ends when it is not stopped, every call returns, also when
\* one call waits for the job while others want to pause it.
EveryCallReturns == \A c \in Clients : pc[c] # "idle" ~> pc[c] = "idle"

\* "Canceling a process should unpause it": a process that got its signal does
\* end, unless somebody pauses it again.
CancelledEnds == signalled # "none" ~> ~Alive \/ paused

\* Nobody waits for ever: neither a caller, nor a process that was cancelled
\* (both of the above).
CallsComeToAnEnd == EveryCallReturns /\ CancelledEnds
=============================================================================
