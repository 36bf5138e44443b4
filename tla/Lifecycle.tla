------------------------------ MODULE Lifecycle ------------------------------
(***************************************************************************)
(* How the root daemon starts and stops (daemon, RootContext::start and    *)
(* reload_ds_inhibit in daemon/root.rs; Daemon::run in daemon/mod.rs;      *)
(* Service::start in lib.rs). Each service is a task of one JoinSet, which *)
(* a token cancels; what it has to undo it does in its shutdown. Of what   *)
(* is undone the model has the tracefs instance of Ftrace, which outlives  *)
(* the process. Daemon models what the loop does with commands, DsInhibit  *)
(* what the inhibitor undoes.                                              *)
(***************************************************************************)
EXTENDS Naturals, Sequences

CONSTANTS
    MaxLives,            (* how often the daemon starts                    *)
    MaxLifeFaults        (* how many things fail                           *)

ASSUME LifeAssumption == MaxLives \in Nat \ {0} /\ MaxLifeFaults \in Nat

\* Every time the inhibitor is enabled it is another service.
LifeServices == {"log", "ftrace", "inputplumber", "sysfs", "inhibitor 1", "inhibitor 2"}
LifeTasks == LifeServices \cup {"naming"}

\* What daemon() and Daemon::run do before the loop; each may fail, except that
\* DeckService::init does not.
LifeStart == <<"log", "state", "config", "ftrace", "inputplumber", "sysfs",
               "inhibitor 1", "naming">>

VARIABLES
    stage,               (* "start", "loop", "stop" or "exited"            *)
    begun,               (* how far the start is in LifeStart              *)
    wantsInhibitor,      (* what state.toml says of it                     *)
    task,                (* where the task of each service is              *)
    runResult,           (* what its run returned, or then its task        *)
    cancelled,           (* the services whose token is cancelled          *)
    exit,                (* the result of Daemon::run so far               *)
    instance,            (* is the tracefs instance there?                 *)
    (* for the properties *)
    erred,               (* has something failed in this life?             *)
    orderly,             (* did the loop end, and nothing kill the daemon? *)
    lives,
    lifeFaults

lifeVars == <<stage, begun, wantsInhibitor, task, runResult, cancelled, exit,
              instance, erred, orderly, lives, lifeFaults>>

\* The types of the daemon's state and of its services.
LifeTypeOK ==
    /\ stage \in {"start", "loop", "stop", "exited"}
    /\ begun \in 0..Len(LifeStart)
    /\ task \in [LifeTasks -> {"none", "running", "shutdown", "ended", "joined"}]
    /\ runResult \in [LifeTasks -> {"ok", "error"}]
    /\ cancelled \subseteq LifeServices
    /\ exit \in {"ok", "error"}
    /\ wantsInhibitor \in BOOLEAN /\ instance \in BOOLEAN
    /\ erred \in BOOLEAN /\ orderly \in BOOLEAN
    /\ lives \in 1..MaxLives
    /\ lifeFaults \in 0..MaxLifeFaults

LifeInit ==
    /\ stage = "start"
    /\ begun = 0
    /\ wantsInhibitor \in BOOLEAN
    /\ task = [t \in LifeTasks |-> "none"]
    /\ runResult = [t \in LifeTasks |-> "ok"]
    /\ cancelled = {}
    /\ exit = "ok"
    /\ instance = FALSE
    /\ erred = FALSE
    /\ orderly = FALSE
    /\ lives = 1
    /\ lifeFaults = 0

Fault ==
    /\ lifeFaults < MaxLifeFaults
    /\ lifeFaults' = lifeFaults + 1
    /\ erred' = TRUE

NoFault == UNCHANGED <<lifeFaults, erred>>

-----------------------------------------------------------------------------
(* The start.                                                              *)

\* Ftrace::init makes the instance first of all.
MakesInstance(step) == instance' = (instance \/ step = "ftrace")

\* add_service spawns the task at once; the one that takes the name is the last.
BeginStep ==
    /\ stage = "start"
    /\ begun' = begun + 1
    /\ LET step == LifeStart[begun + 1]
       IN  /\ MakesInstance(step)
           /\ task' = IF step \in LifeTasks /\ (step = "inhibitor 1" => wantsInhibitor)
                      THEN [task EXCEPT ![step] = "running"] ELSE task
           /\ stage' = IF step = "naming" THEN "loop" ELSE "start"
    /\ NoFault
    /\ UNCHANGED <<wantsInhibitor, runResult, cancelled, exit, orderly, lives>>

\* An error ends the daemon; the JoinSet goes with it, and so do the tasks,
\* without their shutdown.
BeginFails ==
    /\ stage = "start"
    /\ LET step == LifeStart[begun + 1]
       IN  /\ step \notin {"inputplumber", "naming"}
           /\ step = "inhibitor 1" => wantsInhibitor
           /\ MakesInstance(step)
    /\ Fault
    /\ stage' = "exited"
    /\ exit' = "error"
    /\ UNCHANGED <<begun, wantsInhibitor, task, runResult, cancelled, orderly, lives>>

-----------------------------------------------------------------------------
(* Service::start.                                                         *)

Alive == stage \in {"start", "loop", "stop"}

\* The services that have something to undo; shutdown of the others does nothing.
Undoes == {"ftrace", "inhibitor 1", "inhibitor 2"}
AfterRun(s) == IF s \in Undoes THEN "shutdown" ELSE "ended"

\* run returns an error; the token it cancels is the service's own.
RunFails(s) ==
    /\ Alive
    /\ task[s] = "running"
    /\ task' = [task EXCEPT ![s] = AfterRun(s)]
    /\ runResult' = [runResult EXCEPT ![s] = "error"]
    /\ cancelled' = cancelled \cup {s}
    /\ Fault
    /\ UNCHANGED <<stage, begun, wantsInhibitor, exit, instance, orderly, lives>>

\* The token ends run wherever it is.
RunCancelled(s) ==
    /\ Alive
    /\ task[s] = "running" /\ s \in cancelled
    /\ task' = [task EXCEPT ![s] = AfterRun(s)]
    /\ NoFault
    /\ UNCHANGED <<stage, begun, wantsInhibitor, runResult, cancelled, exit, instance,
                   orderly, lives>>

\* shutdown().and(res): Ftrace removes its instance.
ShutsDown(s) ==
    /\ Alive
    /\ task[s] = "shutdown"
    /\ task' = [task EXCEPT ![s] = "ended"]
    /\ instance' = (instance /\ s # "ftrace")
    /\ NoFault
    /\ UNCHANGED <<stage, begun, wantsInhibitor, runResult, cancelled, exit, orderly, lives>>

\* The shutdowns that may fail: another program reads the instance, or a watch
\* or a device has gone.
ShutdownFails(s) ==
    /\ Alive
    /\ task[s] = "shutdown"
    /\ task' = [task EXCEPT ![s] = "ended"]
    /\ runResult' = [runResult EXCEPT ![s] = "error"]
    /\ Fault
    /\ UNCHANGED <<stage, begun, wantsInhibitor, cancelled, exit, instance, orderly, lives>>

\* No token ends the task that asks for the name.
Named ==
    /\ Alive
    /\ task["naming"] = "running"
    /\ task' = [task EXCEPT !["naming"] = "ended"]
    /\ NoFault
    /\ UNCHANGED <<stage, begun, wantsInhibitor, runResult, cancelled, exit, instance,
                   orderly, lives>>

NameRefused ==
    /\ Alive
    /\ task["naming"] = "running"
    /\ task' = [task EXCEPT !["naming"] = "ended"]
    /\ runResult' = [runResult EXCEPT !["naming"] = "error"]
    /\ Fault
    /\ UNCHANGED <<stage, begun, wantsInhibitor, cancelled, exit, instance, orderly, lives>>

-----------------------------------------------------------------------------
(* The loop of Daemon::run, and what comes after it.                       *)

\* MUTANT of LeaveLoop: the process ends without its services.
LeaveLoopAtOnce(result) ==
    /\ stage' = "exited"
    /\ orderly' = TRUE
    /\ exit' = result
    /\ cancelled' = LifeServices

\* The loop ends: the daemon's token cancels every service's.
LeaveLoop(result) ==
    /\ stage' = "stop"
    /\ orderly' = TRUE
    /\ exit' = result
    /\ cancelled' = LifeServices

\* join_next in the loop: only an error ends it.
JoinInLoop(t) ==
    /\ stage = "loop"
    /\ task[t] = "ended"
    /\ task' = [task EXCEPT ![t] = "joined"]
    /\ IF runResult[t] = "error" THEN LeaveLoop("error")
       ELSE UNCHANGED <<stage, orderly, exit, cancelled>>
    /\ NoFault
    /\ UNCHANGED <<begun, wantsInhibitor, runResult, instance, lives>>

\* SIGINT or SIGTERM.
Terminate ==
    /\ stage = "loop"
    /\ LeaveLoop("ok")
    /\ NoFault
    /\ UNCHANGED <<begun, wantsInhibitor, task, runResult, instance, lives>>

\* SIGQUIT, or a handler of a command returns an error.
LoopFails ==
    /\ stage = "loop"
    /\ Fault
    /\ LeaveLoop("error")
    /\ UNCHANGED <<begun, wantsInhibitor, task, runResult, instance, lives>>

\* SetDsInhibit(false): the token of the inhibitor that runs.
DisableInhibitor(s) ==
    /\ stage = "loop"
    /\ s \in {"inhibitor 1", "inhibitor 2"} \ cancelled
    /\ task[s] # "none"
    /\ cancelled' = cancelled \cup {s}
    /\ wantsInhibitor' = FALSE
    /\ NoFault
    /\ UNCHANGED <<stage, begun, task, runResult, exit, instance, orderly, lives>>

\* SetDsInhibit(true); the one before may still be in its shutdown.
EnableInhibitor ==
    /\ stage = "loop"
    /\ ~wantsInhibitor
    /\ \E s \in {"inhibitor 1", "inhibitor 2"} :
          /\ task[s] = "none"
          /\ s = "inhibitor 2" => task["inhibitor 1"] # "none"
          /\ task' = [task EXCEPT ![s] = "running"]
    /\ wantsInhibitor' = TRUE
    /\ NoFault
    /\ UNCHANGED <<stage, begun, runResult, cancelled, exit, instance, orderly, lives>>

\* join_next after the loop: an error is the result, whatever it was before.
JoinAtEnd(t) ==
    /\ stage = "stop"
    /\ task[t] = "ended"
    /\ task' = [task EXCEPT ![t] = "joined"]
    /\ exit' = IF runResult[t] = "error" THEN "error" ELSE exit
    /\ NoFault
    /\ UNCHANGED <<stage, begun, wantsInhibitor, runResult, cancelled, instance, orderly, lives>>

Exit ==
    /\ stage = "stop"
    /\ \A t \in LifeTasks : task[t] \in {"none", "joined"}
    /\ stage' = "exited"
    /\ NoFault
    /\ UNCHANGED <<begun, wantsInhibitor, task, runResult, cancelled, exit, instance,
                   orderly, lives>>

\* A crash, or SIGKILL.
KillDaemon ==
    /\ Alive
    /\ Fault
    /\ stage' = "exited"
    /\ exit' = "error"
    /\ orderly' = FALSE
    /\ UNCHANGED <<begun, wantsInhibitor, task, runResult, cancelled, instance, lives>>

\* systemd, or the next call, starts it again.
NextLife ==
    /\ stage = "exited"
    /\ lives < MaxLives
    /\ lives' = lives + 1
    /\ stage' = "start"
    /\ begun' = 0
    /\ task' = [t \in LifeTasks |-> "none"]
    /\ runResult' = [t \in LifeTasks |-> "ok"]
    /\ cancelled' = {}
    /\ exit' = "ok"
    /\ erred' = FALSE
    /\ orderly' = FALSE
    /\ UNCHANGED <<wantsInhibitor, instance, lifeFaults>>

LifeNext ==
    \/ BeginStep \/ BeginFails
    \/ \E s \in LifeServices :
         \/ RunFails(s) \/ RunCancelled(s) \/ ShutsDown(s) \/ ShutdownFails(s)
         \/ DisableInhibitor(s)
    \/ Named \/ NameRefused
    \/ \E t \in LifeTasks : JoinInLoop(t) \/ JoinAtEnd(t)
    \/ Terminate \/ LoopFails \/ EnableInhibitor
    \/ Exit \/ KillDaemon \/ NextLife

LifeSpec == LifeInit /\ [][LifeNext]_lifeVars

-----------------------------------------------------------------------------
(* What a stop promises.                                                   *)

\* A daemon that left its loop has shut every service down, those that came and
\* went while it ran too: nothing of it stays in tracefs, also what an earlier
\* life left there, and it fails if and only if something of it failed, however
\* late (Daemon::run after the loop, Service::start).
StopIsOrderly ==
    stage = "exited" /\ orderly =>
       /\ exit = "error" <=> erred
       /\ instance => exit = "error"
=============================================================================
