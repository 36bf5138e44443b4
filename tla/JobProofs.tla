------------------------------ MODULE JobProofs ------------------------------
(***************************************************************************)
(* Theorems about Job, for any number of clients of the job and of its     *)
(* mirror, and about JobManager, for any callers, any number of jobs and   *)
(* any number of restarts of the root daemon.                              *)
(***************************************************************************)
EXTENDS Job, JobManager, TLAPS

-----------------------------------------------------------------------------
(* One job. What makes its properties inductive: the call that waits is    *)
(* the one that has the job, and while it waits the job is not paused; and *)
(* what is known of the end of the process follows the state of the        *)
(* process.                                                                *)

Waiter ==
    \A c \in Clients :
        /\ pc[c] = "wait" <=> job_lock = c
        /\ pc[c] = "wait" => ~paused

Ended ==
    /\ status = None <=> Alive
    /\ exit_code # None <=> process = "reaped"
    /\ exit_code # None => exit_code = status

RepliesAgree == \A c \in Clients : reply[c] \in Codes => reply[c] = exit_code

JobInv == TypeOK /\ StoppedIsPaused /\ Waiter /\ Ended /\ RepliesAgree

USE JobAssumption DEF Codes, Methods

LEMMA InitInv == Init => JobInv
<1> SUFFICES ASSUME Init PROVE JobInv
  OBVIOUS
<1>1. TypeOK
  BY DEF Init, TypeOK
<1>2. StoppedIsPaused /\ Waiter /\ Ended /\ RepliesAgree
  BY DEF Init, StoppedIsPaused, Waiter, Ended, Alive, RepliesAgree
<1> QED BY <1>1, <1>2 DEF JobInv

\* The process ends.
LEMMA ExitKeeps ==
    ASSUME JobInv, NEW s \in Codes, Alive, Exit(s)
    PROVE  JobInv'
<1>1. TypeOK'
  BY DEF JobInv, TypeOK, Exit, jobVars, callVars
<1>2. StoppedIsPaused' /\ Waiter' /\ Ended' /\ RepliesAgree'
  BY DEF JobInv, StoppedIsPaused, Waiter, Ended, Alive, RepliesAgree, Exit,
         jobVars, callVars
<1> QED BY <1>1, <1>2 DEF JobInv

\* A call that neither touches the job nor waits for it moves on.
LEMMA MoveKeeps ==
    ASSUME JobInv, NEW c \in Clients,
           pc' \in [Clients -> {"idle", "mirror", "job", "wait", "reply"}],
           method' \in [Clients -> Methods], mirror_lock' \in Clients \cup {None},
           reply' \in [Clients -> Codes \cup {"ok", "error", "none"}],
           \A d \in Clients : reply'[d] \in Codes => reply'[d] = reply[d],
           pc[c] # "wait", pc'[c] # "wait",
           \A d \in Clients : d # c => pc'[d] = pc[d],
           UNCHANGED <<job_lock, jobVars, processVars>>
    PROVE  JobInv'
<1>1. TypeOK'
  BY DEF JobInv, TypeOK, jobVars, processVars
<1>2. Waiter'
  BY DEF JobInv, Waiter, jobVars
<1>3. StoppedIsPaused' /\ Ended' /\ RepliesAgree'
  BY DEF JobInv, StoppedIsPaused, Ended, Alive, RepliesAgree, jobVars, processVars
<1> QED BY <1>1, <1>2, <1>3 DEF JobInv

LEMMA CallKeeps ==
    ASSUME JobInv, NEW c \in Clients, NEW m \in Methods, Call(c, m)
    PROVE  JobInv'
  BY MoveKeeps DEF JobInv, TypeOK, Call, jobVars, processVars

LEMMA MirrorCallKeeps ==
    ASSUME JobInv, NEW c \in Clients, MirrorCall(c)
    PROVE  JobInv'
  BY MoveKeeps DEF JobInv, TypeOK, MirrorCall, jobVars, processVars

LEMMA DeliverKeeps ==
    ASSUME JobInv, NEW c \in Clients, Deliver(c)
    PROVE  JobInv'
  BY MoveKeeps DEF JobInv, TypeOK, Deliver, jobVars, processVars

\* A call that has the job finishes with reply r.
LEMMA FinishTypes ==
    ASSUME JobInv, NEW c \in Clients, NEW r \in Codes \cup {"ok", "error"},
           Finish(c, r), r \in Codes => r = exit_code',
           exit_code # None => exit_code' = exit_code,
           job_lock \in {None, c},
           paused' = FALSE \/ job_lock = None
    PROVE  /\ pc' \in [Clients -> {"idle", "mirror", "job", "wait", "reply"}]
           /\ reply' \in [Clients -> Codes \cup {"ok", "error", "none"}]
           /\ job_lock' = None /\ method' = method /\ mirror_lock' = mirror_lock
           /\ Waiter' /\ RepliesAgree'
<1>1. /\ pc \in [Clients -> {"idle", "mirror", "job", "wait", "reply"}]
      /\ reply \in [Clients -> Codes \cup {"ok", "error", "none"}]
      /\ pc' = [pc EXCEPT ![c] = "reply"]
      /\ reply' = [reply EXCEPT ![c] = r]
      /\ job_lock' = None
  BY DEF JobInv, TypeOK, Finish
<1>2. \A d \in Clients : pc'[d] # "wait"
  <2> TAKE d \in Clients
  <2>1. CASE d = c
    BY <1>1, <2>1
  <2>2. CASE d # c
    BY <1>1, <2>2 DEF JobInv, Waiter
  <2> QED BY <2>1, <2>2
<1>3. Waiter'
  BY <1>1, <1>2 DEF Waiter
<1>4. RepliesAgree'
  <2> SUFFICES ASSUME NEW d \in Clients, reply'[d] \in Codes
               PROVE  reply'[d] = exit_code'
    BY DEF RepliesAgree
  <2>1. CASE d = c
    BY <1>1, <2>1
  <2>2. CASE d # c
    BY <1>1, <2>2 DEF JobInv, RepliesAgree
  <2> QED BY <2>1, <2>2
<1> QED BY <1>1, <1>3, <1>4 DEF Finish

LEMMA PauseKeeps ==
    ASSUME JobInv, NEW c \in Clients, Pause(c)
    PROVE  JobInv'
<1>1. CASE paused
  <2>1. Refuse(c) /\ job_lock = None
    BY <1>1 DEF Pause, Start
  <2>2. UNCHANGED <<jobVars, processVars>> /\ Finish(c, "error")
    BY <2>1 DEF Refuse
  <2>3. Waiter' /\ RepliesAgree'
    BY <2>1, <2>2, FinishTypes DEF jobVars
  <2>4. TypeOK'
    BY <2>1, <2>2, FinishTypes DEF JobInv, TypeOK, jobVars, processVars
  <2> QED BY <2>2, <2>3, <2>4
          DEF JobInv, StoppedIsPaused, Ended, Alive, jobVars, processVars
<1>2. CASE ~paused
  <2> DEFINE r == IF HasPid THEN "ok" ELSE "error"
  <2>1. /\ job_lock = None /\ paused' = TRUE /\ Stop /\ Finish(c, r)
        /\ UNCHANGED <<exit_code, signalled, status>>
    BY <1>2 DEF Pause, Start
  <2>2. r \in {"ok", "error"}
    OBVIOUS
  <2> HIDE DEF r
  <2>3. Waiter' /\ RepliesAgree'
    BY <2>1, <2>2, FinishTypes
  <2>4. TypeOK'
    BY <2>1, <2>2, FinishTypes DEF JobInv, TypeOK, Stop
  <2>5. StoppedIsPaused' /\ Ended'
    BY <2>1 DEF JobInv, TypeOK, StoppedIsPaused, Ended, Alive, Stop
  <2> QED BY <2>3, <2>4, <2>5 DEF JobInv
<1> QED BY <1>1, <1>2

LEMMA ResumeKeeps ==
    ASSUME JobInv, NEW c \in Clients, Resume(c)
    PROVE  JobInv'
<1>1. CASE ~paused
  <2>1. Refuse(c) /\ job_lock = None
    BY <1>1 DEF Resume, Start
  <2>2. UNCHANGED <<jobVars, processVars>> /\ Finish(c, "error")
    BY <2>1 DEF Refuse
  <2>3. Waiter' /\ RepliesAgree'
    BY <2>1, <2>2, FinishTypes DEF jobVars
  <2>4. TypeOK'
    BY <2>1, <2>2, FinishTypes DEF JobInv, TypeOK, jobVars, processVars
  <2> QED BY <2>2, <2>3, <2>4
          DEF JobInv, StoppedIsPaused, Ended, Alive, jobVars, processVars
<1>2. CASE paused
  <2> DEFINE r == IF HasPid THEN "ok" ELSE "error"
  <2>1. /\ job_lock = None /\ paused' = FALSE /\ Cont /\ Finish(c, r)
        /\ UNCHANGED <<exit_code, signalled, status>>
    BY <1>2 DEF Resume, Start
  <2>2. r \in {"ok", "error"}
    OBVIOUS
  <2> HIDE DEF r
  <2>3. Waiter' /\ RepliesAgree'
    BY <2>1, <2>2, FinishTypes
  <2>4. TypeOK'
    BY <2>1, <2>2, FinishTypes DEF JobInv, TypeOK, Cont
  <2>5. StoppedIsPaused' /\ Ended'
    BY <2>1 DEF JobInv, TypeOK, StoppedIsPaused, Ended, Alive, Cont
  <2> QED BY <2>3, <2>4, <2>5 DEF JobInv
<1> QED BY <1>1, <1>2

LEMMA CancelKeeps ==
    ASSUME JobInv, NEW c \in Clients, NEW force \in BOOLEAN, Cancel(c, force)
    PROVE  JobInv'
<1>1. job_lock = None /\ Finish(c, "ok")
  BY DEF Cancel, Start
<1>2. CASE Alive
  <2>1. /\ signalled' \in {"none", "SIGTERM", "SIGKILL"}
        /\ paused' = FALSE /\ UNCHANGED <<exit_code, status>>
    BY <1>2 DEF Cancel, JobInv, TypeOK
  <2>2. process' \in {"running", "stopped"} /\ process' # "stopped"
    <3>1. CASE paused
      BY <1>2, <3>1 DEF Cancel, Cont, Alive
    <3>2. CASE ~paused
      BY <1>2, <3>2 DEF Cancel, Alive, JobInv, StoppedIsPaused
    <3> QED BY <3>1, <3>2
  <2>3. Waiter' /\ RepliesAgree'
    BY <1>1, <2>1, FinishTypes
  <2>4. TypeOK'
    BY <1>1, <2>1, <2>2, FinishTypes DEF JobInv, TypeOK
  <2>5. StoppedIsPaused' /\ Ended'
    BY <1>2, <2>1, <2>2 DEF JobInv, StoppedIsPaused, Ended, Alive
  <2> QED BY <2>3, <2>4, <2>5 DEF JobInv
<1>3. CASE ~Alive
  <2>1. /\ process' = "reaped" /\ exit_code' = status
        /\ UNCHANGED <<paused, signalled, status>>
    BY <1>3 DEF Cancel
  <2>2. Waiter' /\ RepliesAgree'
    BY <1>1, <2>1, FinishTypes DEF JobInv, Ended
  <2>3. TypeOK'
    <3>1. status \in Codes \cup {None} /\ (exit_code # None => status = exit_code)
      BY DEF JobInv, TypeOK, Ended
    <3>2. /\ pc' \in [Clients -> {"idle", "mirror", "job", "wait", "reply"}]
          /\ reply' \in [Clients -> Codes \cup {"ok", "error", "none"}]
          /\ job_lock' = None /\ method' = method /\ mirror_lock' = mirror_lock
      BY <1>1, <2>1, <3>1, FinishTypes
    <3> QED BY <2>1, <3>1, <3>2 DEF JobInv, TypeOK
  <2>4. StoppedIsPaused' /\ Ended'
    BY <1>3, <2>1 DEF JobInv, StoppedIsPaused, Ended, Alive
  <2> QED BY <2>2, <2>3, <2>4 DEF JobInv
<1> QED BY <1>2, <1>3

LEMMA WaitKeeps ==
    ASSUME JobInv, NEW c \in Clients, Wait(c)
    PROVE  JobInv'
<1>1. /\ job_lock = None /\ pc[c] = "job" /\ paused' = FALSE
      /\ UNCHANGED <<exit_code, signalled, status>>
  BY DEF Wait, Start
<1>2. /\ process' \in {"running", "stopped", "zombie", "reaped"}
      /\ process' # "stopped"
      /\ Alive' <=> Alive
      /\ process' = "reaped" <=> process = "reaped"
  <2>1. CASE paused
    BY <2>1 DEF Wait, Cont, JobInv, TypeOK, Alive
  <2>2. CASE ~paused
    BY <2>2 DEF Wait, JobInv, TypeOK, Alive, StoppedIsPaused
  <2> QED BY <2>1, <2>2
<1>3. StoppedIsPaused' /\ Ended'
  BY <1>1, <1>2 DEF JobInv, StoppedIsPaused, Ended
<1>4. CASE Finish(c, "error") \/ (exit_code # None /\ Finish(c, exit_code))
  <2>1. PICK r \in Codes \cup {"ok", "error"} :
            Finish(c, r) /\ (r \in Codes => r = exit_code)
    BY <1>4 DEF JobInv, TypeOK
  <2>2. Waiter' /\ RepliesAgree'
    BY <1>1, <2>1, FinishTypes
  <2>3. TypeOK'
    BY <1>1, <1>2, <2>1, FinishTypes DEF JobInv, TypeOK
  <2> QED BY <1>3, <2>2, <2>3 DEF JobInv
<1>5. CASE /\ job_lock' = c
           /\ pc' = [pc EXCEPT ![c] = "wait"]
           /\ UNCHANGED <<method, reply, mirror_lock>>
  <2>1. TypeOK'
    BY <1>1, <1>2, <1>5 DEF JobInv, TypeOK
  <2>2. Waiter'
    <3> SUFFICES ASSUME NEW d \in Clients PROVE pc'[d] = "wait" <=> job_lock' = d
      BY <1>1 DEF Waiter
    <3>1. CASE d = c
      BY <1>5, <3>1 DEF JobInv, TypeOK
    <3>2. CASE d # c
      BY <1>1, <1>5, <3>2 DEF JobInv, TypeOK, Waiter
    <3> QED BY <3>1, <3>2
  <2>3. RepliesAgree'
    BY <1>1, <1>5 DEF JobInv, RepliesAgree
  <2> QED BY <1>3, <2>1, <2>2, <2>3 DEF JobInv
<1> QED BY <1>4, <1>5 DEF Wait

LEMMA WaitEndsKeeps ==
    ASSUME JobInv, NEW c \in Clients, WaitEnds(c)
    PROVE  JobInv'
<1>1. /\ job_lock = c /\ ~paused /\ process = "zombie" /\ process' = "reaped"
      /\ exit_code' = status /\ Finish(c, status)
      /\ UNCHANGED <<paused, signalled, status>>
  BY DEF WaitEnds, JobInv, Waiter
<1>2. status \in Codes /\ exit_code = None
  BY <1>1 DEF JobInv, TypeOK, Ended, Alive
<1>3. Waiter' /\ RepliesAgree'
  BY <1>1, <1>2, FinishTypes DEF JobInv, TypeOK
<1>4. TypeOK'
  BY <1>1, <1>2, FinishTypes DEF JobInv, TypeOK
<1>5. StoppedIsPaused' /\ Ended'
  BY <1>1, <1>2 DEF StoppedIsPaused, Ended, Alive
<1> QED BY <1>3, <1>4, <1>5 DEF JobInv

LEMMA StepInv == JobInv /\ [Next]_vars => JobInv'
<1> SUFFICES ASSUME JobInv, [Next]_vars PROVE JobInv'
  OBVIOUS
<1>1. CASE ExitByItself \/ ExitOnTerm \/ ExitOnKill
  BY <1>1, ExitKeeps DEF ExitByItself, ExitOnTerm, ExitOnKill, Alive
<1>2. CASE \E c \in Clients :
             \/ \E m \in Methods : Call(c, m)
             \/ MirrorCall(c) \/ Run(c) \/ WaitEnds(c) \/ Deliver(c)
  BY <1>2, CallKeeps, MirrorCallKeeps, DeliverKeeps, PauseKeeps, ResumeKeeps,
     CancelKeeps, WaitKeeps, WaitEndsKeeps DEF Run
<1>3. CASE UNCHANGED vars
  BY <1>3 DEF JobInv, TypeOK, StoppedIsPaused, Waiter, Ended, Alive,
              RepliesAgree, vars, jobVars, processVars, callVars
<1> QED BY <1>1, <1>2, <1>3 DEF Next

\* The types hold for any number of clients.
THEOREM JobTypeCorrect == Spec => []TypeOK
<1>1. JobInv => TypeOK
  BY DEF JobInv
<1> QED BY <1>1, InitInv, StepInv, PTL DEF Spec

\* A process is never stopped behind the back of its job.
THEOREM NeverStoppedUnpaused == Spec => []StoppedIsPaused
<1>1. JobInv => StoppedIsPaused
  BY DEF JobInv
<1> QED BY <1>1, InitInv, StepInv, PTL DEF Spec

\* Whoever waits waits for a process that is not stopped, and that nobody can
\* stop until the wait is over.
THEOREM WaitIsNotObstructed == Spec => []WaitedForRuns
<1>1. JobInv => WaitedForRuns
  BY DEF JobInv, StoppedIsPaused, Waiter, WaitedForRuns
<1> QED BY <1>1, InitInv, StepInv, PTL DEF Spec

\* The exit code is the one the process ended with, in every reply.
THEOREM CodesAreTrue == Spec => []CodeIsStatus
<1>1. JobInv => CodeIsStatus
  BY DEF JobInv, Ended, RepliesAgree, CodeIsStatus
<1> QED BY <1>1, InitInv, StepInv, PTL DEF Spec

-----------------------------------------------------------------------------
(* The jobs of the root daemon and their mirrors.                          *)

\* A caller in the channel waits there once, for the job it was given.
InChannel ==
    /\ \A k \in 1..Len(channel) : channel[k].kind = "job" =>
          /\ at[channel[k].client] = "mirror"
          /\ path[channel[k].client] = channel[k].path
    /\ \A k, l \in 1..Len(channel) :
          /\ channel[k].kind = "job" /\ channel[l].kind = "job"
          /\ channel[k].client = channel[l].client
          => k = l

\* A caller has its job's path once the owner has answered, and its mirror
\* once its call has ended.
CallerHas(c) ==
    /\ at[c] = "call" => path[c] = NoMirror
    /\ at[c] \in {"ran", "mirror"} => path[c] \in Paths
    /\ at[c] # "idle" => got[c] = NoMirror
    /\ epoch[c] <= restarts
    /\ got[c] # NoMirror => path[c] \in Paths /\ mirrored[path[c]] = got[c]
    /\ owner[c] = "root" /\ epoch[c] = restarts /\ path[c] # NoMirror =>
          path[c] < jobs["root"]

MirrorInv ==
    /\ MirrorTypeOK
    /\ ~up => restarts < MaxRestarts
    /\ MirrorsAreOne
    /\ InChannel
    /\ \A c \in Callers : CallerHas(c)

LEMMA PathsAreNat == Paths \subseteq Nat /\ NoMirror \notin Nat /\ NoMirror \notin Paths
BY JobManagerAssumption DEF Paths

LEMMA CommandOfJob ==
    ASSUME NEW x \in Commands, x.kind = "job"
    PROVE  x.client \in Callers /\ x.path \in Paths
BY DEF Commands, Connection, MirrorJob

LEMMA InitMirrorInv == MirrorInit => MirrorInv
<1> SUFFICES ASSUME MirrorInit PROVE MirrorInv
  OBVIOUS
<1> USE JobManagerAssumption, PathsAreNat DEF MirrorInit
<1>1. MirrorTypeOK
  BY DEF MirrorTypeOK, Commands, Owners
<1>2. MirrorsAreOne
  BY DEF MirrorsAreOne
<1>3. InChannel
  BY DEF InChannel, Connection
<1>4. ASSUME NEW c \in Callers PROVE CallerHas(c)
  <2>1. at[c] = "idle" /\ got[c] = NoMirror /\ path[c] = NoMirror /\ epoch[c] = 0
        /\ restarts = 0 /\ 0 <= 0
    OBVIOUS
  <2>2. QED
    BY <2>1 DEF CallerHas
<1>5. QED
  BY <1>1, <1>2, <1>3, <1>4 DEF MirrorInv

\* What mirror_job does to the mirrors.
LEMMA MirrorKeeps ==
    ASSUME MirrorInv, NEW p \in Paths, Mirror(p)
    PROVE  /\ mirrored' \in [Paths -> Nat \cup {NoMirror}] /\ next' \in Nat
           /\ MirrorsAreOne'
           /\ mirrored'[p] # NoMirror
           /\ \A q \in Paths : mirrored[q] # NoMirror => mirrored'[q] = mirrored[q]
<1> USE JobManagerAssumption, PathsAreNat
<1>1. mirrored \in [Paths -> Nat \cup {NoMirror}] /\ next \in Nat /\ MirrorsAreOne
  BY DEF MirrorInv, MirrorTypeOK
<1>2. CASE mirrored[p] # NoMirror
  BY <1>1, <1>2 DEF Mirror, MirrorsAreOne
<1>3. CASE mirrored[p] = NoMirror
  <2>1. mirrored' = [mirrored EXCEPT ![p] = next] /\ next' = next + 1
    BY <1>3 DEF Mirror
  <2>2. mirrored' \in [Paths -> Nat \cup {NoMirror}] /\ next' \in Nat /\ mirrored'[p] = next
    BY <1>1, <2>1
  <2>3. \A q \in Paths : q # p => mirrored'[q] = mirrored[q]
    BY <1>1, <2>1
  <2>4. \A q \in Paths : mirrored'[q] # NoMirror => mirrored'[q] < next'
    BY <1>1, <2>1, <2>2, <2>3 DEF MirrorsAreOne
  <2>5. ASSUME NEW q \in Paths, NEW r \in Paths,
               mirrored'[q] # NoMirror, mirrored'[q] = mirrored'[r]
        PROVE q = r
    BY <1>1, <2>2, <2>3, <2>5 DEF MirrorsAreOne
  <2>6. ASSUME NEW n \in 0..next' - 1 PROVE \E q \in Paths : mirrored'[q] = n
    <3>1. CASE n = next
      BY <2>2, <3>1
    <3>2. CASE n # next
      <4>1. n \in 0..next - 1
        BY <1>1, <2>1, <3>2
      <4>2. PICK q \in Paths : mirrored[q] = n
        BY <1>1, <4>1 DEF MirrorsAreOne
      <4>3. q # p
        BY <1>3, <4>1, <4>2
      <4>4. QED
        BY <2>3, <4>2, <4>3
    <3>3. QED
      BY <3>1, <3>2
  <2>7. MirrorsAreOne'
    BY <2>4, <2>5, <2>6 DEF MirrorsAreOne
  <2>8. QED
    BY <1>1, <1>3, <2>1, <2>2, <2>3, <2>7, PathsAreNat
<1>4. QED
  BY <1>2, <1>3

\* A step that has nothing mirrored and leaves the channel and the callers.
LEMMA QuietKeepsInv ==
    ASSUME MirrorInv, MirrorTypeOK', UNCHANGED <<channel, mirrored, next, clientVars>>,
           ~up' => restarts' < MaxRestarts,
           \/ restarts' = restarts /\ jobs["root"] <= jobs'["root"]
           \/ restarts' = restarts + 1
    PROVE  MirrorInv'
<1>1. MirrorsAreOne' /\ InChannel'
  BY DEF MirrorInv, MirrorsAreOne, InChannel, clientVars
<1>2. ASSUME NEW c \in Callers PROVE CallerHas(c)'
  <2>1. CallerHas(c)
    BY DEF MirrorInv
  <2>2. epoch[c] \in Nat /\ restarts' \in Nat /\ path[c] \in Paths \cup {NoMirror}
        /\ jobs["root"] \in Nat /\ jobs'["root"] \in Nat
    BY JobManagerAssumption DEF MirrorInv, MirrorTypeOK, Owners
  <2>3. ASSUME owner[c] = "root", epoch[c] = restarts', path[c] # NoMirror
        PROVE  path[c] < jobs'["root"]
    <3>1. restarts' = restarts /\ jobs["root"] <= jobs'["root"]
      BY <2>1, <2>2, <2>3 DEF CallerHas, MirrorInv, MirrorTypeOK
    <3>2. path[c] < jobs["root"] /\ path[c] \in Nat
      BY <2>1, <2>2, <2>3, <3>1, PathsAreNat DEF CallerHas
    <3>3. QED
      BY <2>2, <3>1, <3>2
  <2>4. epoch[c] <= restarts'
    BY <2>1, <2>2 DEF CallerHas, MirrorInv, MirrorTypeOK
  <2>5. QED
    BY <2>1, <2>3, <2>4 DEF CallerHas, clientVars
<1>3. QED
  BY <1>1, <1>2 DEF MirrorInv

\* A step of the service that mirrors a job and leaves the channel.
LEMMA MirroringKeepsInv ==
    ASSUME MirrorInv, MirrorTypeOK', NEW p \in Paths, Mirror(p),
           UNCHANGED <<channel, ownerVars, clientVars>>
    PROVE  MirrorInv'
<1>1. MirrorsAreOne' /\ \A q \in Paths : mirrored[q] # NoMirror => mirrored'[q] = mirrored[q]
  BY MirrorKeeps
<1>2. InChannel'
  BY DEF MirrorInv, InChannel, clientVars
<1>3. \A c \in Callers : CallerHas(c)'
  <2> SUFFICES ASSUME NEW c \in Callers PROVE CallerHas(c)'
    OBVIOUS
  <2>1. CallerHas(c)
    BY DEF MirrorInv
  <2>2. QED
    BY <1>1, <2>1 DEF CallerHas, clientVars, ownerVars
<1>4. QED
  BY <1>1, <1>2, <1>3 DEF MirrorInv, ownerVars

LEMMA RestOfChannel ==
    ASSUME MirrorInv, channel # <<>>
    PROVE  /\ Head(channel) \in Commands /\ Head(channel) = channel[1] /\ 1 \in 1..Len(channel)
           /\ Tail(channel) \in Seq(Commands)
           /\ \A k \in 1..Len(Tail(channel)) :
                 /\ k + 1 \in 1..Len(channel) /\ k + 1 # 1
                 /\ Tail(channel)[k] = channel[k + 1]
<1>1. channel \in Seq(Commands) /\ Len(channel) \in Nat /\ Len(channel) > 0
  BY DEF MirrorInv, MirrorTypeOK
<1>2. QED
  BY <1>1

LEMMA RestIsInChannel ==
    ASSUME MirrorInv, channel # <<>>, channel' = Tail(channel),
           \A c \in Callers : at[c] = "mirror" =>
              \/ at'[c] = "mirror"
              \/ Head(channel).kind = "job" /\ Head(channel).client = c,
           path' = path
    PROVE  InChannel'
<1>1. ASSUME NEW k \in 1..Len(channel'), channel'[k].kind = "job"
      PROVE  /\ at'[channel'[k].client] = "mirror"
             /\ path'[channel'[k].client] = channel'[k].path
  <2>1. k + 1 \in 1..Len(channel) /\ k + 1 # 1 /\ channel'[k] = channel[k + 1]
    BY RestOfChannel
  <2>2. channel[k + 1] \in Commands
    BY <2>1 DEF MirrorInv, MirrorTypeOK
  <2>3. channel'[k].client \in Callers
    BY <1>1, <2>1, <2>2, CommandOfJob
  <2>4. ~(Head(channel).kind = "job" /\ Head(channel).client = channel'[k].client)
    BY <1>1, <2>1, RestOfChannel DEF MirrorInv, InChannel
  <2>5. QED
    BY <1>1, <2>1, <2>3, <2>4 DEF MirrorInv, InChannel
<1>2. ASSUME NEW k \in 1..Len(channel'), NEW l \in 1..Len(channel'),
             channel'[k].kind = "job", channel'[l].kind = "job",
             channel'[k].client = channel'[l].client
      PROVE k = l
  <2>1. /\ k + 1 \in 1..Len(channel) /\ channel'[k] = channel[k + 1]
        /\ l + 1 \in 1..Len(channel) /\ channel'[l] = channel[l + 1]
    BY RestOfChannel
  <2>2. k + 1 = l + 1
    BY <1>2, <2>1 DEF MirrorInv, InChannel
  <2>3. k \in Nat /\ l \in Nat
    OBVIOUS
  <2>4. QED
    BY <2>2, <2>3
<1>3. QED
  BY <1>1, <1>2 DEF InChannel

-----------------------------------------------------------------------------

LEMMA OwnersKeepInv ==
    ASSUME MirrorInv, RootStops \/ RootStarts \/ OtherJob PROVE MirrorInv'
<1> USE JobManagerAssumption, PathsAreNat
<1>1. CASE RootStops
  <2>1. MirrorTypeOK'
    BY <1>1 DEF RootStops, MirrorInv, MirrorTypeOK, serviceVars
  <2>2. MirrorsAreOne'
    BY <1>1 DEF RootStops, MirrorInv, MirrorsAreOne, serviceVars
  <2>3. InChannel'
    <3>1. ASSUME NEW k \in 1..Len(channel), channel[k].kind = "job"
          PROVE  at'[channel[k].client] = "mirror"
      <4>1. channel[k] \in Commands
        BY DEF MirrorInv, MirrorTypeOK
      <4>2. channel[k].client \in Callers /\ at[channel[k].client] = "mirror"
        BY <3>1, <4>1, CommandOfJob DEF MirrorInv, InChannel
      <4>3. QED
        BY <1>1, <4>2 DEF RootStops
    <3>2. QED
      BY <1>1, <3>1 DEF RootStops, MirrorInv, InChannel, serviceVars
  <2>4. \A c \in Callers : CallerHas(c)'
    BY <1>1 DEF RootStops, MirrorInv, CallerHas, serviceVars
  <2>5. QED
    BY <1>1, <2>1, <2>2, <2>3, <2>4 DEF RootStops, MirrorInv
<1>2. CASE RootStarts
  <2>1. MirrorTypeOK' /\ restarts' = restarts + 1
    BY <1>2 DEF RootStarts, MirrorInv, MirrorTypeOK, serviceVars, clientVars, Owners
  <2>2. QED
    BY <1>2, <2>1, QuietKeepsInv DEF RootStarts, serviceVars
<1>3. CASE OtherJob
  <2>1. jobs["root"] \in 0..MaxJobs - 1 /\ jobs["root"] \in Paths
    BY <1>3 DEF OtherJob, AddJob, MirrorInv, MirrorTypeOK, Owners, Paths
  <2>2. signals' \in Seq(Paths)
    BY <1>3, <2>1 DEF OtherJob, AddJob, MirrorInv, MirrorTypeOK
  <2>3. jobs' \in [Owners -> 0..MaxJobs] /\ jobs["root"] <= jobs'["root"]
    BY <1>3, <2>1 DEF OtherJob, AddJob, MirrorInv, MirrorTypeOK, Owners
  <2>4. MirrorTypeOK'
    BY <1>3, <2>2, <2>3 DEF OtherJob, AddJob, MirrorInv, MirrorTypeOK, clientVars
  <2>5. QED
    BY <1>3, <2>3, <2>4, QuietKeepsInv DEF OtherJob, AddJob, MirrorInv
<1>4. QED
  BY <1>1, <1>2, <1>3

LEMMA CallerKeepsInv ==
    ASSUME MirrorInv, NEW c \in Callers,
           (\E o \in Owners : CallOwner(c, o)) \/ RunProcess(c) \/ RunFails(c)
    PROVE  MirrorInv'
<1> USE JobManagerAssumption, PathsAreNat
<1>1. at[c] \in {"idle", "call"}
  BY DEF CallOwner, RunProcess, RunFails
<1>2. /\ UNCHANGED <<up, restarts, svc, channel, task, left, mirrored, next>>
      /\ MirrorsAreOne'
      /\ \A d \in Callers \ {c} : /\ at'[d] = at[d] /\ owner'[d] = owner[d]
                                  /\ path'[d] = path[d] /\ epoch'[d] = epoch[d]
                                  /\ got'[d] = got[d]
  BY DEF CallOwner, RunProcess, RunFails, AddJob, Answer, ownerVars, serviceVars,
         MirrorInv, MirrorTypeOK, MirrorsAreOne
<1>3. InChannel'
  <2>1. ASSUME NEW k \in 1..Len(channel), channel[k].kind = "job"
        PROVE  channel[k].client \in Callers \ {c}
    <3>1. channel[k] \in Commands
      BY DEF MirrorInv, MirrorTypeOK
    <3>2. at[channel[k].client] = "mirror"
      BY <2>1 DEF MirrorInv, InChannel
    <3>3. QED
      BY <1>1, <2>1, <3>1, <3>2, CommandOfJob
  <2>2. QED
    BY <1>2, <2>1 DEF MirrorInv, InChannel
<1>4. /\ MirrorTypeOK' /\ jobs["root"] <= jobs'["root"]
      /\ jobs["root"] \in Nat /\ jobs'["root"] \in Nat
      /\ CallerHas(c)'
  <2>1. CASE \E o \in Owners : CallOwner(c, o)
    BY <2>1 DEF CallOwner, MirrorInv, MirrorTypeOK, CallerHas, ownerVars, serviceVars, Owners
  <2>2. CASE RunFails(c)
    BY <2>2 DEF RunFails, Answer, MirrorInv, MirrorTypeOK, CallerHas, ownerVars,
                serviceVars, Owners
  <2>3. CASE RunProcess(c)
    <3> DEFINE o == owner[c]
    <3>1. o \in Owners /\ jobs[o] \in 0..MaxJobs - 1 /\ jobs[o] \in Paths
      BY <2>3 DEF RunProcess, AddJob, MirrorInv, MirrorTypeOK, Paths
    <3>2. jobs' = [jobs EXCEPT ![o] = @ + 1] /\ path'[c] = jobs[o] /\ at'[c] = "ran"
          /\ epoch'[c] = restarts /\ got' = got /\ owner' = owner /\ got[c] = NoMirror
      BY <2>3 DEF RunProcess, AddJob, MirrorInv, MirrorTypeOK, CallerHas
    <3>3. signals' \in Seq(Paths)
      BY <2>3, <3>1 DEF RunProcess, AddJob, MirrorInv, MirrorTypeOK
    <3>4. jobs' \in [Owners -> 0..MaxJobs] /\ jobs["root"] <= jobs'["root"]
          /\ "root" \in Owners /\ jobs'[o] = jobs[o] + 1
      BY <3>1, <3>2 DEF MirrorInv, MirrorTypeOK, Owners
    <3>5. MirrorTypeOK'
      BY <1>2, <2>3, <3>1, <3>3, <3>4 DEF RunProcess, MirrorInv, MirrorTypeOK
    <3>6. restarts \in Nat /\ restarts' = restarts /\ jobs[o] < jobs'[o]
      BY <1>2, <3>1, <3>4 DEF MirrorInv, MirrorTypeOK
    <3>7. CallerHas(c)'
      BY <3>1, <3>2, <3>6 DEF CallerHas
    <3>8. jobs["root"] \in Nat /\ jobs'["root"] \in Nat
      BY <3>4 DEF MirrorInv, MirrorTypeOK
    <3>9. QED
      BY <3>4, <3>5, <3>7, <3>8
  <2>4. QED
    BY <2>1, <2>2, <2>3
<1>5. ASSUME NEW d \in Callers \ {c} PROVE CallerHas(d)'
  <2>1. CallerHas(d) /\ path[d] \in Paths \cup {NoMirror}
    BY DEF MirrorInv, MirrorTypeOK
  <2>2. ASSUME path[d] # NoMirror, path[d] < jobs["root"] PROVE path[d] < jobs'["root"]
    <3>1. path[d] \in Nat
      BY <2>1, <2>2
    <3>2. QED
      BY <1>4, <2>2, <3>1
  <2>3. QED
    BY <1>2, <2>1, <2>2 DEF CallerHas
<1>6. QED
  BY <1>2, <1>3, <1>4, <1>5 DEF MirrorInv

LEMMA AskKeepsInv ==
    ASSUME MirrorInv, NEW c \in Callers, AskForMirror(c) PROVE MirrorInv'
<1> USE JobManagerAssumption, PathsAreNat
<1>1. /\ at[c] = "ran" /\ path[c] \in Paths /\ got[c] = NoMirror
      /\ UNCHANGED <<owner, path, epoch, ownerVars, svc, signals, task, left, mirrored, next>>
  BY DEF AskForMirror, MirrorInv, CallerHas
<1>2. MirrorsAreOne'
  BY <1>1 DEF MirrorInv, MirrorsAreOne
<1>3. CASE svc = "dead"
  <2>1. channel' = channel /\ Answer(c, NoMirror)
    BY <1>3 DEF AskForMirror
  <2>2. InChannel'
    <3>1. ASSUME NEW k \in 1..Len(channel), channel[k].kind = "job"
          PROVE  channel[k].client \in Callers \ {c}
      <4>1. channel[k] \in Commands /\ at[channel[k].client] = "mirror"
        BY <3>1 DEF MirrorInv, MirrorTypeOK, InChannel
      <4>2. QED
        BY <1>1, <3>1, <4>1, CommandOfJob
    <3>2. \A d \in Callers \ {c} : at'[d] = at[d]
      BY <2>1 DEF Answer, MirrorInv, MirrorTypeOK
    <3>3. QED
      BY <1>1, <2>1, <3>1, <3>2 DEF MirrorInv, InChannel
  <2>3. MirrorTypeOK'
    BY <1>1, <2>1 DEF Answer, MirrorInv, MirrorTypeOK, ownerVars
  <2>4. \A d \in Callers : CallerHas(d)'
    BY <1>1, <2>1 DEF Answer, MirrorInv, MirrorTypeOK, CallerHas, ownerVars
  <2>5. QED
    BY <1>1, <1>2, <2>2, <2>3, <2>4 DEF MirrorInv, ownerVars
<1>4. CASE svc # "dead"
  <2>1. /\ channel' = Append(channel, MirrorJob(c, path[c]))
        /\ at' = [at EXCEPT ![c] = "mirror"] /\ got' = got
    BY <1>4 DEF AskForMirror
  <2>2. MirrorJob(c, path[c]) \in Commands /\ MirrorJob(c, path[c]).client = c
        /\ MirrorJob(c, path[c]).path = path[c]
    <3>1. MirrorJob(c, path[c]) \in Commands
      BY <1>1 DEF Commands
    <3>2. QED
      BY <3>1 DEF MirrorJob
  <2>3. MirrorTypeOK'
    BY <1>1, <2>1, <2>2 DEF MirrorInv, MirrorTypeOK, ownerVars
  <2>4. /\ Len(channel') = Len(channel) + 1 /\ Len(channel) \in Nat
        /\ \A k \in 1..Len(channel) : channel'[k] = channel[k] /\ channel[k] \in Commands
        /\ channel'[Len(channel) + 1] = MirrorJob(c, path[c])
    BY <2>1, <2>2 DEF MirrorInv, MirrorTypeOK
  <2>5. \A k \in 1..Len(channel) : channel[k].kind = "job" =>
           /\ channel[k].client \in Callers \ {c}
           /\ at'[channel[k].client] = "mirror"
    <3>1. ASSUME NEW k \in 1..Len(channel), channel[k].kind = "job"
          PROVE  channel[k].client \in Callers \ {c} /\ at[channel[k].client] = "mirror"
      BY <1>1, <2>4, <3>1, CommandOfJob DEF MirrorInv, InChannel
    <3>2. QED
      BY <2>1, <3>1 DEF MirrorInv, MirrorTypeOK
  <2>6. ASSUME NEW k \in 1..Len(channel'), channel'[k].kind = "job"
        PROVE  /\ at'[channel'[k].client] = "mirror"
               /\ path'[channel'[k].client] = channel'[k].path
    <3>1. CASE k = Len(channel) + 1
      BY <1>1, <2>1, <2>2, <2>4, <3>1 DEF MirrorInv, MirrorTypeOK
    <3>2. CASE k # Len(channel) + 1
      BY <1>1, <2>4, <2>5, <2>6, <3>2 DEF MirrorInv, InChannel
    <3>3. QED
      BY <3>1, <3>2
  <2>7. ASSUME NEW k \in 1..Len(channel'), NEW l \in 1..Len(channel'),
               channel'[k].kind = "job", channel'[l].kind = "job",
               channel'[k].client = channel'[l].client
        PROVE  k = l
    BY <2>2, <2>4, <2>5, <2>7 DEF MirrorInv, InChannel
  <2>8. InChannel'
    BY <2>6, <2>7 DEF InChannel
  <2>9. \A d \in Callers : CallerHas(d)'
    BY <1>1, <2>1 DEF MirrorInv, MirrorTypeOK, CallerHas, ownerVars
  <2>10. QED
    BY <1>1, <1>2, <2>3, <2>8, <2>9 DEF MirrorInv, ownerVars
<1>5. QED
  BY <1>3, <1>4

LEMMA ServiceKeepsInv ==
    ASSUME MirrorInv, Service PROVE MirrorInv'
<1> USE JobManagerAssumption, PathsAreNat
<1>1. CASE Listen \/ Introspect \/ MirrorDone
  <2>1. jobs["root"] \in 0..MaxJobs
    BY DEF MirrorInv, MirrorTypeOK, Owners
  <2>2. 0 .. jobs["root"] - 1 \subseteq Paths
    BY <2>1 DEF Paths
  <2>3. MirrorTypeOK'
    BY <1>1, <2>2 DEF Listen, Introspect, MirrorDone, MirrorInv, MirrorTypeOK,
                      ownerVars, clientVars
  <2>4. /\ UNCHANGED <<channel, mirrored, next, clientVars, ownerVars>>
        /\ jobs["root"] <= jobs["root"]
    BY <1>1, <2>1 DEF Listen, Introspect, MirrorDone
  <2>5. QED
    BY <2>3, <2>4, QuietKeepsInv DEF ownerVars, MirrorInv
<1>2. CASE TakeSignal
  <2>1. Head(signals) \in Paths /\ Tail(signals) \in Seq(Paths)
    BY <1>2 DEF TakeSignal, MirrorInv, MirrorTypeOK
  <2>2. Mirror(Head(signals)) /\ UNCHANGED <<channel, ownerVars, clientVars>>
    BY <1>2 DEF TakeSignal
  <2>3. MirrorTypeOK'
    BY <1>2, <2>1, <2>2, MirrorKeeps DEF TakeSignal, MirrorInv, MirrorTypeOK,
                                         ownerVars, clientVars
  <2>4. QED
    BY <2>1, <2>2, <2>3, MirroringKeepsInv
<1>3. CASE MirrorNode
  <2>1. PICK p \in left : left' = left \ {p} /\ Mirror(p)
    BY <1>3 DEF MirrorNode
  <2>2. p \in Paths /\ UNCHANGED <<channel, ownerVars, clientVars, svc, signals, task>>
    BY <1>3 DEF MirrorNode, MirrorInv, MirrorTypeOK
  <2>3. MirrorTypeOK'
    BY <2>1, <2>2, MirrorKeeps DEF MirrorInv, MirrorTypeOK, ownerVars, clientVars
  <2>4. QED
    BY <2>1, <2>2, <2>3, MirroringKeepsInv
<1>4. CASE TakeConnection
  <2>1. /\ channel # <<>> /\ channel' = Tail(channel) /\ task' = "introspect"
        /\ UNCHANGED <<ownerVars, svc, signals, left, mirrored, next, clientVars>>
    BY <1>4 DEF TakeConnection
  <2>2. InChannel'
    BY <2>1, RestIsInChannel DEF clientVars
  <2>3. MirrorTypeOK'
    BY <2>1, RestOfChannel DEF MirrorInv, MirrorTypeOK, ownerVars, clientVars
  <2>4. QED
    BY <2>1, <2>2, <2>3 DEF MirrorInv, MirrorsAreOne, CallerHas, ownerVars, clientVars
<1>5. CASE TakeJob
  <2> DEFINE c == Head(channel).client
             p == Head(channel).path
  <2>1. /\ channel # <<>> /\ Head(channel).kind = "job" /\ channel' = Tail(channel)
        /\ Mirror(p) /\ Answer(c, mirrored'[p])
        /\ UNCHANGED <<ownerVars, svc, signals, task, left, owner, path, epoch>>
    BY <1>5 DEF TakeJob
  <2>2. c \in Callers /\ p \in Paths /\ at[c] = "mirror" /\ path[c] = p
    BY <2>1, RestOfChannel, CommandOfJob DEF MirrorInv, InChannel
  <2>3. /\ mirrored' \in [Paths -> Nat \cup {NoMirror}] /\ next' \in Nat
        /\ MirrorsAreOne' /\ mirrored'[p] \in Nat
        /\ \A q \in Paths : mirrored[q] # NoMirror => mirrored'[q] = mirrored[q]
    BY <2>1, <2>2, MirrorKeeps
  <2>4. at' = [at EXCEPT ![c] = "idle"] /\ got' = [got EXCEPT ![c] = mirrored'[p]]
    BY <2>1 DEF Answer
  <2>5. \A d \in Callers : at'[d] = at[d] \/ d = c
    BY <2>4 DEF MirrorInv, MirrorTypeOK
  <2>6. InChannel'
    BY <2>1, <2>5, RestIsInChannel
  <2>7. MirrorTypeOK'
    BY <2>1, <2>3, <2>4, RestOfChannel DEF MirrorInv, MirrorTypeOK, ownerVars
  <2>8. ASSUME NEW d \in Callers PROVE CallerHas(d)'
    <3>1. CallerHas(d)
      BY DEF MirrorInv
    <3>2. CASE d = c
      <4>1. at'[d] = "idle" /\ got'[d] = mirrored'[p] /\ path'[d] = p
        BY <2>1, <2>2, <2>4, <3>2 DEF MirrorInv, MirrorTypeOK
      <4>2. QED
        BY <2>1, <2>2, <3>1, <4>1 DEF CallerHas, ownerVars
    <3>3. CASE d # c
      <4>1. at'[d] = at[d] /\ got'[d] = got[d]
        BY <2>4, <3>3 DEF MirrorInv, MirrorTypeOK
      <4>2. QED
        BY <2>1, <2>3, <3>1, <4>1 DEF CallerHas, ownerVars
    <3>4. QED
      BY <3>2, <3>3
  <2>9. QED
    BY <2>1, <2>3, <2>6, <2>7, <2>8 DEF MirrorInv, ownerVars
<1>6. CASE IntrospectFails
  <2>1. /\ svc' = "dead" /\ task' = "idle" /\ signals' = <<>> /\ channel' = <<>>
        /\ at' = [c \in Callers |-> IF at[c] = "mirror" THEN "idle" ELSE at[c]]
        /\ UNCHANGED <<ownerVars, left, mirrored, next, owner, path, epoch, got>>
    BY <1>6 DEF IntrospectFails
  <2>2. MirrorTypeOK'
    BY <2>1 DEF MirrorInv, MirrorTypeOK, ownerVars
  <2>3. InChannel'
    BY <2>1 DEF InChannel
  <2>4. ASSUME NEW d \in Callers PROVE CallerHas(d)'
    <3>1. CallerHas(d) /\ at'[d] = IF at[d] = "mirror" THEN "idle" ELSE at[d]
      BY <2>1 DEF MirrorInv
    <3>2. QED
      BY <2>1, <3>1 DEF CallerHas, ownerVars
  <2>5. QED
    BY <2>1, <2>2, <2>3, <2>4 DEF MirrorInv, MirrorsAreOne, ownerVars
<1>7. QED
  BY <1>1, <1>2, <1>3, <1>4, <1>5, <1>6 DEF Service, Handle

\* The invariant holds in every state of JobManager.
THEOREM MirrorInvariant == MirrorSpec => []MirrorInv
<1>1. ASSUME MirrorInv, [MirrorNext]_mirrorVars PROVE MirrorInv'
  <2>1. CASE UNCHANGED mirrorVars
    <3>1. /\ UNCHANGED <<up, restarts, jobs, svc, signals, channel, task, left, mirrored, next>>
          /\ UNCHANGED <<at, owner, path, epoch, got>>
      BY <2>1 DEF mirrorVars, ownerVars, serviceVars, clientVars
    <3>2. MirrorTypeOK' /\ MirrorsAreOne' /\ InChannel' /\ \A c \in Callers : CallerHas(c)'
      BY <1>1, <3>1 DEF MirrorInv, MirrorTypeOK, MirrorsAreOne, InChannel, CallerHas
    <3>3. QED
      BY <1>1, <3>1, <3>2 DEF MirrorInv
  <2>2. CASE MirrorNext
    BY <1>1, <2>2, OwnersKeepInv, CallerKeepsInv, AskKeepsInv, ServiceKeepsInv DEF MirrorNext
  <2>3. QED
    BY <1>1, <2>1, <2>2
<1>2. QED
  BY <1>1, InitMirrorInv, PTL DEF MirrorSpec

\* The managers' and the callers' variables have their types; the numbers of
\* jobs and restarts stay within their bounds.
THEOREM MirrorTypeCorrect == MirrorSpec => []MirrorTypeOK
<1>1. MirrorInv => MirrorTypeOK
  BY DEF MirrorInv
<1>2. QED
  BY <1>1, MirrorInvariant, PTL

\* However the signals, the introspection and the callers mix, each path is
\* mirrored once at most, and no mirror is without a path.
THEOREM MirrorsAreAlwaysOne == MirrorSpec => []MirrorsAreOne
<1>1. MirrorInv => MirrorsAreOne
  BY DEF MirrorInv
<1>2. QED
  BY <1>1, MirrorInvariant, PTL

\* A caller is answered with the mirror of the job its call had started, as
\* long as the root daemon has not restarted.
THEOREM AnswerIsAlwaysOwnJob == MirrorSpec => []AnswerIsOwnJob
<1>1. MirrorInv => AnswerIsOwnJob
  BY PathsAreNat DEF MirrorInv, AnswerIsOwnJob, CallerHas
<1>2. QED
  BY <1>1, MirrorInvariant, PTL

-----------------------------------------------------------------------------
(* Nobody is forgotten, as far as states can tell. What makes it inductive *)
(* is that the service finds MirrorConnection in its channel when it has   *)
(* subscribed, so that the jobs that were started before are introspected. *)

BetweenInv ==
    /\ MirrorInv
    /\ svc = "created" => \E k \in 1..Len(channel) : channel[k] = Connection
    /\ NoneFallsBetween

\* Only what is at the head leaves a queue.
LEMMA StaysQueued ==
    ASSUME NEW S, NEW q \in Seq(S), NEW x, \E k \in 1..Len(q) : q[k] = x, NEW y \in S
    PROVE  \E k \in 1..Len(Append(q, y)) : Append(q, y)[k] = x
<1>1. PICK k \in 1..Len(q) : q[k] = x
  OBVIOUS
<1>2. k \in 1..Len(Append(q, y)) /\ Append(q, y)[k] = q[k]
  OBVIOUS
<1>3. QED
  BY <1>1, <1>2

LEMMA StaysBehindHead ==
    ASSUME NEW S, NEW q \in Seq(S), NEW x, \E k \in 1..Len(q) : q[k] = x,
           q # <<>>, x # Head(q)
    PROVE  \E k \in 1..Len(Tail(q)) : Tail(q)[k] = x
<1>1. PICK k \in 1..Len(q) : q[k] = x
  OBVIOUS
<1>2. k # 1
  BY <1>1
<1>3. k - 1 \in 1..Len(Tail(q)) /\ Tail(q)[k - 1] = q[k]
  BY <1>2
<1>4. QED
  BY <1>1, <1>3

LEMMA ConnectionIsNoJob ==
    /\ Connection \in Commands
    /\ Connection.kind # "job"
    /\ \A c, p : MirrorJob(c, p) # Connection
<1>1. Connection \in Commands /\ Connection.kind = "connection"
  BY DEF Commands, Connection
<1>2. \A c, p : MirrorJob(c, p).kind = "job"
  BY DEF MirrorJob
<1>3. QED
  BY <1>1, <1>2

\* No step takes a mirror away.
LEMMA MirrorsStay ==
    ASSUME MirrorInv, MirrorNext
    PROVE  \A p \in Paths : mirrored[p] # NoMirror => mirrored'[p] = mirrored[p]
<1>1. CASE TakeSignal
  <2>1. Head(signals) \in Paths
    BY <1>1 DEF TakeSignal, MirrorInv, MirrorTypeOK
  <2>2. QED
    BY <1>1, <2>1, MirrorKeeps DEF TakeSignal
<1>2. CASE TakeJob
  <2>1. Head(channel).path \in Paths
    BY <1>2, RestOfChannel, CommandOfJob DEF TakeJob
  <2>2. QED
    BY <1>2, <2>1, MirrorKeeps DEF TakeJob
<1>3. CASE MirrorNode
  <2>1. PICK p \in left : Mirror(p)
    BY <1>3 DEF MirrorNode
  <2>2. p \in Paths
    BY DEF MirrorInv, MirrorTypeOK
  <2>3. QED
    BY <2>1, <2>2, MirrorKeeps
<1>4. CASE mirrored' = mirrored
  BY <1>4
<1>5. QED
  BY <1>1, <1>2, <1>3, <1>4
     DEF MirrorNext, Service, Handle, RootStops, RootStarts, OtherJob, AddJob, CallOwner,
         RunProcess, RunFails, AskForMirror, Listen, TakeConnection, Introspect,
         IntrospectFails, MirrorDone, serviceVars

\* A step that leaves the service's queues and its task.
LEMMA QuietKeepsTheWay ==
    ASSUME NEW p, IsOnItsWay(p), UNCHANGED <<signals, channel, task, left>>
    PROVE  IsOnItsWay(p)'
BY DEF IsOnItsWay

\* A job that is on its way stays so until it is mirrored.
LEMMA OwnersKeepTheWay ==
    ASSUME MirrorInv, NEW p \in Paths, IsOnItsWay(p),
           \/ RootStops \/ RootStarts \/ Listen
           \/ \E c \in Callers : (\E o \in Owners : CallOwner(c, o)) \/ RunFails(c)
           \/ OtherJob
           \/ \E c \in Callers : RunProcess(c) \/ AskForMirror(c)
    PROVE  IsOnItsWay(p)'
<1> USE JobManagerAssumption, PathsAreNat
<1>1. channel \in Seq(Commands) /\ signals \in Seq(Paths)
  BY DEF MirrorInv, MirrorTypeOK
<1>2. CASE \/ RootStops \/ RootStarts \/ Listen
           \/ \E c \in Callers : (\E o \in Owners : CallOwner(c, o)) \/ RunFails(c)
  <2>1. UNCHANGED <<signals, channel, task, left>>
    BY <1>2 DEF RootStops, RootStarts, Listen, CallOwner, RunFails, serviceVars
  <2>2. QED
    BY <2>1, QuietKeepsTheWay
<1>3. CASE OtherJob \/ \E c \in Callers : RunProcess(c)
  <2>1. PICK o \in Owners : AddJob(o)
    BY <1>3 DEF OtherJob, RunProcess, Owners, MirrorInv, MirrorTypeOK
  <2>2. UNCHANGED <<channel, task, left>> /\ jobs[o] \in Paths
        /\ signals' \in {signals, Append(signals, jobs[o])}
    BY <2>1 DEF AddJob, MirrorInv, MirrorTypeOK, Paths
  <2>3. (\E k \in 1..Len(signals) : signals[k] = p)
        => \E k \in 1..Len(signals') : signals'[k] = p
    <3>1. ASSUME \E k \in 1..Len(signals) : signals[k] = p
          PROVE  \A q \in Paths : \E k \in 1..Len(Append(signals, q)) :
                                     Append(signals, q)[k] = p
      BY <1>1, <3>1, StaysQueued
    <3>2. QED
      BY <2>2, <3>1
  <2>4. QED
    BY <2>2, <2>3 DEF IsOnItsWay
<1>4. CASE \E c \in Callers : AskForMirror(c)
  <2>1. PICK c \in Callers : AskForMirror(c)
    BY <1>4
  <2>2. UNCHANGED <<signals, task, left>>
        /\ channel' \in {channel, Append(channel, MirrorJob(c, path[c]))}
    BY <2>1 DEF AskForMirror
  <2>3. MirrorJob(c, path[c]) \in Commands
    BY <2>1 DEF AskForMirror, MirrorInv, CallerHas, Commands
  <2>4. (\E k \in 1..Len(channel) : channel[k] = Connection)
        => \E k \in 1..Len(channel') : channel'[k] = Connection
    BY <1>1, <2>2, <2>3, StaysQueued
  <2>5. QED
    BY <2>2, <2>4 DEF IsOnItsWay
<1>5. QED
  BY <1>2, <1>3, <1>4

LEMMA ServiceKeepsTheWay ==
    ASSUME MirrorInv, NEW p \in Paths, p < jobs["root"], IsOnItsWay(p),
           TakeSignal \/ TakeJob \/ TakeConnection \/ Handle,
           mirrored'[p] = NoMirror, svc' # "dead"
    PROVE  IsOnItsWay(p)'
<1> USE JobManagerAssumption, PathsAreNat
<1>1. channel \in Seq(Commands) /\ signals \in Seq(Paths) /\ jobs["root"] \in Nat
  BY DEF MirrorInv, MirrorTypeOK, Owners
<1>2. CASE TakeSignal
  <2>1. /\ signals # <<>> /\ signals' = Tail(signals) /\ Mirror(Head(signals))
        /\ UNCHANGED <<channel, task, left>>
    BY <1>2 DEF TakeSignal
  <2>2. p # Head(signals)
    BY <2>1, MirrorKeeps
  <2>3. (\E k \in 1..Len(signals) : signals[k] = p)
        => \E k \in 1..Len(signals') : signals'[k] = p
    <3>1. ASSUME \E k \in 1..Len(signals) : signals[k] = p
          PROVE  \E k \in 1..Len(Tail(signals)) : Tail(signals)[k] = p
      BY <1>1, <2>1, <2>2, <3>1, StaysBehindHead
    <3>2. QED
      BY <2>1, <3>1
  <2>4. QED
    BY <2>1, <2>3 DEF IsOnItsWay
<1>3. CASE TakeJob
  <2>1. /\ channel # <<>> /\ channel' = Tail(channel) /\ Head(channel).kind = "job"
        /\ UNCHANGED <<signals, task, left>>
    BY <1>3 DEF TakeJob
  <2>2. Head(channel) # Connection
    BY <2>1, ConnectionIsNoJob
  <2>3. (\E k \in 1..Len(channel) : channel[k] = Connection)
        => \E k \in 1..Len(channel') : channel'[k] = Connection
    <3>1. ASSUME \E k \in 1..Len(channel) : channel[k] = Connection
          PROVE  \E k \in 1..Len(Tail(channel)) : Tail(channel)[k] = Connection
      BY <1>1, <2>1, <2>2, <3>1, StaysBehindHead
    <3>2. QED
      BY <2>1, <3>1
  <2>4. QED
    BY <2>1, <2>3 DEF IsOnItsWay
<1>4. CASE TakeConnection
  BY <1>4 DEF TakeConnection, IsOnItsWay
<1>5. CASE Introspect
  <2>1. task' = "mirror" /\ p \in left'
    BY <1>1, <1>5 DEF Introspect
  <2>2. QED
    BY <2>1 DEF IsOnItsWay
<1>6. CASE IntrospectFails
  BY <1>6 DEF IntrospectFails
<1>7. CASE MirrorNode
  <2>1. PICK q \in left : left' = left \ {q} /\ Mirror(q)
    BY <1>7 DEF MirrorNode
  <2>2. q \in Paths /\ task = "mirror" /\ UNCHANGED <<signals, channel, task>>
    BY <1>7 DEF MirrorNode, MirrorInv, MirrorTypeOK
  <2>3. q # p
    BY <2>1, <2>2, MirrorKeeps
  <2>4. QED
    BY <2>1, <2>2, <2>3 DEF IsOnItsWay
<1>8. CASE MirrorDone
  BY <1>8 DEF MirrorDone, IsOnItsWay
<1>9. QED
  BY <1>2, <1>3, <1>4, <1>5, <1>6, <1>7, <1>8 DEF Handle

\* A job is on its way from when it is started.
LEMMA StartedIsOnItsWay ==
    ASSUME BetweenInv, NEW o \in Owners, AddJob(o), NEW p \in Paths,
           ~(p < jobs["root"]), p < jobs'["root"], svc # "dead"
    PROVE  IsOnItsWay(p)'
<1> USE JobManagerAssumption, PathsAreNat
<1>1. signals \in Seq(Paths) /\ jobs \in [Owners -> 0..MaxJobs] /\ "root" \in Owners
      /\ svc \in {"created", "listening", "dead"}
  BY DEF BetweenInv, MirrorInv, MirrorTypeOK, Owners
<1>2. o = "root" /\ p = jobs["root"]
  BY <1>1 DEF AddJob
<1>3. CASE svc = "created"
  BY <1>3 DEF BetweenInv, AddJob, IsOnItsWay
<1>4. CASE svc = "listening"
  <2>1. signals' = Append(signals, p)
    BY <1>2, <1>4 DEF AddJob
  <2>2. Len(signals') \in 1..Len(signals') /\ signals'[Len(signals')] = p
    BY <1>1, <2>1
  <2>3. QED
    BY <2>2 DEF IsOnItsWay
<1>5. QED
  BY <1>1, <1>3, <1>4

LEMMA JobsStayOnTheirWay ==
    ASSUME BetweenInv, MirrorNext, svc' # "dead", NEW p \in Paths,
           p < jobs'["root"], mirrored'[p] = NoMirror
    PROVE  IsOnItsWay(p)'
<1> USE JobManagerAssumption, PathsAreNat
<1>1. MirrorInv /\ jobs \in [Owners -> 0..MaxJobs] /\ p \in Nat
      /\ mirrored \in [Paths -> Nat \cup {NoMirror}]
  BY DEF BetweenInv, MirrorInv, MirrorTypeOK
<1>2. mirrored[p] = NoMirror
  BY <1>1, MirrorsStay
<1>3. svc # "dead"
  BY DEF MirrorNext, Service, Handle, RootStops, RootStarts, OtherJob, AddJob, CallOwner,
         RunProcess, RunFails, AskForMirror, Listen, TakeSignal, TakeJob, TakeConnection,
         Introspect, IntrospectFails, MirrorNode, MirrorDone, Selecting, serviceVars
<1>4. CASE p < jobs["root"]
  <2>1. IsOnItsWay(p)
    BY <1>2, <1>3, <1>4 DEF BetweenInv, NoneFallsBetween
  <2>2. QED
    BY <1>1, <1>4, <2>1, OwnersKeepTheWay, ServiceKeepsTheWay DEF MirrorNext, Service
<1>5. CASE ~(p < jobs["root"])
  <2>1. CASE OtherJob \/ \E c \in Callers : RunProcess(c)
    <3>1. PICK o \in Owners : AddJob(o)
      BY <2>1 DEF OtherJob, RunProcess, Owners, MirrorInv, MirrorTypeOK, BetweenInv
    <3>2. QED
      BY <1>3, <1>5, <3>1, StartedIsOnItsWay
  <2>2. CASE RootStarts
    BY <1>1, <2>2 DEF RootStarts, Owners
  <2>3. CASE jobs' = jobs
    BY <1>5, <2>3
  <2>4. QED
    BY <2>1, <2>2, <2>3
       DEF MirrorNext, Service, Handle, RootStops, CallOwner, RunFails, AskForMirror, Listen,
           TakeSignal, TakeJob, TakeConnection, Introspect, IntrospectFails, MirrorNode,
           MirrorDone, serviceVars, ownerVars
<1>6. QED
  BY <1>4, <1>5

\* A caller that waits and is not answered keeps its command.
CommandIn(q, c) == \E k \in 1..Len(q) : q[k] = MirrorJob(c, path[c])

LEMMA WaitersStayInTheChannel ==
    ASSUME BetweenInv, MirrorNext, NEW c \in Callers, at'[c] = "mirror"
    PROVE  \E k \in 1..Len(channel') : channel'[k] = MirrorJob(c, path'[c])
<1> USE JobManagerAssumption, PathsAreNat
<1>1. /\ MirrorInv /\ channel \in Seq(Commands)
      /\ at \in [Callers -> {"idle", "call", "ran", "mirror"}]
      /\ path \in [Callers -> Paths \cup {NoMirror}]
  BY DEF BetweenInv, MirrorInv, MirrorTypeOK
<1>2. ASSUME at[c] = "mirror"
      PROVE  CommandIn(channel, c)
  BY <1>2 DEF BetweenInv, NoneFallsBetween, CommandIn
<1>3. ASSUME at[c] = "mirror", path'[c] = path[c], channel' = channel
      PROVE  \E k \in 1..Len(channel') : channel'[k] = MirrorJob(c, path'[c])
  BY <1>2, <1>3 DEF CommandIn
<1>4. CASE \/ RootStops \/ RootStarts \/ OtherJob \/ Listen \/ TakeSignal \/ Introspect
           \/ MirrorNode \/ MirrorDone
  <2>1. at[c] = "mirror" /\ path' = path /\ channel' = channel
    BY <1>1, <1>4 DEF RootStops, RootStarts, OtherJob, AddJob, Listen, TakeSignal, Introspect,
                      MirrorNode, MirrorDone, serviceVars, clientVars
  <2>2. QED
    BY <1>3, <2>1
<1>5. CASE \E d \in Callers : (\E o \in Owners : CallOwner(d, o)) \/ RunProcess(d) \/ RunFails(d)
  <2>1. PICK d \in Callers : (\E o \in Owners : CallOwner(d, o)) \/ RunProcess(d) \/ RunFails(d)
    BY <1>5
  <2>2. at'[d] # "mirror" /\ channel' = channel
        /\ \A e \in Callers \ {d} : at'[e] = at[e] /\ path'[e] = path[e]
    BY <1>1, <2>1 DEF CallOwner, RunProcess, RunFails, AddJob, Answer, serviceVars
  <2>3. at[c] = "mirror" /\ path'[c] = path[c]
    BY <2>2
  <2>4. QED
    BY <1>3, <2>2, <2>3
<1>6. CASE \E d \in Callers : AskForMirror(d)
  <2>1. PICK d \in Callers : AskForMirror(d)
    BY <1>6
  <2>2. path' = path /\ \A e \in Callers \ {d} : at'[e] = at[e]
    BY <1>1, <2>1 DEF AskForMirror, Answer
  <2>3. MirrorJob(d, path[d]) \in Commands
    BY <1>1, <2>1 DEF AskForMirror, MirrorInv, CallerHas, Commands
  <2>4. CASE channel' = channel /\ c # d
    BY <1>3, <2>2, <2>4
  <2>5. CASE channel' = Append(channel, MirrorJob(d, path[d]))
    <3>1. CASE c = d
      <4>1. Len(channel') \in 1..Len(channel') /\ channel'[Len(channel')] = MirrorJob(c, path[c])
        BY <1>1, <2>5, <3>1
      <4>2. QED
        BY <2>2, <4>1
    <3>2. CASE c # d
      <4>1. CommandIn(channel, c)
        BY <1>2, <2>2, <3>2
      <4>2. CommandIn(Append(channel, MirrorJob(d, path[d])), c)
        BY <1>1, <2>3, <4>1, StaysQueued DEF CommandIn
      <4>3. QED
        BY <2>2, <2>5, <4>2 DEF CommandIn
    <3>3. QED
      BY <3>1, <3>2
  <2>6. channel' = Append(channel, MirrorJob(d, path[d])) \/ (channel' = channel /\ c # d)
    <3>1. CASE svc # "dead"
      BY <2>1, <3>1 DEF AskForMirror
    <3>2. CASE svc = "dead"
      <4>1. channel' = channel /\ at' = [at EXCEPT ![d] = "idle"]
        BY <2>1, <3>2 DEF AskForMirror, Answer
      <4>2. at'[d] # "mirror"
        BY <1>1, <4>1
      <4>3. QED
        BY <4>1, <4>2
    <3>3. QED
      BY <3>1, <3>2
  <2>7. QED
    BY <2>4, <2>5, <2>6
<1>7. CASE TakeJob
  <2> DEFINE d == Head(channel).client
  <2>1. /\ channel # <<>> /\ channel' = Tail(channel) /\ path' = path
        /\ at' = [at EXCEPT ![d] = "idle"]
    BY <1>7 DEF TakeJob, Answer
  <2>2. c # d /\ at[c] = "mirror"
    BY <1>1, <2>1
  <2>3. MirrorJob(c, path[c]) # Head(channel)
    BY <2>2 DEF MirrorJob
  <2>4. CommandIn(channel, c)
    BY <1>2, <2>2
  <2>5. CommandIn(Tail(channel), c)
    BY <1>1, <2>1, <2>3, <2>4, StaysBehindHead DEF CommandIn
  <2>6. QED
    BY <2>1, <2>5 DEF CommandIn
<1>8. CASE TakeConnection
  <2>1. /\ channel # <<>> /\ channel' = Tail(channel) /\ path' = path /\ at' = at
        /\ Head(channel) = Connection
    BY <1>8 DEF TakeConnection, clientVars
  <2>2. MirrorJob(c, path[c]) # Head(channel)
    BY <2>1, ConnectionIsNoJob
  <2>3. CommandIn(channel, c)
    BY <1>2, <2>1
  <2>4. CommandIn(Tail(channel), c)
    BY <1>1, <2>1, <2>2, <2>3, StaysBehindHead DEF CommandIn
  <2>5. QED
    BY <2>1, <2>4 DEF CommandIn
<1>9. CASE IntrospectFails
  BY <1>9 DEF IntrospectFails
<1>10. QED
  BY <1>4, <1>5, <1>6, <1>7, <1>8, <1>9 DEF MirrorNext, Service, Handle

\* The service does not listen before its command is in the channel.
LEMMA ConnectionStays ==
    ASSUME BetweenInv, MirrorNext, svc' = "created"
    PROVE  \E k \in 1..Len(channel') : channel'[k] = Connection
<1> USE JobManagerAssumption, PathsAreNat
<1>1. svc = "created"
  BY DEF MirrorNext, Service, Handle, RootStops, RootStarts, OtherJob, AddJob, CallOwner,
         RunProcess, RunFails, AskForMirror, Listen, TakeSignal, TakeJob, TakeConnection,
         Introspect, IntrospectFails, MirrorNode, MirrorDone, Selecting, serviceVars
<1>2. channel \in Seq(Commands) /\ \E k \in 1..Len(channel) : channel[k] = Connection
  BY <1>1 DEF BetweenInv, MirrorInv, MirrorTypeOK
<1>3. CASE \E c \in Callers : AskForMirror(c)
  <2>1. PICK c \in Callers : AskForMirror(c)
    BY <1>3
  <2>2. MirrorJob(c, path[c]) \in Commands
    BY <2>1 DEF AskForMirror, BetweenInv, MirrorInv, CallerHas, Commands
  <2>3. channel' = channel \/ channel' = Append(channel, MirrorJob(c, path[c]))
    BY <2>1 DEF AskForMirror
  <2>4. \E k \in 1..Len(Append(channel, MirrorJob(c, path[c]))) :
           Append(channel, MirrorJob(c, path[c]))[k] = Connection
    BY <1>2, <2>2, StaysQueued
  <2>5. QED
    BY <1>2, <2>3, <2>4
<1>4. CASE channel' = channel
  BY <1>2, <1>4
<1>5. QED
  BY <1>1, <1>3, <1>4
     DEF MirrorNext, Service, Handle, RootStops, RootStarts, OtherJob, AddJob, CallOwner,
         RunProcess, RunFails, Listen, TakeSignal, TakeJob, TakeConnection, Introspect,
         IntrospectFails, MirrorNode, MirrorDone, Selecting, serviceVars

LEMMA InitBetween == MirrorInit => BetweenInv
<1> SUFFICES ASSUME MirrorInit PROVE BetweenInv
  OBVIOUS
<1>1. MirrorInv
  BY InitMirrorInv
<1>2. 1 \in 1..Len(channel) /\ channel[1] = Connection
  BY DEF MirrorInit
<1>3. \A c \in Callers : at[c] # "mirror"
  BY DEF MirrorInit
<1>4. QED
  BY <1>1, <1>2, <1>3 DEF BetweenInv, NoneFallsBetween, IsOnItsWay

LEMMA BetweenStep == BetweenInv /\ MirrorInv' /\ [MirrorNext]_mirrorVars => BetweenInv'
<1> SUFFICES ASSUME BetweenInv, MirrorInv', [MirrorNext]_mirrorVars PROVE BetweenInv'
  OBVIOUS
<1>1. CASE UNCHANGED mirrorVars
  BY <1>1 DEF BetweenInv, NoneFallsBetween, IsOnItsWay, mirrorVars, ownerVars, serviceVars,
              clientVars
<1>2. CASE MirrorNext
  <2>1. NoneFallsBetween'
    BY <1>2, JobsStayOnTheirWay, WaitersStayInTheChannel DEF NoneFallsBetween
  <2>2. QED
    BY <1>2, <2>1, ConnectionStays DEF BetweenInv
<1>3. QED
  BY <1>1, <1>2

\* While the service lives, a job of the root daemon that is not mirrored is
\* with the introspection or announced by a signal that is still to be read,
\* whenever it was started; and a caller that waits is in the channel.
THEOREM NoneEverFallsBetween == MirrorSpec => []NoneFallsBetween
<1>1. BetweenInv => NoneFallsBetween
  BY DEF BetweenInv
<1>2. QED
  BY <1>1, InitBetween, BetweenStep, MirrorInvariant, PTL DEF MirrorSpec
=============================================================================
