----------------------------- MODULE JobManager -----------------------------
(***************************************************************************)
(* Job managers (src/steamos-manager/src/job.rs). The root daemon numbers  *)
(* the jobs it runs, from 0, and announces each with the signal JobStarted.*)
(* The user daemon's JobManagerService offers a mirror of each on the      *)
(* session bus. It hears of a job up to three times: by the signal, from   *)
(* the introspection at its start, and from the method of its own that had *)
(* the job started and wants to answer with the mirror (job_method!).      *)
(***************************************************************************)
EXTENDS Integers, Sequences

CONSTANTS
    Callers,             (* callers of UpdateBios, FormatDevice and so on  *)
    NoMirror,            (* where there is none                            *)
    MaxJobs,             (* how many jobs an owner starts between restarts *)
    MaxRestarts          (* how often the root daemon restarts             *)

ASSUME JobManagerAssumption ==
    /\ NoMirror \notin Int
    /\ MaxJobs \in Nat
    /\ MaxRestarts \in Nat

Paths == 0 .. MaxJobs - 1

\* Who runs jobs: the root daemon, and a remote implementation of UpdateBios1,
\* UpdateDock1 or Storage1, which numbers its jobs itself.
Owners == {"root", "remote"}

VARIABLES
    (* the owners *)
    up,                  (* is the root daemon running?                    *)
    restarts,            (* how often it has restarted                     *)
    jobs,                (* next_job of each owner                         *)
    (* the user daemon *)
    svc,                 (* JobManagerService: created, listening or dead  *)
    signals,             (* JobStarted signals on their way to it          *)
    channel,             (* its commands                                   *)
    task,                (* where MirrorConnection is                      *)
    left,                (* the nodes of the introspection still to mirror *)
    mirrored,            (* mirrored_jobs: the mirror of each path         *)
    next,                (* next_job of the user daemon's JobManager       *)
    (* the callers *)
    at,                  (* where its call is                              *)
    owner,               (* whose method a client calls                    *)
    path,                (* the job it was given                           *)
    epoch,               (* the value of restarts when it was given it     *)
    got                  (* the mirror it was given                        *)

ownerVars == <<up, restarts, jobs>>
serviceVars == <<svc, signals, channel, task, left, mirrored, next>>
clientVars == <<at, owner, path, epoch, got>>
mirrorVars == <<ownerVars, serviceVars, clientVars>>

Connection == [kind |-> "connection"]
MirrorJob(c, p) == [kind |-> "job", client |-> c, path |-> p]
Commands == {Connection} \cup {MirrorJob(c, p) : c \in Callers, p \in Paths}

\* The types of the managers' and the callers' state.
MirrorTypeOK ==
    /\ up \in BOOLEAN
    /\ restarts \in 0..MaxRestarts
    /\ jobs \in [Owners -> 0..MaxJobs]
    /\ svc \in {"created", "listening", "dead"}
    /\ signals \in Seq(Paths)
    /\ channel \in Seq(Commands)
    /\ task \in {"idle", "introspect", "mirror"}
    /\ left \subseteq Paths
    /\ mirrored \in [Paths -> Nat \cup {NoMirror}]
    /\ next \in Nat
    /\ at \in [Callers -> {"idle", "call", "ran", "mirror"}]
    /\ owner \in [Callers -> Owners]
    /\ path \in [Callers -> Paths \cup {NoMirror}]
    /\ epoch \in [Callers -> 0..MaxRestarts]
    /\ got \in [Callers -> Nat \cup {NoMirror}]

\* create_interfaces has queued MirrorConnection; jobs may be there already.
MirrorInit ==
    /\ up = TRUE
    /\ restarts = 0
    /\ \E n \in 0..MaxJobs : jobs = [o \in Owners |-> IF o = "root" THEN n ELSE 0]
    /\ svc = "created"
    /\ signals = <<>>
    /\ channel = <<Connection>>
    /\ task = "idle"
    /\ left = {}
    /\ mirrored = [p \in Paths |-> NoMirror]
    /\ next = 0
    /\ at = [c \in Callers |-> "idle"]
    /\ owner = [c \in Callers |-> "root"]
    /\ path = [c \in Callers |-> NoMirror]
    /\ epoch = [c \in Callers |-> 0]
    /\ got = [c \in Callers |-> NoMirror]

-----------------------------------------------------------------------------
(* The owners. A daemon that stops takes the calls to it with it, and      *)
(* numbers its jobs from 0 again.                                          *)

Answer(c, m) ==
    /\ at' = [at EXCEPT ![c] = "idle"]
    /\ got' = [got EXCEPT ![c] = m]

RootStops ==
    /\ up
    /\ restarts < MaxRestarts
    /\ up' = FALSE
    /\ at' = [c \in Callers |-> IF at[c] = "call" /\ owner[c] = "root"
                                THEN "idle" ELSE at[c]]
    /\ UNCHANGED <<restarts, jobs, serviceVars, owner, path, epoch, got>>

RootStarts ==
    /\ ~up
    /\ up' = TRUE
    /\ restarts' = restarts + 1
    /\ jobs' = [jobs EXCEPT !["root"] = 0]
    /\ UNCHANGED <<serviceVars, clientVars>>

\* add_job: the object, the signal. Those who listen get it, of the root
\* daemon's jobs only.
AddJob(o) ==
    /\ o = "root" => up
    /\ jobs[o] < MaxJobs
    /\ jobs' = [jobs EXCEPT ![o] = @ + 1]
    /\ signals' = IF o = "root" /\ svc = "listening"
                  THEN Append(signals, jobs[o]) ELSE signals
    /\ UNCHANGED <<up, restarts, svc, channel, task, left, mirrored, next>>

\* Somebody else has the root daemon run a job.
OtherJob == AddJob("root") /\ UNCHANGED clientVars

-----------------------------------------------------------------------------
(* job_method!: call the owner, have the job mirrored, answer.             *)

CallOwner(c, o) ==
    /\ at[c] = "idle"
    /\ at' = [at EXCEPT ![c] = "call"]
    /\ owner' = [owner EXCEPT ![c] = o]
    /\ path' = [path EXCEPT ![c] = NoMirror]
    /\ got' = [got EXCEPT ![c] = NoMirror]
    /\ UNCHANGED <<epoch, ownerVars, serviceVars>>

\* run_process of the owner, which answers with the job's path.
RunProcess(c) ==
    /\ at[c] = "call"
    /\ path' = [path EXCEPT ![c] = jobs[owner[c]]]
    /\ epoch' = [epoch EXCEPT ![c] = restarts]
    /\ AddJob(owner[c])
    /\ at' = [at EXCEPT ![c] = "ran"]
    /\ UNCHANGED <<owner, got>>

\* It cannot spawn the process, or is not there.
RunFails(c) ==
    /\ at[c] = "call"
    /\ Answer(c, NoMirror)
    /\ UNCHANGED <<owner, path, epoch, ownerVars, serviceVars>>

\* The channel of a service that is gone takes no command.
AskForMirror(c) ==
    /\ at[c] = "ran"
    /\ \/ /\ svc # "dead"
          /\ channel' = Append(channel, MirrorJob(c, path[c]))
          /\ at' = [at EXCEPT ![c] = "mirror"]
          /\ UNCHANGED got
       \/ /\ svc = "dead"
          /\ Answer(c, NoMirror)
          /\ UNCHANGED channel
    /\ UNCHANGED <<owner, path, epoch, ownerVars, svc, signals, task, left, mirrored,
                   next>>

-----------------------------------------------------------------------------
(* JobManagerService.                                                      *)

\* run subscribes to JobStarted before it looks at the channel.
Listen ==
    /\ svc = "created"
    /\ svc' = "listening"
    /\ UNCHANGED <<ownerVars, signals, channel, task, left, mirrored, next, clientVars>>

\* MUTANT of Mirror: a path is not looked up before it is mirrored.
MirrorAgain(p) ==
    /\ mirrored' = [mirrored EXCEPT ![p] = next]
    /\ next' = next + 1

\* mirror_job: the mirror there is, or a new one, named after next_job. The
\* key is the bus and the path, whoever owns the job, and whenever it started.
Mirror(p) ==
    IF mirrored[p] # NoMirror
    THEN UNCHANGED <<mirrored, next>>
    ELSE /\ mirrored' = [mirrored EXCEPT ![p] = next]
         /\ next' = next + 1

Selecting == svc = "listening" /\ task = "idle"

TakeSignal ==
    /\ Selecting
    /\ signals # <<>>
    /\ signals' = Tail(signals)
    /\ Mirror(Head(signals))
    /\ UNCHANGED <<ownerVars, svc, channel, task, left, clientVars>>

\* MUTANT of TakeJob: the answer is the job's own path, not that of the mirror.
TakeJobPath ==
    /\ Selecting
    /\ channel # <<>>
    /\ Head(channel).kind = "job"
    /\ LET cmd == Head(channel) IN
          /\ Mirror(cmd.path)
          /\ Answer(cmd.client, cmd.path)
    /\ channel' = Tail(channel)
    /\ UNCHANGED <<ownerVars, svc, signals, task, left, owner, path, epoch>>

TakeJob ==
    /\ Selecting
    /\ channel # <<>>
    /\ Head(channel).kind = "job"
    /\ LET cmd == Head(channel) IN
          /\ Mirror(cmd.path)
          /\ Answer(cmd.client, mirrored'[cmd.path])
    /\ channel' = Tail(channel)
    /\ UNCHANGED <<ownerVars, svc, signals, task, left, owner, path, epoch>>

TakeConnection ==
    /\ Selecting
    /\ channel # <<>>
    /\ Head(channel) = Connection
    /\ channel' = Tail(channel)
    /\ task' = "introspect"
    /\ UNCHANGED <<ownerVars, svc, signals, left, mirrored, next, clientVars>>

\* MUTANT of Introspect: the last node is left out.
IntrospectShort ==
    /\ task = "introspect"
    /\ up
    /\ task' = "mirror"
    /\ left' = 0 .. jobs["root"] - 2
    /\ UNCHANGED <<ownerVars, svc, signals, channel, mirrored, next, clientVars>>

\* mirror_connection: the nodes below Jobs are those of all the jobs so far.
Introspect ==
    /\ task = "introspect"
    /\ up
    /\ task' = "mirror"
    /\ left' = 0 .. jobs["root"] - 1
    /\ UNCHANGED <<ownerVars, svc, signals, channel, mirrored, next, clientVars>>

\* The root daemon is not there: run returns the error, and nobody starts the
\* service again. Whoever waits in the channel, or comes later, gets an error.
IntrospectFails ==
    /\ task = "introspect"
    /\ ~up
    /\ svc' = "dead"
    /\ task' = "idle"
    /\ signals' = <<>>
    /\ channel' = <<>>
    /\ at' = [c \in Callers |-> IF at[c] = "mirror" THEN "idle" ELSE at[c]]
    /\ UNCHANGED <<ownerVars, left, mirrored, next, owner, path, epoch, got>>

MirrorNode ==
    /\ task = "mirror"
    /\ left # {}
    /\ \E p \in left : left' = left \ {p} /\ Mirror(p)
    /\ UNCHANGED <<ownerVars, svc, signals, channel, task, clientVars>>

MirrorDone ==
    /\ task = "mirror"
    /\ left = {}
    /\ task' = "idle"
    /\ UNCHANGED <<ownerVars, svc, signals, channel, left, mirrored, next, clientVars>>

Handle ==
    \/ Introspect \/ IntrospectFails \/ MirrorNode \/ MirrorDone

Service == Listen \/ TakeSignal \/ TakeJob \/ TakeConnection \/ Handle

MirrorNext ==
    \/ RootStops \/ RootStarts
    \/ OtherJob
    \/ \E c \in Callers :
          \/ \E o \in Owners : CallOwner(c, o)
          \/ RunProcess(c) \/ RunFails(c) \/ AskForMirror(c)
    \/ Service

MirrorSpec == MirrorInit /\ [][MirrorNext]_mirrorVars

\* The service goes on, takes from both of what it selects on, and a call to
\* an owner returns. The root daemon is started again.
MirrorFairness ==
    /\ WF_mirrorVars(Listen)
    /\ SF_mirrorVars(TakeSignal)
    /\ SF_mirrorVars(TakeJob \/ TakeConnection)
    /\ WF_mirrorVars(Handle)
    /\ WF_mirrorVars(RootStarts)
    /\ \A c \in Callers :
          /\ WF_mirrorVars(RunProcess(c) \/ RunFails(c))
          /\ WF_mirrorVars(AskForMirror(c))

MirrorFairSpec == MirrorSpec /\ MirrorFairness

-----------------------------------------------------------------------------
(* Properties.                                                             *)

\* A path has one mirror, for as long as the service lives, and a mirror one
\* path, in whatever order the signal, the introspection and the methods of
\* several callers bring it up: no mirror is left over for which no path stands.
MirrorsAreOne ==
    /\ \A p \in Paths : mirrored[p] # NoMirror => mirrored[p] < next
    /\ \A p, q \in Paths : mirrored[p] # NoMirror /\ mirrored[p] = mirrored[q] => p = q
    /\ \A n \in 0..next - 1 : \E p \in Paths : mirrored[p] = n

\* A caller gets the mirror of the job that its call had started, if that is
\* the root daemon's and it has not restarted since.
AnswerIsOwnJob ==
    \A c \in Callers :
        got[c] # NoMirror /\ owner[c] = "root" /\ epoch[c] = restarts =>
            /\ mirrored[path[c]] = got[c]
            /\ path[c] < jobs["root"]

\* A job that is not mirrored yet will be: by the introspection, which is still
\* to come, or under way with its node, or by a signal that is on its way.
IsOnItsWay(p) ==
    \/ \E k \in 1..Len(channel) : channel[k] = Connection
    \/ task = "introspect"
    \/ task = "mirror" /\ p \in left
    \/ \E k \in 1..Len(signals) : signals[k] = p

\* While the service lives, no job of the root daemon falls between the
\* subscription, the introspection and the signals, whenever it is started;
\* and whoever waits for a mirror has a command in the channel.
NoneFallsBetween ==
    /\ svc # "dead" =>
          \A p \in Paths : p < jobs["root"] => mirrored[p] # NoMirror \/ IsOnItsWay(p)
    /\ \A c \in Callers : at[c] = "mirror" =>
          \E k \in 1..Len(channel) : channel[k] = MirrorJob(c, path[c])

\* Every job of the root daemon is mirrored in the end, unless the root daemon
\* restarts or the service is gone: none falls between the introspection and
\* the subscription.
JobsAreMirrored ==
    \A p \in Paths :
        up /\ p < jobs["root"] ~> mirrored[p] # NoMirror \/ svc = "dead" \/ ~up

\* Every caller gets an answer, also if the service is gone.
CallersAnswered == \A c \in Callers : at[c] # "idle" ~> at[c] = "idle"

\* Neither a job nor a caller is forgotten (both of the above).
NoneIsForgotten == JobsAreMirrored /\ CallersAnswered
=============================================================================
