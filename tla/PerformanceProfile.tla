------------------------- MODULE PerformanceProfile -------------------------
(***************************************************************************)
(* The setter of PerformanceProfile1 and the interface that depends on the *)
(* profile, TdpLimit1 (set_performance_profile and the task at the end of  *)
(* create_device_interfaces in manager/user.rs). UserInterfaces says when  *)
(* they are there; here they are, and the daemon has started.              *)
(***************************************************************************)
EXTENDS Naturals, Sequences

CONSTANTS
    ProfileCallers,      (* the calls of set_performance_profile           *)
    Profiles,            (* platform profiles                              *)
    LimitProfiles,       (* those in which the TDP limit can be set        *)
    MaxProfileCalls,
    MaxProfileFaults     (* how many steps fail                            *)

ASSUME ProfileAssumption ==
    LimitProfiles \subseteq Profiles /\ {MaxProfileCalls, MaxProfileFaults} \subseteq Nat

VARIABLES
    tdpManager,          (* is there a TDP manager?                        *)
    tdpLimit1,           (* is TdpLimit1 exported?                         *)
    profile,             (* what the kernel has                            *)
    shown,               (* what a client of the signals takes it to be    *)
    profileSetters,      (* the calls of set_performance_profile           *)
    profileCalls,
    asking,              (* the IsActive in the TDP manager's queue        *)
    told,                (* the tasks that have its answer                 *)
    profileFaults,
    calm,                (* did the last change begin with all at rest, and*)
                         (* no call fail that had changed the profile?     *)
    unanswered           (* has IsActive failed since the last change?     *)

profileVars == <<tdpManager, tdpLimit1, profile, shown, profileSetters,
                 profileCalls, asking, told, profileFaults, calm, unanswered>>

\* The types of the calls, the kernel and the tasks.
ProfileTypeOK ==
    /\ tdpManager \in BOOLEAN /\ tdpLimit1 \in BOOLEAN /\ calm \in BOOLEAN
    /\ unanswered \in BOOLEAN /\ profileFaults \in 0..MaxProfileFaults
    /\ profile \in Profiles /\ shown \in Profiles
    /\ profileSetters \in
         [ProfileCallers -> [at : {"idle", "asked", "written", "read"},
                             profile : Profiles, sole : BOOLEAN]]
    /\ profileCalls \in 0..MaxProfileCalls
    /\ asking \in Seq({"start", "setter"})
    /\ told \in [BOOLEAN -> Nat]

\* The task of create_device_interfaces has asked the TDP manager.
ProfileInit ==
    /\ tdpManager \in BOOLEAN
    /\ tdpLimit1 = FALSE
    /\ profile \in Profiles
    /\ shown = profile
    /\ profileSetters = [c \in ProfileCallers |-> [at |-> "idle", profile |-> profile,
                                                  sole |-> FALSE]]
    /\ profileCalls = 0
    /\ asking = IF tdpManager THEN <<"start">> ELSE <<>>
    /\ told = [b \in BOOLEAN |-> 0]
    /\ profileFaults = 0
    /\ calm = TRUE
    /\ unanswered = FALSE

-----------------------------------------------------------------------------
(* The setter borrows its object only to read it, so two calls run at      *)
(* once.                                                                   *)

AtRest ==
    /\ \A c \in ProfileCallers : profileSetters[c].at = "idle"
    /\ asking = <<>>
    /\ \A b \in BOOLEAN : told[b] = 0

\* A call: SetPerformanceProfile is on its way to the root daemon.
SetProfile(c, p) ==
    /\ profileSetters[c].at = "idle"
    /\ profileCalls < MaxProfileCalls
    /\ profileCalls' = profileCalls + 1
    /\ profileSetters' = [d \in ProfileCallers |->
                            IF d = c THEN [at |-> "asked", profile |-> p, sole |-> AtRest]
                            ELSE [profileSetters[d] EXCEPT !.sole = FALSE]]
    /\ calm' = (calm /\ AtRest)
    /\ UNCHANGED <<tdpManager, tdpLimit1, profile, shown, asking, told, profileFaults,
                   unanswered>>

\* The call returns an error. One that has changed the profile tells neither the
\* clients, nor the TDP manager, and leaves no task.
CallFails(c) ==
    /\ profileFaults < MaxProfileFaults
    /\ profileFaults' = profileFaults + 1
    /\ profileSetters' = [profileSetters EXCEPT ![c].at = "idle"]
    /\ UNCHANGED <<tdpManager, tdpLimit1, shown, profileCalls, asking, told>>

\* The root daemon writes it to the kernel.
RootWritesProfile(c) ==
    /\ profileSetters[c].at = "asked"
    /\ profileSetters' = [profileSetters EXCEPT ![c].at = "written"]
    /\ profile' = profileSetters[c].profile
    /\ calm' = profileSetters[c].sole
    /\ unanswered' = FALSE
    /\ UNCHANGED <<tdpManager, tdpLimit1, shown, profileCalls, asking, told, profileFaults>>

\* Or cannot,
RootRefusesProfile(c) ==
    /\ profileSetters[c].at = "asked"
    /\ CallFails(c)
    /\ UNCHANGED <<profile, calm, unanswered>>

\* or its reply is lost.
RootIsNotHeard(c) ==
    /\ profileSetters[c].at = "asked"
    /\ CallFails(c)
    /\ profile' = profileSetters[c].profile
    /\ calm' = FALSE
    /\ unanswered' = FALSE

\* performance_profile_changed calls the getter,
ReadProfile(c) ==
    /\ profileSetters[c].at = "written"
    /\ profileSetters' = [profileSetters EXCEPT ![c].at = "read", ![c].profile = profile]
    /\ UNCHANGED <<tdpManager, tdpLimit1, profile, shown, profileCalls, asking, told,
                   profileFaults, calm, unanswered>>

\* and emits what it returned. Then the TDP manager, if there is one, is told to
\* look at the download mode again (see TdpManager) and asked by a task.
AnnounceProfile(c) ==
    /\ profileSetters[c].at = "read"
    /\ profileSetters' = [profileSetters EXCEPT ![c].at = "idle"]
    /\ shown' = profileSetters[c].profile
    /\ asking' = IF tdpManager THEN Append(asking, "setter") ELSE asking
    /\ UNCHANGED <<tdpManager, tdpLimit1, profile, profileCalls, told, profileFaults, calm,
                   unanswered>>

\* The getter fails, or what it returned cannot be emitted.
AnnouncementFails(c) ==
    /\ profileSetters[c].at \in {"written", "read"}
    /\ CallFails(c)
    /\ calm' = FALSE
    /\ UNCHANGED <<profile, unanswered>>

\* The TDP manager runs: IsActive reads the profile. The task of the start has
\* nothing to do when it is not active.
TdpManagerAnswers ==
    /\ asking # <<>>
    /\ asking' = Tail(asking)
    /\ LET active == profile \in LimitProfiles
       IN  told' = IF active \/ Head(asking) = "setter"
                   THEN [told EXCEPT ![active] = @ + 1] ELSE told
    /\ UNCHANGED <<tdpManager, tdpLimit1, profile, shown, profileSetters, profileCalls,
                   profileFaults, calm, unanswered>>

\* The profile cannot be read: the task ends with the error, and TdpLimit1 stays.
TdpManagerCannotTell ==
    /\ asking # <<>>
    /\ profileFaults < MaxProfileFaults
    /\ profileFaults' = profileFaults + 1
    /\ asking' = Tail(asking)
    /\ unanswered' = TRUE
    /\ UNCHANGED <<tdpManager, tdpLimit1, profile, shown, profileSetters, profileCalls, told,
                   calm>>

\* MUTANT of ApplyAnswer: TdpLimit1 is only ever added.
ApplyAnswerAdds(active) ==
    /\ told[active] > 0
    /\ told' = [told EXCEPT ![active] = @ - 1]
    /\ tdpLimit1' = (tdpLimit1 \/ active)
    /\ UNCHANGED <<tdpManager, profile, shown, profileSetters, profileCalls, asking,
                   profileFaults, calm, unanswered>>

\* A task with an answer adds or removes TdpLimit1. Tasks run in any order.
ApplyAnswer(active) ==
    /\ told[active] > 0
    /\ told' = [told EXCEPT ![active] = @ - 1]
    /\ tdpLimit1' = active
    /\ UNCHANGED <<tdpManager, profile, shown, profileSetters, profileCalls, asking,
                   profileFaults, calm, unanswered>>

ProfileNext ==
    \/ \E c \in ProfileCallers :
         \/ \E p \in Profiles : SetProfile(c, p)
         \/ RootWritesProfile(c) \/ RootRefusesProfile(c) \/ RootIsNotHeard(c)
         \/ ReadProfile(c) \/ AnnounceProfile(c) \/ AnnouncementFails(c)
    \/ TdpManagerAnswers \/ TdpManagerCannotTell
    \/ \E active \in BOOLEAN : ApplyAnswer(active)

ProfileSpec == ProfileInit /\ [][ProfileNext]_profileVars

\* A profile set while nothing else was under way, by a call that did not fail
\* after it had changed the profile, is announced as it is; and TdpLimit1 is there
\* exactly if the profile has a limit, unless IsActive failed since. This holds
\* whatever calls that overlapped or failed left behind: the next one that gets
\* through alone repairs it (set_performance_profile and its task).
ProfileInStep ==
    calm /\ AtRest =>
       /\ shown = profile
       /\ ~unanswered => (tdpLimit1 <=> tdpManager /\ profile \in LimitProfiles)
=============================================================================
