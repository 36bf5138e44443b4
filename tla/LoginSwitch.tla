----------------------------- MODULE LoginSwitch -----------------------------
(***************************************************************************)
(* Switching to another login mode for one session (switch_to_login_mode,  *)
(* logout and the temporary session of src/steamos-manager/src/session.rs, *)
(* the methods of SessionManagement1 in manager/user.rs, and the service   *)
(* data/user/steamos-manager-session-cleanup.service). A switch writes the *)
(* session into a file of the display manager and logs out; the display    *)
(* manager logs in again, by that file when it is there; and the new       *)
(* session removes it, some time after it has started. The methods take    *)
(* &self, and run side by side.                                            *)
(***************************************************************************)
EXTENDS Naturals

CONSTANTS
    Switchers,           (* the calls of the methods                       *)
    LoginSessions,       (* the session of each mode                       *)
    NoSession,
    MaxLogins,           (* how often somebody logs in                     *)
    MaxLoginFaults       (* how many steps fail, or machines are switched  *)
                         (* off                                            *)

ASSUME LoginAssumption ==
    /\ NoSession \notin LoginSessions
    /\ LoginSessions # {}
    /\ {MaxLogins, MaxLoginFaults} \subseteq Nat

VARIABLES
    switch,              (* where each call is                             *)
    target,              (* the session it asks for                        *)
    default,             (* what zz-steamos-autologin.conf says            *)
    temporary,           (* what zzt-steamos-temp-login.conf says          *)
    current,             (* the session that runs                          *)
    stopping,            (* does systemd stop graphical-session.target?    *)
    cleaning,            (* is the clean-up of this session still to come? *)
    logins, loginFaults,
    (* since the last login, for the properties *)
    last,                (* the session last written                       *)
    raced,               (* did the clean-up come after it?                *)
    cleaned              (* did the clean-up succeed?                      *)

loginGhosts == <<last, raced, cleaned>>
loginBounds == <<logins, loginFaults>>
switchVars == <<switch, target>>
loginFiles == <<default, temporary, current, stopping, cleaning>>
loginAll == <<switchVars, loginFiles, loginBounds, loginGhosts>>

\* The types of the calls' and the display manager's state.
LoginTypeOK ==
    /\ switch \in [Switchers -> {"idle", "session", "root", "logout"}]
    /\ target \in [Switchers -> LoginSessions]
    /\ default \in LoginSessions
    /\ {temporary, current, last} \subseteq LoginSessions \cup {NoSession}
    /\ {stopping, cleaning, raced, cleaned} \subseteq BOOLEAN
    /\ logins \in 0..MaxLogins
    /\ loginFaults \in 0..MaxLoginFaults

LoginInit ==
    /\ switch = [c \in Switchers |-> "idle"]
    /\ default \in LoginSessions
    /\ target = [c \in Switchers |-> default]
    /\ temporary = NoSession
    /\ current = NoSession
    /\ stopping = FALSE
    /\ cleaning = FALSE
    /\ logins = 0 /\ loginFaults = 0
    /\ last = NoSession
    /\ raced = FALSE
    /\ cleaned = TRUE

-----------------------------------------------------------------------------
(* switch_to_login_mode, from await to await.                              *)

At(c, s) == switch[c] = s
Move(c, s) == switch' = [switch EXCEPT ![c] = s]

SwitchToLoginMode(c) ==
    /\ At(c, "idle")
    /\ current # NoSession
    /\ Move(c, "session")
    /\ UNCHANGED <<target, loginFiles, loginBounds, loginGhosts>>

\* session_for_mode asks the daemon for the desktop session of just now.
SessionForMode(c) ==
    /\ At(c, "session")
    /\ \E s \in LoginSessions : target' = [target EXCEPT ![c] = s]
    /\ Move(c, "root")
    /\ UNCHANGED <<loginFiles, loginBounds, loginGhosts>>

\* A step fails: the call ends there, and the file stays as it is.
SwitchFails(c) ==
    /\ switch[c] \in {"root", "logout"}
    /\ loginFaults < MaxLoginFaults
    /\ loginFaults' = loginFaults + 1
    /\ Move(c, "idle")
    /\ UNCHANGED <<target, loginFiles, logins, loginGhosts>>

\* root::set_temporary_session.
SetTemporarySession(c) ==
    /\ At(c, "root")
    /\ temporary' = target[c]
    /\ last' = target[c]
    /\ raced' = FALSE
    /\ Move(c, "logout")
    /\ UNCHANGED <<target, default, current, stopping, cleaning, loginBounds, cleaned>>

\* logout: systemd has the job, and the call returns.
Logout(c) ==
    /\ At(c, "logout")
    /\ stopping' = (current # NoSession)
    /\ Move(c, "idle")
    /\ UNCHANGED <<target, default, temporary, current, cleaning, loginBounds, loginGhosts>>

-----------------------------------------------------------------------------
(* The display manager, the new session and the machine.                   *)

SessionEnds ==
    /\ stopping
    /\ stopping' = FALSE
    /\ current' = NoSession
    /\ cleaning' = FALSE
    /\ UNCHANGED <<switchVars, default, temporary, loginBounds, loginGhosts>>

\* The last of the files in the directory counts.
Login ==
    /\ current = NoSession
    /\ logins < MaxLogins
    /\ logins' = logins + 1
    /\ current' = IF temporary = NoSession THEN default ELSE temporary
    /\ cleaning' = TRUE
    /\ last' = NoSession /\ raced' = FALSE /\ cleaned' = FALSE
    /\ UNCHANGED <<switchVars, default, temporary, stopping, loginFaults>>

\* MUTANT of CleanTemporarySessions: an error is taken for a missing file.
CleanTemporarySessionsAnyError ==
    /\ cleaning
    /\ cleaning' = FALSE
    /\ \/ temporary' = NoSession /\ raced' = (last # NoSession) /\ UNCHANGED loginFaults
       \/ /\ loginFaults < MaxLoginFaults
          /\ loginFaults' = loginFaults + 1
          /\ UNCHANGED <<temporary, raced>>
    /\ cleaned' = TRUE
    /\ UNCHANGED <<switchVars, default, current, stopping, logins, last>>

\* root::clean_temporary_sessions: a file that is not there is no error. It is
\* asked for only once the new session and both daemons are up.
CleanTemporarySessions ==
    /\ cleaning
    /\ cleaning' = FALSE
    /\ \/ /\ temporary' = NoSession
          /\ raced' = (last # NoSession)
          /\ cleaned' = TRUE
          /\ UNCHANGED loginFaults
       \/ /\ loginFaults < MaxLoginFaults
          /\ loginFaults' = loginFaults + 1
          /\ UNCHANGED <<temporary, raced, cleaned>>
    /\ UNCHANGED <<switchVars, default, current, stopping, logins, last>>

\* The files stay when the machine is switched off.
PowerOff ==
    /\ loginFaults < MaxLoginFaults
    /\ loginFaults' = loginFaults + 1
    /\ switch' = [c \in Switchers |-> "idle"]
    /\ current' = NoSession
    /\ stopping' = FALSE
    /\ cleaning' = FALSE
    /\ UNCHANGED <<target, default, temporary, logins, loginGhosts>>

LoginNext ==
    \/ \E c \in Switchers :
         \/ SwitchToLoginMode(c) \/ SessionForMode(c) \/ SwitchFails(c)
         \/ SetTemporarySession(c) \/ Logout(c)
    \/ SessionEnds \/ Login \/ CleanTemporarySessions \/ PowerOff

LoginSpec == LoginInit /\ [][LoginNext]_loginAll

-----------------------------------------------------------------------------
(* Properties.                                                             *)

\* "Log out and switch to a given mode": the next login is into the session
\* that a switch wrote last, however its calls, the clean-up and failures mix,
\* unless the clean-up of the session it was called in came late and took it.
\* It is for once: a login that no switch led to, after a session that did
\* clean up, is into the default session.
SwitchIsForOnce ==
    [][current = NoSession /\ current' # NoSession =>
         /\ last # NoSession /\ ~raced => current' = last
         /\ last = NoSession /\ cleaned => current' = default]_loginAll
=============================================================================
