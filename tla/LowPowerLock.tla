---------------------------- MODULE LowPowerLock ----------------------------
(***************************************************************************)
(* What the low power ("download") mode promises its clients, apart from   *)
(* how TdpManagerService keeps the promise:                                *)
(*   - anybody may hold any number of handles;                             *)
(*   - the mode is entered only for a holder and left only without one;    *)
(*   - in the mode the limit is Low, out of it the limit is the last one   *)
(*     somebody set, and a limit is never set over the mode.               *)
(***************************************************************************)
EXTENDS Naturals

CONSTANTS Ids,      (* the identifiers clients give with their handles     *)
          Limits,   (* the TDP limits                                      *)
          Low       (* the limit of the low power mode                     *)

VARIABLES holders,  (* the number of handles of each identifier            *)
          locked,   (* is the low power mode on?                           *)
          wanted,   (* the limit outside the mode                          *)
          limit     (* the limit in force                                  *)

lockVars == <<holders, locked, wanted, limit>>

Held == \E id \in Ids : holders[id] > 0

LockInit ==
    /\ holders = [id \in Ids |-> 0]
    /\ locked = FALSE
    /\ wanted \in Limits
    /\ limit = wanted

Acquire(id) ==
    /\ holders' = [holders EXCEPT ![id] = @ + 1]
    /\ UNCHANGED <<locked, wanted, limit>>

Release(id) ==
    /\ holders[id] > 0
    /\ holders' = [holders EXCEPT ![id] = @ - 1]
    /\ UNCHANGED <<locked, wanted, limit>>

Lock ==
    /\ Held
    /\ ~locked
    /\ locked' = TRUE
    /\ limit' = Low
    /\ UNCHANGED <<holders, wanted>>

Unlock ==
    /\ ~Held
    /\ locked
    /\ locked' = FALSE
    /\ limit' = wanted
    /\ UNCHANGED <<holders, wanted>>

Set(l) ==
    /\ ~Held
    /\ ~locked
    /\ wanted' = l
    /\ limit' = l
    /\ UNCHANGED <<holders, locked>>

LockNext ==
    \/ \E id \in Ids : Acquire(id) \/ Release(id)
    \/ Lock
    \/ Unlock
    \/ \E l \in Limits : Set(l)

LockSpec == LockInit /\ [][LockNext]_lockVars
=============================================================================
