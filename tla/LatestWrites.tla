---------------------------- MODULE LatestWrites ----------------------------
(***************************************************************************)
(* What the queue of sysfs writes promises its callers, apart from how     *)
(* SysfsWriterQueue and its service keep the promise                       *)
(* (src/steamos-manager/src/sysfs.rs):                                     *)
(*   - every request gets one answer, and keeps it;                        *)
(*   - the requests for a path are settled in the order in which they were *)
(*     made, and one that was written is in the file from its answer on,   *)
(*     until a later one takes its place;                                  *)
(*   - a request gives way to a newer one for its path as soon as that is  *)
(*     made, or never; so that no more than one is ahead of the newest,    *)
(*     however many are made while a file is slow;                         *)
(*   - a file changes by such writes only.                                 *)
(***************************************************************************)
EXTENDS Naturals

CONSTANTS Paths,      (* the files                                         *)
          WritesFail, (* may a write fail, with or without effect?         *)
          MaxRequests (* bound: requests in a behaviour                    *)

VARIABLES issued,     (* requests so far                                   *)
          path,       (* the path of each                                  *)
          answer,     (* what it was answered                              *)
          file        (* the request whose contents each file holds        *)

writeVars == <<issued, path, answer, file>>

Requests == 1..MaxRequests
Pending(p) == {r \in Requests : path[r] = p /\ answer[r] = "pending"}

WriteInit ==
    /\ issued = 0
    /\ path \in [Requests -> Paths]
    /\ answer = [r \in Requests |-> "none"]
    /\ file = [p \in Paths |-> 0]

\* A request is made. Of those before it for its path the oldest may stay,
\* which somebody may be writing; all others give way.
Ask ==
    LET r == issued + 1
    IN  /\ r \in Requests
        /\ issued' = r
        /\ \E stay \in SUBSET Pending(path[r]) :
              /\ \A q \in stay, o \in Pending(path[r]) : q <= o
              /\ answer' = [q \in Requests |->
                               IF q = r THEN "pending"
                               ELSE IF q \in Pending(path[r]) \ stay THEN "Superseded"
                               ELSE answer[q]]
        /\ UNCHANGED <<path, file>>

\* The oldest request for a path is written, or fails.
Settle(r) ==
    /\ answer[r] = "pending"
    /\ \A q \in Pending(path[r]) : r <= q
    /\ \/ /\ file' = [file EXCEPT ![path[r]] = r]
          /\ answer' = [answer EXCEPT ![r] = "Written"]
       \/ /\ WritesFail
          /\ file' \in {file, [file EXCEPT ![path[r]] = r]}
          /\ answer' = [answer EXCEPT ![r] = "Failed"]
    /\ UNCHANGED <<issued, path>>

WriteNext == Ask \/ \E r \in Requests : Settle(r)

WriteSpec == WriteInit /\ [][WriteNext]_writeVars
=============================================================================
