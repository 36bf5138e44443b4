-------------------------- MODULE SysfsWriterProofs -------------------------
(***************************************************************************)
(* Theorems about what writes to sysfs: the writer's queue (SysfsWriter),  *)
(* and the inhibitors of the root daemon (DsInhibit).                      *)
(*   SysfsWriter, for any number of paths and of requests: the inductive   *)
(* invariant says where a request is: in the map under its own path, or in *)
(* the hands of the service, and then older than the entry of that path;   *)
(* and that the newest request of a path is never lost.                    *)
(*   DsInhibit, for any devices and processes and any number of plugs and  *)
(* runs: the inductive invariant says what an inhibitor that listens has   *)
(* yet to hear. A device that is there is in its map, or is being added,   *)
(* or will be looked at; what it noted goes on being watched, or the end   *)
(* of it is in the queue; and unless an event of the device is in the      *)
(* queue, what its check has seen, will write or has written is what is.   *)
(***************************************************************************)
EXTENDS SysfsWriter, DsInhibit, TLAPS

\* A request has been made once it is in the map; writing is set exactly
\* while the service writes.
Issued ==
    /\ \A r \in Requests : answer[r] = "none" <=> r > issued
    /\ writing # None <=> pc = "writing"
    /\ writing # None => writing <= issued
    /\ \A p \in Paths : values[p] # None =>
          values[p] <= issued /\ path[values[p]] = p
    /\ \A p \in Paths : file[p] # None =>
          file[p] <= issued /\ path[file[p]] = p /\ answer[file[p]] \in {"Written", "Failed"}

\* What the service writes is older than what the map holds for its path.
InOrder ==
    writing # None /\ values[path[writing]] # None =>
        writing < values[path[writing]]

SysfsInv == TypeOK /\ Issued /\ InOrder /\ PendingIsOwned

USE SysfsAssumption DEF Requests, None

LEMMA InitInv == Init => SysfsInv
<1> SUFFICES ASSUME Init PROVE SysfsInv
  OBVIOUS
<1>1. TypeOK
  <2>1. answer \in [Requests -> Answers]
    BY DEF Init, Answers
  <2>2. permit \in BOOLEAN /\ pc \in {"starting", "waiting", "woken", "writing"}
    BY DEF Init
  <2> QED BY <2>1, <2>2 DEF Init, TypeOK
<1>2. Issued /\ InOrder /\ PendingIsOwned
  BY DEF Init, Issued, InOrder, PendingIsOwned, InHand
<1> QED BY <1>1, <1>2 DEF SysfsInv

LEMMA ListenType == Listen => permit' = FALSE /\ pc' \in {"waiting", "woken"}
<1> SUFFICES ASSUME Listen PROVE pc' \in {"waiting", "woken"}
  BY DEF Listen
<1> CASE permit
  BY DEF Listen
<1> CASE ~permit
  BY DEF Listen
<1> QED OBVIOUS

LEMMA InsertKeeps == SysfsInv /\ SendInsert => SysfsInv'
<1> SUFFICES ASSUME SysfsInv, SendInsert PROVE SysfsInv'
  OBVIOUS
<1> DEFINE r == issued + 1
<1> DEFINE old == values[path[r]]
<1>1. /\ r \in Requests /\ issued \in Nat /\ issued' = r
      /\ path[r] \in Paths /\ path' = path
      /\ values' = [values EXCEPT ![path[r]] = r]
      /\ answer' = [q \in Requests |->
                       IF q = r THEN "pending"
                       ELSE IF q = old THEN "Superseded" ELSE answer[q]]
      /\ sending' = r
      /\ UNCHANGED <<permit, pc, writing, announced, file, signals, shown>>
  BY DEF SysfsInv, TypeOK, SendInsert
<1>2. TypeOK'
  BY <1>1 DEF SysfsInv, TypeOK, Answers
<1>3. old # None => old \in Requests /\ old <= issued /\ answer[old] = "pending"
  BY <1>1 DEF SysfsInv, TypeOK, Issued, PendingIsOwned, InHand
<1>4. Issued'
  BY <1>1, <1>3 DEF SysfsInv, TypeOK, Issued
<1>5. InOrder'
  BY <1>1 DEF SysfsInv, TypeOK, Issued, InOrder
<1>6. PendingIsOwned'
  <2> SUFFICES ASSUME NEW q \in Requests
               PROVE  answer'[q] = "pending" <=> InHand(q)'
    BY DEF PendingIsOwned
  <2>1. CASE q = r
    BY <2>1, <1>1 DEF InHand, SysfsInv, TypeOK
  <2>2. CASE q # r /\ q = old
    BY <2>2, <1>1, <1>3 DEF InHand, SysfsInv, TypeOK, InOrder, Issued
  <2>3. CASE q # r /\ q # old
    BY <2>3, <1>1, <1>3 DEF InHand, SysfsInv, TypeOK, PendingIsOwned, Issued
  <2> QED BY <2>1, <2>2, <2>3
<1> QED BY <1>2, <1>4, <1>5, <1>6 DEF SysfsInv

LEMMA NotifyKeeps == SysfsInv /\ SendNotify => SysfsInv'
<1> SUFFICES ASSUME SysfsInv, SendNotify PROVE SysfsInv'
  OBVIOUS
<1>1. /\ pc' \in {"starting", "waiting", "woken", "writing"}
      /\ pc' = "writing" <=> pc = "writing"
      /\ permit' \in BOOLEAN
  <2>1. CASE pc = "waiting"
    BY <2>1 DEF SysfsInv, TypeOK, SendNotify
  <2>2. CASE pc # "waiting"
    BY <2>2 DEF SysfsInv, TypeOK, SendNotify
  <2> QED BY <2>1, <2>2
<1>2. TypeOK'
  BY <1>1 DEF SysfsInv, TypeOK, SendNotify
<1>3. Issued' /\ InOrder' /\ PendingIsOwned'
  BY <1>1 DEF SysfsInv, Issued, InOrder, PendingIsOwned, InHand, SendNotify
<1> QED BY <1>2, <1>3 DEF SysfsInv

LEMMA AnnounceKeeps ==
    ASSUME NEW r \in Requests PROVE SysfsInv /\ Announce(r) => SysfsInv'
  BY DEF SysfsInv, TypeOK, Answers, Issued, InOrder, PendingIsOwned, InHand,
         Announce, queueVars, callVars

LEMMA RelayKeeps == SysfsInv /\ Relay => SysfsInv'
  BY DEF SysfsInv, TypeOK, Issued, InOrder, PendingIsOwned, InHand, Relay,
         queueVars, callVars

LEMMA StartKeeps == SysfsInv /\ Start => SysfsInv'
<1> SUFFICES ASSUME SysfsInv, Start PROVE SysfsInv'
  OBVIOUS
<1>1. permit' = FALSE /\ pc' \in {"waiting", "woken"}
  BY ListenType DEF Start
<1>2. TypeOK'
  BY <1>1 DEF SysfsInv, TypeOK, Start, callVars
<1>3. Issued' /\ InOrder' /\ PendingIsOwned'
  BY <1>1 DEF SysfsInv, Issued, InOrder, PendingIsOwned, InHand, Start, callVars
<1> QED BY <1>2, <1>3 DEF SysfsInv

LEMMA RecvNothingKeeps == SysfsInv /\ RecvNothing => SysfsInv'
<1> SUFFICES ASSUME SysfsInv, RecvNothing PROVE SysfsInv'
  OBVIOUS
<1>1. permit' = FALSE /\ pc' \in {"waiting", "woken"}
  BY ListenType DEF RecvNothing
<1>2. TypeOK'
  BY <1>1 DEF SysfsInv, TypeOK, RecvNothing, callVars
<1>3. Issued' /\ InOrder' /\ PendingIsOwned'
  BY <1>1 DEF SysfsInv, Issued, InOrder, PendingIsOwned, InHand, RecvNothing, callVars
<1> QED BY <1>2, <1>3 DEF SysfsInv

LEMMA RecvEntryKeeps ==
    ASSUME NEW p \in Paths PROVE SysfsInv /\ RecvEntry(p) => SysfsInv'
<1> SUFFICES ASSUME SysfsInv, RecvEntry(p) PROVE SysfsInv'
  OBVIOUS
<1>1. TypeOK'
  BY DEF SysfsInv, TypeOK, RecvEntry, callVars
<1>2. Issued' /\ InOrder'
  BY DEF SysfsInv, TypeOK, Issued, InOrder, RecvEntry, callVars
<1>3. PendingIsOwned'
  BY DEF SysfsInv, TypeOK, Issued, PendingIsOwned, InHand, RecvEntry, callVars
<1> QED BY <1>1, <1>2, <1>3 DEF SysfsInv

LEMMA WriteKeeps == SysfsInv /\ Write => SysfsInv'
<1> SUFFICES ASSUME SysfsInv, Write PROVE SysfsInv'
  OBVIOUS
<1>1. writing \in Requests /\ writing <= issued /\ path[writing] \in Paths
  BY DEF SysfsInv, TypeOK, Issued, Write
<1>2. permit' = FALSE /\ pc' \in {"waiting", "woken"}
  BY ListenType DEF Write
<1>3. TypeOK'
  <2>1. file' \in [Paths -> Requests \cup {None}]
    BY <1>1 DEF SysfsInv, TypeOK, Write
  <2>2. answer' \in [Requests -> Answers]
    BY DEF SysfsInv, TypeOK, Answers, Write
  <2> QED BY <1>2, <2>1, <2>2 DEF SysfsInv, TypeOK, Write, callVars
<1>4. /\ writing' = None /\ pc' # "writing"
      /\ file' \in {file, [file EXCEPT ![path[writing]] = writing]}
      /\ \E x \in {"Written", "Failed"} : answer' = [answer EXCEPT ![writing] = x]
      /\ UNCHANGED <<values, issued, path>>
  BY <1>2 DEF Write, callVars
<1>5. Issued' /\ InOrder'
  <2>1. \A r \in Requests : answer'[r] = "none" <=> r > issued'
    BY <1>1, <1>4 DEF SysfsInv, TypeOK, Issued
  <2>2. \A p \in Paths : file'[p] # None =>
           /\ file'[p] <= issued' /\ path'[file'[p]] = p
           /\ answer'[file'[p]] \in {"Written", "Failed"}
    BY <1>1, <1>4 DEF SysfsInv, TypeOK, Issued
  <2> QED BY <1>4, <2>1, <2>2 DEF SysfsInv, Issued, InOrder
<1>6. PendingIsOwned'
  BY <1>1, <1>4 DEF SysfsInv, TypeOK, InOrder, PendingIsOwned, InHand
<1> QED BY <1>3, <1>5, <1>6 DEF SysfsInv

LEMMA StutterKeeps == SysfsInv /\ UNCHANGED vars => SysfsInv'
  BY DEF SysfsInv, TypeOK, Issued, InOrder, PendingIsOwned, InHand, vars,
         queueVars, callVars

LEMMA StepInv == SysfsInv /\ [Next]_vars => SysfsInv'
  BY InsertKeeps, NotifyKeeps, AnnounceKeeps, RelayKeeps, StartKeeps,
     RecvNothingKeeps, RecvEntryKeeps, WriteKeeps, StutterKeeps
     DEF Next, Service

\* The types hold for any set of paths and any number of requests.
THEOREM QueueTypeCorrect == Spec => []TypeOK
<1>1. SysfsInv => TypeOK
  BY DEF SysfsInv
<1> QED BY <1>1, InitInv, StepInv, PTL DEF Spec

\* No promise is forgotten, and none is kept after its answer.
THEOREM PromisesOwned == Spec => [](SysfsInv /\ PendingIsOwned)
<1>1. SysfsInv => PendingIsOwned
  BY DEF SysfsInv
<1> QED BY <1>1, InitInv, StepInv, PTL DEF Spec

-----------------------------------------------------------------------------
(* A superseded request.                                                   *)

LEMMA SupersededInit == Init => SupersededByNewer
  BY DEF Init, SupersededByNewer

LEMMA SupersededStep ==
    SysfsInv /\ SupersededByNewer /\ [Next]_vars => SupersededByNewer'
<1> SUFFICES ASSUME SysfsInv, SupersededByNewer, [Next]_vars,
                    NEW q \in Requests, answer'[q] = "Superseded"
             PROVE  /\ ~InHand(q)'
                    /\ \A p \in Paths : file'[p] # q
                    /\ \E s \in q + 1 .. issued' : path'[s] = path'[q]
  BY DEF SupersededByNewer
<1>0. issued \in Nat
  BY DEF SysfsInv, TypeOK
<1>1. CASE SendInsert
  <2> DEFINE r == issued + 1
  <2> DEFINE old == values[path[r]]
  <2>1. /\ r \in Requests /\ issued' = r /\ path[r] \in Paths /\ path' = path
        /\ values' = [values EXCEPT ![path[r]] = r]
        /\ answer' = [o \in Requests |->
                         IF o = r THEN "pending"
                         ELSE IF o = old THEN "Superseded" ELSE answer[o]]
        /\ UNCHANGED <<writing, file>>
    BY <1>1 DEF SysfsInv, TypeOK, SendInsert
  <2>2. q # r
    BY <2>1
  <2>3. CASE q = old
    <3>1. q <= issued /\ path[q] = path[r] /\ answer[q] = "pending"
      BY <2>1, <2>3 DEF SysfsInv, TypeOK, Issued, PendingIsOwned, InHand
    <3>2. writing # q
      BY <2>1, <2>3, <3>1 DEF SysfsInv, TypeOK, InOrder
    <3>3. \A p \in Paths : file[p] # q
      BY <3>1 DEF SysfsInv, Issued
    <3> QED BY <1>0, <2>1, <2>2, <3>1, <3>2, <3>3 DEF InHand, SysfsInv, TypeOK
  <2>4. CASE q # old
    <3>1. answer[q] = "Superseded"
      BY <2>1, <2>2, <2>4
    <3>2. /\ ~InHand(q)
          /\ \A p \in Paths : file[p] # q
          /\ \E s \in q + 1 .. issued : path[s] = path[q]
      BY <3>1 DEF SupersededByNewer
    <3> QED BY <1>0, <2>1, <2>2, <3>2 DEF InHand, SysfsInv, TypeOK
  <2> QED BY <2>3, <2>4
<1> DEFINE Same ==
        /\ answer[q] = "Superseded" /\ issued' = issued /\ path' = path
        /\ ~InHand(q)' /\ \A p \in Paths : file'[p] # q
<1>2. SUFFICES ASSUME ~SendInsert PROVE Same
  BY <1>1 DEF SupersededByNewer
<1>3. CASE SendNotify \/ Relay \/ Start \/ RecvNothing \/ UNCHANGED vars
  BY <1>3 DEF SupersededByNewer, InHand, SendNotify, Relay, Start, RecvNothing,
              vars, queueVars, callVars
<1>4. CASE \E r \in Requests : Announce(r)
  BY <1>4 DEF SysfsInv, TypeOK, SupersededByNewer, InHand, Announce, queueVars,
              callVars
<1>5. CASE \E p \in Paths : RecvEntry(p)
  BY <1>5 DEF SysfsInv, TypeOK, Issued, SupersededByNewer, InHand, RecvEntry,
              callVars
<1>6. CASE Write
  <2>1. /\ writing \in Requests /\ path[writing] \in Paths
        /\ \E x \in {"Written", "Failed"} : answer' = [answer EXCEPT ![writing] = x]
        /\ file' \in {file, [file EXCEPT ![path[writing]] = writing]}
        /\ writing' = None
        /\ UNCHANGED <<values, issued, path>>
    BY <1>6 DEF SysfsInv, TypeOK, Issued, Write, callVars
  <2>2. q # writing /\ answer[q] = "Superseded"
    BY <2>1 DEF SysfsInv, TypeOK
  <2>3. ~InHand(q) /\ \A p \in Paths : file[p] # q
    BY <2>2 DEF SupersededByNewer
  <2>4. \A p \in Paths : file'[p] # q
    BY <2>1, <2>2, <2>3 DEF SysfsInv, TypeOK
  <2> QED BY <2>1, <2>2, <2>3, <2>4 DEF InHand
<1> QED BY <1>2, <1>3, <1>4, <1>5, <1>6 DEF Next, Service

\* What was superseded is never written: neither now nor later is it in a file
\* or in the hands of the service, and a newer request for its path exists.
THEOREM SupersededNeverWritten == Spec => []SupersededByNewer
  BY InitInv, StepInv, SupersededInit, SupersededStep, PTL DEF Spec

-----------------------------------------------------------------------------
(* The newest request.                                                     *)

\* The file of a path is older than the entry being written to it, and than
\* the one that waits; and no successful write is newer than the file.
FileOlder ==
    /\ writing # None => file[path[writing]] < writing
    /\ \A p \in Paths : values[p] # None => file[p] < values[p]

WrittenOnce == \A q \in Requests : answer[q] = "Written" => q <= file[path[q]]

NewestInv == SysfsInv /\ SupersededByNewer /\ FileOlder /\ WrittenOnce

LEMMA NewestInit == Init => FileOlder /\ WrittenOnce
  BY DEF Init, FileOlder, WrittenOnce

LEMMA NewestStep == NewestInv /\ [Next]_vars => FileOlder' /\ WrittenOnce'
<1> SUFFICES ASSUME NewestInv, [Next]_vars PROVE FileOlder' /\ WrittenOnce'
  OBVIOUS
<1>0. /\ issued \in 0 .. MaxRequests
      /\ values \in [Paths -> Requests \cup {None}]
      /\ file \in [Paths -> Requests \cup {None}]
      /\ path \in [Requests -> Paths]
      /\ answer \in [Requests -> Answers]
      /\ writing \in Requests \cup {None}
  BY DEF NewestInv, SysfsInv, TypeOK
<1>1. CASE SendInsert
  <2> DEFINE r == issued + 1
  <2>1. /\ r \in Requests /\ path[r] \in Paths /\ path' = path
        /\ values' = [values EXCEPT ![path[r]] = r]
        /\ \A q \in Requests : answer'[q] = "Written" => answer[q] = "Written"
        /\ UNCHANGED <<writing, file>>
    BY <1>0, <1>1 DEF SendInsert
  <2>2. FileOlder'
    BY <1>0, <2>1 DEF NewestInv, FileOlder, SysfsInv, Issued
  <2>3. WrittenOnce'
    BY <2>1 DEF NewestInv, WrittenOnce
  <2> QED BY <2>2, <2>3
<1>2. CASE \/ SendNotify \/ Relay \/ Start \/ RecvNothing \/ UNCHANGED vars
           \/ \E r \in Requests : Announce(r)
  <2>1. UNCHANGED <<values, writing, path, answer, file>>
    BY <1>2 DEF SendNotify, Relay, Start, RecvNothing, Announce, vars, queueVars,
                callVars
  <2> QED BY <2>1 DEF NewestInv, FileOlder, WrittenOnce
<1>3. CASE \E p \in Paths : RecvEntry(p)
  <2> PICK p \in Paths : RecvEntry(p)
    BY <1>3
  <2>1. /\ values[p] # None /\ path[values[p]] = p /\ writing = None
        /\ values' = [values EXCEPT ![p] = None] /\ writing' = values[p]
        /\ UNCHANGED <<path, answer, file>>
    BY DEF RecvEntry, callVars, NewestInv, SysfsInv, Issued
  <2>2. FileOlder'
    BY <1>0, <2>1 DEF NewestInv, FileOlder
  <2>3. WrittenOnce'
    BY <2>1 DEF NewestInv, WrittenOnce
  <2> QED BY <2>2, <2>3
<1>4. CASE Write
  <2> DEFINE written == [file EXCEPT ![path[writing]] = writing]
  <2>1. /\ writing \in Requests /\ writing' = None
        /\ \/ file' = written /\ answer' = [answer EXCEPT ![writing] = "Written"]
           \/ /\ file' \in {file, written}
              /\ answer' = [answer EXCEPT ![writing] = "Failed"]
        /\ UNCHANGED <<values, path>>
    BY <1>4 DEF Write, callVars, NewestInv, SysfsInv, TypeOK, Issued
  <2>2. \A p \in Paths : file[p] <= file'[p] /\ file'[p] \in {file[p], written[p]}
    BY <1>0, <2>1 DEF NewestInv, FileOlder
  <2>3. FileOlder'
    BY <1>0, <2>1, <2>2 DEF NewestInv, FileOlder, SysfsInv, InOrder
  <2>4. WrittenOnce'
    <3> SUFFICES ASSUME NEW q \in Requests, answer'[q] = "Written"
                 PROVE  q <= file'[path[q]]
      BY <2>1 DEF WrittenOnce
    <3>1. CASE q = writing
      BY <1>0, <2>1, <3>1
    <3>2. CASE q # writing
      <4>1. answer[q] = "Written"
        BY <1>0, <2>1, <3>2
      <4>2. path[q] \in Paths /\ q <= file[path[q]]
        BY <1>0, <4>1 DEF NewestInv, WrittenOnce
      <4>3. file'[path[q]] \in Nat /\ file[path[q]] \in Nat
        BY <1>0, <2>1, <2>2, <4>2
      <4> QED BY <2>2, <4>2, <4>3
    <3> QED BY <3>1, <3>2
  <2> QED BY <2>3, <2>4
<1> QED BY <1>1, <1>2, <1>3, <1>4 DEF Next, Service

\* A path with nothing left to do holds the newest contents that were asked
\* for, of those whose write did not fail, and the newest was tried.
THEOREM NewestIsWritten == Spec => []SettledIsNewest
<1>1. NewestInv => SettledIsNewest
  <2> SUFFICES ASSUME NewestInv, NEW p \in Paths, values[p] = None,
                      writing # None => path[writing] # p,
                      NEW r \in file[p] + 1 .. issued, path[r] = p
               PROVE  \/ answer[r] = "Failed"
                      \/ /\ answer[r] = "Superseded"
                         /\ \E s \in r + 1 .. issued : path[s] = p
    BY DEF SettledIsNewest
  <2>1. r \in Requests /\ r <= issued /\ ~(r <= file[p]) /\ ~InHand(r)
    BY DEF NewestInv, SysfsInv, TypeOK, InHand
  <2>2. answer[r] \in Answers /\ answer[r] \notin {"none", "pending", "Written"}
    BY <2>1 DEF NewestInv, SysfsInv, TypeOK, Issued, PendingIsOwned, WrittenOnce
  <2> QED BY <2>1, <2>2 DEF Answers, NewestInv, SupersededByNewer
<1> QED BY <1>1, InitInv, StepInv, SupersededInit, SupersededStep, NewestInit,
           NewestStep, PTL DEF Spec, NewestInv

-----------------------------------------------------------------------------
(* What the callers are promised.                                          *)

USE DEF LW!Requests

\* The pending requests for a path are the one in the hands of the service and
\* the one in the map, and the first is the older.
LEMMA PendingIs ==
    ASSUME SysfsInv, NEW p \in Paths
    PROVE  /\ \A q \in LW!Pending(p) :
                 q = values[p] \/ (writing # None /\ q = writing)
           /\ values[p] # None => values[p] \in LW!Pending(p)
           /\ writing # None /\ path[writing] = p => writing \in LW!Pending(p)
           /\ \A q, o \in LW!Pending(p) : q = writing /\ q # None => q <= o
<1>1. /\ values[p] \in Requests \cup {None}
      /\ writing \in Requests \cup {None}
      /\ \A q \in Requests : q # None
  BY DEF SysfsInv, TypeOK
<1>2. \A q \in LW!Pending(p) : q \in Requests /\ path[q] = p /\ InHand(q)
  BY DEF SysfsInv, PendingIsOwned, LW!Pending
<1>3. values[p] # None => path[values[p]] = p /\ InHand(values[p])
  BY DEF SysfsInv, Issued, InHand
<1>4. writing # None => InHand(writing)
  BY DEF InHand
<1>5. \A q \in Requests : path[q] = p /\ InHand(q) => q \in LW!Pending(p)
  BY DEF SysfsInv, PendingIsOwned, LW!Pending
<1>6. \A q \in LW!Pending(p) : q = values[p] \/ (writing # None /\ q = writing)
  BY <1>1, <1>2 DEF InHand
<1>7. ASSUME NEW q \in LW!Pending(p), NEW o \in LW!Pending(p), q = writing, q # None
      PROVE  q <= o
  <2>1. CASE o = writing
    BY <1>1, <1>7, <2>1
  <2>2. CASE o = values[p] /\ o # writing
    BY <1>1, <1>2, <1>7, <2>2 DEF SysfsInv, InOrder
  <2>3. QED
    BY <1>6, <2>1, <2>2
<1>8. QED
  BY <1>1, <1>3, <1>4, <1>5, <1>6, <1>7

\* send makes the request, and the one in the map gives way to it.
LEMMA InsertIsAsk == SysfsInv /\ SendInsert => LW!Ask
<1> SUFFICES ASSUME SysfsInv, SendInsert PROVE LW!Ask
  OBVIOUS
<1> DEFINE r == issued + 1
           p == path[r]
           stay == {q \in LW!Pending(p) : q = writing}
<1>1. /\ r \in Requests /\ p \in Paths /\ issued' = r
      /\ answer' = [q \in Requests |->
                       IF q = r THEN "pending"
                       ELSE IF q = values[p] THEN "Superseded" ELSE answer[q]]
      /\ UNCHANGED <<path, file>>
      /\ \A q \in Requests : q # None
  BY DEF SysfsInv, TypeOK, SendInsert
<1>2. stay \in SUBSET LW!Pending(p)
  OBVIOUS
<1>3. \A q \in stay, o \in LW!Pending(p) : q <= o
  BY <1>1, PendingIs DEF LW!Pending
<1>4. \A q \in Requests : q \in LW!Pending(p) \ stay <=> q = values[p]
  <2>1. values[p] # None => values[p] # writing
    BY <1>1 DEF SysfsInv, TypeOK, InOrder, Issued
  <2>2. QED
    BY <1>1, <2>1, PendingIs DEF LW!Pending
<1>5. answer' = [q \in Requests |->
                    IF q = r THEN "pending"
                    ELSE IF q \in LW!Pending(p) \ stay THEN "Superseded"
                    ELSE answer[q]]
  BY <1>1, <1>4
<1> HIDE DEF stay
<1>6. QED
  BY <1>1, <1>2, <1>3, <1>5 DEF LW!Ask

\* The service settles the oldest request of its path.
LEMMA WriteIsSettle == SysfsInv /\ Write => LW!Settle(writing) /\ writing \in Requests
<1> SUFFICES ASSUME SysfsInv, Write
             PROVE  LW!Settle(writing) /\ writing \in Requests
  OBVIOUS
<1>1. writing \in Requests /\ writing # None /\ path[writing] \in Paths
  BY DEF SysfsInv, TypeOK, Write
<1>2. answer[writing] = "pending"
  BY <1>1 DEF SysfsInv, PendingIsOwned, InHand
<1>3. \A q \in LW!Pending(path[writing]) : writing <= q
  BY <1>1, PendingIs
<1>4. QED
  BY <1>1, <1>2, <1>3 DEF Write, LW!Settle, callVars

\* Every step of the queue is one of the promise, or hidden.
LEMMA StepIsPromised == SysfsInv /\ [Next]_vars => [LW!WriteNext]_LW!writeVars
<1> SUFFICES ASSUME SysfsInv, [Next]_vars PROVE [LW!WriteNext]_LW!writeVars
  OBVIOUS
<1>1. CASE SendInsert
  BY <1>1, InsertIsAsk DEF LW!WriteNext
<1>2. CASE Write
  BY <1>2, WriteIsSettle DEF LW!WriteNext
<1>3. CASE \/ SendNotify \/ Relay \/ Start \/ RecvNothing \/ UNCHANGED vars
           \/ \E r \in Requests : Announce(r)
           \/ \E p \in Paths : RecvEntry(p)
  BY <1>3 DEF SendNotify, Relay, Start, RecvNothing, Announce, RecvEntry, vars,
              queueVars, callVars, LW!writeVars
<1>4. QED
  BY <1>1, <1>2, <1>3 DEF Next, Service

\* The queue implements what it promises: one answer for each request, in the
\* order of the requests for a path, with no more than one ahead of the newest.
THEOREM QueueKeepsPromise == Spec => ImplementsWrites
<1>1. Init => LW!WriteInit
  BY DEF Init, LW!WriteInit
<1>2. QED
  BY <1>1, InitInv, StepInv, StepIsPromised, PTL DEF Spec, ImplementsWrites, LW!WriteSpec

HIDE DEF LW!Requests

-----------------------------------------------------------------------------
(* What is left to do is known to who is to do it.                         *)

\* With one path, an entry has a notification, one about to be made, or a
\* service that is looking.
EntryIsKnown ==
    /\ \A p \in Paths : values[p] # None => sending # None \/ permit \/ pc = "woken"
    /\ pc = "waiting" => ~permit

\* For one path, which is what the code has, the service never sleeps over an
\* entry. (With two it may: a notification is kept once, and recv takes one
\* entry for it.)
THEOREM NoWakeupIsEverLost ==
    ASSUME \A p, q \in Paths : p = q
    PROVE  Spec => []NoWakeupIsLost
<1>1. Init => EntryIsKnown
  BY DEF Init, EntryIsKnown
<1>2. SysfsInv /\ EntryIsKnown /\ [Next]_vars => EntryIsKnown'
  <2> SUFFICES ASSUME SysfsInv, EntryIsKnown, [Next]_vars PROVE EntryIsKnown'
    OBVIOUS
  <2> USE DEF SysfsInv, TypeOK, EntryIsKnown
  <2>1. CASE SendInsert
    BY <2>1 DEF SendInsert
  <2>2. CASE SendNotify
    BY <2>2 DEF SendNotify
  <2>3. CASE Start \/ RecvNothing \/ Write
    BY <2>3 DEF Start, RecvNothing, Write, Listen, callVars
  <2>4. CASE \E q \in Paths : RecvEntry(q)
    BY <2>4 DEF RecvEntry, callVars
  <2>5. CASE Relay \/ UNCHANGED vars \/ \E r \in Requests : Announce(r)
    BY <2>5 DEF Relay, Announce, vars, queueVars, callVars
  <2>6. QED
    BY <2>1, <2>2, <2>3, <2>4, <2>5 DEF Next, Service
<1>3. SysfsInv /\ EntryIsKnown => NoWakeupIsLost
  <2> SUFFICES ASSUME SysfsInv, EntryIsKnown, pc = "waiting",
                      NEW p \in Paths, values[p] # None
               PROVE  sending # None
    BY DEF NoWakeupIsLost
  <2>1. QED
    BY DEF EntryIsKnown
<1>4. QED
  BY <1>1, <1>2, <1>3, InitInv, StepInv, PTL DEF Spec

\* What the clients have not been shown was written by a request that is still
\* to be announced, or its signal is to be relayed.
THEOREM UnshownIsAlwaysAnnounced == Spec => []UnshownIsAnnounced
<1> DEFINE OnlySettled == \A r \in announced : answer[r] \in {"Written", "Failed"}
           I == OnlySettled /\ UnshownIsAnnounced
<1>1. Init => I
  BY DEF Init, UnshownIsAnnounced
<1>2. SysfsInv /\ I /\ [Next]_vars => I'
  <2> SUFFICES ASSUME SysfsInv, I, [Next]_vars PROVE I'
    OBVIOUS
  <2> USE DEF SysfsInv, TypeOK, UnshownIsAnnounced
  <2>1. CASE SendInsert
    <3>1. \A r \in Requests : answer[r] \in {"Written", "Failed"} => answer'[r] = answer[r]
      BY <2>1 DEF SendInsert, Issued, PendingIsOwned, InHand
    <3>2. UNCHANGED <<file, shown, signals, announced>>
      BY <2>1 DEF SendInsert
    <3>3. QED
      BY <3>1, <3>2
  <2>2. CASE Write
    <3>1. /\ writing \in Requests /\ writing \notin announced
          /\ answer'[writing] \in {"Written", "Failed"}
          /\ \A r \in Requests \ {writing} : answer'[r] = answer[r]
          /\ announced' = announced
      BY <2>2 DEF Write, PendingIsOwned, InHand
    <3>2. QED
      BY <3>1
  <2>3. ASSUME NEW r \in Requests, Announce(r) PROVE I'
    BY <2>3 DEF Announce, queueVars, callVars
  <2>4. CASE Relay
    BY <2>4 DEF Relay, queueVars, callVars
  <2>5. CASE \/ SendNotify \/ Start \/ RecvNothing \/ UNCHANGED vars
             \/ \E p \in Paths : RecvEntry(p)
    BY <2>5 DEF SendNotify, Start, RecvNothing, RecvEntry, vars, queueVars, callVars
  <2>6. QED
    BY <2>1, <2>2, <2>3, <2>4, <2>5 DEF Next, Service
<1>3. QED
  BY <1>1, <1>2, InitInv, StepInv, PTL DEF Spec

HIDE SysfsAssumption DEF Requests, None

-----------------------------------------------------------------------------
(* DsInhibit. What an inhibitor has heard, knows and owes.                 *)


In(q) == {q[k] : k \in 1..Len(q)}
Events(i) == In(queue[i])
Of(kind, wd) == [kind |-> kind, wd |-> wd]

\* The inode a check will add to the map.
Adding(i) == IF task[i].add THEN {task[i].wd} ELSE {}
Noted(i) == watches[i] \cup Adding(i)

Alive(wd) ==
    \/ present[wd[1]] /\ wd = Inode(wd[1])
    \/ \E p \in Procs : <<p, wd>> \in open

\* An inhibitor has its state from its start to its end, and one is in charge.
RunInOrder(i) ==
    /\ phase[i] # "init" => unvisited[i] = {}
    /\ ~Listens(i) => queue[i] = <<>> /\ kwatch[i] = {}
    /\ Listens(i) \/ phase[i] = "none" => unfinished[i] = {}
    /\ phase[i] = "none" => watches[i] = {}
    /\ cancelled[i] => phase[i] \notin {"none", "init"}
    /\ handle = i => phase[i] = "run" /\ ~cancelled[i]
    /\ task[i].at = "scan" => ~task[i].value
    /\ task[i].at \in {"idle", "sleep"} => ~task[i].add
RunsInOrder == \A i \in Runs : RunInOrder(i)

\* No inode is known before it is there.
Past(wd) == wd[2] <= gen[wd[1]]
KnowsPast(i) ==
    /\ Past(task[i].wd)
    /\ \A wd \in kwatch[i] \cup watches[i] : Past(wd)
    /\ \A e \in Events(i) : Past(e.wd)
InodesArePast ==
    /\ \A p \in Procs, wd \in Inodes : <<p, wd>> \in open => Past(wd)
    /\ \A wd \in early : Past(wd)
    /\ \A i \in Runs : KnowsPast(i)

MiceAreThere ==
    \A d \in Devices :
        /\ enumerated[d] => present[d]
        /\ inhibited[d] => enumerated[d]
        /\ \A i \in Runs : present[d] /\ Inode(d) \in kwatch[i] => enumerated[d]

\* A watch is on what is there, and its end is told.
HearsEnds(i) ==
    /\ \A wd \in kwatch[i] : Alive(wd)
    /\ Listens(i) => \A wd \in Noted(i) : wd \in kwatch[i] \/ Of("delete", wd) \in Events(i)
    /\ \A e \in Events(i) : e.kind = "delete" => ~Alive(e.wd)
EndsAreTold == \A i \in Runs : HearsEnds(i)

\* A device that is there is noted, or will be looked at.
MissesNone(i) ==
    \A d \in Devices :
        Listens(i) /\ present[d] /\ Inode(d) \notin early =>
            \/ Inode(d) \in Noted(i)
            \/ Of("create", <<d, 0>>) \in Events(i)
            \/ d \in unvisited[i]
            \/ task[i].at = "sleep" /\ task[i].wd[1] = d
NoneSlipsThrough == \A i \in Runs : MissesNone(i)

\* Unless it will hear that somebody opened or closed the device, what an
\* inhibitor has seen, will write or has written is what is so.
Unheard(i, d) == Of("open", Inode(d)) \notin Events(i) /\ Of("close", Inode(d)) \notin Events(i)
Checks(i, d, at) == task[i].at = at /\ task[i].wd[1] = d
SawWhatIs(i) ==
    \A d \in Devices :
        Listens(i) /\ present[d] /\ Inode(d) \in Noted(i) /\ Unheard(i, d) =>
            /\ Checks(i, d, "scan") => (SteamHas(d) <=> \E p \in task[i].left : <<p, Inode(d)>> \in open)
            /\ Checks(i, d, "write") => (task[i].value <=> SteamHas(d))
            /\ ~Checks(i, d, "scan") /\ ~Checks(i, d, "write") /\ lastWriter[d] \in {0, i} =>
                  (inhibited[d] <=> SteamHas(d))
SeenIsSo == \A i \in Runs : SawWhatIs(i)

\* Somebody will uninhibit a mouse that is inhibited.
SomebodyOwes ==
    \A d \in Devices :
        inhibited[d] =>
            \/ Inode(d) \in early
            \/ \E i \in Runs :
                  \/ Listens(i)
                  \/ d \in unfinished[i]
                  \/ phase[i] = "shutdown" /\ \E wd \in watches[i] : wd[1] = d

InhibitInv ==
    /\ InhibitTypeOK /\ RunsInOrder /\ InodesArePast /\ MiceAreThere /\ EndsAreTold
    /\ NoneSlipsThrough /\ SeenIsSo /\ SomebodyOwes

-----------------------------------------------------------------------------
(* The queue of events, as the set of those that are in it.                *)

LEMMA InhibitIn ==
    ASSUME NEW q \in Seq(Event)
    PROVE  /\ In(q) \subseteq Event
           /\ q = <<>> <=> In(q) = {}
           /\ \A e \in Event : Push(q, e) \in Seq(Event) /\ In(Push(q, e)) = In(q) \cup {e}
           /\ q # <<>> => /\ Head(q) \in Event /\ Tail(q) \in Seq(Event)
                          /\ In(q) = {Head(q)} \cup In(Tail(q))
<1>1. /\ Len(q) \in Nat /\ \A k \in 1..Len(q) : q[k] \in Event
  OBVIOUS
<1>2. In(q) \subseteq Event
  BY <1>1 DEF In
<1>3. q = <<>> <=> In(q) = {}
  <2>1. q # <<>> => 1 \in 1..Len(q)
    OBVIOUS
  <2>2. q = <<>> => 1..Len(q) = {}
    BY <1>1
  <2>3. QED
    BY <2>1, <2>2 DEF In
<1>4. ASSUME NEW e \in Event
      PROVE  Push(q, e) \in Seq(Event) /\ In(Push(q, e)) = In(q) \cup {e}
  <2>1. CASE q # <<>> /\ q[Len(q)] = e
    <3>1. Push(q, e) = q
      BY <2>1 DEF Push
    <3>2. Len(q) \in 1..Len(q)
      BY <2>1
    <3>3. QED
      BY <2>1, <3>1, <3>2 DEF In
  <2>2. CASE ~(q # <<>> /\ q[Len(q)] = e)
    <3>1. Push(q, e) = Append(q, e)
      BY <2>2 DEF Push
    <3>2. PICK r : r = Append(q, e)
      OBVIOUS
    <3>3. /\ r \in Seq(Event) /\ Len(r) = Len(q) + 1 /\ r[Len(q) + 1] = e
          /\ \A k \in 1..Len(q) : r[k] = q[k]
      BY <3>2
    <3>4. 1..Len(r) = (1..Len(q)) \cup {Len(q) + 1}
      BY <1>1, <3>3
    <3>5. In(r) = In(q) \cup {e}
      BY <3>3, <3>4 DEF In
    <3>6. QED
      BY <3>1, <3>2, <3>3, <3>5
  <2>3. QED
    BY <2>1, <2>2
<1>5. ASSUME q # <<>>
      PROVE  /\ Head(q) \in Event /\ Tail(q) \in Seq(Event)
             /\ In(q) = {Head(q)} \cup In(Tail(q))
  <2>1. PICK t : t = Tail(q)
    OBVIOUS
  <2>2. /\ Head(q) = q[1] /\ Head(q) \in Event /\ t \in Seq(Event) /\ Len(t) = Len(q) - 1
        /\ 1 <= Len(q)
    BY <1>5, <2>1
  <2>3. \A k \in 1..Len(q) : k # 1 => k - 1 \in 1..Len(t) /\ t[k - 1] = q[k]
    BY <1>5, <2>1, <2>2
  <2>4. \A k \in 1..Len(t) : k + 1 \in 1..Len(q) /\ q[k + 1] = t[k]
    BY <1>5, <2>1, <2>2
  <2>5. 1 \in 1..Len(q)
    BY <1>1, <2>2
  <2>6. In(q) = {Head(q)} \cup In(t)
    <3>1. In(q) \subseteq {Head(q)} \cup In(t)
      BY <2>2, <2>3 DEF In
    <3>2. Head(q) \in In(q)
      BY <2>2, <2>5 DEF In
    <3>3. In(t) \subseteq In(q)
      BY <2>4 DEF In
    <3>4. QED
      BY <3>1, <3>2, <3>3
  <2>7. QED
    BY <2>1, <2>2, <2>6
<1>6. QED
  BY <1>2, <1>3, <1>4, <1>5

\* The types of the parts.
LEMMA InodeParts ==
    /\ \A wd \in Inodes : /\ wd[1] \in Devices /\ wd[2] \in 0..MaxPlugs
                          /\ wd = <<wd[1], wd[2]>>
    /\ \A d \in Devices, n \in 0..MaxPlugs : <<d, n>> \in Inodes /\ <<d, n>>[1] = d /\ <<d, n>>[2] = n
    /\ \A wd \in Inodes, kind \in {"create", "open", "close", "delete"} :
          Of(kind, wd) \in Event /\ Of(kind, wd).kind = kind /\ Of(kind, wd).wd = wd
    /\ \A e \in Event : /\ e.wd \in Inodes /\ e.kind \in {"create", "open", "close", "delete"}
                        /\ e = Of(e.kind, e.wd)
    /\ NoInode \in Inodes /\ NoInode[2] = 0
    /\ NoTask.at = "idle" /\ NoTask.wd = NoInode /\ ~NoTask.add /\ ~NoTask.value /\ NoTask.left = {}
<1>1. /\ \A wd \in Inodes : /\ wd[1] \in Devices /\ wd[2] \in 0..MaxPlugs
                            /\ wd = <<wd[1], wd[2]>>
      /\ \A d \in Devices, n \in 0..MaxPlugs : <<d, n>> \in Inodes /\ <<d, n>>[1] = d /\ <<d, n>>[2] = n
  BY DEF Inodes
<1>2. \A wd \in Inodes, kind \in {"create", "open", "close", "delete"} :
          Of(kind, wd) \in Event /\ Of(kind, wd).kind = kind /\ Of(kind, wd).wd = wd
  BY DEF Of, Event
<1>3. \A e \in Event : /\ e.wd \in Inodes /\ e.kind \in {"create", "open", "close", "delete"}
                       /\ e = Of(e.kind, e.wd)
  BY DEF Of, Event
<1>4. NoInode \in Inodes /\ NoInode[2] = 0
  <2>1. (CHOOSE d \in Devices : TRUE) \in Devices
    BY InhibitAssumption
  <2>2. 0 \in 0..MaxPlugs
    BY InhibitAssumption
  <2>3. QED
    BY <1>1, <2>1, <2>2 DEF NoInode
<1>5. NoTask.at = "idle" /\ NoTask.wd = NoInode /\ ~NoTask.add /\ ~NoTask.value /\ NoTask.left = {}
  BY DEF NoTask
<1>6. QED
  BY <1>1, <1>2, <1>3, <1>4, <1>5

LEMMA InhibitParts ==
    ASSUME InhibitTypeOK
    PROVE  /\ \A d \in Devices :
                 /\ gen[d] \in 0..MaxPlugs /\ gen[d] \in Nat
                 /\ Inode(d) \in Inodes /\ Inode(d)[1] = d /\ Inode(d)[2] = gen[d]
                 /\ present[d] \in BOOLEAN /\ enumerated[d] \in BOOLEAN /\ inhibited[d] \in BOOLEAN
           /\ \A i \in Runs :
                 /\ queue[i] \in Seq(Event) /\ Events(i) \subseteq Event
                 /\ \A e \in Events(i) : e.wd \in Inodes
                 /\ kwatch[i] \subseteq Inodes /\ watches[i] \subseteq Inodes
                 /\ task[i].wd \in Inodes /\ task[i].add \in BOOLEAN /\ task[i].value \in BOOLEAN
                 /\ task[i].left \subseteq Steam
                 /\ task[i].at \in {"idle", "sleep", "scan", "write", "written"}
                 /\ Noted(i) \subseteq Inodes /\ Adding(i) \subseteq Inodes
                 /\ ~Listens(i) => task[i] = NoTask
           /\ MaxPlugs \in Nat
<1>1. MaxPlugs \in Nat
  BY InhibitAssumption
<1>2. ASSUME NEW d \in Devices
      PROVE  /\ gen[d] \in 0..MaxPlugs /\ gen[d] \in Nat
             /\ Inode(d) \in Inodes /\ Inode(d)[1] = d /\ Inode(d)[2] = gen[d]
             /\ present[d] \in BOOLEAN /\ enumerated[d] \in BOOLEAN /\ inhibited[d] \in BOOLEAN
  <2>1. gen[d] \in 0..MaxPlugs /\ gen[d] \in Nat
    BY <1>1 DEF InhibitTypeOK
  <2>2. Inode(d) = <<d, gen[d]>>
    BY DEF Inode
  <2>3. Inode(d) \in Inodes /\ Inode(d)[1] = d /\ Inode(d)[2] = gen[d]
    BY <2>1, <2>2 DEF Inodes
  <2>4. QED
    BY <2>1, <2>3 DEF InhibitTypeOK
<1>3. ASSUME NEW i \in Runs
      PROVE  /\ queue[i] \in Seq(Event) /\ Events(i) \subseteq Event
             /\ \A e \in Events(i) : e.wd \in Inodes
             /\ kwatch[i] \subseteq Inodes /\ watches[i] \subseteq Inodes
             /\ task[i].wd \in Inodes /\ task[i].add \in BOOLEAN /\ task[i].value \in BOOLEAN
             /\ task[i].left \subseteq Steam
             /\ task[i].at \in {"idle", "sleep", "scan", "write", "written"}
             /\ Noted(i) \subseteq Inodes /\ Adding(i) \subseteq Inodes
             /\ ~Listens(i) => task[i] = NoTask
  <2>1. queue[i] \in Seq(Event) /\ kwatch[i] \subseteq Inodes /\ watches[i] \subseteq Inodes
    BY DEF InhibitTypeOK
  <2>2. Events(i) \subseteq Event
    BY <2>1, InhibitIn DEF Events
  <2>3. /\ task[i].wd \in Inodes /\ task[i].add \in BOOLEAN /\ task[i].value \in BOOLEAN
        /\ task[i].left \subseteq Steam
        /\ task[i].at \in {"idle", "sleep", "scan", "write", "written"}
    BY DEF InhibitTypeOK
  <2>4. ~Listens(i) => task[i] = NoTask
    BY DEF InhibitTypeOK, Listens
  <2>5. QED
    BY <2>1, <2>2, <2>3, <2>4, InodeParts DEF Noted, Adding
<1>4. QED
  BY <1>1, <1>2, <1>3

-----------------------------------------------------------------------------
(* The world.                                                              *)

LEMMA PlugKeepsInhibitInv ==
    ASSUME InhibitInv, NEW d \in Devices, Plug(d)
    PROVE  InhibitInv'
<1>t. InhibitTypeOK
  BY DEF InhibitInv
<1>1. /\ ~present[d] /\ gen[d] < MaxPlugs
      /\ present' = [present EXCEPT ![d] = TRUE]
      /\ gen' = [gen EXCEPT ![d] = @ + 1]
      /\ lastWriter' = [lastWriter EXCEPT ![d] = 0]
      /\ queue' = [i \in Runs |-> IF Listens(i) THEN Push(queue[i], Of("create", <<d, 0>>))
                                  ELSE queue[i]]
      /\ UNCHANGED <<enumerated, open, inhibited, phase, cancelled, kwatch, watches,
                     unvisited, task, handle, early, unfinished>>
  BY DEF Plug, Of
<1>2. gen[d] \in Nat /\ MaxPlugs \in Nat /\ gen'[d] = gen[d] + 1 /\ gen'[d] \in 0..MaxPlugs
  BY <1>t, <1>1, InhibitParts DEF InhibitTypeOK
<1>3. \A c \in Devices : c # d => /\ gen'[c] = gen[c] /\ present'[c] = present[c] /\ Inode(c)' = Inode(c)
                                  /\ lastWriter'[c] = lastWriter[c]
  BY <1>t, <1>1 DEF Inode, InhibitTypeOK
<1>4. /\ Inode(d)' \in Inodes /\ Inode(d)'[1] = d /\ Inode(d)'[2] = gen[d] + 1
      /\ present'[d]
  BY <1>t, <1>1, <1>2, InodeParts DEF Inode, InhibitTypeOK
<1>5. \A wd \in Inodes : Past(wd) => Past(wd)' /\ wd # Inode(d)'
  <2> SUFFICES ASSUME NEW wd \in Inodes, Past(wd) PROVE Past(wd)' /\ wd # Inode(d)'
    OBVIOUS
  <2>1. wd[1] \in Devices /\ wd[2] \in Nat /\ gen[wd[1]] \in Nat
    BY <1>t, <1>2, InodeParts, InhibitParts
  <2>2. gen[wd[1]] <= gen'[wd[1]]
    BY <1>2, <1>3, <2>1
  <2>3. gen'[wd[1]] \in Nat
    BY <1>2, <1>3, <2>1
  <2>4. Past(wd)'
    BY <2>1, <2>2, <2>3 DEF Past
  <2>5. wd = Inode(d)' => wd[1] = d /\ wd[2] = gen[d] + 1
    BY <1>4
  <2>6. QED
    BY <1>2, <2>1, <2>4, <2>5 DEF Past
<1>6. Of("create", <<d, 0>>) \in Event /\ <<d, 0>> \in Inodes /\ Past(<<d, 0>>)'
      /\ Of("create", <<d, 0>>).kind = "create" /\ Of("create", <<d, 0>>).wd = <<d, 0>>
  <2>1. 0 \in 0..MaxPlugs
    BY <1>2
  <2>2. QED
    BY <1>2, <2>1, InodeParts DEF Past
<1>7. /\ queue' \in [Runs -> Seq(Event)]
      /\ \A i \in Runs : /\ Events(i)' = IF Listens(i) THEN Events(i) \cup {Of("create", <<d, 0>>)} ELSE Events(i)
                         /\ ~Listens(i) => queue'[i] = queue[i]
  <2> SUFFICES ASSUME NEW i \in Runs
               PROVE  /\ queue'[i] \in Seq(Event)
                      /\ Events(i)' = IF Listens(i) THEN Events(i) \cup {Of("create", <<d, 0>>)} ELSE Events(i)
                      /\ ~Listens(i) => queue'[i] = queue[i]
    BY <1>1
  <2>1. queue[i] \in Seq(Event)
    BY <1>t, InhibitParts
  <2>2. QED
    BY <1>1, <1>6, <2>1, InhibitIn DEF Events
<1>8. \A i \in Runs : Noted(i)' = Noted(i) /\ (Listens(i)' <=> Listens(i))
  BY <1>1 DEF Noted, Adding, Listens
<1>9. InhibitTypeOK'
  <2>1. gen' \in [Devices -> 0..MaxPlugs]
    BY <1>t, <1>1, <1>2 DEF InhibitTypeOK
  <2>2. present' \in [Devices -> BOOLEAN] /\ lastWriter' \in [Devices -> Runs \cup {0}]
    BY <1>t, <1>1 DEF InhibitTypeOK
  <2>3. QED
    BY <1>t, <1>1, <1>7, <2>1, <2>2 DEF InhibitTypeOK
<1>10. RunsInOrder'
  BY <1>1, <1>7, <1>8 DEF InhibitInv, RunsInOrder, RunInOrder
<1>11. InodesArePast'
  <2>1. \A p \in Procs, wd \in Inodes : <<p, wd>> \in open' => Past(wd)'
    BY <1>1, <1>5 DEF InhibitInv, InodesArePast, KnowsPast
  <2>2. \A wd \in early' : Past(wd)'
    BY <1>t, <1>1, <1>5 DEF InhibitInv, InodesArePast, KnowsPast, InhibitTypeOK
  <2>3. ASSUME NEW i \in Runs
        PROVE  /\ Past(task[i].wd)'
               /\ \A wd \in kwatch'[i] \cup watches'[i] : Past(wd)'
               /\ \A e \in Events(i)' : Past(e.wd)'
    <3>1. /\ task[i].wd \in Inodes /\ kwatch[i] \cup watches[i] \subseteq Inodes
          /\ \A e \in Events(i) : e.wd \in Inodes
      BY <1>t, InhibitParts
    <3>2. /\ Past(task[i].wd) /\ \A wd \in kwatch[i] \cup watches[i] : Past(wd)
          /\ \A e \in Events(i) : Past(e.wd)
      BY DEF InhibitInv, InodesArePast, KnowsPast
    <3>3. \A e \in Events(i)' : Past(e.wd)'
      BY <1>5, <1>6, <1>7, <3>1, <3>2
    <3>4. QED
      BY <1>1, <1>5, <3>1, <3>2, <3>3
  <2>4. QED
    BY <2>1, <2>2, <2>3 DEF InodesArePast, KnowsPast
<1>12. \A i \in Runs : Inode(d)' \notin kwatch[i] /\ Inode(d)' \notin Noted(i)
  BY <1>t, <1>5, InhibitParts DEF InhibitInv, InodesArePast, KnowsPast, Noted, Adding
<1>13. MiceAreThere'
  BY <1>1, <1>3, <1>4, <1>12 DEF InhibitInv, MiceAreThere
<1>14. \A wd \in Inodes : Past(wd) => (Alive(wd)' <=> Alive(wd))
  <2> SUFFICES ASSUME NEW wd \in Inodes, Past(wd)
               PROVE  (present'[wd[1]] /\ wd = Inode(wd[1])') <=> (present[wd[1]] /\ wd = Inode(wd[1]))
    BY <1>1 DEF Alive
  <2>1. wd[1] \in Devices
    BY InodeParts
  <2>2. CASE wd[1] = d
    BY <1>1, <1>5, <2>2
  <2>3. CASE wd[1] # d
    BY <1>3, <2>1, <2>3
  <2>4. QED
    BY <2>2, <2>3
<1>15. EndsAreTold'
  <2> SUFFICES ASSUME NEW i \in Runs
               PROVE  /\ \A wd \in kwatch'[i] : Alive(wd)'
                      /\ Listens(i)' => \A wd \in Noted(i)' : wd \in kwatch'[i] \/ Of("delete", wd) \in Events(i)'
                      /\ \A e \in Events(i)' : e.kind = "delete" => ~Alive(e.wd)'
    BY DEF EndsAreTold, HearsEnds, Of
  <2>1. kwatch[i] \subseteq Inodes /\ \A e \in Events(i) : e.wd \in Inodes
    BY <1>t, InhibitParts
  <2>2. \A wd \in kwatch[i] : Past(wd) /\ Alive(wd)
    BY DEF InhibitInv, InodesArePast, KnowsPast, EndsAreTold, HearsEnds
  <2>3. \A e \in Events(i) : Past(e.wd) /\ (e.kind = "delete" => ~Alive(e.wd))
    BY DEF InhibitInv, InodesArePast, KnowsPast, EndsAreTold, HearsEnds
  <2>4. Listens(i) => \A wd \in Noted(i) : wd \in kwatch[i] \/ Of("delete", wd) \in Events(i)
    BY DEF InhibitInv, EndsAreTold, HearsEnds
  <2>5. Listens(i)' => \A wd \in Noted(i)' : wd \in kwatch'[i] \/ Of("delete", wd) \in Events(i)'
    BY <1>1, <1>7, <1>8, <2>4
  <2>6. \A wd \in kwatch'[i] : Alive(wd)'
    BY <1>1, <1>14, <2>1, <2>2
  <2>7. \A e \in Events(i)' : e.kind = "delete" => ~Alive(e.wd)'
    BY <1>6, <1>7, <1>14, <2>1, <2>3
  <2>8. QED
    BY <2>5, <2>6, <2>7
<1>16. NoneSlipsThrough'
  <2> SUFFICES ASSUME NEW i \in Runs, NEW c \in Devices,
                      Listens(i)', present'[c], Inode(c)' \notin early'
               PROVE  \/ Inode(c)' \in Noted(i)'
                      \/ Of("create", <<c, 0>>) \in Events(i)'
                      \/ c \in unvisited'[i]
                      \/ task'[i].at = "sleep" /\ task'[i].wd[1] = c
    BY DEF NoneSlipsThrough, MissesNone, Of
  <2>1. CASE c = d
    BY <1>7, <1>8, <2>1
  <2>2. CASE c # d
    BY <1>1, <1>3, <1>7, <1>8, <2>2 DEF InhibitInv, NoneSlipsThrough, MissesNone
  <2>3. QED
    BY <2>1, <2>2
<1>17. SeenIsSo'
  <2> SUFFICES ASSUME NEW i \in Runs, NEW c \in Devices,
                      Listens(i)', present'[c], Inode(c)' \in Noted(i)', Unheard(i, c)'
               PROVE  /\ Checks(i, c, "scan")' => (SteamHas(c)' <=> \E p \in task'[i].left : <<p, Inode(c)'>> \in open')
                      /\ Checks(i, c, "write")' => (task'[i].value <=> SteamHas(c)')
                      /\ ~Checks(i, c, "scan")' /\ ~Checks(i, c, "write")' /\ lastWriter'[c] \in {0, i} =>
                            (inhibited'[c] <=> SteamHas(c)')
    BY DEF SeenIsSo, SawWhatIs
  <2>1. c # d
    BY <1>8, <1>12
  <2>2. Inode(c)' = Inode(c) /\ present[c] /\ lastWriter'[c] = lastWriter[c]
    BY <1>3, <2>1
  <2>3. Unheard(i, c)
    BY <1>7, <2>2 DEF Unheard
  <2>4. Listens(i) /\ Inode(c) \in Noted(i)
    BY <1>8, <2>2
  <2>5. SteamHas(c)' <=> SteamHas(c)
    BY <1>1, <2>2 DEF SteamHas
  <2>6. QED
    BY <1>1, <2>2, <2>3, <2>4, <2>5 DEF InhibitInv, SeenIsSo, SawWhatIs, Checks
<1>18. SomebodyOwes'
  <2>1. ~inhibited[d]
    BY <1>1 DEF InhibitInv, MiceAreThere
  <2>2. QED
    BY <1>1, <1>3, <1>8, <2>1 DEF InhibitInv, SomebodyOwes
<1>19. QED
  BY <1>9, <1>10, <1>11, <1>13, <1>15, <1>16, <1>17, <1>18 DEF InhibitInv

LEMMA EnumerateKeepsInhibitInv ==
    ASSUME InhibitInv, NEW d \in Devices, Enumerate(d)
    PROVE  InhibitInv'
<1>1. /\ present[d] /\ enumerated' = [enumerated EXCEPT ![d] = TRUE]
      /\ UNCHANGED <<gen, present, open, inhibited, phase, cancelled, queue, kwatch, watches,
                     unvisited, task, handle, lastWriter, early, unfinished>>
  BY DEF Enumerate, runVars, history
<1>2. InhibitTypeOK /\ enumerated \in [Devices -> BOOLEAN]
  BY DEF InhibitInv, InhibitTypeOK
<1>3. \A c \in Devices : enumerated'[c] = (enumerated[c] \/ c = d) /\ Inode(c)' = Inode(c)
  BY <1>1, <1>2 DEF Inode
<1>4. InhibitTypeOK'
  BY <1>1, <1>2 DEF InhibitTypeOK
<1>5. RunsInOrder' /\ InodesArePast'
  BY <1>1 DEF InhibitInv, RunsInOrder, RunInOrder, InodesArePast, KnowsPast, Listens, Events, Past
<1>6. MiceAreThere'
  BY <1>1, <1>3 DEF InhibitInv, MiceAreThere
<1>7. EndsAreTold'
  BY <1>1 DEF InhibitInv, EndsAreTold, HearsEnds, Listens, Events, Alive, Noted, Adding, Inode
<1>8. NoneSlipsThrough'
  BY <1>1 DEF InhibitInv, NoneSlipsThrough, MissesNone, Listens, Events, Noted, Adding, Inode
<1>9. SeenIsSo'
  <2>1. \A i \in Runs : (Listens(i)' <=> Listens(i)) /\ Noted(i)' = Noted(i) /\ Events(i)' = Events(i)
    BY <1>1 DEF Listens, Noted, Adding, Events
  <2>2. \A c \in Devices : SteamHas(c)' <=> SteamHas(c)
    BY <1>1, <1>3 DEF SteamHas
  <2>3. QED
    BY ZenonT(40), <1>1, <1>3, <2>1, <2>2
       DEF InhibitInv, SeenIsSo, SawWhatIs, Unheard, Checks
<1>10. SomebodyOwes'
  BY <1>1 DEF InhibitInv, SomebodyOwes, Listens, Inode
<1>11. QED
  BY <1>4, <1>5, <1>6, <1>7, <1>8, <1>9, <1>10 DEF InhibitInv

\* What Notify adds to the queues.
Told(wd, kind, gone) ==
    /\ queue' \in [Runs -> Seq(Event)] /\ kwatch' \in [Runs -> SUBSET Inodes]
    /\ \A i \in Runs :
          /\ kwatch'[i] = IF gone THEN kwatch[i] \ {wd} ELSE kwatch[i]
          /\ wd \notin kwatch[i] => queue'[i] = queue[i] /\ Events(i)' = Events(i)
          /\ wd \in kwatch[i] =>
                /\ kind = "none" /\ ~gone => Events(i)' = Events(i)
                /\ kind = "none" /\ gone => Events(i)' = Events(i) \cup {Of("delete", wd)}
                /\ kind # "none" /\ ~gone => Events(i)' = Events(i) \cup {Of(kind, wd)}
                /\ kind # "none" /\ gone =>
                      Events(i)' = Events(i) \cup {Of(kind, wd), Of("delete", wd)}

LEMMA Notified ==
    ASSUME InhibitTypeOK, NEW wd \in Inodes, NEW kind \in {"none", "open", "close"}, NEW gone \in BOOLEAN,
           Notify(wd, kind, gone)
    PROVE  Told(wd, kind, gone)
<1>1. queue' = [i \in Runs |->
          IF wd \notin kwatch[i] THEN queue[i]
          ELSE LET q == IF kind = "none" THEN queue[i]
                        ELSE Push(queue[i], Of(kind, wd))
               IN  IF gone THEN Push(q, Of("delete", wd)) ELSE q]
  BY DEF Notify, Of
<1>2. kwatch' = IF gone THEN [i \in Runs |-> kwatch[i] \ {wd}] ELSE kwatch
  BY DEF Notify
<1>3. kwatch' \in [Runs -> SUBSET Inodes]
  BY <1>2 DEF InhibitTypeOK
<1>4. Of("delete", wd) \in Event /\ (kind # "none" => Of(kind, wd) \in Event)
  BY InodeParts
<1>5. ASSUME NEW i \in Runs
      PROVE  /\ queue'[i] \in Seq(Event)
             /\ kwatch'[i] = IF gone THEN kwatch[i] \ {wd} ELSE kwatch[i]
             /\ wd \notin kwatch[i] => queue'[i] = queue[i] /\ Events(i)' = Events(i)
             /\ wd \in kwatch[i] =>
                   /\ kind = "none" /\ ~gone => Events(i)' = Events(i)
                   /\ kind = "none" /\ gone => Events(i)' = Events(i) \cup {Of("delete", wd)}
                   /\ kind # "none" /\ ~gone => Events(i)' = Events(i) \cup {Of(kind, wd)}
                   /\ kind # "none" /\ gone =>
                         Events(i)' = Events(i) \cup {Of(kind, wd), Of("delete", wd)}
  <2>1. queue[i] \in Seq(Event)
    BY InhibitParts
  <2>2. PICK q : q = IF kind = "none" THEN queue[i] ELSE Push(queue[i], Of(kind, wd))
    OBVIOUS
  <2>3. /\ q \in Seq(Event)
        /\ kind = "none" => In(q) = Events(i)
        /\ kind # "none" => In(q) = Events(i) \cup {Of(kind, wd)}
    BY <1>4, <2>1, <2>2, InhibitIn DEF Events
  <2>4. /\ wd \notin kwatch[i] => queue'[i] = queue[i]
        /\ wd \in kwatch[i] /\ ~gone => queue'[i] = q
        /\ wd \in kwatch[i] /\ gone => queue'[i] = Push(q, Of("delete", wd))
    BY <1>1, <2>2
  <2>5. Push(q, Of("delete", wd)) \in Seq(Event) /\ In(Push(q, Of("delete", wd))) = In(q) \cup {Of("delete", wd)}
    BY <1>4, <2>3, InhibitIn
  <2>6. Events(i)' = In(queue'[i])
    BY DEF Events
  <2>7. queue'[i] \in Seq(Event)
    BY <2>1, <2>3, <2>4, <2>5
  <2>8. wd \in kwatch[i] /\ ~gone => Events(i)' = In(q)
    BY <2>4, <2>6
  <2>9. wd \in kwatch[i] /\ gone => Events(i)' = In(q) \cup {Of("delete", wd)}
    BY <2>4, <2>5, <2>6
  <2>10. wd \notin kwatch[i] => Events(i)' = Events(i)
    BY <2>4, <2>6 DEF Events
  <2>11. kwatch'[i] = IF gone THEN kwatch[i] \ {wd} ELSE kwatch[i]
    BY <1>2
  <2>12. QED
    BY <2>3, <2>4, <2>7, <2>8, <2>9, <2>10, <2>11
<1>6. queue' \in [Runs -> Seq(Event)]
  <2>1. \A i \in Runs : queue'[i] \in Seq(Event)
    BY <1>5
  <2>2. DOMAIN queue' = Runs /\ queue' = [i \in Runs |-> queue'[i]]
    BY <1>1
  <2>3. QED
    BY <2>1, <2>2
<1>7. QED
  BY <1>3, <1>5, <1>6 DEF Told

\* What is opened, closed or unplugged is told to those who watch it, and with
\* its end they stop watching it.
LEMMA NotifyKeepsInhibitInv ==
    ASSUME InhibitInv, NEW wd \in Inodes, NEW kind \in {"none", "open", "close"}, NEW gone \in BOOLEAN,
           Notify(wd, kind, gone),
           UNCHANGED <<gen, phase, cancelled, watches, unvisited, task, handle, lastWriter, early,
                       unfinished>>,
           Past(wd), gone => ~Alive(wd)',
           \A x \in Inodes : /\ Alive(x)' => Alive(x)
                             /\ Alive(x) /\ ~(gone /\ x = wd) => Alive(x)',
           \A p \in Procs, x \in Inodes :
               x # wd \/ kind = "none" => (<<p, x>> \in open' <=> <<p, x>> \in open),
           \A c \in Devices : /\ inhibited'[c] => inhibited[c]
                              /\ present'[c] => present[c] /\ (inhibited'[c] <=> inhibited[c])
    PROVE  /\ RunsInOrder' /\ InodesArePast' /\ EndsAreTold' /\ NoneSlipsThrough' /\ SeenIsSo'
           /\ SomebodyOwes'
           /\ queue' \in [Runs -> Seq(Event)] /\ kwatch' \in [Runs -> SUBSET Inodes]
           /\ \A i \in Runs : kwatch'[i] \subseteq kwatch[i]
           /\ \A i \in Runs : ~Listens(i) => queue'[i] = <<>> /\ kwatch'[i] = {}
<1>t. InhibitTypeOK
  BY DEF InhibitInv
<1>1. /\ queue' \in [Runs -> Seq(Event)] /\ kwatch' \in [Runs -> SUBSET Inodes]
      /\ \A i \in Runs :
            /\ kwatch'[i] = IF gone THEN kwatch[i] \ {wd} ELSE kwatch[i]
            /\ wd \notin kwatch[i] => queue'[i] = queue[i] /\ Events(i)' = Events(i)
            /\ wd \in kwatch[i] =>
                  /\ kind = "none" /\ ~gone => Events(i)' = Events(i)
                  /\ kind = "none" /\ gone => Events(i)' = Events(i) \cup {Of("delete", wd)}
                  /\ kind # "none" /\ ~gone => Events(i)' = Events(i) \cup {Of(kind, wd)}
                  /\ kind # "none" /\ gone =>
                        Events(i)' = Events(i) \cup {Of(kind, wd), Of("delete", wd)}
  <2>1. Told(wd, kind, gone)
    BY <1>t, Notified
  <2>2. QED
    BY <2>1 DEF Told
<1>2. /\ Of("delete", wd).kind = "delete" /\ Of("delete", wd).wd = wd
      /\ kind # "none" => Of(kind, wd).kind = kind /\ Of(kind, wd).wd = wd
  BY InodeParts
<1>3. \A i \in Runs :
          /\ Events(i) \subseteq Events(i)'
          /\ \A e \in Events(i)' : \/ e \in Events(i)
                                   \/ e.kind = "delete" /\ e.wd = wd /\ gone
                                   \/ e.kind = kind /\ e.wd = wd
          /\ wd \in kwatch[i] /\ gone => Of("delete", wd) \in Events(i)'
          /\ wd \in kwatch[i] /\ kind # "none" => Of(kind, wd) \in Events(i)'
  BY <1>1, <1>2
<1>4. /\ \A i \in Runs : Noted(i)' = Noted(i) /\ (Listens(i)' <=> Listens(i))
      /\ \A c \in Devices : Inode(c)' = Inode(c)
      /\ \A x : Past(x)' <=> Past(x)
  BY DEF Noted, Adding, Listens, Inode, Past
<1>5. \A i \in Runs : ~Listens(i) => queue'[i] = <<>> /\ kwatch'[i] = {}
  BY <1>1 DEF InhibitInv, RunsInOrder, RunInOrder
<1>6. RunsInOrder'
  BY <1>4, <1>5 DEF InhibitInv, RunsInOrder, RunInOrder
<1>7. InodesArePast'
  <2>1. \A p \in Procs, x \in Inodes : <<p, x>> \in open' => Past(x)'
    BY <1>4 DEF InhibitInv, InodesArePast, KnowsPast
  <2>2. \A x \in early' : Past(x)'
    BY <1>4 DEF InhibitInv, InodesArePast, KnowsPast
  <2>3. ASSUME NEW i \in Runs
        PROVE  /\ Past(task[i].wd)'
               /\ \A x \in kwatch'[i] \cup watches'[i] : Past(x)'
               /\ \A e \in Events(i)' : Past(e.wd)'
    <3>1. /\ Past(task[i].wd) /\ \A x \in kwatch[i] \cup watches[i] : Past(x)
          /\ \A e \in Events(i) : Past(e.wd)
      BY DEF InhibitInv, InodesArePast, KnowsPast
    <3>2. kwatch'[i] \subseteq kwatch[i]
      BY <1>1
    <3>3. \A e \in Events(i)' : Past(e.wd)'
      BY <1>3, <1>4, <3>1
    <3>4. QED
      BY <1>4, <3>1, <3>2, <3>3
  <2>4. QED
    BY <2>1, <2>2, <2>3 DEF InodesArePast, KnowsPast
<1>8. EndsAreTold'
  <2> SUFFICES ASSUME NEW i \in Runs
               PROVE  /\ \A x \in kwatch'[i] : Alive(x)'
                      /\ Listens(i)' => \A x \in Noted(i)' : x \in kwatch'[i] \/ Of("delete", x) \in Events(i)'
                      /\ \A e \in Events(i)' : e.kind = "delete" => ~Alive(e.wd)'
    BY DEF EndsAreTold, HearsEnds, Of
  <2>1. /\ kwatch[i] \subseteq Inodes /\ \A e \in Events(i) : e.wd \in Inodes
        /\ \A x \in kwatch[i] : Alive(x)
        /\ Listens(i) => \A x \in Noted(i) : x \in kwatch[i] \/ Of("delete", x) \in Events(i)
        /\ \A e \in Events(i) : e.kind = "delete" => ~Alive(e.wd)
    BY <1>t, InhibitParts DEF InhibitInv, EndsAreTold, HearsEnds
  <2>2. \A x \in kwatch'[i] : Alive(x)'
    BY <1>1, <2>1
  <2>3. Listens(i)' => \A x \in Noted(i)' : x \in kwatch'[i] \/ Of("delete", x) \in Events(i)'
    BY <1>1, <1>3, <1>4, <2>1
  <2>4. \A e \in Events(i)' : e.kind = "delete" => ~Alive(e.wd)'
    BY <1>3, <2>1
  <2>5. QED
    BY <2>2, <2>3, <2>4
<1>9. NoneSlipsThrough'
  <2> SUFFICES ASSUME NEW i \in Runs, NEW c \in Devices,
                      Listens(i)', present'[c], Inode(c)' \notin early'
               PROVE  \/ Inode(c)' \in Noted(i)'
                      \/ Of("create", <<c, 0>>) \in Events(i)'
                      \/ c \in unvisited'[i]
                      \/ task'[i].at = "sleep" /\ task'[i].wd[1] = c
    BY DEF NoneSlipsThrough, MissesNone, Of
  <2>1. \/ Inode(c) \in Noted(i)
        \/ Of("create", <<c, 0>>) \in Events(i)
        \/ c \in unvisited[i]
        \/ task[i].at = "sleep" /\ task[i].wd[1] = c
    BY <1>4 DEF InhibitInv, NoneSlipsThrough, MissesNone
  <2>2. QED
    BY <1>3, <1>4, <2>1
<1>10. SeenIsSo'
  <2> SUFFICES ASSUME NEW i \in Runs, NEW c \in Devices,
                      Listens(i)', present'[c], Inode(c)' \in Noted(i)', Unheard(i, c)'
               PROVE  /\ Checks(i, c, "scan")' => (SteamHas(c)' <=> \E p \in task'[i].left : <<p, Inode(c)'>> \in open')
                      /\ Checks(i, c, "write")' => (task'[i].value <=> SteamHas(c)')
                      /\ ~Checks(i, c, "scan")' /\ ~Checks(i, c, "write")' /\ lastWriter'[c] \in {0, i} =>
                            (inhibited'[c] <=> SteamHas(c)')
    BY DEF SeenIsSo, SawWhatIs
  <2>1. Listens(i) /\ present[c] /\ Inode(c) \in Noted(i) /\ Inode(c) \in Inodes
    BY <1>t, <1>4, InhibitParts
  <2>2. Unheard(i, c)
    BY <1>3, <1>4 DEF Unheard
  <2>3. Inode(c) \in kwatch[i]
    <3>1. Alive(Inode(c))
      BY <1>t, <2>1, InhibitParts DEF Alive
    <3>2. Of("delete", Inode(c)).kind = "delete" /\ Of("delete", Inode(c)).wd = Inode(c)
      BY <2>1, InodeParts
    <3>3. Of("delete", Inode(c)) \notin Events(i)
      BY <3>1, <3>2 DEF InhibitInv, EndsAreTold, HearsEnds
    <3>4. QED
      BY <2>1, <3>3 DEF InhibitInv, EndsAreTold, HearsEnds
  <2>4. Inode(c) # wd \/ kind = "none"
    BY <1>3, <1>4, <2>3 DEF Unheard
  <2>5. \A p \in Procs : <<p, Inode(c)'>> \in open' <=> <<p, Inode(c)>> \in open
    BY <1>4, <2>1, <2>4
  <2>6. Steam \subseteq Procs /\ task[i].left \subseteq Procs
    BY <1>t, InhibitAssumption, InhibitParts
  <2>7. /\ SteamHas(c)' <=> SteamHas(c)
        /\ (\E p \in task'[i].left : <<p, Inode(c)'>> \in open') <=> \E p \in task[i].left : <<p, Inode(c)>> \in open
    BY <2>5, <2>6 DEF SteamHas
  <2>8. QED
    BY <2>1, <2>2, <2>7 DEF InhibitInv, SeenIsSo, SawWhatIs, Checks
<1>11. SomebodyOwes'
  BY <1>4 DEF InhibitInv, SomebodyOwes
<1>12. QED
  BY <1>1, <1>5, <1>6, <1>7, <1>8, <1>9, <1>10, <1>11

LEMMA UnplugKeepsInhibitInv ==
    ASSUME InhibitInv, NEW d \in Devices, Unplug(d)
    PROVE  InhibitInv'
<1>t. InhibitTypeOK
  BY DEF InhibitInv
<1>1. PICK gone \in BOOLEAN : gone = ~ \E p \in Procs : <<p, Inode(d)>> \in open
  OBVIOUS
<1>2. /\ present[d] /\ present' = [present EXCEPT ![d] = FALSE]
      /\ enumerated' = [enumerated EXCEPT ![d] = FALSE]
      /\ inhibited' = [inhibited EXCEPT ![d] = FALSE]
      /\ Notify(Inode(d), "none", gone)
      /\ UNCHANGED <<gen, open, phase, cancelled, watches, unvisited, task, handle, lastWriter,
                     early, unfinished>>
  BY <1>1 DEF Unplug, history
<1>3. /\ Inode(d) \in Inodes /\ Inode(d)[1] = d /\ Past(Inode(d))
      /\ \A c \in Devices : Inode(c)' = Inode(c)
  BY <1>t, <1>2, InhibitParts DEF Past, Inode
<1>4. \A c \in Devices : /\ ~present'[d] /\ ~inhibited'[d] /\ ~enumerated'[d]
                         /\ c # d => /\ present'[c] = present[c] /\ inhibited'[c] = inhibited[c]
                                     /\ enumerated'[c] = enumerated[c]
  BY <1>t, <1>2 DEF InhibitTypeOK
<1>5. \A x \in Inodes : Alive(x)' <=> /\ Alive(x)
                                      /\ x = Inode(d) => \E p \in Procs : <<p, x>> \in open
  <2> SUFFICES ASSUME NEW x \in Inodes
               PROVE  Alive(x)' <=> /\ Alive(x)
                                    /\ x = Inode(d) => \E p \in Procs : <<p, x>> \in open
    OBVIOUS
  <2>1. x[1] \in Devices
    BY InodeParts
  <2>2. Alive(x)' <=> (present'[x[1]] /\ x = Inode(x[1])) \/ \E p \in Procs : <<p, x>> \in open
    BY <1>2, <1>3, <2>1 DEF Alive
  <2>3. CASE x[1] = d
    BY <1>4, <2>2, <2>3 DEF Alive
  <2>4. CASE x[1] # d
    BY <1>3, <1>4, <2>1, <2>2, <2>4 DEF Alive
  <2>5. QED
    BY <2>3, <2>4
<1>6. /\ RunsInOrder' /\ InodesArePast' /\ EndsAreTold' /\ NoneSlipsThrough' /\ SeenIsSo'
      /\ SomebodyOwes'
      /\ queue' \in [Runs -> Seq(Event)] /\ kwatch' \in [Runs -> SUBSET Inodes]
      /\ \A i \in Runs : kwatch'[i] \subseteq kwatch[i]
  <2>1. gone => ~Alive(Inode(d))'
    BY <1>1, <1>3, <1>5
  <2>2. \A x \in Inodes : /\ Alive(x)' => Alive(x)
                          /\ Alive(x) /\ ~(gone /\ x = Inode(d)) => Alive(x)'
    BY <1>1, <1>5
  <2>3. \A c \in Devices : /\ inhibited'[c] => inhibited[c]
                           /\ present'[c] => present[c] /\ (inhibited'[c] <=> inhibited[c])
    BY <1>2, <1>4
  <2>4. \A p \in Procs, x \in Inodes : <<p, x>> \in open' <=> <<p, x>> \in open
    BY <1>2
  <2>5. PICK wd \in Inodes : wd = Inode(d)
    BY <1>3
  <2>6. Notify(wd, "none", gone) /\ Past(wd) /\ (gone => ~Alive(wd)')
        /\ \A x \in Inodes : /\ Alive(x)' => Alive(x)
                             /\ Alive(x) /\ ~(gone /\ x = wd) => Alive(x)'
    BY <1>2, <1>3, <2>1, <2>2, <2>5
  <2>7. QED
    BY <1>2, <2>3, <2>4, <2>6, NotifyKeepsInhibitInv
<1>7. InhibitTypeOK'
  <2>1. /\ present' \in [Devices -> BOOLEAN] /\ enumerated' \in [Devices -> BOOLEAN]
        /\ inhibited' \in [Devices -> BOOLEAN]
    BY <1>t, <1>2 DEF InhibitTypeOK
  <2>2. QED
    BY <1>t, <1>2, <1>6, <2>1 DEF InhibitTypeOK
<1>8. MiceAreThere'
  BY <1>3, <1>4, <1>6 DEF InhibitInv, MiceAreThere
<1>9. QED
  BY <1>6, <1>7, <1>8 DEF InhibitInv

LEMMA OpenKeepsInhibitInv ==
    ASSUME InhibitInv, NEW p \in Procs, NEW d \in Devices, Open(p, d)
    PROVE  InhibitInv'
<1>t. InhibitTypeOK
  BY DEF InhibitInv
<1>1. PICK wd \in Inodes : wd = Inode(d)
  BY <1>t, InhibitParts
<1>2. /\ present[d] /\ open' = open \cup {<<p, wd>>} /\ Notify(wd, "open", FALSE)
      /\ UNCHANGED <<gen, present, enumerated, inhibited, phase, cancelled, watches, unvisited,
                     task, handle, lastWriter, early, unfinished>>
  BY <1>1 DEF Open, history
<1>3. wd[1] = d /\ Past(wd) /\ \A c \in Devices : Inode(c)' = Inode(c)
  BY <1>t, <1>1, <1>2, InhibitParts DEF Past, Inode
<1>4. \A q, x : <<q, x>> \in open' <=> <<q, x>> \in open \/ (q = p /\ x = wd)
  BY <1>2
<1>5. \A x \in Inodes : Alive(x)' <=> Alive(x)
  <2>1. Alive(wd)
    BY <1>1, <1>2, <1>3 DEF Alive
  <2>2. Alive(wd)'
    BY <1>1, <1>2, <1>3 DEF Alive
  <2>3. \A x \in Inodes : x # wd => (Alive(x)' <=> Alive(x))
    BY SMTT(30), <1>2, <1>3, <1>4, InodeParts DEF Alive
  <2>4. QED
    BY <2>1, <2>2, <2>3
<1>6. /\ RunsInOrder' /\ InodesArePast' /\ EndsAreTold' /\ NoneSlipsThrough' /\ SeenIsSo'
      /\ SomebodyOwes'
      /\ queue' \in [Runs -> Seq(Event)] /\ kwatch' \in [Runs -> SUBSET Inodes]
      /\ \A i \in Runs : kwatch'[i] \subseteq kwatch[i]
  <2>1. PICK gone \in BOOLEAN : gone = FALSE
    OBVIOUS
  <2>2. \A x \in Inodes : /\ Alive(x)' => Alive(x)
                          /\ Alive(x) /\ ~(gone /\ x = wd) => Alive(x)'
    BY <1>5
  <2>3. \A c \in Devices : /\ inhibited'[c] => inhibited[c]
                           /\ present'[c] => present[c] /\ (inhibited'[c] <=> inhibited[c])
    BY <1>2
  <2>4. \A q \in Procs, x \in Inodes : x # wd => (<<q, x>> \in open' <=> <<q, x>> \in open)
    BY <1>4
  <2>5. Notify(wd, "open", gone) /\ (gone => ~Alive(wd)')
    BY <1>2, <2>1
  <2>6. QED
    BY <1>2, <1>3, <2>2, <2>3, <2>4, <2>5, NotifyKeepsInhibitInv
<1>7. InhibitTypeOK'
  <2>1. open' \subseteq Procs \X Inodes
    BY <1>t, <1>2 DEF InhibitTypeOK
  <2>2. QED
    BY <1>t, <1>2, <1>6, <2>1 DEF InhibitTypeOK
<1>8. MiceAreThere'
  BY <1>2, <1>3, <1>6 DEF InhibitInv, MiceAreThere
<1>9. QED
  BY <1>6, <1>7, <1>8 DEF InhibitInv

LEMMA CloseKeepsInhibitInv ==
    ASSUME InhibitInv, NEW p \in Procs, NEW wd \in Inodes, Close(p, wd)
    PROVE  InhibitInv'
<1>t. InhibitTypeOK
  BY DEF InhibitInv
<1>1. PICK gone \in BOOLEAN : gone = /\ ~(present[wd[1]] /\ wd = Inode(wd[1]))
                                     /\ ~ \E q \in Procs \ {p} : <<q, wd>> \in open
  OBVIOUS
<1>2. /\ <<p, wd>> \in open /\ open' = open \ {<<p, wd>>} /\ Notify(wd, "close", gone)
      /\ UNCHANGED <<gen, present, enumerated, inhibited, phase, cancelled, watches, unvisited,
                     task, handle, lastWriter, early, unfinished>>
  BY <1>1 DEF Close, history
<1>3. Past(wd) /\ \A c \in Devices : Inode(c)' = Inode(c)
  BY <1>2 DEF InhibitInv, InodesArePast, KnowsPast, Inode
<1>4. \A q, x : <<q, x>> \in open' <=> <<q, x>> \in open /\ ~(q = p /\ x = wd)
  BY <1>2
<1>5. /\ \A x \in Inodes : x # wd => (Alive(x)' <=> Alive(x))
      /\ Alive(wd) /\ (Alive(wd)' <=> ~gone)
  <2>1. \A x \in Inodes : x # wd => (Alive(x)' <=> Alive(x))
    BY ZenonT(40), <1>2, <1>3, <1>4, InodeParts DEF Alive
  <2>2. Alive(wd)
    BY <1>2 DEF Alive
  <2>3. Alive(wd)' <=> ~gone
    <3>1. Inode(wd[1])' = Inode(wd[1])
      BY <1>3, InodeParts
    <3>2. (\E q \in Procs : <<q, wd>> \in open') <=> \E q \in Procs \ {p} : <<q, wd>> \in open
      BY <1>4
    <3>3. Alive(wd)' <=> (present[wd[1]] /\ wd = Inode(wd[1])) \/ \E q \in Procs : <<q, wd>> \in open'
      BY <1>2, <3>1 DEF Alive
    <3>4. QED
      BY <1>1, <3>2, <3>3
  <2>4. QED
    BY <2>1, <2>2, <2>3
<1>6. /\ RunsInOrder' /\ InodesArePast' /\ EndsAreTold' /\ NoneSlipsThrough' /\ SeenIsSo'
      /\ SomebodyOwes'
      /\ queue' \in [Runs -> Seq(Event)] /\ kwatch' \in [Runs -> SUBSET Inodes]
      /\ \A i \in Runs : kwatch'[i] \subseteq kwatch[i]
  <2>1. gone => ~Alive(wd)'
    BY <1>5
  <2>2. \A x \in Inodes : /\ Alive(x)' => Alive(x)
                          /\ Alive(x) /\ ~(gone /\ x = wd) => Alive(x)'
    BY <1>5
  <2>3. \A c \in Devices : /\ inhibited'[c] => inhibited[c]
                           /\ present'[c] => present[c] /\ (inhibited'[c] <=> inhibited[c])
    BY <1>2
  <2>4. \A q \in Procs, x \in Inodes : x # wd => (<<q, x>> \in open' <=> <<q, x>> \in open)
    BY <1>4
  <2>5. QED
    BY <1>2, <1>3, <2>1, <2>2, <2>3, <2>4, NotifyKeepsInhibitInv
<1>7. InhibitTypeOK'
  <2>1. open' \subseteq Procs \X Inodes
    BY <1>t, <1>2 DEF InhibitTypeOK
  <2>2. QED
    BY <1>t, <1>2, <1>6, <2>1 DEF InhibitTypeOK
<1>8. MiceAreThere'
  BY <1>2, <1>3, <1>6 DEF InhibitInv, MiceAreThere
<1>9. QED
  BY <1>6, <1>7, <1>8 DEF InhibitInv

-----------------------------------------------------------------------------
(* The inhibitors: a step of one leaves the others what they have.         *)

OthersStay(i) ==
    \A j \in Runs : j # i =>
        /\ phase'[j] = phase[j] /\ cancelled'[j] = cancelled[j] /\ queue'[j] = queue[j]
        /\ kwatch'[j] = kwatch[j] /\ watches'[j] = watches[j] /\ unvisited'[j] = unvisited[j]
        /\ task'[j] = task[j] /\ unfinished'[j] = unfinished[j]

WritesAre(i) ==
    \A d \in Devices :
        /\ inhibited'[d] => enumerated[d]
        /\ \/ lastWriter'[d] = i
           \/ lastWriter'[d] = lastWriter[d] /\ (inhibited'[d] = inhibited[d] \/ ~enumerated[d])

LEMMA WorldStays ==
    ASSUME UNCHANGED worldVars
    PROVE  /\ UNCHANGED <<gen, present, enumerated, open>>
           /\ \A d : Inode(d)' = Inode(d) /\ (SteamHas(d)' <=> SteamHas(d))
           /\ \A wd : (Past(wd)' <=> Past(wd)) /\ (Alive(wd)' <=> Alive(wd))
<1>1. UNCHANGED <<gen, present, enumerated, open>>
  BY DEF worldVars
<1>2. \A d : Inode(d)' = Inode(d)
  BY <1>1 DEF Inode
<1>3. \A d : SteamHas(d)' <=> SteamHas(d)
  BY <1>1, <1>2 DEF SteamHas
<1>4. \A wd : Past(wd)' <=> Past(wd)
  BY <1>1 DEF Past
<1>5. \A wd : Alive(wd)' <=> Alive(wd)
  BY <1>1, <1>2 DEF Alive
<1>6. QED
  BY <1>1, <1>2, <1>3, <1>4, <1>5

LEMMA NotedIsWatched ==
    ASSUME InhibitInv, NEW i \in Runs, NEW d \in Devices, Listens(i), present[d], Inode(d) \in Noted(i)
    PROVE  Inode(d) \in kwatch[i] /\ enumerated[d]
<1>1. InhibitTypeOK
  BY DEF InhibitInv
<1>2. Inode(d) \in Inodes /\ Inode(d)[1] = d
  BY <1>1, InhibitParts
<1>3. Alive(Inode(d))
  BY <1>2 DEF Alive
<1>4. Of("delete", Inode(d)).kind = "delete" /\ Of("delete", Inode(d)).wd = Inode(d)
  BY <1>2, InodeParts
<1>5. Of("delete", Inode(d)) \notin Events(i)
  BY <1>3, <1>4 DEF InhibitInv, EndsAreTold, HearsEnds
<1>6. Inode(d) \in kwatch[i]
  BY <1>5 DEF InhibitInv, EndsAreTold, HearsEnds
<1>7. QED
  BY <1>6 DEF InhibitInv, MiceAreThere

LEMMA OwnStepKeepsInhibitInv ==
    ASSUME InhibitInv, NEW i \in Runs, InhibitTypeOK', UNCHANGED worldVars, OthersStay(i), WritesAre(i),
           handle' \in {handle, 0, i},
           early \subseteq early', \A wd \in early' : Past(wd),
           \A d \in Devices : present[d] /\ Inode(d) \in kwatch'[i] => enumerated[d],
           RunInOrder(i)', KnowsPast(i)', HearsEnds(i)', MissesNone(i)', SawWhatIs(i)', SomebodyOwes'
    PROVE  InhibitInv'
<1>1. /\ UNCHANGED <<gen, present, enumerated, open>>
      /\ \A d : Inode(d)' = Inode(d) /\ (SteamHas(d)' <=> SteamHas(d))
      /\ \A wd : (Past(wd)' <=> Past(wd)) /\ (Alive(wd)' <=> Alive(wd))
  BY WorldStays
<1>2. i # 0 /\ \A j \in Runs : j # 0
  BY InhibitAssumption DEF Runs
<1>3. \A j \in Runs : j # i =>
          /\ phase'[j] = phase[j] /\ cancelled'[j] = cancelled[j] /\ queue'[j] = queue[j]
          /\ kwatch'[j] = kwatch[j] /\ watches'[j] = watches[j] /\ unvisited'[j] = unvisited[j]
          /\ task'[j] = task[j] /\ unfinished'[j] = unfinished[j]
          /\ Events(j)' = Events(j) /\ Noted(j)' = Noted(j) /\ (Listens(j)' <=> Listens(j))
  BY DEF OthersStay, Events, Noted, Adding, Listens
<1>4. RunsInOrder'
  <2> SUFFICES ASSUME NEW j \in Runs, j # i PROVE RunInOrder(j)'
    BY DEF RunsInOrder
  <2>1. handle' = j => handle = j
    BY <1>2
  <2>2. QED
    BY <1>3, <2>1 DEF InhibitInv, RunsInOrder, RunInOrder
<1>5. InodesArePast'
  <2>1. \A j \in Runs : j # i => KnowsPast(j)'
    BY <1>1, <1>3 DEF InhibitInv, InodesArePast, KnowsPast
  <2>2. /\ \A p \in Procs, wd \in Inodes : <<p, wd>> \in open' => Past(wd)'
        /\ \A wd \in early' : Past(wd)'
    BY <1>1 DEF InhibitInv, InodesArePast
  <2>3. QED
    BY <2>1, <2>2 DEF InodesArePast
<1>6. MiceAreThere'
  <2>1. \A d \in Devices : (enumerated'[d] => present'[d]) /\ (inhibited'[d] => enumerated'[d])
    BY <1>1 DEF InhibitInv, MiceAreThere, WritesAre
  <2>2. \A d \in Devices, j \in Runs : present'[d] /\ Inode(d)' \in kwatch'[j] => enumerated'[d]
    BY <1>1, <1>3 DEF InhibitInv, MiceAreThere
  <2>3. QED
    BY <2>1, <2>2 DEF MiceAreThere
<1>7. EndsAreTold'
  BY <1>1, <1>3 DEF InhibitInv, EndsAreTold, HearsEnds
<1>8. NoneSlipsThrough'
  BY <1>1, <1>3 DEF InhibitInv, NoneSlipsThrough, MissesNone
<1>9. SeenIsSo'
  <2> SUFFICES ASSUME NEW j \in Runs, j # i, NEW d \in Devices,
                      Listens(j)', present'[d], Inode(d)' \in Noted(j)', Unheard(j, d)'
               PROVE  /\ Checks(j, d, "scan")' => (SteamHas(d)' <=> \E p \in task'[j].left : <<p, Inode(d)'>> \in open')
                      /\ Checks(j, d, "write")' => (task'[j].value <=> SteamHas(d)')
                      /\ ~Checks(j, d, "scan")' /\ ~Checks(j, d, "write")' /\ lastWriter'[d] \in {0, j} =>
                            (inhibited'[d] <=> SteamHas(d)')
    BY DEF SeenIsSo, SawWhatIs
  <2>1. Listens(j) /\ present[d] /\ Inode(d) \in Noted(j) /\ Unheard(j, d)
    BY <1>1, <1>3 DEF Unheard
  <2>2. enumerated[d]
    BY <2>1, NotedIsWatched
  <2>3. lastWriter'[d] \in {0, j} => lastWriter[d] \in {0, j} /\ inhibited'[d] = inhibited[d]
    BY <1>2, <2>2 DEF WritesAre
  <2>4. \A at : Checks(j, d, at)' <=> Checks(j, d, at)
    BY <1>3 DEF Checks
  <2>5. /\ Checks(j, d, "scan") => (SteamHas(d) <=> \E p \in task[j].left : <<p, Inode(d)>> \in open)
        /\ Checks(j, d, "write") => (task[j].value <=> SteamHas(d))
        /\ ~Checks(j, d, "scan") /\ ~Checks(j, d, "write") /\ lastWriter[d] \in {0, j} =>
              (inhibited[d] <=> SteamHas(d))
    BY <2>1 DEF InhibitInv, SeenIsSo, SawWhatIs
  <2>6. QED
    BY <1>1, <1>3, <2>3, <2>4, <2>5
<1>10. QED
  BY <1>4, <1>5, <1>6, <1>7, <1>8, <1>9 DEF InhibitInv

\* The next event of the queue.
LEMMA Received ==
    ASSUME InhibitTypeOK, NEW i \in Runs, NEW kind, Receive(i, kind)
    PROVE  /\ phase[i] = "run" /\ task[i] = NoTask
           /\ Head(queue[i]) \in Event /\ Head(queue[i]).kind = kind
           /\ Head(queue[i]) = Of(kind, Head(queue[i]).wd)
           /\ Events(i) = {Head(queue[i])} \cup Events(i)'
           /\ queue' \in [Runs -> Seq(Event)]
           /\ \A j \in Runs : j # i => queue'[j] = queue[j]
<1>1. /\ phase[i] = "run" /\ task[i] = NoTask /\ queue[i] # <<>> /\ Head(queue[i]).kind = kind
      /\ queue' = [queue EXCEPT ![i] = Tail(@)]
  BY DEF Receive
<1>2. queue[i] \in Seq(Event) /\ queue \in [Runs -> Seq(Event)]
  BY DEF InhibitTypeOK
<1>3. /\ Head(queue[i]) \in Event /\ Tail(queue[i]) \in Seq(Event)
      /\ In(queue[i]) = {Head(queue[i])} \cup In(Tail(queue[i]))
  BY <1>1, <1>2, InhibitIn
<1>4. queue'[i] = Tail(queue[i]) /\ \A j \in Runs : j # i => queue'[j] = queue[j]
  BY <1>1, <1>2
<1>5. queue' \in [Runs -> Seq(Event)]
  BY <1>1, <1>2, <1>3
<1>6. Head(queue[i]) = Of(kind, Head(queue[i]).wd)
  BY <1>1, <1>3, InodeParts
<1>7. QED
  BY <1>1, <1>3, <1>4, <1>5, <1>6 DEF Events

Tasks == [at : {"idle", "sleep", "scan", "write", "written"}, wd : Inodes, add : BOOLEAN,
          left : SUBSET Steam, value : BOOLEAN]

LEMMA TaskParts ==
    /\ NoTask \in Tasks
    /\ \A wd \in Inodes : [NoTask EXCEPT !.at = "sleep", !.wd = wd] \in Tasks
    /\ \A wd \in Inodes : /\ [NoTask EXCEPT !.at = "sleep", !.wd = wd].at = "sleep"
                          /\ [NoTask EXCEPT !.at = "sleep", !.wd = wd].wd = wd
                          /\ ~[NoTask EXCEPT !.at = "sleep", !.wd = wd].add
                          /\ ~[NoTask EXCEPT !.at = "sleep", !.wd = wd].value
    /\ \A wd \in Inodes, add \in BOOLEAN :
          /\ Scanning(wd, add) \in Tasks /\ Scanning(wd, add).at = "scan" /\ Scanning(wd, add).wd = wd
          /\ Scanning(wd, add).add = add /\ Scanning(wd, add).left = Steam /\ ~Scanning(wd, add).value
<1>1. NoInode \in Inodes
  BY InodeParts
<1>2. NoTask = [at |-> "idle", wd |-> NoInode, add |-> FALSE, left |-> {}, value |-> FALSE]
  BY DEF NoTask
<1>3. NoTask \in Tasks
  BY <1>1, <1>2 DEF Tasks
<1>4. ASSUME NEW n \in Tasks, NEW wd \in Inodes
      PROVE  /\ [n EXCEPT !.at = "sleep", !.wd = wd] \in Tasks
             /\ [n EXCEPT !.at = "sleep", !.wd = wd].at = "sleep"
             /\ [n EXCEPT !.at = "sleep", !.wd = wd].wd = wd
             /\ [n EXCEPT !.at = "sleep", !.wd = wd].add = n.add
             /\ [n EXCEPT !.at = "sleep", !.wd = wd].value = n.value
  BY DEF Tasks
<1>5. ~NoTask.add /\ ~NoTask.value
  BY <1>2
<1>6. \A wd \in Inodes, add \in BOOLEAN :
          /\ Scanning(wd, add) \in Tasks /\ Scanning(wd, add).at = "scan" /\ Scanning(wd, add).wd = wd
          /\ Scanning(wd, add).add = add /\ Scanning(wd, add).left = Steam /\ ~Scanning(wd, add).value
  BY DEF Scanning, Tasks
<1>7. \A wd \in Inodes : /\ [NoTask EXCEPT !.at = "sleep", !.wd = wd] \in Tasks
                        /\ [NoTask EXCEPT !.at = "sleep", !.wd = wd].at = "sleep"
                        /\ [NoTask EXCEPT !.at = "sleep", !.wd = wd].wd = wd
                        /\ ~[NoTask EXCEPT !.at = "sleep", !.wd = wd].add
                        /\ ~[NoTask EXCEPT !.at = "sleep", !.wd = wd].value
  <2> SUFFICES ASSUME NEW wd \in Inodes
               PROVE  /\ [NoTask EXCEPT !.at = "sleep", !.wd = wd] \in Tasks
                      /\ [NoTask EXCEPT !.at = "sleep", !.wd = wd].at = "sleep"
                      /\ [NoTask EXCEPT !.at = "sleep", !.wd = wd].wd = wd
                      /\ ~[NoTask EXCEPT !.at = "sleep", !.wd = wd].add
                      /\ ~[NoTask EXCEPT !.at = "sleep", !.wd = wd].value
    OBVIOUS
  <2>1. PICK n \in Tasks : n = NoTask
    BY <1>3
  <2>2. QED
    BY <1>4, <1>5, <2>1
<1>8. QED
  BY <1>3, <1>6, <1>7

\* The types after a step of one inhibitor.
LEMMA OwnTypes ==
    ASSUME InhibitTypeOK, NEW i \in Runs, UNCHANGED worldVars, OthersStay(i),
           DOMAIN phase' = Runs, phase' = [j \in Runs |-> phase'[j]],
           phase'[i] \in {"none", "init", "run", "shutdown", "done"},
           cancelled' \in [Runs -> BOOLEAN], queue' \in [Runs -> Seq(Event)],
           kwatch' \in [Runs -> SUBSET Inodes], watches' \in [Runs -> SUBSET Inodes],
           unvisited' \in [Runs -> SUBSET Devices], task' \in [Runs -> Tasks],
           phase'[i] \notin {"init", "run"} => task'[i] = NoTask,
           handle' \in {handle, 0, i}, inhibited' \in [Devices -> BOOLEAN],
           lastWriter' \in [Devices -> Runs \cup {0}], early' \subseteq Inodes,
           unfinished' \in [Runs -> SUBSET Devices]
    PROVE  InhibitTypeOK'
<1>1. UNCHANGED <<gen, present, enumerated, open>>
  BY DEF worldVars
<1>2. \A j \in Runs : phase'[j] \in {"none", "init", "run", "shutdown", "done"}
  BY DEF OthersStay, InhibitTypeOK
<1>3. phase' \in [Runs -> {"none", "init", "run", "shutdown", "done"}]
  BY <1>2
<1>4. \A j \in Runs : phase'[j] \notin {"init", "run"} => task'[j] = NoTask
  <2>1. \A j \in Runs : j # i => phase'[j] = phase[j] /\ task'[j] = task[j]
    BY DEF OthersStay
  <2>2. \A j \in Runs : phase[j] \notin {"init", "run"} => task[j] = NoTask
    BY DEF InhibitTypeOK
  <2>3. QED
    BY <2>1, <2>2
<1>5. handle' \in Runs \cup {0}
  BY DEF InhibitTypeOK
<1>6. NoTask' = NoTask
  BY DEF NoTask, NoInode
<1>7. QED
  BY <1>1, <1>3, <1>4, <1>5, <1>6 DEF InhibitTypeOK, Tasks

\* A step that writes nothing and watches nothing new.
LEMMA QuietStepKeepsInhibitInv ==
    ASSUME InhibitInv, NEW i \in Runs, InhibitTypeOK', UNCHANGED worldVars, OthersStay(i),
           UNCHANGED <<inhibited, lastWriter, early>>,
           handle' \in {handle, 0, i}, kwatch'[i] \subseteq kwatch[i],
           RunInOrder(i)', KnowsPast(i)', HearsEnds(i)', MissesNone(i)', SawWhatIs(i)',
           Listens(i)' \/ SomebodyOwes'
    PROVE  InhibitInv'
<1>1. WritesAre(i)
  BY DEF InhibitInv, MiceAreThere, WritesAre
<1>2. early \subseteq early' /\ \A wd \in early' : Past(wd)
  BY DEF InhibitInv, InodesArePast
<1>3. \A d \in Devices : present[d] /\ Inode(d) \in kwatch'[i] => enumerated[d]
  BY DEF InhibitInv, MiceAreThere
<1>4. SomebodyOwes'
  BY DEF SomebodyOwes
<1>5. QED
  BY <1>1, <1>2, <1>3, <1>4, OwnStepKeepsInhibitInv

\* What an inhibitor saw stays so while its check stays where it is, and it
\* takes no event of what it goes on watching.
LEMMA SawStays ==
    ASSUME InhibitInv, NEW i \in Runs, UNCHANGED worldVars, UNCHANGED <<inhibited, lastWriter>>,
           Listens(i), Noted(i)' \subseteq Noted(i), task'[i] = task[i],
           \A d \in Devices :
               present[d] /\ Inode(d) \in Noted(i)' /\ Unheard(i, d)' => Unheard(i, d)
    PROVE  SawWhatIs(i)'
<1> SUFFICES ASSUME NEW d \in Devices, present'[d], Inode(d)' \in Noted(i)', Unheard(i, d)'
             PROVE  /\ Checks(i, d, "scan")' => (SteamHas(d)' <=> \E p \in task'[i].left : <<p, Inode(d)'>> \in open')
                    /\ Checks(i, d, "write")' => (task'[i].value <=> SteamHas(d)')
                    /\ ~Checks(i, d, "scan")' /\ ~Checks(i, d, "write")' /\ lastWriter'[d] \in {0, i} =>
                          (inhibited'[d] <=> SteamHas(d)')
  BY DEF SawWhatIs
<1>1. Inode(d)' = Inode(d) /\ (SteamHas(d)' <=> SteamHas(d)) /\ UNCHANGED <<present, open>>
  BY WorldStays
<1>2. present[d] /\ Inode(d) \in Noted(i) /\ Unheard(i, d)
  BY <1>1
<1>3. \A at : Checks(i, d, at)' <=> Checks(i, d, at)
  BY DEF Checks
<1>4. /\ Checks(i, d, "scan") => (SteamHas(d) <=> \E p \in task[i].left : <<p, Inode(d)>> \in open)
      /\ Checks(i, d, "write") => (task[i].value <=> SteamHas(d))
      /\ ~Checks(i, d, "scan") /\ ~Checks(i, d, "write") /\ lastWriter[d] \in {0, i} =>
            (inhibited[d] <=> SteamHas(d))
  BY <1>2 DEF InhibitInv, SeenIsSo, SawWhatIs
<1>5. QED
  BY <1>1, <1>3, <1>4

LEMMA StartInitKeepsInhibitInv ==
    ASSUME InhibitInv, NEW i \in Runs, StartInit(i)
    PROVE  InhibitInv'
<1>t. InhibitTypeOK
  BY DEF InhibitInv
<1>1. /\ phase[i] = "none" /\ phase' = [phase EXCEPT ![i] = "init"]
      /\ unvisited' = [unvisited EXCEPT ![i] = Devices]
      /\ UNCHANGED <<worldVars, inhibited, cancelled, queue, kwatch, watches, task, handle,
                     lastWriter, early, unfinished>>
  BY DEF StartInit, history
<1>2. /\ ~Listens(i) /\ queue[i] = <<>> /\ kwatch[i] = {} /\ watches[i] = {} /\ unfinished[i] = {}
      /\ ~cancelled[i] /\ handle # i /\ task[i] = NoTask
  BY <1>t, <1>1, InhibitParts DEF InhibitInv, RunsInOrder, RunInOrder, Listens
<1>3. /\ phase'[i] = "init" /\ unvisited'[i] = Devices
      /\ \A j \in Runs : j # i => phase'[j] = phase[j] /\ unvisited'[j] = unvisited[j]
      /\ DOMAIN phase' = Runs /\ phase' = [j \in Runs |-> phase'[j]]
  BY <1>t, <1>1 DEF InhibitTypeOK
<1>4. OthersStay(i)
  BY <1>1, <1>3 DEF OthersStay
<1>5. InhibitTypeOK'
  <2>1. unvisited' \in [Runs -> SUBSET Devices]
    BY <1>t, <1>1 DEF InhibitTypeOK
  <2>2. task' \in [Runs -> Tasks]
    BY <1>t, <1>1 DEF InhibitTypeOK, Tasks
  <2>3. /\ cancelled' \in [Runs -> BOOLEAN] /\ queue' \in [Runs -> Seq(Event)]
        /\ kwatch' \in [Runs -> SUBSET Inodes] /\ watches' \in [Runs -> SUBSET Inodes]
        /\ inhibited' \in [Devices -> BOOLEAN] /\ lastWriter' \in [Devices -> Runs \cup {0}]
        /\ early' \subseteq Inodes /\ unfinished' \in [Runs -> SUBSET Devices]
    BY <1>t, <1>1 DEF InhibitTypeOK
  <2>4. QED
    BY <1>t, <1>1, <1>3, <1>4, <2>1, <2>2, <2>3, OwnTypes
<1>6. /\ Events(i)' = {} /\ kwatch'[i] = {} /\ watches'[i] = {} /\ Noted(i)' = {} /\ task'[i] = NoTask
      /\ Listens(i)'
  BY <1>1, <1>2, <1>3, InodeParts, InhibitIn DEF Events, Noted, Adding, Listens, In
<1>7. RunInOrder(i)'
  BY <1>1, <1>2, <1>3, <1>6, InodeParts DEF RunInOrder
<1>8. KnowsPast(i)'
  <2>1. KnowsPast(i)
    BY DEF InhibitInv, InodesArePast
  <2>2. QED
    BY <1>1, <1>6, <2>1, WorldStays DEF KnowsPast
<1>9. HearsEnds(i)' /\ MissesNone(i)' /\ SawWhatIs(i)'
  BY <1>3, <1>6 DEF HearsEnds, MissesNone, SawWhatIs
<1>10. QED
  BY <1>1, <1>4, <1>5, <1>6, <1>7, <1>8, <1>9, QuietStepKeepsInhibitInv

LEMMA InitDoneKeepsInhibitInv ==
    ASSUME InhibitInv, NEW i \in Runs, InitDone(i)
    PROVE  InhibitInv'
<1>t. InhibitTypeOK
  BY DEF InhibitInv
<1>1. /\ phase[i] = "init" /\ unvisited[i] = {} /\ phase' = [phase EXCEPT ![i] = "run"] /\ handle' = i
      /\ UNCHANGED <<worldVars, inhibited, cancelled, queue, kwatch, watches, unvisited, task,
                     lastWriter, early, unfinished>>
  BY DEF InitDone, history
<1>2. /\ phase'[i] = "run" /\ \A j \in Runs : j # i => phase'[j] = phase[j]
      /\ DOMAIN phase' = Runs /\ phase' = [j \in Runs |-> phase'[j]]
  BY <1>t, <1>1 DEF InhibitTypeOK
<1>3. OthersStay(i)
  BY <1>1, <1>2 DEF OthersStay
<1>4. InhibitTypeOK'
  <2>1. task' \in [Runs -> Tasks]
    BY <1>t, <1>1 DEF InhibitTypeOK, Tasks
  <2>2. /\ cancelled' \in [Runs -> BOOLEAN] /\ queue' \in [Runs -> Seq(Event)]
        /\ kwatch' \in [Runs -> SUBSET Inodes] /\ watches' \in [Runs -> SUBSET Inodes]
        /\ unvisited' \in [Runs -> SUBSET Devices]
        /\ inhibited' \in [Devices -> BOOLEAN] /\ lastWriter' \in [Devices -> Runs \cup {0}]
        /\ early' \subseteq Inodes /\ unfinished' \in [Runs -> SUBSET Devices]
    BY <1>t, <1>1 DEF InhibitTypeOK
  <2>3. QED
    BY <1>t, <1>1, <1>2, <1>3, <2>1, <2>2, OwnTypes
<1>5. Listens(i) /\ Listens(i)' /\ Events(i)' = Events(i) /\ Noted(i)' = Noted(i)
  BY <1>1, <1>2 DEF Listens, Events, Noted, Adding
<1>6. RunInOrder(i)'
  BY <1>1, <1>2, <1>5 DEF InhibitInv, RunsInOrder, RunInOrder
<1>7. KnowsPast(i)' /\ HearsEnds(i)' /\ MissesNone(i)'
  BY <1>1, <1>5, WorldStays
     DEF InhibitInv, InodesArePast, KnowsPast, EndsAreTold, HearsEnds, NoneSlipsThrough, MissesNone
<1>8. SawWhatIs(i)'
  <2>1. \A d \in Devices : Unheard(i, d)' => Unheard(i, d)
    BY <1>1, <1>5, WorldStays DEF Unheard
  <2>2. QED
    BY <1>1, <1>5, <2>1, SawStays
<1>9. QED
  BY <1>1, <1>3, <1>4, <1>5, <1>6, <1>7, <1>8, QuietStepKeepsInhibitInv

LEMMA DisableKeepsInhibitInv ==
    ASSUME InhibitInv, Disable
    PROVE  InhibitInv'
<1>t. InhibitTypeOK
  BY DEF InhibitInv
<1>1. PICK i \in Runs : i = handle
  BY <1>t DEF Disable, InhibitTypeOK
<1>2. /\ cancelled' = [cancelled EXCEPT ![i] = TRUE] /\ handle' = 0
      /\ UNCHANGED <<worldVars, inhibited, phase, queue, kwatch, watches, unvisited, task,
                     lastWriter, early, unfinished>>
  BY <1>1 DEF Disable, history
<1>3. /\ cancelled'[i] /\ \A j \in Runs : j # i => cancelled'[j] = cancelled[j]
      /\ DOMAIN phase' = Runs /\ phase' = [j \in Runs |-> phase'[j]]
      /\ cancelled' \in [Runs -> BOOLEAN]
  BY <1>t, <1>2 DEF InhibitTypeOK
<1>4. OthersStay(i)
  BY <1>2, <1>3 DEF OthersStay
<1>5. InhibitTypeOK'
  <2>1. task' \in [Runs -> Tasks]
    BY <1>t, <1>2 DEF InhibitTypeOK, Tasks
  <2>2. /\ queue' \in [Runs -> Seq(Event)]
        /\ kwatch' \in [Runs -> SUBSET Inodes] /\ watches' \in [Runs -> SUBSET Inodes]
        /\ unvisited' \in [Runs -> SUBSET Devices]
        /\ inhibited' \in [Devices -> BOOLEAN] /\ lastWriter' \in [Devices -> Runs \cup {0}]
        /\ early' \subseteq Inodes /\ unfinished' \in [Runs -> SUBSET Devices]
        /\ phase'[i] \in {"none", "init", "run", "shutdown", "done"}
        /\ phase'[i] \notin {"init", "run"} => task'[i] = NoTask
    BY <1>t, <1>2 DEF InhibitTypeOK
  <2>3. QED
    BY <1>t, <1>2, <1>3, <1>4, <2>1, <2>2, OwnTypes
<1>6. phase[i] = "run"
  BY <1>1 DEF InhibitInv, RunsInOrder, RunInOrder
<1>7. Listens(i) /\ Listens(i)' /\ Events(i)' = Events(i) /\ Noted(i)' = Noted(i)
  BY <1>2, <1>6 DEF Listens, Events, Noted, Adding
<1>8. RunInOrder(i)'
  <2>1. i # 0
    BY InhibitAssumption DEF Runs
  <2>2. QED
    BY <1>2, <1>6, <1>7, <2>1 DEF InhibitInv, RunsInOrder, RunInOrder
<1>9. KnowsPast(i)' /\ HearsEnds(i)' /\ MissesNone(i)'
  BY <1>2, <1>7, WorldStays
     DEF InhibitInv, InodesArePast, KnowsPast, EndsAreTold, HearsEnds, NoneSlipsThrough, MissesNone
<1>10. SawWhatIs(i)'
  <2>1. \A d \in Devices : Unheard(i, d)' => Unheard(i, d)
    BY <1>2, <1>7, WorldStays DEF Unheard
  <2>2. QED
    BY <1>2, <1>7, <2>1, SawStays
<1>11. QED
  BY <1>2, <1>4, <1>5, <1>7, <1>8, <1>9, <1>10, QuietStepKeepsInhibitInv

\* A node that is there is watched, if its mouse is, or came too early.
LEMMA WatchKeepsInhibitInv ==
    ASSUME InhibitInv, NEW i \in Runs, NEW d \in Devices, Listens(i), Watch(i, d),
           task[i] = NoTask \/ (task[i].at = "sleep" /\ task[i].wd[1] = d),
           unvisited' \in [Runs -> SUBSET Devices],
           \A j \in Runs : j # i => unvisited'[j] = unvisited[j],
           unvisited[i] \ {d} \subseteq unvisited'[i], unvisited'[i] \subseteq unvisited[i],
           UNCHANGED <<worldVars, inhibited, phase, cancelled, queue, watches, handle, lastWriter,
                       unfinished>>
    PROVE  InhibitInv'
<1>t. InhibitTypeOK
  BY DEF InhibitInv
<1>1. /\ Inode(d) \in Inodes /\ Inode(d)[1] = d /\ NoTask \in Tasks
      /\ Scanning(Inode(d), TRUE) \in Tasks /\ Scanning(Inode(d), TRUE).at = "scan"
      /\ Scanning(Inode(d), TRUE).wd = Inode(d) /\ Scanning(Inode(d), TRUE).add
      /\ Scanning(Inode(d), TRUE).left = Steam /\ ~Scanning(Inode(d), TRUE).value
  BY <1>t, InhibitParts, TaskParts
<1>2. task \in [Runs -> Tasks] /\ kwatch \in [Runs -> SUBSET Inodes]
  BY <1>t DEF InhibitTypeOK, Tasks
<1>3. \/ /\ present[d] /\ enumerated[d]
         /\ kwatch' = [kwatch EXCEPT ![i] = @ \cup {Inode(d)}]
         /\ task' = [task EXCEPT ![i] = Scanning(Inode(d), TRUE)]
         /\ early' = early
      \/ /\ ~(present[d] /\ enumerated[d])
         /\ task' = [task EXCEPT ![i] = NoTask]
         /\ early' = IF present[d] THEN early \cup {Inode(d)} ELSE early
         /\ kwatch' = kwatch
  BY DEF Watch, CanInhibit
<1>4. \/ /\ present[d] /\ enumerated[d]
         /\ kwatch'[i] = kwatch[i] \cup {Inode(d)} /\ task'[i] = Scanning(Inode(d), TRUE)
         /\ early' = early
      \/ /\ ~(present[d] /\ enumerated[d]) /\ kwatch'[i] = kwatch[i] /\ task'[i] = NoTask
         /\ early' = IF present[d] THEN early \cup {Inode(d)} ELSE early
  BY <1>2, <1>3
<1>5. /\ task' \in [Runs -> Tasks] /\ kwatch' \in [Runs -> SUBSET Inodes] /\ early' \subseteq Inodes
      /\ \A j \in Runs : j # i => task'[j] = task[j] /\ kwatch'[j] = kwatch[j]
  <2>1. early \subseteq Inodes
    BY <1>t DEF InhibitTypeOK
  <2>2. early' \subseteq Inodes
    BY <1>1, <1>3, <2>1
  <2>3. task' \in [Runs -> Tasks] /\ \A j \in Runs : j # i => task'[j] = task[j]
    <3>1. PICK t \in Tasks : task' = [task EXCEPT ![i] = t]
      BY <1>1, <1>3
    <3>2. QED
      BY <1>2, <3>1
  <2>4. kwatch' \in [Runs -> SUBSET Inodes] /\ \A j \in Runs : j # i => kwatch'[j] = kwatch[j]
    <3>1. CASE kwatch' = kwatch
      BY <1>2, <3>1
    <3>2. CASE kwatch' = [kwatch EXCEPT ![i] = @ \cup {Inode(d)}]
      <4>1. PICK wd \in Inodes : wd = Inode(d)
        BY <1>1
      <4>2. kwatch' = [kwatch EXCEPT ![i] = @ \cup {wd}]
        BY <3>2, <4>1
      <4>3. QED
        BY <1>2, <4>2
    <3>3. QED
      BY <1>3, <3>1, <3>2
  <2>5. QED
    BY <2>2, <2>3, <2>4
<1>6. OthersStay(i)
  BY <1>5 DEF OthersStay
<1>7. InhibitTypeOK'
  <2>1. /\ DOMAIN phase' = Runs /\ phase' = [j \in Runs |-> phase'[j]]
        /\ phase'[i] \in {"none", "init", "run", "shutdown", "done"}
        /\ cancelled' \in [Runs -> BOOLEAN] /\ queue' \in [Runs -> Seq(Event)]
        /\ watches' \in [Runs -> SUBSET Inodes]
        /\ inhibited' \in [Devices -> BOOLEAN] /\ lastWriter' \in [Devices -> Runs \cup {0}]
        /\ unfinished' \in [Runs -> SUBSET Devices]
        /\ phase'[i] \in {"init", "run"}
    BY <1>t DEF InhibitTypeOK, Listens
  <2>2. QED
    BY <1>t, <1>5, <1>6, <2>1, OwnTypes
<1>8. /\ UNCHANGED <<gen, present, enumerated, open>>
      /\ \A c : Inode(c)' = Inode(c) /\ (SteamHas(c)' <=> SteamHas(c))
      /\ \A wd : (Past(wd)' <=> Past(wd)) /\ (Alive(wd)' <=> Alive(wd))
  BY WorldStays
<1>9. /\ ~task[i].add /\ Noted(i) = watches[i] /\ task[i].at # "scan" /\ task[i].at # "write"
      /\ task[i].at = "sleep" => task[i].wd[1] = d
  BY InodeParts DEF InhibitInv, RunsInOrder, RunInOrder, Noted, Adding
<1>10. /\ Listens(i)' /\ Events(i)' = Events(i)
       /\ present[d] /\ enumerated[d] => Noted(i)' = watches[i] \cup {Inode(d)}
       /\ ~(present[d] /\ enumerated[d]) => Noted(i)' = watches[i]
  <2>1. Listens(i)' /\ Events(i)' = Events(i)
    BY DEF Listens, Events
  <2>2. ~NoTask.add
    BY InodeParts
  <2>3. present[d] /\ enumerated[d] => task'[i].add /\ task'[i].wd = Inode(d)
    BY <1>1, <1>4
  <2>4. ~(present[d] /\ enumerated[d]) => ~task'[i].add
    BY <1>4, <2>2
  <2>5. QED
    BY <2>1, <2>3, <2>4 DEF Noted, Adding
<1>11. Past(Inode(d)) /\ (present[d] => Alive(Inode(d)))
  BY <1>t, <1>1, InhibitParts DEF Past, Alive
<1>12. RunInOrder(i)'
  <2>1. /\ task'[i].at = "scan" => ~task'[i].value
        /\ task'[i].at \in {"idle", "sleep"} => ~task'[i].add
    <3>1. NoTask.at = "idle" /\ ~NoTask.add
      BY InodeParts
    <3>2. QED
      BY <1>1, <1>4, <3>1
  <2>2. RunInOrder(i)
    BY DEF InhibitInv, RunsInOrder
  <2>3. QED
    BY <1>10, <2>1, <2>2 DEF RunInOrder
<1>13. KnowsPast(i)'
  <2>1. KnowsPast(i) /\ 0 \in Nat /\ NoTask.wd = NoInode /\ NoInode \in Inodes /\ NoInode[2] = 0
    BY InodeParts DEF InhibitInv, InodesArePast
  <2>2. Past(NoInode)
    BY <1>t, <2>1, InodeParts, InhibitParts DEF Past
  <2>3. Past(task'[i].wd)
    BY <1>1, <1>4, <1>11, <2>1, <2>2
  <2>4. QED
    BY <1>4, <1>8, <1>10, <1>11, <2>1, <2>3 DEF KnowsPast
<1>14. HearsEnds(i)'
  <2>1. HearsEnds(i)
    BY DEF InhibitInv, EndsAreTold
  <2>2. QED
    BY <1>4, <1>8, <1>9, <1>10, <1>11, <2>1 DEF HearsEnds
<1>15. MissesNone(i)'
  <2>1. MissesNone(i)
    BY DEF InhibitInv, NoneSlipsThrough
  <2> SUFFICES ASSUME NEW c \in Devices, present[c], Inode(c) \notin early'
               PROVE  \/ Inode(c) \in Noted(i)' \/ Of("create", <<c, 0>>) \in Events(i)
                      \/ c \in unvisited'[i]
    BY <1>8, <1>10 DEF MissesNone
  <2>2. CASE c = d
    BY <1>4, <1>10, <2>2
  <2>3. CASE c # d
    BY <1>4, <1>9, <1>10, <2>1, <2>3 DEF MissesNone
  <2>4. QED
    BY <2>2, <2>3
<1>16. SawWhatIs(i)'
  <2> SUFFICES ASSUME NEW c \in Devices, present[c], Inode(c) \in Noted(i)', Unheard(i, c)'
               PROVE  /\ Checks(i, c, "scan")' => (SteamHas(c) <=> \E p \in task'[i].left : <<p, Inode(c)>> \in open)
                      /\ ~Checks(i, c, "write")'
                      /\ ~Checks(i, c, "scan")' /\ lastWriter[c] \in {0, i} => (inhibited[c] <=> SteamHas(c))
    BY <1>8, <1>10 DEF SawWhatIs
  <2>1. Unheard(i, c)
    BY <1>8, <1>10 DEF Unheard
  <2>2. task'[i].at # "write"
    BY <1>1, <1>4, InodeParts
  <2>3. Inode(c) \in watches[i] /\ lastWriter[c] \in {0, i} => (inhibited[c] <=> SteamHas(c))
    BY <1>9, <2>1 DEF InhibitInv, SeenIsSo, SawWhatIs, Checks
  <2>4. CASE c = d /\ enumerated[d]
    BY <1>1, <1>4, <2>2, <2>4 DEF Checks, SteamHas
  <2>5. CASE c = d /\ ~enumerated[d]
    <3>1. Inode(d) \in Noted(i)
      BY <1>9, <1>10, <2>5
    <3>2. QED
      BY <2>5, <3>1, NotedIsWatched
  <2>6. CASE c # d
    <3>1. Inode(c) # Inode(d)
      BY <1>t, <2>6, InhibitParts
    <3>2. ~Checks(i, c, "scan")'
      <4>1. NoTask.at # "scan"
        BY InodeParts
      <4>2. task'[i].at = "scan" => task'[i].wd = Inode(d)
        BY <1>1, <1>4, <4>1
      <4>3. QED
        BY <1>1, <2>6, <4>2 DEF Checks
    <3>3. Inode(c) \in watches[i]
      BY <1>10, <3>1
    <3>4. QED
      BY <2>2, <2>3, <3>2, <3>3 DEF Checks
  <2>7. QED
    BY <2>4, <2>5, <2>6
<1>17. WritesAre(i)
  BY DEF InhibitInv, MiceAreThere, WritesAre
<1>18. early \subseteq early' /\ \A wd \in early' : Past(wd)
  BY <1>4, <1>11 DEF InhibitInv, InodesArePast
<1>19. \A c \in Devices : present[c] /\ Inode(c) \in kwatch'[i] => enumerated[c]
  <2>1. \A c \in Devices : Inode(c) = Inode(d) => c = d
    BY <1>t, InhibitParts
  <2>2. QED
    BY <1>4, <2>1 DEF InhibitInv, MiceAreThere
<1>20. SomebodyOwes'
  BY <1>10 DEF SomebodyOwes
<1>21. QED
  BY <1>6, <1>7, <1>12, <1>13, <1>14, <1>15, <1>16, <1>17, <1>18, <1>19, <1>20,
     OwnStepKeepsInhibitInv

LEMMA InitVisitKeepsInhibitInv ==
    ASSUME InhibitInv, NEW i \in Runs, NEW d \in Devices, InitVisit(i, d)
    PROVE  InhibitInv'
<1>1. /\ Listens(i) /\ task[i] = NoTask /\ Watch(i, d)
      /\ unvisited' = [unvisited EXCEPT ![i] = @ \ {d}]
      /\ UNCHANGED <<worldVars, inhibited, phase, cancelled, queue, watches, handle, lastWriter,
                     unfinished>>
  BY DEF InitVisit, Listens
<1>2. unvisited \in [Runs -> SUBSET Devices]
  BY DEF InhibitInv, InhibitTypeOK
<1>3. /\ unvisited' \in [Runs -> SUBSET Devices]
      /\ \A j \in Runs : j # i => unvisited'[j] = unvisited[j]
      /\ unvisited[i] \ {d} \subseteq unvisited'[i] /\ unvisited'[i] \subseteq unvisited[i]
  BY <1>1, <1>2
<1>4. QED
  BY <1>1, <1>3, WatchKeepsInhibitInv

LEMMA SleepEndsKeepsInhibitInv ==
    ASSUME InhibitInv, NEW i \in Runs, SleepEnds(i)
    PROVE  InhibitInv'
<1>1. InhibitTypeOK
  BY DEF InhibitInv
<1>2. PICK d \in Devices : d = task[i].wd[1]
  BY <1>1, InhibitParts, InodeParts
<1>3. /\ task[i].at = "sleep" /\ Watch(i, d)
      /\ UNCHANGED <<worldVars, inhibited, phase, cancelled, queue, watches, unvisited, handle,
                     lastWriter, unfinished>>
  BY <1>2 DEF SleepEnds
<1>4. Listens(i)
  BY <1>1, <1>3, InhibitParts, InodeParts
<1>5. unvisited \in [Runs -> SUBSET Devices]
  BY <1>1 DEF InhibitTypeOK
<1>6. QED
  BY <1>2, <1>3, <1>4, <1>5, WatchKeepsInhibitInv

\* A new entry of /dev is looked at when its input nodes have had their time.
LEMMA CreatedKeepsInhibitInv ==
    ASSUME InhibitInv, NEW i \in Runs, Created(i)
    PROVE  InhibitInv'
<1>t. InhibitTypeOK
  BY DEF InhibitInv
<1>1. PICK h : h = Head(queue[i])
  OBVIOUS
<1>2. /\ phase[i] = "run" /\ task[i] = NoTask /\ h \in Event /\ h = Of("create", h.wd) /\ h.kind = "create"
      /\ Events(i) = {h} \cup Events(i)' /\ queue' \in [Runs -> Seq(Event)]
      /\ \A j \in Runs : j # i => queue'[j] = queue[j]
  BY <1>t, <1>1, Received DEF Created
<1>3. h.wd \in Inodes /\ h.wd[1] \in Devices
  BY <1>2, InodeParts
<1>4. PICK t \in Tasks : t = [NoTask EXCEPT !.at = "sleep", !.wd = h.wd]
  BY <1>3, TaskParts
<1>5. t.at = "sleep" /\ t.wd = h.wd /\ ~t.add /\ ~t.value
  BY <1>3, <1>4, TaskParts
<1>6. /\ task' = [task EXCEPT ![i] = t]
      /\ UNCHANGED <<worldVars, inhibited, phase, cancelled, kwatch, watches, unvisited, handle,
                     lastWriter, early, unfinished>>
  BY <1>1, <1>4 DEF Created, history
<1>7. task' \in [Runs -> Tasks] /\ task'[i] = t /\ \A j \in Runs : j # i => task'[j] = task[j]
  BY <1>t, <1>6 DEF InhibitTypeOK, Tasks
<1>8. OthersStay(i)
  BY <1>2, <1>6, <1>7 DEF OthersStay
<1>9. Listens(i) /\ Listens(i)' /\ Noted(i)' = Noted(i)
  BY <1>2, <1>5, <1>6, <1>7, InodeParts DEF Listens, Noted, Adding
<1>10. InhibitTypeOK'
  <2>1. /\ DOMAIN phase' = Runs /\ phase' = [j \in Runs |-> phase'[j]] /\ phase'[i] = "run"
        /\ cancelled' \in [Runs -> BOOLEAN] /\ kwatch' \in [Runs -> SUBSET Inodes]
        /\ watches' \in [Runs -> SUBSET Inodes] /\ unvisited' \in [Runs -> SUBSET Devices]
        /\ inhibited' \in [Devices -> BOOLEAN] /\ lastWriter' \in [Devices -> Runs \cup {0}]
        /\ early' \subseteq Inodes /\ unfinished' \in [Runs -> SUBSET Devices]
    BY <1>t, <1>2, <1>6 DEF InhibitTypeOK
  <2>2. QED
    BY <1>t, <1>2, <1>6, <1>7, <1>8, <2>1, OwnTypes
<1>11. RunInOrder(i)'
  <2>1. RunInOrder(i)
    BY DEF InhibitInv, RunsInOrder
  <2>2. QED
    BY <1>5, <1>6, <1>7, <1>9, <2>1 DEF RunInOrder
<1>12. KnowsPast(i)'
  <2>1. KnowsPast(i)
    BY DEF InhibitInv, InodesArePast
  <2>2. Past(h.wd)
    BY <1>2, <2>1 DEF KnowsPast
  <2>3. QED
    BY <1>2, <1>5, <1>6, <1>7, <2>1, <2>2, WorldStays DEF KnowsPast
<1>13. HearsEnds(i)'
  <2>1. HearsEnds(i)
    BY DEF InhibitInv, EndsAreTold
  <2>2. \A wd \in Inodes : Of("delete", wd) # h
    BY <1>2, InodeParts
  <2>3. Noted(i) \subseteq Inodes
    BY <1>t, InhibitParts
  <2>4. \A wd \in Noted(i)' : wd \in kwatch'[i] \/ Of("delete", wd) \in Events(i)'
    BY <1>2, <1>6, <1>9, <2>1, <2>2, <2>3 DEF HearsEnds
  <2>5. /\ \A wd \in kwatch'[i] : Alive(wd)'
        /\ \A e \in Events(i)' : e.kind = "delete" => ~Alive(e.wd)'
    BY <1>2, <1>6, <2>1, WorldStays DEF HearsEnds
  <2>6. QED
    BY <2>4, <2>5 DEF HearsEnds, Of
<1>14. MissesNone(i)'
  <2>1. MissesNone(i) /\ 0 \in 0..MaxPlugs
    BY InhibitAssumption DEF InhibitInv, NoneSlipsThrough
  <2>2. \A c \in Devices : Of("create", <<c, 0>>) = h => h.wd = <<c, 0>> /\ h.wd[1] = c
    BY <2>1, InodeParts
  <2>3. task[i].at # "sleep"
    BY <1>2, InodeParts
  <2>4. ASSUME NEW c \in Devices, present[c], Inode(c) \notin early
        PROVE  \/ Inode(c) \in Noted(i) \/ Of("create", <<c, 0>>) \in Events(i)'
               \/ c \in unvisited[i] \/ t.wd[1] = c
    BY <1>2, <1>5, <1>9, <2>1, <2>2, <2>3, <2>4 DEF MissesNone
  <2>5. QED
    BY <1>5, <1>6, <1>7, <1>9, <2>4, WorldStays DEF MissesNone, Of
<1>15. SawWhatIs(i)'
  <2> SUFFICES ASSUME NEW c \in Devices, present[c], Inode(c) \in Noted(i), Unheard(i, c)'
               PROVE  /\ ~Checks(i, c, "scan")' /\ ~Checks(i, c, "write")'
                      /\ lastWriter[c] \in {0, i} => (inhibited[c] <=> SteamHas(c))
    BY <1>6, <1>9, WorldStays DEF SawWhatIs
  <2>1. Inode(c) \in Inodes /\ Inode(c)' = Inode(c)
    BY <1>t, <1>6, InhibitParts, WorldStays
  <2>2. Of("open", Inode(c)) # h /\ Of("close", Inode(c)) # h
    BY <1>2, <2>1, InodeParts
  <2>3. Unheard(i, c)
    BY <1>2, <2>1, <2>2 DEF Unheard, Of
  <2>4. ~Checks(i, c, "scan") /\ ~Checks(i, c, "write")
    BY <1>2, InodeParts DEF Checks
  <2>5. lastWriter[c] \in {0, i} => (inhibited[c] <=> SteamHas(c))
    BY <1>9, <2>3, <2>4 DEF InhibitInv, SeenIsSo, SawWhatIs
  <2>6. QED
    BY <1>5, <1>7, <2>5 DEF Checks
<1>16. QED
  BY <1>6, <1>8, <1>9, <1>10, <1>11, <1>12, <1>13, <1>14, <1>15, QuietStepKeepsInhibitInv

\* A node that is gone leaves the map.
LEMMA DeletedKeepsInhibitInv ==
    ASSUME InhibitInv, NEW i \in Runs, Deleted(i)
    PROVE  InhibitInv'
<1>t. InhibitTypeOK
  BY DEF InhibitInv
<1>1. PICK h : h = Head(queue[i])
  OBVIOUS
<1>2. /\ phase[i] = "run" /\ task[i] = NoTask /\ h \in Event /\ h = Of("delete", h.wd) /\ h.kind = "delete"
      /\ Events(i) = {h} \cup Events(i)' /\ queue' \in [Runs -> Seq(Event)]
      /\ \A j \in Runs : j # i => queue'[j] = queue[j]
  BY <1>t, <1>1, Received DEF Deleted
<1>3. h.wd \in Inodes
  BY <1>2, InodeParts
<1>4. /\ watches' = [watches EXCEPT ![i] = @ \ {h.wd}]
      /\ UNCHANGED <<worldVars, inhibited, phase, cancelled, kwatch, unvisited, task, handle,
                     lastWriter, early, unfinished>>
  BY <1>1 DEF Deleted, history
<1>5. /\ watches' \in [Runs -> SUBSET Inodes] /\ watches'[i] = watches[i] \ {h.wd}
      /\ \A j \in Runs : j # i => watches'[j] = watches[j]
  BY <1>t, <1>4 DEF InhibitTypeOK
<1>6. OthersStay(i)
  BY <1>2, <1>4, <1>5 DEF OthersStay
<1>7. Listens(i) /\ Listens(i)' /\ Noted(i) = watches[i] /\ Noted(i)' = Noted(i) \ {h.wd}
  BY <1>2, <1>4, <1>5, InodeParts DEF Listens, Noted, Adding
<1>8. InhibitTypeOK'
  <2>1. /\ DOMAIN phase' = Runs /\ phase' = [j \in Runs |-> phase'[j]] /\ phase'[i] = "run"
        /\ cancelled' \in [Runs -> BOOLEAN] /\ kwatch' \in [Runs -> SUBSET Inodes]
        /\ task' \in [Runs -> Tasks] /\ unvisited' \in [Runs -> SUBSET Devices]
        /\ inhibited' \in [Devices -> BOOLEAN] /\ lastWriter' \in [Devices -> Runs \cup {0}]
        /\ early' \subseteq Inodes /\ unfinished' \in [Runs -> SUBSET Devices]
    BY <1>t, <1>2, <1>4 DEF InhibitTypeOK, Tasks
  <2>2. QED
    BY <1>t, <1>2, <1>4, <1>5, <1>6, <2>1, OwnTypes
<1>9. RunInOrder(i)'
  <2>1. RunInOrder(i)
    BY DEF InhibitInv, RunsInOrder
  <2>2. QED
    BY <1>2, <1>4, <1>7, <2>1 DEF RunInOrder
<1>10. KnowsPast(i)'
  <2>1. KnowsPast(i)
    BY DEF InhibitInv, InodesArePast
  <2>2. QED
    BY <1>2, <1>4, <1>5, <2>1, WorldStays DEF KnowsPast
<1>11. ~Alive(h.wd)
  BY <1>2 DEF InhibitInv, EndsAreTold, HearsEnds
<1>12. HearsEnds(i)'
  <2>1. HearsEnds(i)
    BY DEF InhibitInv, EndsAreTold
  <2>2. Noted(i) \subseteq Inodes
    BY <1>t, InhibitParts
  <2>3. \A wd \in Noted(i)' : wd \in Inodes /\ wd # h.wd /\ Of("delete", wd) # h
    BY <1>3, <1>7, <2>2, InodeParts
  <2>4. \A wd \in Noted(i)' : wd \in kwatch'[i] \/ Of("delete", wd) \in Events(i)'
    BY <1>2, <1>4, <1>7, <2>1, <2>3 DEF HearsEnds
  <2>5. /\ \A wd \in kwatch'[i] : Alive(wd)'
        /\ \A e \in Events(i)' : e.kind = "delete" => ~Alive(e.wd)'
    BY <1>2, <1>4, <2>1, WorldStays DEF HearsEnds
  <2>6. QED
    BY <2>4, <2>5 DEF HearsEnds, Of
<1>13. MissesNone(i)'
  <2>1. MissesNone(i) /\ 0 \in 0..MaxPlugs
    BY InhibitAssumption DEF InhibitInv, NoneSlipsThrough
  <2>2. \A c \in Devices : Of("create", <<c, 0>>) # h
    BY <1>2, <2>1, InodeParts
  <2>3. \A c \in Devices : present[c] => Inode(c) # h.wd
    BY <1>t, <1>11, InhibitParts DEF Alive
  <2>4. ASSUME NEW c \in Devices, present[c], Inode(c) \notin early
        PROVE  \/ Inode(c) \in Noted(i)' \/ Of("create", <<c, 0>>) \in Events(i)'
               \/ c \in unvisited[i] \/ (task[i].at = "sleep" /\ task[i].wd[1] = c)
    BY <1>2, <1>7, <2>1, <2>2, <2>3, <2>4 DEF MissesNone
  <2>5. QED
    BY <1>4, <1>7, <2>4, WorldStays DEF MissesNone, Of
<1>14. SawWhatIs(i)'
  <2>1. ASSUME NEW c \in Devices, Unheard(i, c)'
        PROVE  Unheard(i, c)
    <3>1. Inode(c) \in Inodes /\ Inode(c)' = Inode(c)
      BY <1>t, <1>4, InhibitParts, WorldStays
    <3>2. Of("open", Inode(c)) # h /\ Of("close", Inode(c)) # h
      BY <1>2, <3>1, InodeParts
    <3>3. QED
      BY <1>2, <2>1, <3>1, <3>2 DEF Unheard, Of
  <2>2. Noted(i)' \subseteq Noted(i)
    BY <1>7
  <2>3. QED
    BY <1>4, <1>7, <2>1, <2>2, SawStays
<1>15. QED
  BY <1>4, <1>6, <1>7, <1>8, <1>9, <1>10, <1>12, <1>13, <1>14, QuietStepKeepsInhibitInv

\* What somebody opened or closed is checked, if it is in the map.
LEMMA TouchedKeepsInhibitInv ==
    ASSUME InhibitInv, NEW i \in Runs, Touched(i)
    PROVE  InhibitInv'
<1>t. InhibitTypeOK
  BY DEF InhibitInv
<1>1. PICK h : h = Head(queue[i])
  OBVIOUS
<1>2. PICK kind \in {"open", "close"} : Receive(i, kind)
  BY DEF Touched
<1>3. /\ phase[i] = "run" /\ task[i] = NoTask /\ h \in Event /\ h = Of(kind, h.wd) /\ h.kind = kind
      /\ Events(i) = {h} \cup Events(i)' /\ queue' \in [Runs -> Seq(Event)]
      /\ \A j \in Runs : j # i => queue'[j] = queue[j]
  BY <1>t, <1>1, <1>2, Received
<1>4. h.wd \in Inodes
  BY <1>3, InodeParts
<1>5. PICK t \in Tasks : t = Scanning(h.wd, FALSE)
  BY <1>4, TaskParts
<1>6. t.at = "scan" /\ t.wd = h.wd /\ ~t.add /\ t.left = Steam /\ ~t.value
  BY <1>4, <1>5, TaskParts
<1>7. /\ task' = IF h.wd \in watches[i] THEN [task EXCEPT ![i] = t] ELSE task
      /\ UNCHANGED <<worldVars, inhibited, phase, cancelled, kwatch, watches, unvisited, handle,
                     lastWriter, early, unfinished>>
  BY <1>1, <1>5 DEF Touched, history
<1>8. /\ task' \in [Runs -> Tasks] /\ \A j \in Runs : j # i => task'[j] = task[j]
      /\ h.wd \in watches[i] => task'[i] = t
      /\ h.wd \notin watches[i] => task'[i] = NoTask
  <2>1. task \in [Runs -> Tasks]
    BY <1>t DEF InhibitTypeOK, Tasks
  <2>2. CASE h.wd \in watches[i]
    BY <1>7, <2>1, <2>2
  <2>3. CASE h.wd \notin watches[i]
    BY <1>3, <1>7, <2>1, <2>3
  <2>4. QED
    BY <2>2, <2>3
<1>9. OthersStay(i)
  BY <1>3, <1>7, <1>8 DEF OthersStay
<1>10. /\ ~task'[i].add /\ ~task'[i].value /\ task'[i].at \in {"idle", "scan"}
       /\ ~task[i].add /\ task[i].at = "idle"
  BY <1>3, <1>6, <1>8, InodeParts
<1>11. Listens(i) /\ Listens(i)' /\ Noted(i)' = watches[i] /\ Noted(i) = watches[i]
  BY <1>3, <1>7, <1>10 DEF Listens, Noted, Adding
<1>12. InhibitTypeOK'
  <2>1. /\ DOMAIN phase' = Runs /\ phase' = [j \in Runs |-> phase'[j]] /\ phase'[i] = "run"
        /\ cancelled' \in [Runs -> BOOLEAN] /\ kwatch' \in [Runs -> SUBSET Inodes]
        /\ watches' \in [Runs -> SUBSET Inodes] /\ unvisited' \in [Runs -> SUBSET Devices]
        /\ inhibited' \in [Devices -> BOOLEAN] /\ lastWriter' \in [Devices -> Runs \cup {0}]
        /\ early' \subseteq Inodes /\ unfinished' \in [Runs -> SUBSET Devices]
    BY <1>t, <1>3, <1>7 DEF InhibitTypeOK
  <2>2. QED
    BY <1>t, <1>3, <1>7, <1>8, <1>9, <2>1, OwnTypes
<1>13. RunInOrder(i)'
  <2>1. RunInOrder(i)
    BY DEF InhibitInv, RunsInOrder
  <2>2. QED
    BY <1>7, <1>10, <1>11, <2>1 DEF RunInOrder
<1>14. KnowsPast(i)'
  <2>1. KnowsPast(i)
    BY DEF InhibitInv, InodesArePast
  <2>2. Past(h.wd)
    BY <1>3, <2>1 DEF KnowsPast
  <2>3. Past(task'[i].wd)
    BY <1>3, <1>6, <1>8, <2>1, <2>2 DEF KnowsPast
  <2>4. QED
    BY <1>3, <1>7, <2>1, <2>3, WorldStays DEF KnowsPast
<1>15. HearsEnds(i)'
  <2>1. HearsEnds(i)
    BY DEF InhibitInv, EndsAreTold
  <2>2. \A wd \in Inodes : Of("delete", wd) # h
    BY <1>3, InodeParts
  <2>3. watches[i] \subseteq Inodes
    BY <1>t, InhibitParts
  <2>4. \A wd \in Noted(i)' : wd \in kwatch'[i] \/ Of("delete", wd) \in Events(i)'
    BY <1>3, <1>7, <1>11, <2>1, <2>2, <2>3 DEF HearsEnds
  <2>5. /\ \A wd \in kwatch'[i] : Alive(wd)'
        /\ \A e \in Events(i)' : e.kind = "delete" => ~Alive(e.wd)'
    BY <1>3, <1>7, <2>1, WorldStays DEF HearsEnds
  <2>6. QED
    BY <2>4, <2>5 DEF HearsEnds, Of
<1>16. MissesNone(i)'
  <2>1. MissesNone(i) /\ 0 \in 0..MaxPlugs
    BY InhibitAssumption DEF InhibitInv, NoneSlipsThrough
  <2>2. \A c \in Devices : Of("create", <<c, 0>>) # h
    BY <1>3, <2>1, InodeParts
  <2>4. ASSUME NEW c \in Devices, present[c], Inode(c) \notin early
        PROVE  \/ Inode(c) \in watches[i] \/ Of("create", <<c, 0>>) \in Events(i)'
               \/ c \in unvisited[i]
    BY <1>3, <1>10, <1>11, <2>1, <2>2, <2>4 DEF MissesNone
  <2>5. QED
    BY <1>7, <1>11, <2>4, WorldStays DEF MissesNone, Of
<1>17. SawWhatIs(i)'
  <2> SUFFICES ASSUME NEW c \in Devices, present[c], Inode(c) \in watches[i], Unheard(i, c)'
               PROVE  /\ Checks(i, c, "scan")' => (SteamHas(c) <=> \E p \in task'[i].left : <<p, Inode(c)>> \in open)
                      /\ ~Checks(i, c, "write")'
                      /\ ~Checks(i, c, "scan")' /\ lastWriter[c] \in {0, i} => (inhibited[c] <=> SteamHas(c))
    BY <1>7, <1>11, WorldStays DEF SawWhatIs
  <2>1. Inode(c) \in Inodes /\ Inode(c)' = Inode(c) /\ Inode(c)[1] = c
    BY <1>t, <1>7, InhibitParts, WorldStays
  <2>2. ~Checks(i, c, "write")'
    BY <1>10 DEF Checks
  <2>3. Checks(i, c, "scan")' => (SteamHas(c) <=> \E p \in task'[i].left : <<p, Inode(c)>> \in open)
    <3>1. task'[i].at = "scan" => task'[i].left = Steam
      BY <1>6, <1>8, InodeParts
    <3>2. QED
      BY <3>1 DEF Checks, SteamHas
  <2>4. ASSUME ~Checks(i, c, "scan")', lastWriter[c] \in {0, i}
        PROVE  inhibited[c] <=> SteamHas(c)
    <3>1. h.wd # Inode(c)
      BY <1>6, <1>8, <2>1, <2>4 DEF Checks
    <3>2. Of("open", Inode(c)) # h /\ Of("close", Inode(c)) # h
      BY <1>3, <2>1, <3>1, InodeParts
    <3>3. Unheard(i, c)
      BY <1>3, <2>1, <3>2 DEF Unheard, Of
    <3>4. ~Checks(i, c, "scan") /\ ~Checks(i, c, "write")
      BY <1>10 DEF Checks
    <3>5. QED
      BY <1>11, <2>4, <3>3, <3>4 DEF InhibitInv, SeenIsSo, SawWhatIs
  <2>5. QED
    BY <2>2, <2>3, <2>4
<1>18. QED
  BY <1>7, <1>9, <1>11, <1>12, <1>13, <1>14, <1>15, <1>16, <1>17, QuietStepKeepsInhibitInv

\* A step of a check that stays with its node.
LEMMA CheckKeepsInhibitInv ==
    ASSUME InhibitInv, NEW i \in Runs, NEW t \in Tasks,
           task[i].at \in {"scan", "write"}, task' = [task EXCEPT ![i] = t],
           t.at \in {"scan", "write", "written"}, t.wd = task[i].wd, t.add = task[i].add,
           t.at = "scan" => ~t.value,
           UNCHANGED <<worldVars, phase, cancelled, queue, kwatch, watches, unvisited, handle,
                       early, unfinished>>,
           WritesAre(i), inhibited' \in [Devices -> BOOLEAN],
           lastWriter' \in [Devices -> Runs \cup {0}],
           SawWhatIs(i)'
    PROVE  InhibitInv'
<1>t. InhibitTypeOK
  BY DEF InhibitInv
<1>1. task' \in [Runs -> Tasks] /\ task'[i] = t /\ \A j \in Runs : j # i => task'[j] = task[j]
  BY <1>t DEF InhibitTypeOK, Tasks
<1>2. OthersStay(i)
  BY <1>1 DEF OthersStay
<1>3. Listens(i) /\ phase[i] \in {"init", "run"}
  BY <1>t, InhibitParts, InodeParts DEF Listens
<1>4. Listens(i)' /\ Noted(i)' = Noted(i) /\ Events(i)' = Events(i)
  BY <1>1, <1>3 DEF Listens, Noted, Adding, Events
<1>5. InhibitTypeOK'
  <2>1. /\ DOMAIN phase' = Runs /\ phase' = [j \in Runs |-> phase'[j]] /\ phase'[i] \in {"init", "run"}
        /\ cancelled' \in [Runs -> BOOLEAN] /\ kwatch' \in [Runs -> SUBSET Inodes]
        /\ queue' \in [Runs -> Seq(Event)]
        /\ watches' \in [Runs -> SUBSET Inodes] /\ unvisited' \in [Runs -> SUBSET Devices]
        /\ early' \subseteq Inodes /\ unfinished' \in [Runs -> SUBSET Devices]
    BY <1>t, <1>3 DEF InhibitTypeOK
  <2>2. QED
    BY <1>t, <1>1, <1>2, <2>1, OwnTypes
<1>6. RunInOrder(i)'
  <2>1. RunInOrder(i)
    BY DEF InhibitInv, RunsInOrder
  <2>2. QED
    BY <1>1, <1>3, <1>4, <2>1 DEF RunInOrder
<1>7. KnowsPast(i)'
  <2>1. KnowsPast(i)
    BY DEF InhibitInv, InodesArePast
  <2>2. QED
    BY <1>1, <1>4, <2>1, WorldStays DEF KnowsPast
<1>8. HearsEnds(i)'
  <2>1. HearsEnds(i)
    BY DEF InhibitInv, EndsAreTold
  <2>2. QED
    BY <1>3, <1>4, <2>1, WorldStays DEF HearsEnds
<1>9. MissesNone(i)'
  <2>1. MissesNone(i)
    BY DEF InhibitInv, NoneSlipsThrough
  <2>2. QED
    BY <1>3, <1>4, <2>1, WorldStays DEF MissesNone
<1>10. /\ early \subseteq early' /\ \A wd \in early' : Past(wd)
       /\ \A c \in Devices : present[c] /\ Inode(c) \in kwatch'[i] => enumerated[c]
  BY DEF InhibitInv, InodesArePast, MiceAreThere
<1>11. SomebodyOwes'
  BY <1>4 DEF SomebodyOwes
<1>12. QED
  BY <1>2, <1>5, <1>6, <1>7, <1>8, <1>9, <1>10, <1>11, OwnStepKeepsInhibitInv

LEMMA ScanKeepsInhibitInv ==
    ASSUME InhibitInv, NEW i \in Runs, Scan(i)
    PROVE  InhibitInv'
<1>t. InhibitTypeOK
  BY DEF InhibitInv
<1>1. PICK o \in Tasks : o = task[i]
  BY <1>t DEF InhibitTypeOK, Tasks
<1>2. /\ o.at = "scan" /\ ~o.value /\ o.wd \in Inodes /\ o.wd[1] \in Devices /\ o.left \subseteq Steam
      /\ UNCHANGED <<worldVars, inhibited, phase, cancelled, queue, kwatch, watches, unvisited, handle,
                     lastWriter, early, unfinished>>
  BY <1>t, <1>1, InhibitParts, InodeParts DEF Scan, history, InhibitInv, RunsInOrder, RunInOrder
<1>3. WritesAre(i) /\ inhibited' \in [Devices -> BOOLEAN] /\ lastWriter' \in [Devices -> Runs \cup {0}]
  BY <1>t, <1>2 DEF InhibitInv, MiceAreThere, WritesAre, InhibitTypeOK
<1>4. task \in [Runs -> Tasks]
  BY <1>t DEF InhibitTypeOK, Tasks
<1>5. \A c \in Devices : Unheard(i, c)' <=> Unheard(i, c)
  BY <1>2, WorldStays DEF Unheard, Events
<1>6. ASSUME NEW t \in Tasks, task' = [task EXCEPT ![i] = t], t.wd = o.wd, t.add = o.add,
             t.at \in {"scan", "write"}, t.at = "scan" => ~t.value,
             ASSUME NEW c \in Devices, present[c], c = o.wd[1],
                    SteamHas(c) <=> \E p \in o.left : <<p, Inode(c)>> \in open
             PROVE  /\ t.at = "scan" => (SteamHas(c) <=> \E p \in t.left : <<p, Inode(c)>> \in open)
                    /\ t.at = "write" => (t.value <=> SteamHas(c))
      PROVE  InhibitInv'
  <2>1. task'[i] = t
    BY <1>4, <1>6
  <2>2. Listens(i) /\ Noted(i)' = Noted(i)
    BY <1>t, <1>1, <1>2, <1>6, <2>1, InhibitParts, InodeParts DEF Noted, Adding
  <2>3. SawWhatIs(i)'
    <3> SUFFICES ASSUME NEW c \in Devices, present[c], Inode(c) \in Noted(i), Unheard(i, c)
                 PROVE  /\ Checks(i, c, "scan")' => (SteamHas(c) <=> \E p \in t.left : <<p, Inode(c)>> \in open)
                        /\ Checks(i, c, "write")' => (t.value <=> SteamHas(c))
                        /\ ~Checks(i, c, "scan")' /\ ~Checks(i, c, "write")' /\ lastWriter[c] \in {0, i} =>
                              (inhibited[c] <=> SteamHas(c))
      BY <1>2, <1>5, <2>1, <2>2, WorldStays DEF SawWhatIs
    <3>1. CASE c = o.wd[1]
      <4>1. Checks(i, c, "scan")
        BY <1>1, <1>2, <3>1 DEF Checks
      <4>2. SteamHas(c) <=> \E p \in o.left : <<p, Inode(c)>> \in open
        BY <1>1, <2>2, <4>1 DEF InhibitInv, SeenIsSo, SawWhatIs
      <4>3. /\ t.at = "scan" => (SteamHas(c) <=> \E p \in t.left : <<p, Inode(c)>> \in open)
            /\ t.at = "write" => (t.value <=> SteamHas(c))
        BY <1>6, <3>1, <4>2
      <4>4. Checks(i, c, "scan")' \/ Checks(i, c, "write")'
        BY <1>6, <2>1, <3>1 DEF Checks
      <4>5. QED
        BY <2>1, <4>3, <4>4 DEF Checks
    <3>2. CASE c # o.wd[1]
      <4>1. ~Checks(i, c, "scan") /\ ~Checks(i, c, "write")
        BY <1>1, <3>2 DEF Checks
      <4>2. ~Checks(i, c, "scan")' /\ ~Checks(i, c, "write")'
        BY <1>6, <2>1, <3>2 DEF Checks
      <4>3. lastWriter[c] \in {0, i} => (inhibited[c] <=> SteamHas(c))
        BY <2>2, <4>1 DEF InhibitInv, SeenIsSo, SawWhatIs
      <4>4. QED
        BY <4>2, <4>3
    <3>3. QED
      BY <3>1, <3>2
  <2>4. QED
    BY <1>1, <1>2, <1>3, <1>6, <2>3, CheckKeepsInhibitInv
<1>7. ASSUME NEW p \in o.left,
             task' = [task EXCEPT ![i] = IF <<p, Inode(o.wd[1])>> \in open /\ present[o.wd[1]]
                                         THEN [o EXCEPT !.at = "write", !.left = {}, !.value = TRUE]
                                         ELSE [o EXCEPT !.left = o.left \ {p}]]
      PROVE  InhibitInv'
  <2>1. CASE <<p, Inode(o.wd[1])>> \in open /\ present[o.wd[1]]
    <3>1. PICK t : t = [o EXCEPT !.at = "write", !.left = {}, !.value = TRUE]
      OBVIOUS
    <3>2. t \in Tasks /\ t.at = "write" /\ t.wd = o.wd /\ t.add = o.add /\ t.value
      BY <3>1 DEF Tasks
    <3>3. task' = [task EXCEPT ![i] = t]
      BY <1>7, <2>1, <3>1
    <3>4. p \in Steam
      BY <1>2
    <3>5. SteamHas(o.wd[1])
      BY <2>1, <3>4 DEF SteamHas
    <3>6. QED
      BY <1>6, <3>2, <3>3, <3>5
  <2>2. CASE ~(<<p, Inode(o.wd[1])>> \in open /\ present[o.wd[1]])
    <3>1. PICK t : t = [o EXCEPT !.left = o.left \ {p}]
      OBVIOUS
    <3>2. t \in Tasks /\ t.at = "scan" /\ t.wd = o.wd /\ t.add = o.add /\ ~t.value /\ t.left = o.left \ {p}
      BY <1>2, <3>1 DEF Tasks
    <3>3. task' = [task EXCEPT ![i] = t]
      BY <1>7, <2>2, <3>1
    <3>4. ASSUME NEW c \in Devices, present[c], c = o.wd[1],
                 SteamHas(c) <=> \E q \in o.left : <<q, Inode(c)>> \in open
          PROVE  SteamHas(c) <=> \E q \in t.left : <<q, Inode(c)>> \in open
      BY <2>2, <3>2, <3>4
    <3>5. QED
      BY <1>6, <3>2, <3>3, <3>4
  <2>3. QED
    BY <2>1, <2>2
<1>8. ASSUME o.left = {}, task' = [task EXCEPT ![i] = [o EXCEPT !.at = "write"]]
      PROVE  InhibitInv'
  <2>1. PICK t : t = [o EXCEPT !.at = "write"]
    OBVIOUS
  <2>2. t \in Tasks /\ t.at = "write" /\ t.wd = o.wd /\ t.add = o.add /\ ~t.value
    BY <1>2, <2>1 DEF Tasks
  <2>3. task' = [task EXCEPT ![i] = t]
    BY <1>8, <2>1
  <2>4. QED
    BY <1>6, <1>8, <2>2, <2>3
<1>9. QED
  <2>1. \/ \E p \in task[i].left :
             task' = [task EXCEPT ![i] =
                IF <<p, Inode(task[i].wd[1])>> \in open /\ present[task[i].wd[1]]
                THEN [task[i] EXCEPT !.at = "write", !.left = {}, !.value = TRUE]
                ELSE [task[i] EXCEPT !.left = task[i].left \ {p}]]
        \/ task[i].left = {} /\ task' = [task EXCEPT ![i].at = "write"]
    BY DEF Scan
  <2>2. CASE task[i].left = {} /\ task' = [task EXCEPT ![i].at = "write"]
    <3>1. task' = [task EXCEPT ![i] = [task[i] EXCEPT !.at = "write"]]
      BY <2>2
    <3>2. QED
      BY <1>1, <1>8, <2>2, <3>1
  <2>3. CASE \E p \in task[i].left :
             task' = [task EXCEPT ![i] =
                IF <<p, Inode(task[i].wd[1])>> \in open /\ present[task[i].wd[1]]
                THEN [task[i] EXCEPT !.at = "write", !.left = {}, !.value = TRUE]
                ELSE [task[i] EXCEPT !.left = task[i].left \ {p}]]
    BY <1>1, <1>7, <2>3
  <2>4. QED
    BY <2>1, <2>2, <2>3

LEMMA WriteInhibitKeepsInhibitInv ==
    ASSUME InhibitInv, NEW i \in Runs, WriteInhibit(i)
    PROVE  InhibitInv'
<1>t. InhibitTypeOK
  BY DEF InhibitInv
<1>1. PICK o \in Tasks : o = task[i]
  BY <1>t DEF InhibitTypeOK, Tasks
<1>2. PICK d \in Devices : d = o.wd[1]
  BY <1>t, <1>1, InhibitParts, InodeParts
<1>3. PICK t : t = [o EXCEPT !.at = "written"]
  OBVIOUS
<1>4. t \in Tasks /\ t.at = "written" /\ t.wd = o.wd /\ t.add = o.add /\ o.value \in BOOLEAN
  BY <1>3 DEF Tasks
<1>5. /\ o.at = "write" /\ task' = [task EXCEPT ![i] = t]
      /\ UNCHANGED <<worldVars, phase, cancelled, queue, kwatch, watches, unvisited, handle, early,
                     unfinished>>
  <2>1. task' = [task EXCEPT ![i] = [task[i] EXCEPT !.at = "written"]]
    BY DEF WriteInhibit
  <2>2. QED
    BY <1>1, <1>3, <2>1 DEF WriteInhibit
<1>6. IF enumerated[d]
      THEN /\ inhibited' = [inhibited EXCEPT ![d] = o.value]
           /\ lastWriter' = [lastWriter EXCEPT ![d] = i]
      ELSE UNCHANGED <<inhibited, lastWriter>>
  BY <1>1, <1>2 DEF WriteInhibit
<1>7. inhibited \in [Devices -> BOOLEAN] /\ lastWriter \in [Devices -> Runs \cup {0}]
  BY <1>t DEF InhibitTypeOK
<1>8. /\ inhibited' \in [Devices -> BOOLEAN] /\ lastWriter' \in [Devices -> Runs \cup {0}]
      /\ \A c \in Devices : c # d \/ ~enumerated[d] =>
            inhibited'[c] = inhibited[c] /\ lastWriter'[c] = lastWriter[c]
      /\ enumerated[d] => (inhibited'[d] <=> o.value) /\ lastWriter'[d] = i
  BY <1>4, <1>6, <1>7
<1>9. WritesAre(i)
  BY <1>8 DEF InhibitInv, MiceAreThere, WritesAre
<1>10. task'[i] = t
  BY <1>t, <1>5 DEF InhibitTypeOK
<1>11. Listens(i)
  BY <1>t, <1>1, <1>5, InhibitParts, InodeParts
<1>12. Listens(i)' /\ Noted(i)' = Noted(i) /\ Events(i)' = Events(i)
  BY <1>1, <1>4, <1>5, <1>10, <1>11 DEF Listens, Noted, Adding, Events
<1>13. SawWhatIs(i)'
  <2> SUFFICES ASSUME NEW c \in Devices, present[c], Inode(c) \in Noted(i), Unheard(i, c)
               PROVE  lastWriter'[c] \in {0, i} => (inhibited'[c] <=> SteamHas(c))
    <3>2. \A c \in Devices : Unheard(i, c)' <=> Unheard(i, c)
      BY <1>5, <1>12, WorldStays DEF Unheard
    <3>3. \A c : ~Checks(i, c, "scan")' /\ ~Checks(i, c, "write")'
      BY <1>4, <1>10 DEF Checks
    <3>4. QED
      BY <1>5, <1>12, <3>2, <3>3, WorldStays DEF SawWhatIs
  <2>1. CASE c = d
    <3>1. enumerated[c]
      BY <1>11, NotedIsWatched
    <3>2. Checks(i, c, "write")
      BY <1>1, <1>2, <1>5, <2>1 DEF Checks
    <3>3. o.value <=> SteamHas(c)
      BY <1>1, <1>11, <3>2 DEF InhibitInv, SeenIsSo, SawWhatIs
    <3>4. QED
      BY <1>8, <2>1, <3>1, <3>3
  <2>2. CASE c # d
    <3>1. ~Checks(i, c, "scan") /\ ~Checks(i, c, "write")
      BY <1>1, <1>2, <2>2 DEF Checks
    <3>2. lastWriter[c] \in {0, i} => (inhibited[c] <=> SteamHas(c))
      BY <1>11, <3>1 DEF InhibitInv, SeenIsSo, SawWhatIs
    <3>3. QED
      BY <1>8, <2>2, <3>2
  <2>3. QED
    BY <2>1, <2>2
<1>14. QED
  BY <1>1, <1>4, <1>5, <1>8, <1>9, <1>13, CheckKeepsInhibitInv

\* The node that was checked is in the map, if it was to be.
LEMMA CheckEndsKeepsInhibitInv ==
    ASSUME InhibitInv, NEW i \in Runs, CheckEnds(i)
    PROVE  InhibitInv'
<1>t. InhibitTypeOK
  BY DEF InhibitInv
<1>1. /\ task[i].at = "written" /\ task' = [task EXCEPT ![i] = NoTask]
      /\ watches' = IF task[i].add THEN [watches EXCEPT ![i] = @ \cup {task[i].wd}] ELSE watches
      /\ UNCHANGED <<worldVars, inhibited, phase, cancelled, queue, kwatch, unvisited, handle,
                     lastWriter, early, unfinished>>
  BY DEF CheckEnds, history
<1>2. task[i].wd \in Inodes /\ watches \in [Runs -> SUBSET Inodes] /\ task \in [Runs -> Tasks]
  BY <1>t, InhibitParts DEF InhibitTypeOK, Tasks
<1>3. /\ task' \in [Runs -> Tasks] /\ task'[i] = NoTask
      /\ \A j \in Runs : j # i => task'[j] = task[j]
  BY <1>1, <1>2, TaskParts
<1>4. /\ watches' \in [Runs -> SUBSET Inodes] /\ watches'[i] = Noted(i)
      /\ \A j \in Runs : j # i => watches'[j] = watches[j]
  <2>1. CASE task[i].add
    BY <1>1, <1>2, <2>1 DEF Noted, Adding
  <2>2. CASE ~task[i].add
    BY <1>1, <1>2, <2>2 DEF Noted, Adding
  <2>3. QED
    BY <2>1, <2>2
<1>5. OthersStay(i)
  BY <1>1, <1>3, <1>4 DEF OthersStay
<1>6. Listens(i) /\ phase[i] \in {"init", "run"}
  BY <1>t, <1>1, InhibitParts, InodeParts DEF Listens
<1>7. /\ Listens(i)' /\ Noted(i)' = Noted(i) /\ Events(i)' = Events(i)
      /\ task'[i].at = "idle" /\ ~task'[i].add
  BY <1>1, <1>3, <1>4, <1>6, InodeParts DEF Listens, Noted, Adding, Events
<1>8. InhibitTypeOK'
  <2>1. /\ DOMAIN phase' = Runs /\ phase' = [j \in Runs |-> phase'[j]] /\ phase'[i] \in {"init", "run"}
        /\ cancelled' \in [Runs -> BOOLEAN] /\ kwatch' \in [Runs -> SUBSET Inodes]
        /\ queue' \in [Runs -> Seq(Event)] /\ unvisited' \in [Runs -> SUBSET Devices]
        /\ inhibited' \in [Devices -> BOOLEAN] /\ lastWriter' \in [Devices -> Runs \cup {0}]
        /\ early' \subseteq Inodes /\ unfinished' \in [Runs -> SUBSET Devices]
    BY <1>t, <1>1, <1>6 DEF InhibitTypeOK
  <2>2. QED
    BY <1>t, <1>1, <1>3, <1>4, <1>5, <2>1, OwnTypes
<1>9. RunInOrder(i)'
  <2>1. RunInOrder(i)
    BY DEF InhibitInv, RunsInOrder
  <2>2. phase'[i] # "none"
    BY <1>1, <1>6
  <2>3. QED
    BY <1>1, <1>6, <1>7, <2>1, <2>2 DEF RunInOrder
<1>10. KnowsPast(i)'
  <2>1. KnowsPast(i)
    BY DEF InhibitInv, InodesArePast
  <2>2. Past(task'[i].wd)
    BY <1>t, <1>3, InodeParts, InhibitParts DEF Past
  <2>3. \A wd \in Noted(i) : Past(wd)
    BY <2>1 DEF KnowsPast, Noted, Adding
  <2>4. QED
    BY <1>1, <1>4, <1>7, <2>1, <2>2, <2>3, WorldStays DEF KnowsPast
<1>11. HearsEnds(i)'
  <2>1. HearsEnds(i)
    BY DEF InhibitInv, EndsAreTold
  <2>2. QED
    BY <1>1, <1>6, <1>7, <2>1, WorldStays DEF HearsEnds
<1>12. MissesNone(i)'
  <2>1. MissesNone(i)
    BY DEF InhibitInv, NoneSlipsThrough
  <2>2. QED
    BY <1>1, <1>6, <1>7, <2>1, WorldStays DEF MissesNone
<1>13. SawWhatIs(i)'
  <2> SUFFICES ASSUME NEW c \in Devices, present[c], Inode(c) \in Noted(i), Unheard(i, c)
               PROVE  lastWriter[c] \in {0, i} => (inhibited[c] <=> SteamHas(c))
    <3>1. \A c \in Devices : Unheard(i, c)' <=> Unheard(i, c)
      BY <1>1, <1>7, WorldStays DEF Unheard
    <3>2. \A c : ~Checks(i, c, "scan")' /\ ~Checks(i, c, "write")'
      BY <1>7 DEF Checks
    <3>3. QED
      BY <1>1, <1>7, <3>1, <3>2, WorldStays DEF SawWhatIs
  <2>1. ~Checks(i, c, "scan") /\ ~Checks(i, c, "write")
    BY <1>1 DEF Checks
  <2>2. QED
    BY <1>6, <2>1 DEF InhibitInv, SeenIsSo, SawWhatIs
<1>14. QED
  BY <1>1, <1>5, <1>7, <1>8, <1>9, <1>10, <1>11, <1>12, <1>13, QuietStepKeepsInhibitInv

\* An inhibitor that ends owes what it has noted, and what it was busy with
\* when it was cancelled is remembered as unfinished.
LEMMA TakeCancelKeepsInhibitInv ==
    ASSUME InhibitInv, NEW i \in Runs, TakeCancel(i)
    PROVE  InhibitInv'
<1>t. InhibitTypeOK
  BY DEF InhibitInv
<1>1. PICK u : u = {d \in Devices : \/ task[i] # NoTask /\ task[i].wd[1] = d
                                    \/ \E k \in 1..Len(queue[i]) : queue[i][k].wd[1] = d}
  OBVIOUS
<1>2. /\ phase[i] = "run" /\ cancelled[i] /\ phase' = [phase EXCEPT ![i] = "shutdown"]
      /\ unfinished' = [unfinished EXCEPT ![i] = u]
      /\ task' = [task EXCEPT ![i] = NoTask] /\ queue' = [queue EXCEPT ![i] = <<>>]
      /\ kwatch' = [kwatch EXCEPT ![i] = {}]
      /\ UNCHANGED <<worldVars, inhibited, cancelled, watches, unvisited, handle, lastWriter, early>>
  BY <1>1 DEF TakeCancel
<1>3. /\ phase'[i] = "shutdown" /\ \A j \in Runs : j # i => phase'[j] = phase[j]
      /\ DOMAIN phase' = Runs /\ phase' = [j \in Runs |-> phase'[j]]
  BY <1>t, <1>2 DEF InhibitTypeOK
<1>4. /\ task' \in [Runs -> Tasks] /\ task'[i] = NoTask
      /\ \A j \in Runs : j # i => task'[j] = task[j]
  <2>1. task \in [Runs -> Tasks] /\ NoTask \in Tasks
    BY <1>t, TaskParts DEF InhibitTypeOK, Tasks
  <2>2. QED
    BY <1>2, <2>1
<1>5. /\ queue' \in [Runs -> Seq(Event)] /\ kwatch' \in [Runs -> SUBSET Inodes]
      /\ queue'[i] = <<>> /\ kwatch'[i] = {}
      /\ \A j \in Runs : j # i => queue'[j] = queue[j] /\ kwatch'[j] = kwatch[j]
  BY <1>t, <1>2 DEF InhibitTypeOK
<1>6. /\ unfinished' \in [Runs -> SUBSET Devices] /\ unfinished'[i] = u
      /\ \A j \in Runs : j # i => unfinished'[j] = unfinished[j]
  <2>1. u \in SUBSET Devices
    BY <1>1
  <2>2. unfinished \in [Runs -> SUBSET Devices]
    BY <1>t DEF InhibitTypeOK
  <2>3. QED
    BY <1>2, <2>1, <2>2
<1>7. OthersStay(i)
  BY <1>2, <1>3, <1>4, <1>5, <1>6 DEF OthersStay
<1>8. InhibitTypeOK'
  <2>1. /\ cancelled' \in [Runs -> BOOLEAN] /\ watches' \in [Runs -> SUBSET Inodes]
        /\ unvisited' \in [Runs -> SUBSET Devices]
        /\ inhibited' \in [Devices -> BOOLEAN] /\ lastWriter' \in [Devices -> Runs \cup {0}]
        /\ early' \subseteq Inodes
    BY <1>t, <1>2 DEF InhibitTypeOK
  <2>2. QED
    BY <1>t, <1>2, <1>3, <1>4, <1>5, <1>6, <1>7, <2>1, OwnTypes
<1>9. /\ Listens(i) /\ ~Listens(i)' /\ Events(i)' = {} /\ Noted(i)' = watches[i]
      /\ task'[i].at = "idle" /\ ~task'[i].add
  <2>1. Events(i)' = {}
    BY <1>5, InhibitIn DEF Events, In
  <2>2. QED
    BY <1>2, <1>3, <1>4, <2>1, InodeParts DEF Listens, Noted, Adding
<1>10. RunInOrder(i)'
  <2>1. RunInOrder(i)
    BY DEF InhibitInv, RunsInOrder
  <2>2. handle' # i /\ unvisited'[i] = {}
    BY <1>2, <2>1 DEF RunInOrder
  <2>3. QED
    BY <1>2, <1>3, <1>5, <1>9, <2>2 DEF RunInOrder
<1>11. KnowsPast(i)'
  <2>1. KnowsPast(i)
    BY DEF InhibitInv, InodesArePast
  <2>2. Past(task'[i].wd)
    BY <1>t, <1>4, InodeParts, InhibitParts DEF Past
  <2>3. QED
    BY <1>2, <1>5, <1>9, <2>1, <2>2, WorldStays DEF KnowsPast
<1>12. HearsEnds(i)' /\ MissesNone(i)' /\ SawWhatIs(i)'
  BY <1>5, <1>9 DEF HearsEnds, MissesNone, SawWhatIs
<1>13. SomebodyOwes'
  <2> SUFFICES ASSUME NEW d \in Devices, inhibited[d], Inode(d) \notin early
               PROVE  \E j \in Runs : \/ Listens(j)'
                                      \/ d \in unfinished'[j]
                                      \/ phase'[j] = "shutdown" /\ \E wd \in watches'[j] : wd[1] = d
    BY <1>2, WorldStays DEF SomebodyOwes
  <2>1. PICK j \in Runs : \/ Listens(j)
                          \/ d \in unfinished[j]
                          \/ phase[j] = "shutdown" /\ \E wd \in watches[j] : wd[1] = d
    BY DEF InhibitInv, SomebodyOwes
  <2>2. CASE j # i
    BY <1>2, <1>3, <1>6, <2>1, <2>2 DEF Listens
  <2>3. CASE j = i
    <3>1. present[d]
      BY DEF InhibitInv, MiceAreThere
    <3>2. Inode(d)[1] = d /\ 0 \in 0..MaxPlugs
      BY <1>t, InhibitAssumption, InhibitParts
    <3>3. unvisited[i] = {}
      BY <1>2 DEF InhibitInv, RunsInOrder, RunInOrder
    <3>4. \/ Inode(d) \in Noted(i)
          \/ Of("create", <<d, 0>>) \in Events(i)
          \/ task[i].at = "sleep" /\ task[i].wd[1] = d
      BY <1>9, <3>1, <3>3 DEF InhibitInv, NoneSlipsThrough, MissesNone
    <3>5. CASE Inode(d) \in watches[i]
      BY <1>2, <1>3, <3>2, <3>5
    <3>6. CASE Inode(d) \in Adding(i)
      <4>1. task[i].add /\ task[i].wd = Inode(d)
        BY <3>6 DEF Adding
      <4>2. task[i] # NoTask /\ task[i].wd[1] = d
        BY <3>2, <4>1, InodeParts
      <4>3. QED
        BY <1>1, <1>6, <4>2
    <3>7. CASE Of("create", <<d, 0>>) \in Events(i)
      <4>1. Of("create", <<d, 0>>).wd = <<d, 0>> /\ <<d, 0>>[1] = d
        BY <3>2, InodeParts
      <4>2. PICK k \in 1..Len(queue[i]) : queue[i][k] = Of("create", <<d, 0>>)
        BY <3>7 DEF Events, In
      <4>3. queue[i][k].wd[1] = d
        BY <4>1, <4>2
      <4>4. QED
        BY <1>1, <1>6, <4>3
    <3>8. CASE task[i].at = "sleep" /\ task[i].wd[1] = d
      BY <1>1, <1>6, <3>8, InodeParts
    <3>9. QED
      BY <3>4, <3>5, <3>6, <3>7, <3>8 DEF Noted
  <2>4. QED
    BY <2>2, <2>3
<1>14. QED
  BY <1>2, <1>5, <1>7, <1>8, <1>10, <1>11, <1>12, <1>13, QuietStepKeepsInhibitInv

\* A mouse that is released is uninhibited.
LEMMA ReleaseKeepsInhibitInv ==
    ASSUME InhibitInv, NEW i \in Runs, Release(i)
    PROVE  InhibitInv'
<1>t. InhibitTypeOK
  BY DEF InhibitInv
<1>1. PICK wd \in watches[i] :
          /\ watches' = [watches EXCEPT ![i] = @ \ {wd}]
          /\ inhibited' = [inhibited EXCEPT ![wd[1]] = FALSE]
          /\ lastWriter' = IF enumerated[wd[1]]
                           THEN [lastWriter EXCEPT ![wd[1]] = i] ELSE lastWriter
  BY DEF Release
<1>2. /\ phase[i] = "shutdown"
      /\ UNCHANGED <<worldVars, phase, cancelled, queue, kwatch, unvisited, task, handle, early,
                     unfinished>>
  BY DEF Release
<1>3. PICK d \in Devices : d = wd[1]
  BY <1>t, InhibitParts, InodeParts
<1>4. inhibited \in [Devices -> BOOLEAN] /\ lastWriter \in [Devices -> Runs \cup {0}]
  BY <1>t DEF InhibitTypeOK
<1>5. /\ inhibited' \in [Devices -> BOOLEAN] /\ ~inhibited'[d]
      /\ \A c \in Devices : c # d => inhibited'[c] = inhibited[c]
  BY <1>1, <1>3, <1>4
<1>6. /\ lastWriter' \in [Devices -> Runs \cup {0}]
      /\ \A c \in Devices : c # d => lastWriter'[c] = lastWriter[c]
      /\ IF enumerated[d] THEN lastWriter'[d] = i ELSE lastWriter'[d] = lastWriter[d]
  <2>1. CASE enumerated[d]
    BY <1>1, <1>3, <1>4, <2>1
  <2>2. CASE ~enumerated[d]
    BY <1>1, <1>3, <1>4, <2>2
  <2>3. QED
    BY <2>1, <2>2
<1>7. WritesAre(i)
  BY <1>5, <1>6 DEF InhibitInv, MiceAreThere, WritesAre
<1>8. /\ watches' \in [Runs -> SUBSET Inodes] /\ watches'[i] = watches[i] \ {wd}
      /\ \A j \in Runs : j # i => watches'[j] = watches[j]
  BY <1>t, <1>1 DEF InhibitTypeOK
<1>9. OthersStay(i)
  BY <1>2, <1>8 DEF OthersStay
<1>10. InhibitTypeOK'
  <2>1. /\ DOMAIN phase' = Runs /\ phase' = [j \in Runs |-> phase'[j]] /\ phase'[i] = "shutdown"
        /\ task' \in [Runs -> Tasks] /\ task'[i] = NoTask
        /\ cancelled' \in [Runs -> BOOLEAN] /\ kwatch' \in [Runs -> SUBSET Inodes]
        /\ queue' \in [Runs -> Seq(Event)] /\ unvisited' \in [Runs -> SUBSET Devices]
        /\ early' \subseteq Inodes /\ unfinished' \in [Runs -> SUBSET Devices]
    BY <1>t, <1>2 DEF InhibitTypeOK, Tasks
  <2>2. QED
    BY <1>t, <1>2, <1>5, <1>6, <1>8, <1>9, <2>1, OwnTypes
<1>11. /\ ~Listens(i) /\ ~Listens(i)' /\ queue[i] = <<>> /\ kwatch[i] = {} /\ Events(i)' = {}
  <2>1. ~Listens(i) /\ ~Listens(i)'
    BY <1>2 DEF Listens
  <2>2. queue[i] = <<>> /\ kwatch[i] = {}
    BY <2>1 DEF InhibitInv, RunsInOrder, RunInOrder
  <2>3. Events(i)' = {}
    BY <1>2, <2>2, InhibitIn DEF Events, In
  <2>4. QED
    BY <2>1, <2>2, <2>3
<1>12. RunInOrder(i)'
  <2>1. RunInOrder(i)
    BY DEF InhibitInv, RunsInOrder
  <2>2. QED
    BY <1>2, <1>11, <2>1 DEF RunInOrder
<1>13. KnowsPast(i)'
  <2>1. KnowsPast(i)
    BY DEF InhibitInv, InodesArePast
  <2>2. QED
    BY <1>2, <1>8, <1>11, <2>1, WorldStays DEF KnowsPast
<1>14. HearsEnds(i)' /\ MissesNone(i)' /\ SawWhatIs(i)'
  BY <1>2, <1>11 DEF HearsEnds, MissesNone, SawWhatIs
<1>15. SomebodyOwes'
  <2> SUFFICES ASSUME NEW c \in Devices, inhibited'[c], Inode(c) \notin early
               PROVE  \E j \in Runs : \/ Listens(j)'
                                      \/ c \in unfinished'[j]
                                      \/ phase'[j] = "shutdown" /\ \E x \in watches'[j] : x[1] = c
    BY <1>2, WorldStays DEF SomebodyOwes
  <2>1. c # d /\ inhibited[c]
    BY <1>5
  <2>2. PICK j \in Runs : \/ Listens(j)
                          \/ c \in unfinished[j]
                          \/ phase[j] = "shutdown" /\ \E x \in watches[j] : x[1] = c
    BY <2>1 DEF InhibitInv, SomebodyOwes
  <2>3. CASE Listens(j) \/ c \in unfinished[j]
    BY <1>2, <2>3 DEF Listens
  <2>4. CASE phase[j] = "shutdown" /\ \E x \in watches[j] : x[1] = c
    <3>1. PICK x \in watches[j] : x[1] = c
      BY <2>4
    <3>2. x # wd
      BY <1>3, <2>1, <3>1
    <3>3. x \in watches'[j]
      BY <1>8, <3>1, <3>2
    <3>4. QED
      BY <1>2, <2>4, <3>1, <3>3
  <2>5. QED
    BY <2>2, <2>3, <2>4
<1>16. /\ early \subseteq early' /\ \A x \in early' : Past(x)
       /\ \A c \in Devices : present[c] /\ Inode(c) \in kwatch'[i] => enumerated[c]
  BY <1>2 DEF InhibitInv, InodesArePast, MiceAreThere
<1>17. QED
  BY <1>2, <1>7, <1>9, <1>10, <1>12, <1>13, <1>14, <1>15, <1>16, OwnStepKeepsInhibitInv

LEMMA ShutDownKeepsInhibitInv ==
    ASSUME InhibitInv, NEW i \in Runs, ShutDown(i)
    PROVE  InhibitInv'
<1>t. InhibitTypeOK
  BY DEF InhibitInv
<1>1. /\ phase[i] = "shutdown" /\ watches[i] = {} /\ phase' = [phase EXCEPT ![i] = "done"]
      /\ UNCHANGED <<worldVars, inhibited, cancelled, queue, kwatch, watches, unvisited, task, handle,
                     lastWriter, early, unfinished>>
  BY DEF ShutDown, history
<1>2. /\ phase'[i] = "done" /\ \A j \in Runs : j # i => phase'[j] = phase[j]
      /\ DOMAIN phase' = Runs /\ phase' = [j \in Runs |-> phase'[j]]
  BY <1>t, <1>1 DEF InhibitTypeOK
<1>3. OthersStay(i)
  BY <1>1, <1>2 DEF OthersStay
<1>4. InhibitTypeOK'
  <2>1. /\ task' \in [Runs -> Tasks] /\ task'[i] = NoTask
        /\ cancelled' \in [Runs -> BOOLEAN] /\ kwatch' \in [Runs -> SUBSET Inodes]
        /\ queue' \in [Runs -> Seq(Event)] /\ unvisited' \in [Runs -> SUBSET Devices]
        /\ watches' \in [Runs -> SUBSET Inodes]
        /\ inhibited' \in [Devices -> BOOLEAN] /\ lastWriter' \in [Devices -> Runs \cup {0}]
        /\ early' \subseteq Inodes /\ unfinished' \in [Runs -> SUBSET Devices]
    BY <1>t, <1>1 DEF InhibitTypeOK, Tasks
  <2>2. QED
    BY <1>t, <1>1, <1>2, <1>3, <2>1, OwnTypes
<1>5. /\ ~Listens(i) /\ ~Listens(i)' /\ queue[i] = <<>> /\ kwatch[i] = {} /\ Events(i)' = {}
  <2>1. ~Listens(i) /\ ~Listens(i)'
    BY <1>1, <1>2 DEF Listens
  <2>2. queue[i] = <<>> /\ kwatch[i] = {}
    BY <2>1 DEF InhibitInv, RunsInOrder, RunInOrder
  <2>3. Events(i)' = {}
    BY <1>1, <2>2, InhibitIn DEF Events, In
  <2>4. QED
    BY <2>1, <2>2, <2>3
<1>6. RunInOrder(i)'
  <2>1. RunInOrder(i)
    BY DEF InhibitInv, RunsInOrder
  <2>2. handle' # i
    BY <1>1, <2>1 DEF RunInOrder
  <2>3. QED
    BY <1>1, <1>2, <1>5, <2>1, <2>2 DEF RunInOrder
<1>7. KnowsPast(i)'
  <2>1. KnowsPast(i)
    BY DEF InhibitInv, InodesArePast
  <2>2. QED
    BY <1>1, <1>5, <2>1, WorldStays DEF KnowsPast
<1>8. HearsEnds(i)' /\ MissesNone(i)' /\ SawWhatIs(i)'
  BY <1>1, <1>5 DEF HearsEnds, MissesNone, SawWhatIs
<1>9. SomebodyOwes'
  <2> SUFFICES ASSUME NEW c \in Devices, inhibited[c], Inode(c) \notin early
               PROVE  \E j \in Runs : \/ Listens(j)'
                                      \/ c \in unfinished'[j]
                                      \/ phase'[j] = "shutdown" /\ \E x \in watches'[j] : x[1] = c
    BY <1>1, WorldStays DEF SomebodyOwes
  <2>1. PICK j \in Runs : \/ Listens(j)
                          \/ c \in unfinished[j]
                          \/ phase[j] = "shutdown" /\ \E x \in watches[j] : x[1] = c
    BY DEF InhibitInv, SomebodyOwes
  <2>2. QED
    BY <1>1, <1>2, <1>5, <2>1 DEF Listens
<1>10. QED
  BY <1>1, <1>3, <1>4, <1>6, <1>7, <1>8, <1>9, QuietStepKeepsInhibitInv

LEMMA InhibitInitHasInv == InhibitInit => InhibitInv
<1> SUFFICES ASSUME InhibitInit PROVE InhibitInv
  OBVIOUS
<1>1. /\ 0 \in 0..MaxPlugs /\ <<>> \in Seq(Event) /\ NoTask \in Tasks /\ NoTask.wd[2] = 0
      /\ NoTask.wd \in Inodes /\ NoTask.at = "idle" /\ ~NoTask.add /\ ~NoTask.value
  <2>1. 0 \in 0..MaxPlugs /\ <<>> \in Seq(Event) /\ NoTask \in Tasks
    <3>1. 0 \in 0..MaxPlugs
      BY InhibitAssumption
    <3>2. NoTask \in Tasks
      BY TaskParts
    <3>3. QED
      BY <3>1, <3>2
  <2>2. /\ NoTask.wd[2] = 0 /\ NoTask.wd \in Inodes /\ NoTask.at = "idle" /\ ~NoTask.add
        /\ ~NoTask.value
    BY InodeParts
  <2>3. QED
    BY <2>1, <2>2
<1>2. InhibitTypeOK
  BY <1>1 DEF InhibitInit, InhibitTypeOK, Tasks
<1>3. ASSUME NEW i \in Runs
      PROVE  /\ ~Listens(i) /\ Events(i) = {} /\ Noted(i) = {} /\ kwatch[i] = {} /\ watches[i] = {}
             /\ queue[i] = <<>> /\ task[i] = NoTask /\ phase[i] = "none" /\ unvisited[i] = {}
             /\ unfinished[i] = {} /\ ~cancelled[i] /\ handle # i
  <2>1. /\ kwatch[i] = {} /\ watches[i] = {} /\ queue[i] = <<>> /\ task[i] = NoTask
        /\ phase[i] = "none" /\ unvisited[i] = {} /\ unfinished[i] = {} /\ ~cancelled[i]
    BY DEF InhibitInit
  <2>2. handle # i
    BY InhibitAssumption DEF InhibitInit, Runs
  <2>3. Events(i) = {}
    BY <1>1, <2>1, InhibitIn DEF Events
  <2>4. QED
    BY <1>1, <2>1, <2>2, <2>3 DEF Listens, Noted, Adding
<1>4. RunsInOrder
  BY <1>1, <1>3 DEF RunsInOrder, RunInOrder
<1>5. InodesArePast
  <2>1. \A i \in Runs : Past(task[i].wd)
    BY <1>1, <1>2, <1>3, InodeParts, InhibitParts DEF Past
  <2>2. open = {} /\ early = {}
    BY DEF InhibitInit
  <2>3. QED
    BY <1>3, <2>1, <2>2 DEF InodesArePast, KnowsPast
<1>6. MiceAreThere /\ SomebodyOwes
  BY <1>3 DEF InhibitInit, MiceAreThere, SomebodyOwes
<1>7. EndsAreTold /\ NoneSlipsThrough /\ SeenIsSo
  BY <1>3 DEF EndsAreTold, HearsEnds, NoneSlipsThrough, MissesNone, SeenIsSo, SawWhatIs
<1>8. QED
  BY <1>2, <1>4, <1>5, <1>6, <1>7 DEF InhibitInv

LEMMA InhibitIdleKeepsInv ==
    ASSUME InhibitInv, UNCHANGED inhibitVars
    PROVE  InhibitInv'
<1>1. /\ UNCHANGED <<gen, present, enumerated, open, inhibited, phase, cancelled, queue, kwatch, watches,
                     unvisited, task, handle, lastWriter, early, unfinished>>
      /\ UNCHANGED worldVars
  BY DEF inhibitVars, worldVars, runVars, history
<1>2. InhibitTypeOK'
  BY <1>1 DEF InhibitInv, InhibitTypeOK, NoTask, NoInode
<1>3. \A i : /\ (Listens(i)' <=> Listens(i)) /\ Events(i)' = Events(i) /\ Noted(i)' = Noted(i)
             /\ \A c, at : Checks(i, c, at)' <=> Checks(i, c, at)
             /\ \A c : Unheard(i, c)' <=> Unheard(i, c)
  BY <1>1, WorldStays DEF Listens, Events, Noted, Adding, Checks, Unheard
<1>4. RunsInOrder' /\ InodesArePast' /\ MiceAreThere'
  BY <1>1, <1>3, WorldStays DEF InhibitInv, RunsInOrder, RunInOrder, InodesArePast, KnowsPast, MiceAreThere
<1>5. EndsAreTold' /\ NoneSlipsThrough'
  BY <1>1, <1>3, WorldStays DEF InhibitInv, EndsAreTold, HearsEnds, NoneSlipsThrough, MissesNone
<1>6. SeenIsSo' /\ SomebodyOwes'
  <2>1. SeenIsSo'
    BY <1>1, <1>3, WorldStays DEF InhibitInv, SeenIsSo, SawWhatIs
  <2>2. SomebodyOwes'
    BY <1>1, <1>3, WorldStays DEF InhibitInv, SomebodyOwes
  <2>3. QED
    BY <2>1, <2>2
<1>7. QED
  BY <1>2, <1>4, <1>5, <1>6 DEF InhibitInv

LEMMA InhibitStepKeepsInv ==
    ASSUME InhibitInv, [InhibitNext]_inhibitVars
    PROVE  InhibitInv'
<1>1. CASE UNCHANGED inhibitVars
  BY <1>1, InhibitIdleKeepsInv
<1>2. CASE World
  <2>1. CASE \E d \in Devices : Plug(d) \/ Enumerate(d) \/ Unplug(d)
    BY <2>1, PlugKeepsInhibitInv, EnumerateKeepsInhibitInv, UnplugKeepsInhibitInv
  <2>2. CASE \E d \in Devices, p \in Procs : Open(p, d)
    BY <2>2, OpenKeepsInhibitInv
  <2>3. CASE \E p \in Procs, wd \in Inodes : Close(p, wd)
    BY <2>3, CloseKeepsInhibitInv
  <2>4. QED
    BY <1>2, <2>1, <2>2, <2>3 DEF World
<1>3. CASE Disable
  BY <1>3, DisableKeepsInhibitInv
<1>4. CASE \E i \in Runs : Inhibitor(i)
  <2>1. PICK i \in Runs : Inhibitor(i)
    BY <1>4
  <2>2. CASE StartInit(i) \/ InitDone(i)
    BY <2>2, StartInitKeepsInhibitInv, InitDoneKeepsInhibitInv
  <2>3. CASE \E d \in Devices : InitVisit(i, d)
    BY <2>3, InitVisitKeepsInhibitInv
  <2>4. CASE Created(i) \/ SleepEnds(i) \/ Deleted(i) \/ Touched(i)
    BY <2>4, CreatedKeepsInhibitInv, SleepEndsKeepsInhibitInv, DeletedKeepsInhibitInv,
       TouchedKeepsInhibitInv
  <2>5. CASE Scan(i) \/ WriteInhibit(i) \/ CheckEnds(i)
    BY <2>5, ScanKeepsInhibitInv, WriteInhibitKeepsInhibitInv, CheckEndsKeepsInhibitInv
  <2>6. CASE TakeCancel(i) \/ Release(i) \/ ShutDown(i)
    BY <2>6, TakeCancelKeepsInhibitInv, ReleaseKeepsInhibitInv, ShutDownKeepsInhibitInv
  <2>7. QED
    BY <2>1, <2>2, <2>3, <2>4, <2>5, <2>6 DEF Inhibitor
<1>5. QED
  BY <1>1, <1>2, <1>3, <1>4 DEF InhibitNext

LEMMA InhibitInvIsEnough == InhibitInv => InhibitorKeepsUp
<1> SUFFICES ASSUME InhibitInv PROVE InhibitorKeepsUp
  OBVIOUS
<1>t. InhibitTypeOK
  BY DEF InhibitInv
<1>1. SettledIsRight
  <2> SUFFICES ASSUME InhibitSettled
               PROVE  /\ \A d \in Devices :
                            present[d] /\ Inode(d) \notin early =>
                                Inode(d) \in watches[handle] \cap kwatch[handle]
                      /\ \A wd \in watches[handle] :
                            \/ present[wd[1]] /\ wd = Inode(wd[1])
                            \/ \E p \in Procs : <<p, wd>> \in open
                      /\ \A d \in Devices :
                            present[d] /\ Inode(d) \in watches[handle] /\ lastWriter[d] \in {0, handle}
                                => inhibited[d] = SteamHas(d)
    BY DEF SettledIsRight
  <2>1. PICK i \in Runs : i = handle
    BY <1>t DEF InhibitSettled, InhibitTypeOK
  <2>2. queue[i] = <<>> /\ task[i] = NoTask /\ phase[i] = "run" /\ Listens(i) /\ unvisited[i] = {}
    BY <2>1 DEF InhibitSettled, InhibitInv, RunsInOrder, RunInOrder, Listens
  <2>3. Events(i) = {} /\ task[i].at = "idle" /\ Noted(i) = watches[i]
    BY <1>t, <2>2, InhibitParts, InhibitIn, InodeParts DEF Events, Noted, Adding
  <2>4. ASSUME NEW d \in Devices, present[d], Inode(d) \notin early
        PROVE  Inode(d) \in watches[i] \cap kwatch[i]
    <3>1. Inode(d) \in Noted(i)
      BY <2>2, <2>3, <2>4 DEF InhibitInv, NoneSlipsThrough, MissesNone
    <3>2. Inode(d) \in kwatch[i]
      BY <2>2, <2>4, <3>1, NotedIsWatched
    <3>3. QED
      BY <2>3, <3>1, <3>2
  <2>5. ASSUME NEW wd \in watches[i]
        PROVE  Alive(wd)
    BY <2>2, <2>3 DEF InhibitInv, EndsAreTold, HearsEnds
  <2>6. ASSUME NEW d \in Devices, present[d], Inode(d) \in watches[i], lastWriter[d] \in {0, i}
        PROVE  inhibited[d] = SteamHas(d)
    <3>1. inhibited[d] <=> SteamHas(d)
      BY <2>2, <2>3, <2>6 DEF InhibitInv, SeenIsSo, SawWhatIs, Unheard, Checks
    <3>2. inhibited[d] \in BOOLEAN
      BY <1>t, InhibitParts
    <3>3. QED
      BY <3>1, <3>2 DEF SteamHas
  <2>7. QED
    BY <2>1, <2>4, <2>5, <2>6 DEF Alive
<1>2. NothingStaysInhibited
  <2> SUFFICES ASSUME \A i \in Runs : phase[i] \in {"none", "done"}, NEW d \in Devices, inhibited[d]
               PROVE  Inode(d) \in early \/ \E i \in Runs : d \in unfinished[i]
    BY DEF NothingStaysInhibited
  <2>1. \A i \in Runs : ~Listens(i) /\ phase[i] # "shutdown"
    BY DEF Listens
  <2>2. QED
    BY <2>1 DEF InhibitInv, SomebodyOwes
<1>3. QED
  BY <1>1, <1>2 DEF InhibitorKeepsUp

\* What the inhibitors have heard, know and owe, in every reachable state: each
\* device that is there is noted by those that listen or will be looked at, an
\* inode that goes is told, and what a check has seen is so unless an event of
\* the device is in the queue.
THEOREM InhibitorInvariant == InhibitSpec => []InhibitInv
<1>1. InhibitInit => InhibitInv
  BY InhibitInitHasInv
<1>2. InhibitInv /\ [InhibitNext]_inhibitVars => InhibitInv'
  BY InhibitStepKeepsInv
<1>3. QED
  BY <1>1, <1>2, PTL DEF InhibitSpec

\* Inhibitors keep up with devices and Steam while they run, and leave nothing
\* behind when they go.
THEOREM InhibitorAlwaysKeepsUp == InhibitSpec => []InhibitorKeepsUp
<1>1. InhibitInv => InhibitorKeepsUp
  BY InhibitInvIsEnough
<1>2. QED
  BY InhibitorInvariant, <1>1, PTL
=============================================================================
