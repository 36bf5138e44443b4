-------------------------- MODULE TdpManagerProofs --------------------------
(***************************************************************************)
(* Proofs about TdpManager, for every set of identifiers and limits.       *)
(***************************************************************************)
EXTENDS TdpManager, TLAPS

\* What the await a handler is suspended at says of the rest of the state.
Suspended ==
    /\ serving # None => pc # "idle"
    /\ pc = "restore" => NoHandles /\ previous_limit # None
    /\ pc = "set_tdp_limit" => previous_limit # None

\* At most one change of proxy is under way, and it is one.
ProxyInQueue ==
    /\ \A k \in DOMAIN queue :
           queue[k].type = "SetProxy" => queue[k].proxy = ~active
    /\ \A k, l \in DOMAIN queue :
           queue[k].type = "SetProxy" /\ queue[l].type = "SetProxy" => k = l
    /\ Remote \/ \A k \in DOMAIN queue : queue[k].type # "SetProxy"

TInv == TypeOK /\ Suspended

-----------------------------------------------------------------------------
(* The type invariant.                                                     *)

LEMMA InitTInv == Init => TInv
<1> USE LimitAssumption, SwitchAssumption
<1> SUFFICES ASSUME Init PROVE TInv
  OBVIOUS
<1>1. TypeOK
  <2>1. queue \in Seq(Command)
    BY DEF Init
  <2>2. active \in BOOLEAN /\ fan \in {"Os", "Bios"}
    BY DEF Init
  <2>3. QED
    BY <2>1, <2>2 DEF Init, TypeOK, Awaits
<1>2. Suspended
  BY DEF Init, Suspended
<1>3. QED
  BY <1>1, <1>2 DEF TInv

\* What a return of update_download_mode leaves of the waiters.
LEMMA ReturnType ==
  ASSUME held \in [Ids -> Nat], closed \in [Ids -> Nat],
         serving \in Ids \cup {None}, NEW ok \in BOOLEAN, Return(ok)
  PROVE  /\ held' \in [Ids -> Nat] /\ closed' \in [Ids -> Nat]
         /\ pc' = "idle" /\ serving' = None
<1>1. CASE serving = None
  BY <1>1 DEF Return, waiters
<1>2. CASE serving # None /\ ok
  BY <1>2 DEF Return
<1>3. CASE serving # None /\ ~ok
  BY <1>3 DEF Return
<1>4. QED
  BY <1>1, <1>2, <1>3

LEMMA UpdateTInv == TInv /\ UpdateStep => TInv'
<1> USE LimitAssumption, SwitchAssumption
<1> SUFFICES ASSUME TInv, UpdateStep PROVE TInv'
  OBVIOUS
<1> USE DEF TInv, TypeOK, Suspended, Awaits, machine, waiters, NoHandles
<1>1. \A ok \in BOOLEAN : Return(ok) =>
          /\ held' \in [Ids -> Nat] /\ closed' \in [Ids -> Nat]
          /\ pc' = "idle" /\ serving' = None
  BY ReturnType
<1>2. CASE IsActive
  BY <1>1, <1>2 DEF IsActive, Resume
<1>3. CASE GetTdpLimit
  BY <1>1, <1>3 DEF GetTdpLimit, Resume, LeaveFan, EnterFan, Reading
<1>4. CASE GetTdpLimitFails
  BY <1>1, <1>4 DEF GetTdpLimitFails
<1>5. CASE RestoreLimit
  BY <1>1, <1>5 DEF RestoreLimit, Resume, LeaveFan, CallSetLimit,
                    CallSetLimitFails, PutLimit
<1>6. CASE RestartFan
  BY <1>1, <1>6 DEF RestartFan
<1>7. CASE ApplyDownloadLimit
  BY <1>1, <1>7 DEF ApplyDownloadLimit, Resume, EnterFan, CallSetLimit,
                    CallSetLimitFails, PutLimit
<1>8. CASE FanControlState
  BY <1>1, <1>8 DEF FanControlState, Resume
<1>9. CASE StopFan
  BY <1>1, <1>9 DEF StopFan, Resume
<1>10. CASE SetFanSpeed
  BY <1>1, <1>10 DEF SetFanSpeed
<1>11. QED
  BY <1>2, <1>3, <1>4, <1>5, <1>6, <1>7, <1>8, <1>9, <1>10 DEF UpdateStep

LEMMA TakeType ==
  ASSUME queue \in Seq(Command), NEW c, TakeCommand(c)
  PROVE  queue' \in Seq(Command)
BY DEF TakeCommand

LEMMA HandleTInv == TInv /\ HandleCommand => TInv'
<1> USE LimitAssumption, SwitchAssumption
<1> SUFFICES ASSUME TInv, HandleCommand PROVE TInv'
  OBVIOUS
<1> USE DEF TInv, TypeOK, Suspended, machine, waiters, NoHandles, TakeCommand
<1>1. ASSUME NEW l \in Limits, HandleSetTdpLimit(l) PROVE TInv'
  <2>1. queue' \in Seq(Command) /\ pc = "idle"
    BY <1>1, TakeType DEF HandleSetTdpLimit
  <2>2. cached_limit' \in Limits /\ limit' \in Limits /\ low' \in BOOLEAN
    BY <1>1 DEF HandleSetTdpLimit, CallSetLimit, CallSetLimitFails, PutLimit
  <2>3. QED
    BY <1>1, <2>1, <2>2 DEF HandleSetTdpLimit
<1>2. CASE HandleUpdateDownloadMode
  BY <1>2 DEF HandleUpdateDownloadMode, Resume, Awaits
<1>3. ASSUME NEW i \in Ids, HandleEnterDownloadMode(i) PROVE TInv'
  BY SMTT(30), <1>3 DEF HandleEnterDownloadMode, Awaits
<1>4. ASSUME NEW p \in BOOLEAN, HandleSetProxy(p) PROVE TInv'
  <2>1. queue' \in Seq(Command) /\ pc = "idle"
    BY <1>4, TakeType DEF HandleSetProxy
  <2>2. active' \in BOOLEAN /\ limit' \in Limits /\ low' \in BOOLEAN
    BY <1>4 DEF HandleSetProxy, PutLimit
  <2>3. QED
    BY <1>4, <2>1, <2>2 DEF HandleSetProxy
<1>5. QED
  BY <1>1, <1>2, <1>3, <1>4 DEF HandleCommand

LEMMA SendType ==
  ASSUME queue \in Seq(Command), NEW c \in Command, Send(c)
  PROVE  queue' \in Seq(Command)
BY DEF Send

LEMMA OthersTInv ==
  ASSUME TInv,
         \/ \E i \in Ids : JoinWaiter(i) \/ CloseHandle(i)
         \/ Request \/ ProxyChanges \/ SwitchProfile \/ AnnounceProfile \/ Crash
  PROVE  TInv'
<1> USE LimitAssumption, SwitchAssumption
<1> USE DEF TInv, TypeOK, Suspended, machine, waiters, service, NoHandles
<1>1. ASSUME NEW i \in Ids, JoinWaiter(i) PROVE TInv'
  <2>1. pc = "idle" /\ pc' \in {"idle", "is_active"} /\ serving' = serving
    BY <1>1 DEF JoinWaiter
  <2>2. closed' \in [Ids -> Nat]
    BY <1>1 DEF JoinWaiter
  <2>3. CASE download_handles[i] = 0
    BY <1>1, <2>1, <2>2, <2>3 DEF JoinWaiter
  <2>4. CASE download_handles[i] # 0
    <3>1. download_handles' = [download_handles EXCEPT ![i] = @ - 1]
      BY <1>1, <2>4 DEF JoinWaiter
    <3>2. download_handles' \in [Ids -> Nat]
      BY SMTT(30), <2>4, <3>1
    <3>3. QED
      BY <1>1, <2>1, <2>2, <3>2 DEF JoinWaiter, Awaits
  <2>5. QED
    BY <2>3, <2>4
<1>2. ASSUME NEW i \in Ids, CloseHandle(i) PROVE TInv'
  BY SMTT(30), <1>2 DEF CloseHandle
<1>3. ASSUME NEW c \in Command, Send(c), UNCHANGED machine PROVE TInv'
  BY <1>3, SendType DEF Send
<1>4. CASE Request
  BY <1>3, <1>4 DEF Request, Command
<1>5. CASE ProxyChanges
  BY <1>3, <1>5 DEF ProxyChanges, Command
<1>6. CASE SwitchProfile
  BY <1>6 DEF SwitchProfile, PutLimit
<1>7. CASE AnnounceProfile
  <2>1. CASE Send(UpdateDownloadMode)
    <3>1. UpdateDownloadMode \in Command
      BY DEF Command
    <3>2. queue' \in Seq(Command)
      BY <2>1, <3>1, SendType
    <3>3. QED
      BY <2>1, <3>2, <1>7 DEF AnnounceProfile, Send
  <2>2. CASE UNCHANGED <<service, waiters>>
    BY <2>2, <1>7 DEF AnnounceProfile
  <2>3. QED
    BY <2>1, <2>2, <1>7 DEF AnnounceProfile
<1>8. CASE Crash
  <2>1. queue' \in Seq(Command)
    BY <1>8 DEF Crash
  <2>2. QED
    BY <2>1, <1>8 DEF Crash, Awaits
<1>9. QED
  BY <1>1, <1>2, <1>4, <1>5, <1>6, <1>7, <1>8

LEMMA NextTInv == TInv /\ [Next]_vars => TInv'
<1>1. TInv /\ UNCHANGED vars => TInv'
  BY DEF TInv, TypeOK, Suspended, NoHandles, vars, service, waiters, machine
<1>2. QED
  BY <1>1, UpdateTInv, HandleTInv, OthersTInv DEF Next

\* Every variable keeps its type in every execution, and a suspended handler
\* finds what it left.
THEOREM TypeCorrect == Spec => []TypeOK
<1>1. Spec => []TInv
  BY InitTInv, NextTInv, PTL DEF Spec
<1>2. TInv => TypeOK
  BY DEF TInv
<1>3. QED
  BY <1>1, <1>2, PTL

-----------------------------------------------------------------------------
(* The handles are counted right.                                          *)

\* Every step of an update goes on to the next await or returns.
LEMMA UpdateShape ==
  ASSUME UpdateStep
  PROVE  /\ UNCHANGED <<queue, download_handles>>
         /\ \/ UNCHANGED <<serving, held, closed>>
            \/ \E ok \in BOOLEAN : Return(ok)
<1> USE DEF Resume, waiters, LeaveFan, EnterFan, machine
<1>1. CASE IsActive
  BY <1>1 DEF IsActive
<1>2. CASE GetTdpLimit
  BY <1>2 DEF GetTdpLimit
<1>3. CASE GetTdpLimitFails
  BY <1>3 DEF GetTdpLimitFails
<1>4. CASE RestoreLimit
  BY <1>4 DEF RestoreLimit
<1>5. CASE RestartFan
  BY <1>5 DEF RestartFan
<1>6. CASE ApplyDownloadLimit
  BY <1>6 DEF ApplyDownloadLimit
<1>7. CASE FanControlState
  BY <1>7 DEF FanControlState
<1>8. CASE StopFan
  BY <1>8 DEF StopFan
<1>9. CASE SetFanSpeed
  BY <1>9 DEF SetFanSpeed
<1>10. QED
  BY <1>1, <1>2, <1>3, <1>4, <1>5, <1>6, <1>7, <1>8, <1>9 DEF UpdateStep

LEMMA ReturnAccounting ==
  ASSUME TInv, HandleAccounting, NEW ok \in BOOLEAN, Return(ok),
         UNCHANGED download_handles
  PROVE  HandleAccounting'
<1> USE LimitAssumption DEF TInv, TypeOK, HandleAccounting
<1>1. CASE serving = None
  BY <1>1 DEF Return, waiters
<1>2. CASE serving # None /\ ok
  <2>1. /\ held' = [held EXCEPT ![serving] = @ + 1]
        /\ closed' = closed /\ serving' = None
    BY <1>2 DEF Return
  <2>2. ASSUME NEW j \in Ids
        PROVE  download_handles[j] = held'[j] + closed[j]
    <3>1. CASE j = serving
      BY <1>2, <2>1, <3>1
    <3>2. CASE j # serving
      BY <1>2, <2>1, <3>2
    <3>3. QED
      BY <3>1, <3>2
  <2>3. QED
    BY SMTT(30), <2>1, <2>2
<1>3. CASE serving # None /\ ~ok
  <2>1. /\ closed' = [closed EXCEPT ![serving] = @ + 1]
        /\ held' = held /\ serving' = None
    BY <1>3 DEF Return
  <2>2. ASSUME NEW j \in Ids
        PROVE  download_handles[j] = held[j] + closed'[j]
    <3>1. CASE j = serving
      BY <1>3, <2>1, <3>1
    <3>2. CASE j # serving
      BY <1>3, <2>1, <3>2
    <3>3. QED
      BY <3>1, <3>2
  <2>3. QED
    BY SMTT(30), <2>1, <2>2
<1>4. QED
  BY <1>1, <1>2, <1>3

LEMMA NextAccounting == TInv /\ HandleAccounting /\ [Next]_vars => HandleAccounting'
<1> SUFFICES ASSUME TInv, HandleAccounting, [Next]_vars PROVE HandleAccounting'
  OBVIOUS
<1> USE LimitAssumption
<1>1. ASSUME UNCHANGED <<download_handles, serving, held, closed>>
      PROVE  HandleAccounting'
  BY <1>1 DEF HandleAccounting
<1>2. CASE UpdateStep
  BY <1>1, <1>2, UpdateShape, ReturnAccounting
<1>3. CASE HandleCommand
  <2>1. ASSUME NEW l \in Limits, HandleSetTdpLimit(l) PROVE HandleAccounting'
    BY <1>1, <2>1 DEF HandleSetTdpLimit, waiters
  <2>2. CASE HandleUpdateDownloadMode
    BY <1>1, <2>2 DEF HandleUpdateDownloadMode, Resume, waiters
  <2>3. ASSUME NEW i \in Ids, HandleEnterDownloadMode(i) PROVE HandleAccounting'
    <3>1. serving = None
      BY <2>3 DEF HandleEnterDownloadMode, TakeCommand, TInv, Suspended
    <3>2. /\ download_handles' = [download_handles EXCEPT ![i] = @ + 1]
          /\ serving' = i /\ held' = held /\ closed' = closed
      BY <2>3 DEF HandleEnterDownloadMode, waiters
    <3>3. ASSUME NEW j \in Ids
          PROVE  download_handles'[j] = held'[j] + closed'[j]
                     + (IF serving' = j THEN 1 ELSE 0)
      <4>1. CASE j = i
        <5>1. download_handles[i] = held[i] + closed[i]
          BY SMTT(30), <3>1 DEF HandleAccounting, TInv, TypeOK
        <5>2. download_handles'[i] = download_handles[i] + 1
          BY <3>2 DEF TInv, TypeOK
        <5>3. QED
          BY <3>2, <4>1, <5>1, <5>2 DEF TInv, TypeOK
      <4>2. CASE j # i
        BY <3>1, <3>2, <4>2 DEF HandleAccounting, TInv, TypeOK
      <4>3. QED
        BY <4>1, <4>2
    <3>4. QED
      BY <3>3 DEF HandleAccounting
  <2>4. ASSUME NEW p \in BOOLEAN, HandleSetProxy(p) PROVE HandleAccounting'
    BY <1>1, <2>4 DEF HandleSetProxy, waiters
  <2>5. QED
    BY <1>3, <2>1, <2>2, <2>3, <2>4 DEF HandleCommand
<1>4. ASSUME NEW i \in Ids, JoinWaiter(i) PROVE HandleAccounting'
  <2>1. download_handles[i] # 0 /\ serving = None /\ serving' = None
    BY SMTT(30), <1>4 DEF JoinWaiter, HandleAccounting, TInv, TypeOK, Suspended
  <2>2. /\ download_handles' = [download_handles EXCEPT ![i] = @ - 1]
        /\ closed' = [closed EXCEPT ![i] = @ - 1]
        /\ held' = held
    BY <1>4, <2>1 DEF JoinWaiter
  <2>3. ASSUME NEW j \in Ids
        PROVE  download_handles'[j] = held'[j] + closed'[j]
                   + (IF serving' = j THEN 1 ELSE 0)
    <3>1. CASE j = i
      BY <2>1, <2>2, <3>1 DEF HandleAccounting, TInv, TypeOK
    <3>2. CASE j # i
      BY <2>1, <2>2, <3>2 DEF HandleAccounting, TInv, TypeOK
    <3>3. QED
      BY <3>1, <3>2
  <2>4. QED
    BY <2>3 DEF HandleAccounting
<1>5. ASSUME NEW i \in Ids, CloseHandle(i) PROVE HandleAccounting'
  <2>1. /\ held' = [held EXCEPT ![i] = @ - 1]
        /\ closed' = [closed EXCEPT ![i] = @ + 1]
        /\ download_handles' = download_handles /\ serving' = serving
    BY <1>5 DEF CloseHandle, service
  <2>2. ASSUME NEW j \in Ids
        PROVE  download_handles'[j] = held'[j] + closed'[j]
                   + (IF serving' = j THEN 1 ELSE 0)
    <3>1. CASE j = i
      BY <1>5, <2>1, <3>1 DEF HandleAccounting, TInv, TypeOK
    <3>2. CASE j # i
      BY <1>5, <2>1, <3>2 DEF HandleAccounting, TInv, TypeOK
    <3>3. QED
      BY <3>1, <3>2
  <2>3. QED
    BY <2>2 DEF HandleAccounting
<1>6. ASSUME NEW c, Send(c) PROVE HandleAccounting'
  BY <1>1, <1>6 DEF Send, waiters
<1>7. CASE Request
  BY <1>6, <1>7 DEF Request
<1>8. CASE ProxyChanges
  BY <1>6, <1>8 DEF ProxyChanges
<1>9. CASE SwitchProfile
  BY <1>1, <1>9 DEF SwitchProfile, service, waiters
<1>10. CASE AnnounceProfile
  BY <1>1, <1>6, <1>10 DEF AnnounceProfile, service, waiters
<1>11. CASE Crash
  BY <1>11 DEF Crash, HandleAccounting
<1>12. CASE UNCHANGED vars
  BY <1>1, <1>12 DEF vars, service, waiters
<1>13. QED
  BY <1>2, <1>3, <1>4, <1>5, <1>7, <1>8, <1>9, <1>10, <1>11, <1>12 DEF Next

\* Whatever fails, however handles are obtained, closed and joined, and through
\* any restart, the map counts the waiters of every identifier exactly.
THEOREM HandlesAccounted == Spec => [](TInv /\ HandleAccounting)
<1>1. Init => HandleAccounting
  BY LimitAssumption DEF Init, HandleAccounting
<1>2. QED
  BY <1>1, InitTInv, NextTInv, NextAccounting, PTL DEF Spec

-----------------------------------------------------------------------------
(* The limit to restore is never lost while the user daemon runs.          *)

LEMMA NextRemembered ==
  TInv /\ ~Crashes /\ LimitIsRemembered /\ [Next]_vars => LimitIsRemembered'
<1> SUFFICES ASSUME TInv, ~Crashes, LimitIsRemembered, [Next]_vars
             PROVE  LimitIsRemembered'
  OBVIOUS
<1> USE LimitAssumption DEF LimitIsRemembered, TInv, TypeOK, Suspended, machine
<1>1. CASE UpdateStep
  <2>1. CASE IsActive
    BY <2>1 DEF IsActive
  <2>2. CASE GetTdpLimit
    BY <2>2 DEF GetTdpLimit, Reading
  <2>3. CASE GetTdpLimitFails
    BY <2>3 DEF GetTdpLimitFails
  <2>4. CASE RestoreLimit
    BY <2>4 DEF RestoreLimit, CallSetLimit, CallSetLimitFails, PutLimit
  <2>5. CASE RestartFan
    BY <2>5 DEF RestartFan
  <2>6. CASE ApplyDownloadLimit
    BY <2>6 DEF ApplyDownloadLimit
  <2>7. CASE FanControlState
    BY <2>7 DEF FanControlState
  <2>8. CASE StopFan
    BY <2>8 DEF StopFan
  <2>9. CASE SetFanSpeed
    BY <2>9 DEF SetFanSpeed
  <2>10. QED
    BY <1>1, <2>1, <2>2, <2>3, <2>4, <2>5, <2>6, <2>7, <2>8, <2>9 DEF UpdateStep
<1>2. CASE HandleCommand
  <2>1. ASSUME NEW l \in Limits, HandleSetTdpLimit(l) PROVE LimitIsRemembered'
    BY <2>1 DEF HandleSetTdpLimit, CallSetLimit, CallSetLimitFails, PutLimit
  <2>2. CASE HandleUpdateDownloadMode
    BY <2>2 DEF HandleUpdateDownloadMode
  <2>3. ASSUME NEW i \in Ids, HandleEnterDownloadMode(i) PROVE LimitIsRemembered'
    BY <2>3 DEF HandleEnterDownloadMode
  <2>4. ASSUME NEW p \in BOOLEAN, HandleSetProxy(p) PROVE LimitIsRemembered'
    BY <2>4 DEF HandleSetProxy, PutLimit
  <2>5. QED
    BY <1>2, <2>1, <2>2, <2>3, <2>4 DEF HandleCommand
<1>3. ASSUME NEW i \in Ids, JoinWaiter(i) \/ CloseHandle(i)
      PROVE  LimitIsRemembered'
  BY <1>3 DEF JoinWaiter, CloseHandle, service
<1>4. CASE Request \/ ProxyChanges
  BY <1>4 DEF Request, ProxyChanges, Send
<1>5. CASE SwitchProfile \/ AnnounceProfile
  BY <1>5 DEF SwitchProfile, AnnounceProfile, PutLimit, Send, service
<1>6. CASE Crash
  BY <1>6 DEF Crash
<1>7. CASE UNCHANGED vars
  BY <1>7 DEF vars, service
<1>8. QED
  BY <1>1, <1>2, <1>3, <1>4, <1>5, <1>6, <1>7 DEF Next

\* As long as the user daemon runs, failed calls, lost replies and changes of
\* profile or proxy never make it forget, or overwrite with its own limit,
\* the limit it has to restore.
THEOREM LimitAlwaysRemembered ==
  ASSUME ~Crashes
  PROVE  Spec => []LimitIsRemembered
<1>1. Init => LimitIsRemembered
  BY DEF Init, LimitIsRemembered
<1>2. TInv /\ LimitIsRemembered /\ [Next]_vars => LimitIsRemembered'
  BY NextRemembered
<1>3. QED
  BY <1>1, <1>2, InitTInv, NextTInv, PTL DEF Spec

-----------------------------------------------------------------------------
(* The mode is kept while a client holds a handle.                         *)

LEMMA TakeShifts ==
  ASSUME queue \in Seq(Command), NEW c, TakeCommand(c)
  PROVE  /\ queue[1] = c /\ 1 \in DOMAIN queue
         /\ \A k \in DOMAIN queue' : k + 1 \in DOMAIN queue
                                   /\ queue'[k] = queue[k + 1]
BY DEF TakeCommand

LEMMA TakeKeepsProxy ==
  ASSUME TypeOK, ProxyInQueue, NEW c, TakeCommand(c), UNCHANGED active
  PROVE  ProxyInQueue'
<1>1. \A k \in DOMAIN queue' : k + 1 \in DOMAIN queue /\ queue'[k] = queue[k + 1]
  BY TakeShifts DEF TypeOK
<1>2. queue' \in Seq(Command)
  BY TakeType DEF TypeOK
<1>3. \A k, l \in DOMAIN queue' : k + 1 = l + 1 => k = l
  BY <1>2
<1>4. QED
  BY <1>1, <1>3 DEF ProxyInQueue

LEMMA SendKeepsProxy ==
  ASSUME TypeOK, ProxyInQueue, NEW c, Send(c), c.type # "SetProxy",
         UNCHANGED active
  PROVE  ProxyInQueue'
<1>1. /\ DOMAIN queue' = DOMAIN queue \cup {Len(queue) + 1}
      /\ \A k \in DOMAIN queue : queue'[k] = queue[k]
      /\ queue'[Len(queue) + 1] = c
  BY DEF Send, TypeOK
<1>2. QED
  BY <1>1 DEF ProxyInQueue

LEMMA SameProxy ==
  ASSUME ProxyInQueue, UNCHANGED <<queue, active>>
  PROVE  ProxyInQueue'
BY DEF ProxyInQueue

LEMMA NextProxy == TInv /\ ProxyInQueue /\ [Next]_vars => ProxyInQueue'
<1> SUFFICES ASSUME TInv, ProxyInQueue, [Next]_vars PROVE ProxyInQueue'
  OBVIOUS
<1>0. TypeOK
  BY DEF TInv
<1>1. CASE UpdateStep
  <2>1. UNCHANGED <<queue, active>>
    BY <1>1 DEF UpdateStep, IsActive, GetTdpLimit, GetTdpLimitFails, RestoreLimit,
                RestartFan, ApplyDownloadLimit, FanControlState, StopFan,
                SetFanSpeed, machine
  <2>2. QED
    BY <2>1, SameProxy
<1>2. CASE HandleCommand
  <2>1. ASSUME NEW l \in Limits, HandleSetTdpLimit(l) PROVE ProxyInQueue'
    BY <1>0, <2>1, TakeKeepsProxy DEF HandleSetTdpLimit
  <2>2. CASE HandleUpdateDownloadMode
    BY <1>0, <2>2, TakeKeepsProxy DEF HandleUpdateDownloadMode, machine
  <2>3. ASSUME NEW i \in Ids, HandleEnterDownloadMode(i) PROVE ProxyInQueue'
    BY <1>0, <2>3, TakeKeepsProxy DEF HandleEnterDownloadMode, machine
  <2>4. ASSUME NEW p \in BOOLEAN, HandleSetProxy(p) PROVE ProxyInQueue'
    <3>1. TakeCommand(SetProxy(p))
      BY <2>4 DEF HandleSetProxy
    <3>2. /\ queue[1].type = "SetProxy" /\ 1 \in DOMAIN queue
          /\ \A k \in DOMAIN queue' : k + 1 \in DOMAIN queue
                                    /\ queue'[k] = queue[k + 1]
      BY <1>0, <3>1, TakeShifts DEF TypeOK, SetProxy
    <3>3. queue' \in Seq(Command)
      BY <1>0, <3>1, TakeType DEF TypeOK
    <3>4. \A k \in DOMAIN queue' : k + 1 # 1
      BY <3>3
    <3>5. \A k \in DOMAIN queue' : queue'[k].type # "SetProxy"
      BY <3>2, <3>4 DEF ProxyInQueue
    <3>6. QED
      BY <3>5 DEF ProxyInQueue
  <2>5. QED
    BY <1>2, <2>1, <2>2, <2>3, <2>4 DEF HandleCommand
<1>3. ASSUME NEW i \in Ids, JoinWaiter(i) \/ CloseHandle(i) PROVE ProxyInQueue'
  BY <1>3, SameProxy DEF JoinWaiter, CloseHandle, service, machine
<1>4. CASE Request
  <2>1. UNCHANGED active
    BY <1>4 DEF Request, machine
  <2>2. ASSUME NEW l \in Limits, Send(SetTdpLimit(l)) PROVE ProxyInQueue'
    <3>1. SetTdpLimit(l).type # "SetProxy"
      BY DEF SetTdpLimit
    <3>2. QED
      BY <1>0, <2>1, <2>2, <3>1, SendKeepsProxy
  <2>3. ASSUME NEW i \in Ids, Send(EnterDownloadMode(i)) PROVE ProxyInQueue'
    <3>1. EnterDownloadMode(i).type # "SetProxy"
      BY DEF EnterDownloadMode
    <3>2. QED
      BY <1>0, <2>1, <2>3, <3>1, SendKeepsProxy
  <2>4. QED
    BY <1>4, <2>2, <2>3 DEF Request
<1>5. CASE ProxyChanges
  <2>1. /\ DOMAIN queue' = DOMAIN queue \cup {Len(queue) + 1}
        /\ \A k \in DOMAIN queue : queue'[k] = queue[k]
        /\ queue'[Len(queue) + 1] = SetProxy(~active)
    BY <1>0, <1>5 DEF ProxyChanges, Send, TypeOK
  <2>2. /\ Remote /\ active' = active
        /\ \A k \in DOMAIN queue : queue[k].type # "SetProxy"
    BY <1>5 DEF ProxyChanges, machine
  <2>3. SetProxy(~active).proxy = ~active
    BY DEF SetProxy
  <2>4. QED
    BY <2>1, <2>2, <2>3 DEF ProxyInQueue
<1>6. CASE SwitchProfile
  <2>1. \A k \in DOMAIN queue : queue[k].type # "SetProxy"
    BY <1>6, SwitchAssumption DEF SwitchProfile, ProxyInQueue
  <2>2. queue' = queue
    BY <1>6 DEF SwitchProfile, service
  <2>3. QED
    BY <2>1, <2>2 DEF ProxyInQueue
<1>7. CASE AnnounceProfile
  <2>1. UNCHANGED active
    BY <1>7 DEF AnnounceProfile
  <2>2. CASE Send(UpdateDownloadMode)
    BY <1>0, <2>1, <2>2, SendKeepsProxy DEF UpdateDownloadMode
  <2>3. CASE UNCHANGED service
    BY <2>1, <2>3, SameProxy DEF service
  <2>4. QED
    BY <1>7, <2>2, <2>3 DEF AnnounceProfile
<1>8. CASE Crash
  BY <1>8 DEF Crash, ProxyInQueue
<1>9. CASE UNCHANGED vars
  BY <1>9, SameProxy DEF vars, service, machine
<1>10. QED
  BY <1>1, <1>2, <1>3, <1>4, <1>5, <1>6, <1>7, <1>8, <1>9 DEF Next

\* Without a handle in the map, no client holds one.
LEMMA NoHandlesNoneHeld ==
  ASSUME TInv, HandleAccounting, NoHandles
  PROVE  \A i \in Ids : held[i] = 0
<1>1. ASSUME NEW i \in Ids PROVE held[i] = 0
  <2>1. held[i] \in Nat /\ closed[i] \in Nat /\ download_handles[i] = 0
    BY DEF TInv, TypeOK, NoHandles
  <2>2. QED
    BY <2>1 DEF HandleAccounting
<1>2. QED
  BY <1>1

LEMMA StepKeepsMode ==
  ASSUME TInv, HandleAccounting, ProxyInQueue, Next, low, ~low', UNCHANGED active
  PROVE  \A i \in Ids : held[i] = 0
<1>1. CASE UpdateStep
  <2>1. CASE RestoreLimit
    BY <2>1, NoHandlesNoneHeld DEF RestoreLimit, TInv, Suspended
  <2>2. CASE ApplyDownloadLimit
    BY <2>2 DEF ApplyDownloadLimit, CallSetLimit, CallSetLimitFails, PutLimit
  <2>3. QED
    BY <1>1, <2>1, <2>2 DEF UpdateStep, IsActive, GetTdpLimit, GetTdpLimitFails,
       RestartFan, FanControlState, StopFan, SetFanSpeed, machine
<1>2. CASE HandleCommand
  <2>1. ASSUME NEW l \in Limits, HandleSetTdpLimit(l) PROVE NoHandles
    BY <2>1 DEF HandleSetTdpLimit
  <2>2. ASSUME NEW p \in BOOLEAN, HandleSetProxy(p) PROVE FALSE
    <3>1. TakeCommand(SetProxy(p))
      BY <2>2 DEF HandleSetProxy
    <3>2. queue[1] = SetProxy(p) /\ 1 \in DOMAIN queue
      BY <3>1, TakeShifts DEF TInv, TypeOK
    <3>3. p = ~active
      BY <3>2 DEF ProxyInQueue, SetProxy
    <3>4. Remote => active' = p
      BY <2>2 DEF HandleSetProxy
    <3>5. ~Remote => low' = low
      BY <2>2 DEF HandleSetProxy
    <3>6. active \in BOOLEAN
      BY DEF TInv, TypeOK
    <3>7. QED
      BY <3>3, <3>4, <3>5, <3>6
  <2>3. QED
    BY <1>2, <2>1, <2>2, NoHandlesNoneHeld DEF HandleCommand,
       HandleUpdateDownloadMode, HandleEnterDownloadMode, machine
<1>3. CASE \E i \in Ids : JoinWaiter(i) \/ CloseHandle(i)
  BY <1>3 DEF JoinWaiter, CloseHandle, machine
<1>4. CASE Request \/ ProxyChanges \/ Crash \/ AnnounceProfile
  BY <1>4 DEF Request, ProxyChanges, Crash, AnnounceProfile, machine
<1>5. CASE SwitchProfile
  <2>1. active' = ~active /\ active' = active
    BY <1>5 DEF SwitchProfile
  <2>2. CASE active = TRUE
    BY <2>1, <2>2
  <2>3. CASE active = FALSE
    BY <2>1, <2>3
  <2>4. QED
    BY <2>2, <2>3 DEF TInv, TypeOK
<1>6. QED
  BY <1>1, <1>2, <1>3, <1>4, <1>5 DEF Next

\* The service never undoes the mode under a client that holds a handle.
THEOREM ModeKept == Spec => ModeKeptWhileHeld
<1>1. Init => ProxyInQueue
  BY DEF Init, ProxyInQueue
<1>2. /\ TInv /\ HandleAccounting /\ ProxyInQueue /\ [Next]_vars
      => [low /\ ~low' /\ UNCHANGED active => \A i \in Ids : held[i] = 0]_vars
  BY StepKeepsMode
<1>3. Spec => []ProxyInQueue
  <2>1. Spec => []TInv
    BY InitTInv, NextTInv, PTL DEF Spec
  <2>2. QED
    BY <1>1, <2>1, NextProxy, PTL DEF Spec
<1>4. QED
  BY <1>2, <1>3, HandlesAccounted, PTL DEF Spec, ModeKeptWhileHeld

-----------------------------------------------------------------------------
(* A service whose calls succeed implements the low power lock.            *)

\* The interface is the machine's own, reads back what it was set to and is
\* always active, no call fails and the user daemon is not restarted.
Reliable == ~CallsFail /\ ~ProfileSwitches /\ ~Crashes /\ ~Remote /\ ~CachedLimit

\* What is known of the saved limit at each await.
Saved ==
    /\ active = TRUE
    /\ pc = "idle" => (previous_limit = None <=> NoHandles)
    /\ pc = "idle" /\ NoHandles => ~restart_fan_control_service
    /\ previous_limit # None /\ pc # "set_tdp_limit" => limit = DownloadLimit
    /\ pc = "set_tdp_limit" => limit = previous_limit
    /\ pc \in {"set_tdp_limit", "fan_control_state", "stop_fan", "set_fan_speed"}
           => ~NoHandles /\ previous_limit # None
    /\ pc = "restart_fan" => NoHandles /\ previous_limit = None

RInv == TInv /\ HandleAccounting /\ Saved

LEMMA InitSaved == Reliable /\ Init => Saved
BY DEF Reliable, Init, Saved, NoHandles

\* Under Reliable an awaited call does what it says.
LEMMA UpdateSaved ==
  ASSUME Reliable, TInv, Saved, UpdateStep
  PROVE  Saved'
<1> USE LimitAssumption DEF Reliable, Saved, Suspended, TInv, machine, NoHandles
<1>0. \A ok \in BOOLEAN : Return(ok) => pc' = "idle"
  BY DEF Return
<1>1. CASE IsActive
  BY <1>1 DEF IsActive, Resume
<1>2. CASE GetTdpLimit
  BY <1>0, <1>2 DEF GetTdpLimit, Resume, LeaveFan, EnterFan, Reading, TypeOK
<1>3. CASE GetTdpLimitFails
  BY <1>3 DEF GetTdpLimitFails
<1>4. CASE RestoreLimit
  BY <1>0, <1>4 DEF RestoreLimit, Resume, LeaveFan, CallSetLimit,
                    CallSetLimitFails, PutLimit
<1>5. CASE RestartFan
  BY <1>0, <1>5 DEF RestartFan
<1>6. CASE ApplyDownloadLimit
  BY <1>0, <1>6 DEF ApplyDownloadLimit, Resume, EnterFan, CallSetLimit,
                    CallSetLimitFails, PutLimit
<1>7. CASE FanControlState
  BY <1>7 DEF FanControlState, Resume
<1>8. CASE StopFan
  BY <1>8 DEF StopFan, Resume
<1>9. CASE SetFanSpeed
  BY <1>0, <1>9 DEF SetFanSpeed
<1>10. QED
  BY <1>1, <1>2, <1>3, <1>4, <1>5, <1>6, <1>7, <1>8, <1>9 DEF UpdateStep

\* The identifier of a joined waiter has a handle in the map.
LEMMA JoinShape ==
  ASSUME TInv, HandleAccounting, NEW i \in Ids, JoinWaiter(i)
  PROVE  /\ pc = "idle" /\ download_handles[i] # 0
         /\ download_handles' = [download_handles EXCEPT ![i] = @ - 1]
         /\ pc' = IF download_handles[i] = 1 /\ NoHandles'
                  THEN "is_active" ELSE "idle"
         /\ UNCHANGED <<previous_limit, restart_fan_control_service, active, limit>>
<1>1. closed[i] > 0 /\ closed[i] \in Nat /\ held[i] \in Nat
  BY DEF JoinWaiter, TInv, TypeOK
<1>2. download_handles[i] # 0
  BY <1>1 DEF HandleAccounting
<1>3. QED
  BY <1>2 DEF JoinWaiter, machine

LEMMA NextSaved == Reliable /\ RInv /\ [Next]_vars => Saved'
<1> SUFFICES ASSUME Reliable, RInv, [Next]_vars PROVE Saved'
  OBVIOUS
<1> USE LimitAssumption DEF Reliable, RInv
<1>1. CASE UpdateStep
  BY <1>1, UpdateSaved
<1>2. ASSUME UNCHANGED <<active, pc, previous_limit, download_handles, limit,
                         restart_fan_control_service>>
      PROVE  Saved'
  BY <1>2 DEF Saved, NoHandles
<1>3. CASE HandleCommand
  <2>1. ASSUME NEW l \in Limits, HandleSetTdpLimit(l) PROVE Saved'
    <3>1. /\ pc = "idle" /\ pc' = "idle"
          /\ UNCHANGED <<download_handles, previous_limit, active,
                         restart_fan_control_service>>
      BY <2>1 DEF HandleSetTdpLimit, TakeCommand
    <3>2. NoHandles \/ limit' = limit
      BY <2>1 DEF HandleSetTdpLimit
    <3>3. QED
      BY <3>1, <3>2 DEF Saved, NoHandles
  <2>2. CASE HandleUpdateDownloadMode
    BY <2>2 DEF HandleUpdateDownloadMode, TakeCommand, Resume, Saved, NoHandles,
                machine
  <2>3. ASSUME NEW i \in Ids, HandleEnterDownloadMode(i) PROVE Saved'
    BY <2>3 DEF HandleEnterDownloadMode, TakeCommand, Saved, machine
  <2>4. ASSUME NEW p \in BOOLEAN, HandleSetProxy(p) PROVE Saved'
    BY <1>2, <2>4 DEF HandleSetProxy
  <2>5. QED
    BY <1>3, <2>1, <2>2, <2>3, <2>4 DEF HandleCommand
<1>4. ASSUME NEW i \in Ids, JoinWaiter(i) PROVE Saved'
  <2>1. /\ pc = "idle" /\ download_handles[i] # 0
        /\ download_handles' = [download_handles EXCEPT ![i] = @ - 1]
        /\ UNCHANGED <<previous_limit, restart_fan_control_service, active, limit>>
    BY <1>4, JoinShape
  <2>2. ~NoHandles
    BY <2>1 DEF NoHandles
  <2>3. CASE download_handles[i] = 1 /\ NoHandles'
    <3>1. pc' = "is_active"
      BY <1>4, <2>3 DEF JoinWaiter
    <3>2. QED
      BY <2>1, <3>1 DEF Saved
  <2>4. CASE ~(download_handles[i] = 1 /\ NoHandles')
    <3>1. pc' = "idle"
      BY <1>4, <2>1, <2>4 DEF JoinWaiter
    <3>2. CASE download_handles[i] = 1
      BY <2>1, <2>2, <2>4, <3>1, <3>2 DEF Saved
    <3>3. CASE download_handles[i] # 1
      <4>1. download_handles[i] \in Nat /\ download_handles'[i] = download_handles[i] - 1
        BY <2>1 DEF TInv, TypeOK
      <4>2. ~NoHandles'
        BY <2>1, <3>3, <4>1 DEF NoHandles
      <4>3. QED
        BY <2>1, <2>2, <3>1, <4>2 DEF Saved
    <3>4. QED
      BY <3>2, <3>3
  <2>5. QED
    BY <2>3, <2>4
<1>5. ASSUME NEW i \in Ids, CloseHandle(i) PROVE Saved'
  BY <1>2, <1>5 DEF CloseHandle, service, machine
<1>6. CASE Request \/ ProxyChanges
  BY <1>2, <1>6 DEF Request, ProxyChanges, Send, machine
<1>7. CASE AnnounceProfile
  BY <1>2, <1>7 DEF AnnounceProfile, Send, service
<1>8. CASE SwitchProfile \/ Crash
  BY <1>8 DEF SwitchProfile, Crash
<1>9. CASE UNCHANGED vars
  BY <1>2, <1>9 DEF vars, service, machine
<1>10. QED
  BY <1>1, <1>3, <1>4, <1>5, <1>6, <1>7, <1>8, <1>9 DEF Next

\* When no call fails, a service between two handlers that has no handle has
\* restored the limit and restarted fan control.
THEOREM NothingIsLeft ==
  ASSUME Reliable
  PROVE  Spec => []NothingLeftBehind
<1>1. RInv => NothingLeftBehind
  BY DEF RInv, Saved, NothingLeftBehind
<1>2. RInv /\ [Next]_vars => Saved'
  BY NextSaved
<1>3. Init => Saved
  BY InitSaved
<1>4. RInv <=> TInv /\ HandleAccounting /\ Saved
  BY DEF RInv
<1>5. QED
  BY <1>1, <1>2, <1>3, <1>4, HandlesAccounted, PTL DEF Spec

-----------------------------------------------------------------------------
(* Fan control, if no call fails and the user daemon stays.                *)

\* Whatever stops fan control or fixes the speed comes after the note.
FanIsNoted ==
    fan = "Bios" \/ fixedSpeed \/ pc = "set_fan_speed" => restart_fan_control_service

\* No handler but the update touches the fan or awaits its speed.
LEMMA OthersLeaveFan ==
  ASSUME ~Crashes, [Next]_vars, ~UpdateStep
  PROVE  /\ UNCHANGED <<fan, fixedSpeed, restart_fan_control_service>>
         /\ pc' = "set_fan_speed" => pc = "set_fan_speed"
<1> USE DEF machine, service, waiters
<1>1. CASE HandleCommand
  BY <1>1 DEF HandleCommand, HandleSetTdpLimit, HandleUpdateDownloadMode, Resume,
              HandleEnterDownloadMode, HandleSetProxy
<1>2. CASE \E i \in Ids : JoinWaiter(i) \/ CloseHandle(i)
  BY <1>2 DEF JoinWaiter, CloseHandle
<1>3. CASE Request \/ ProxyChanges \/ AnnounceProfile
  BY <1>3 DEF Request, ProxyChanges, AnnounceProfile, Send
<1>4. CASE SwitchProfile
  BY <1>4 DEF SwitchProfile
<1>5. CASE UNCHANGED vars
  BY <1>5 DEF vars
<1>6. QED
  BY <1>1, <1>2, <1>3, <1>4, <1>5 DEF Next, Crash

LEMMA UpdateNotesFan ==
  ASSUME ~CallsFail, FanIsNoted, UpdateStep
  PROVE  FanIsNoted'
<1> USE DEF FanIsNoted, machine
<1>0. \A ok \in BOOLEAN : Return(ok) => pc' = "idle"
  BY DEF Return
<1>1. CASE IsActive
  BY <1>0, <1>1 DEF IsActive, Resume
<1>2. CASE GetTdpLimit
  BY <1>0, <1>2 DEF GetTdpLimit, Resume, LeaveFan, EnterFan
<1>3. CASE GetTdpLimitFails
  BY <1>0, <1>3 DEF GetTdpLimitFails
<1>4. CASE RestoreLimit
  BY <1>0, <1>4 DEF RestoreLimit, Resume, LeaveFan
<1>5. CASE RestartFan
  BY <1>0, <1>5 DEF RestartFan
<1>6. CASE ApplyDownloadLimit
  BY <1>0, <1>6 DEF ApplyDownloadLimit, Resume, EnterFan
<1>7. CASE FanControlState
  BY <1>0, <1>7 DEF FanControlState, Resume
<1>8. CASE StopFan
  BY <1>0, <1>8 DEF StopFan, Resume
<1>9. CASE SetFanSpeed
  BY <1>0, <1>9 DEF SetFanSpeed
<1>10. QED
  BY <1>1, <1>2, <1>3, <1>4, <1>5, <1>6, <1>7, <1>8, <1>9 DEF UpdateStep

\* When no call fails and the user daemon is not restarted, fan control that ran
\* at the start is never stopped without the note to start it again, also if
\* limiting comes and goes with the profile or the proxy in the meantime.
THEOREM FanIsNeverForgotten ==
  ASSUME ~CallsFail, ~Crashes
  PROVE  Spec => FanNotForgotten
<1>1. Init /\ fan = "Os" => FanIsNoted
  BY DEF Init, FanIsNoted
<1>2. FanIsNoted /\ [Next]_vars => FanIsNoted'
  <2>1. FanIsNoted /\ UpdateStep => FanIsNoted'
    BY UpdateNotesFan
  <2>2. FanIsNoted /\ [Next]_vars /\ ~UpdateStep => FanIsNoted'
    BY OthersLeaveFan DEF FanIsNoted
  <2>3. QED
    BY <2>1, <2>2
<1>3. FanIsNoted => (fan = "Bios" \/ fixedSpeed => restart_fan_control_service)
  BY DEF FanIsNoted
<1>4. QED
  BY <1>1, <1>2, <1>3, PTL DEF Spec, FanNotForgotten

-----------------------------------------------------------------------------

LEMMA HeldIsHandles == ASSUME TInv PROVE LPL!Held <=> ~NoHandles
BY DEF TInv, TypeOK, NoHandles, LPL!Held

\* An update step is a Lock, an Unlock or a stutter.
LEMMA UpdateImplements ==
  ASSUME Reliable, RInv, UpdateStep
  PROVE  [LPL!LockNext]_LPL!lockVars
<1> USE LimitAssumption DEF Reliable, RInv, Saved, LPL!lockVars, Locked, Wanted,
        machine
<1>0. \A ok \in BOOLEAN : Return(ok) => pc' = "idle"
  BY DEF Return
<1>1. CASE IsActive
  BY <1>0, <1>1 DEF IsActive, Resume
<1>2. CASE GetTdpLimit
  <2>1. CASE NoHandles
    BY <1>0, <1>2, <2>1 DEF GetTdpLimit, Resume, LeaveFan
  <2>2. CASE ~NoHandles /\ previous_limit # None
    BY <1>0, <1>2, <2>2 DEF GetTdpLimit, Resume, EnterFan, Reading
  <2>3. CASE ~NoHandles /\ previous_limit = None /\ limit # DownloadLimit
    BY <1>0, <1>2, <2>3 DEF GetTdpLimit, Resume, Reading, TInv, TypeOK
  <2>4. CASE ~NoHandles /\ previous_limit = None /\ limit = DownloadLimit
    <3>1. LPL!Lock
      BY <1>0, <1>2, <2>4, HeldIsHandles
         DEF GetTdpLimit, Resume, EnterFan, Reading, LPL!Lock
    <3>2. QED
      BY <3>1 DEF LPL!LockNext
  <2>5. QED
    BY <2>1, <2>2, <2>3, <2>4
<1>3. CASE GetTdpLimitFails
  BY <1>3 DEF GetTdpLimitFails
<1>4. CASE RestoreLimit
  <2>1. LPL!Unlock
    BY <1>0, <1>4, HeldIsHandles
       DEF RestoreLimit, Resume, LeaveFan, CallSetLimit, CallSetLimitFails,
           PutLimit, TInv, Suspended, LPL!Unlock
  <2>2. QED
    BY <2>1 DEF LPL!LockNext
<1>5. CASE RestartFan
  BY <1>0, <1>5 DEF RestartFan
<1>6. CASE ApplyDownloadLimit
  <2>1. LPL!Lock
    BY <1>0, <1>6, HeldIsHandles
       DEF ApplyDownloadLimit, Resume, EnterFan, CallSetLimit,
           CallSetLimitFails, PutLimit, LPL!Lock
  <2>2. QED
    BY <2>1 DEF LPL!LockNext
<1>7. CASE FanControlState
  BY <1>0, <1>7 DEF FanControlState, Resume
<1>8. CASE StopFan
  BY <1>0, <1>8 DEF StopFan, Resume
<1>9. CASE SetFanSpeed
  BY <1>0, <1>9 DEF SetFanSpeed
<1>10. QED
  BY <1>1, <1>2, <1>3, <1>4, <1>5, <1>6, <1>7, <1>8, <1>9 DEF UpdateStep

LEMMA NextImplements ==
  ASSUME Reliable, RInv, [Next]_vars
  PROVE  [LPL!LockNext]_LPL!lockVars
<1> USE LimitAssumption DEF Reliable, RInv
<1>1. CASE UpdateStep
  BY <1>1, UpdateImplements
<1>2. ASSUME UNCHANGED <<pc, previous_limit, download_handles, limit>>
      PROVE  [LPL!LockNext]_LPL!lockVars
  BY <1>2 DEF LPL!lockVars, Locked, Wanted
<1>3. CASE HandleCommand
  <2>1. ASSUME NEW l \in Limits, HandleSetTdpLimit(l)
        PROVE  [LPL!LockNext]_LPL!lockVars
    <3>1. CASE NoHandles
      <4>1. LPL!Set(l)
        BY <2>1, <3>1, HeldIsHandles
           DEF HandleSetTdpLimit, TakeCommand, CallSetLimit, CallSetLimitFails,
               PutLimit, Saved, LPL!Set, Locked, Wanted
      <4>2. QED
        BY <4>1 DEF LPL!LockNext
    <3>2. CASE ~NoHandles
      BY <1>2, <2>1, <3>2 DEF HandleSetTdpLimit
    <3>3. QED
      BY <3>1, <3>2
  <2>2. CASE HandleUpdateDownloadMode
    <3>1. /\ pc = "idle" /\ pc' = "is_active"
          /\ UNCHANGED <<download_handles, previous_limit, limit>>
      BY <2>2 DEF HandleUpdateDownloadMode, TakeCommand, Resume, machine
    <3>2. QED
      BY <3>1 DEF LPL!lockVars, Locked, Wanted
  <2>3. ASSUME NEW i \in Ids, HandleEnterDownloadMode(i)
        PROVE  [LPL!LockNext]_LPL!lockVars
    <3>1. LPL!Acquire(i)
      BY <2>3 DEF HandleEnterDownloadMode, TakeCommand, LPL!Acquire, Locked,
                  Wanted, machine
    <3>2. QED
      BY <3>1 DEF LPL!LockNext
  <2>4. ASSUME NEW p \in BOOLEAN, HandleSetProxy(p)
        PROVE  [LPL!LockNext]_LPL!lockVars
    BY <1>2, <2>4 DEF HandleSetProxy
  <2>5. QED
    BY <1>3, <2>1, <2>2, <2>3, <2>4 DEF HandleCommand
<1>4. ASSUME NEW i \in Ids, JoinWaiter(i) PROVE [LPL!LockNext]_LPL!lockVars
  <2>1. /\ pc = "idle" /\ download_handles[i] # 0 /\ pc' \in {"idle", "is_active"}
        /\ download_handles' = [download_handles EXCEPT ![i] = @ - 1]
        /\ UNCHANGED <<previous_limit, limit>>
    BY <1>4, JoinShape
  <2>2. download_handles[i] > 0
    BY <2>1 DEF TInv, TypeOK
  <2>3. LPL!Release(i)
    BY <2>1, <2>2 DEF LPL!Release, Locked, Wanted
  <2>4. QED
    BY <2>3 DEF LPL!LockNext
<1>5. ASSUME NEW i \in Ids, CloseHandle(i) PROVE [LPL!LockNext]_LPL!lockVars
  BY <1>2, <1>5 DEF CloseHandle, service, machine
<1>6. CASE Request \/ ProxyChanges
  BY <1>2, <1>6 DEF Request, ProxyChanges, Send, machine
<1>7. CASE AnnounceProfile
  BY <1>2, <1>7 DEF AnnounceProfile, Send, service
<1>8. CASE SwitchProfile \/ Crash
  BY <1>8 DEF SwitchProfile, Crash
<1>9. CASE UNCHANGED vars
  BY <1>2, <1>9 DEF vars, service, machine
<1>10. QED
  BY <1>1, <1>3, <1>4, <1>5, <1>6, <1>7, <1>8, <1>9 DEF Next

\* When no call fails, TdpManagerService is a low power lock: the download
\* limit is in force exactly while the lock is on, what SetTdpLimit wanted
\* last is in force when it is off, and it goes on and off with the handles.
THEOREM ServiceImplementsLock ==
  ASSUME Reliable
  PROVE  Spec => ImplementsLock
<1>1. Init => LPL!LockInit
  BY DEF Init, LPL!LockInit, Locked, Wanted
<1>2. RInv /\ [Next]_vars => [LPL!LockNext]_LPL!lockVars
  BY NextImplements
<1>3. RInv /\ [Next]_vars => Saved'
  BY NextSaved
<1>4. Init => Saved
  BY InitSaved
<1>5. RInv <=> TInv /\ HandleAccounting /\ Saved
  BY DEF RInv
<1>6. QED
  BY <1>1, <1>2, <1>3, <1>4, <1>5, HandlesAccounted, PTL
     DEF Spec, ImplementsLock, LPL!LockSpec
=============================================================================
