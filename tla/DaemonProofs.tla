---------------------------- MODULE DaemonProofs ----------------------------
(***************************************************************************)
(* Theorems about Daemon, for any clients and states and any size of the   *)
(* channel, whatever fails and whenever the daemon stops. The inductive    *)
(* invariant says for every place of the loop why an unsaved state will    *)
(* not be forgotten: a WriteState is in the channel, or the handler that   *)
(* runs is about to send one or to write the file.                         *)
(***************************************************************************)
EXTENDS Daemon, FiniteSetTheorems, TLAPS

\* What the loop does next makes up for a state that is not in the file.
OnItsWay == loop \in {"apply", "send", "truncate", "write", "stopped"}

Announced == Loaded = state \/ OnItsWay \/ Has(WriteState)

DaemonInv == TypeOK /\ AppliedIsState /\ Announced

USE DaemonAssumption

-----------------------------------------------------------------------------
(* The channel.                                                            *)

LEMMA CommandTypes ==
    /\ \A s \in States : Set(s) \in Command /\ Set(s) # WriteState
    /\ \A c \in Clients : Get(c) \in Command /\ Get(c) # WriteState
    /\ ReadConfig \in Command /\ ReadConfig # WriteState
    /\ WriteState \in Command
<1>1. WriteState.type = "WriteState"
  BY DEF WriteState
<1>2. \A s \in States : Set(s).type = "Set"
  BY DEF Set
<1>3. \A c \in Clients : Get(c).type = "Get"
  BY DEF Get
<1>4. ReadConfig.type = "ReadConfig"
  BY DEF ReadConfig
<1> QED BY <1>1, <1>2, <1>3, <1>4 DEF Command

\* Taking a command keeps the channel's type, and every other command in it.
LEMMA TakeKeeps ==
    ASSUME channel \in Seq(Command), Len(channel) <= Capacity, NEW cmd, Take(cmd)
    PROVE  /\ channel' \in Seq(Command)
           /\ Len(channel') <= Capacity
           /\ cmd # WriteState /\ Has(WriteState) => Has(WriteState)'
<1>1. /\ channel # <<>> /\ Head(channel) = cmd /\ channel' = Tail(channel)
      /\ Len(channel) \in Nat
  BY DEF Take
<1>2. channel' \in Seq(Command) /\ Len(channel') = Len(channel) - 1
  BY <1>1
<1>3. ASSUME cmd # WriteState, Has(WriteState) PROVE Has(WriteState)'
  <2> PICK k \in DOMAIN channel : channel[k] = WriteState
    BY <1>3 DEF Has
  <2>1. k # 1
    BY <1>1, <1>3
  <2>2. k - 1 \in DOMAIN channel' /\ channel'[k - 1] = WriteState
    BY <1>1, <1>2, <2>1
  <2> QED BY <2>2 DEF Has
<1> QED BY <1>1, <1>2, <1>3

LEMMA AppendKeeps ==
    ASSUME channel \in Seq(Command), Len(channel) < Capacity,
           NEW cmd \in Command, channel' = Append(channel, cmd)
    PROVE  /\ channel' \in Seq(Command)
           /\ Len(channel') <= Capacity
           /\ Has(cmd)'
           /\ Has(WriteState) => Has(WriteState)'
<1>1. /\ channel' \in Seq(Command) /\ Len(channel') = Len(channel) + 1
      /\ Len(channel) \in Nat
      /\ channel'[Len(channel) + 1] = cmd
      /\ \A k \in DOMAIN channel : k \in DOMAIN channel' /\ channel'[k] = channel[k]
      /\ Len(channel) + 1 \in DOMAIN channel'
  OBVIOUS
<1> QED BY <1>1 DEF Has

-----------------------------------------------------------------------------
(* The invariant.                                                          *)

LEMMA InitInv == Init => DaemonInv
<1> SUFFICES ASSUME Init PROVE DaemonInv
  OBVIOUS
<1>1. TypeOK
  <2>1. channel \in Seq(Command) /\ Len(channel) <= Capacity
    BY DEF Init
  <2>2. state \in States
    BY DEF Init, Loaded
  <2> QED BY <2>1, <2>2 DEF Init, TypeOK
<1>2. AppliedIsState /\ Announced
  BY DEF Init, AppliedIsState, Announced
<1> QED BY <1>1, <1>2 DEF DaemonInv

\* A client sends a command.
LEMMA ClientKeeps ==
    ASSUME DaemonInv, NEW c \in Clients, Request(c) \/ Enqueue(c)
    PROVE  DaemonInv'
<1>1. CASE Request(c)
  <2> PICK cmd \in Command : Submit(c, cmd)
    BY <1>1, CommandTypes DEF Request
  <2>1. TypeOK'
    BY DEF DaemonInv, TypeOK, Submit, loopVars, signals
  <2>2. AppliedIsState' /\ Announced'
    BY DEF DaemonInv, AppliedIsState, Announced, OnItsWay, Has, Loaded, Submit,
           loopVars
  <2> QED BY <2>1, <2>2 DEF DaemonInv
<1>2. CASE Enqueue(c)
  <2> PICK cmd \in Command : cmd = call[c]
    BY <1>2 DEF DaemonInv, TypeOK, Enqueue
  <2>1. /\ channel' \in Seq(Command) /\ Len(channel') <= Capacity
        /\ Has(WriteState) => Has(WriteState)'
    BY <1>2, AppendKeeps DEF DaemonInv, TypeOK, Enqueue
  <2>2. TypeOK'
    BY <1>2, <2>1 DEF DaemonInv, TypeOK, Enqueue, signals
  <2>3. AppliedIsState' /\ Announced'
    BY <1>2, <2>1 DEF DaemonInv, AppliedIsState, Announced, OnItsWay, Loaded,
                      Enqueue
  <2> QED BY <2>2, <2>3 DEF DaemonInv
<1> QED BY <1>1, <1>2

\* The loop takes a command up.
LEMMA HandleKeeps == DaemonInv /\ Handle => DaemonInv'
<1> SUFFICES ASSUME DaemonInv, Handle PROVE DaemonInv'
  OBVIOUS
<1>0. channel \in Seq(Command) /\ Len(channel) <= Capacity
  BY DEF DaemonInv, TypeOK
<1>1. ASSUME NEW s \in States, HandleSet(s) PROVE DaemonInv'
  <2>1. channel' \in Seq(Command) /\ Len(channel') <= Capacity
    BY <1>0, <1>1, TakeKeeps DEF HandleSet
  <2>2. TypeOK'
    BY <1>1, <2>1 DEF DaemonInv, TypeOK, HandleSet, clientVars, signals
  <2>3. AppliedIsState' /\ Announced'
    BY <1>1 DEF AppliedIsState, Announced, OnItsWay, HandleSet
  <2> QED BY <2>2, <2>3 DEF DaemonInv
<1>2. ASSUME NEW c \in Clients, HandleGet(c) PROVE DaemonInv'
  <2>1. /\ channel' \in Seq(Command) /\ Len(channel') <= Capacity
        /\ Has(WriteState) => Has(WriteState)'
    BY <1>0, <1>2, CommandTypes, TakeKeeps DEF HandleGet
  <2>2. TypeOK'
    BY <1>2, <2>1 DEF DaemonInv, TypeOK, HandleGet, signals
  <2>3. AppliedIsState' /\ Announced'
    BY <1>2, <2>1 DEF DaemonInv, AppliedIsState, Announced, OnItsWay, Loaded,
                      HandleGet
  <2> QED BY <2>2, <2>3 DEF DaemonInv
<1>3. CASE HandleWriteState
  <2>1. channel' \in Seq(Command) /\ Len(channel') <= Capacity
    BY <1>0, <1>3, TakeKeeps DEF HandleWriteState
  <2>2. TypeOK'
    BY <1>3, <2>1 DEF DaemonInv, TypeOK, HandleWriteState, clientVars, signals
  <2>3. AppliedIsState' /\ Announced'
    BY <1>3 DEF DaemonInv, AppliedIsState, Announced, OnItsWay, HandleWriteState,
                Take
  <2> QED BY <2>2, <2>3 DEF DaemonInv
<1>4. CASE HandleReadConfig
  <2>1. /\ channel' \in Seq(Command) /\ Len(channel') <= Capacity
        /\ Has(WriteState) => Has(WriteState)'
    BY <1>0, <1>4, CommandTypes, TakeKeeps DEF HandleReadConfig
  <2>2. TypeOK'
    BY <1>4, <2>1 DEF DaemonInv, TypeOK, HandleReadConfig, clientVars, signals
  <2>3. AppliedIsState' /\ Announced'
    BY <1>4, <2>1 DEF DaemonInv, AppliedIsState, Announced, OnItsWay, Loaded,
                      HandleReadConfig, Take
  <2> QED BY <2>2, <2>3 DEF DaemonInv
<1> QED BY <1>1, <1>2, <1>3, <1>4 DEF Handle

\* A handler goes on.
LEMMA ProceedKeeps == DaemonInv /\ Proceed => DaemonInv'
<1> SUFFICES ASSUME DaemonInv, Proceed PROVE DaemonInv'
  OBVIOUS
<1> USE DEF clientVars, signals
<1>1. CASE Apply
  <2>1. TypeOK'
    BY <1>1 DEF DaemonInv, TypeOK, Apply
  <2>2. AppliedIsState' /\ Announced'
    BY <1>1 DEF AppliedIsState, Announced, OnItsWay, Apply
  <2> QED BY <2>1, <2>2 DEF DaemonInv
<1>2. CASE SendWriteState
  <2>1. /\ channel' \in Seq(Command) /\ Len(channel') <= Capacity
        /\ Has(WriteState)'
    BY <1>2, CommandTypes, AppendKeeps DEF DaemonInv, TypeOK, SendWriteState
  <2>2. TypeOK'
    BY <1>2, <2>1 DEF DaemonInv, TypeOK, SendWriteState
  <2>3. AppliedIsState' /\ Announced'
    BY <1>2, <2>1 DEF DaemonInv, AppliedIsState, Announced, SendWriteState
  <2> QED BY <2>2, <2>3 DEF DaemonInv
<1>3. CASE Truncate
  <2>1. TypeOK'
    BY <1>3 DEF DaemonInv, TypeOK, Truncate
  <2>2. AppliedIsState' /\ Announced'
    BY <1>3 DEF DaemonInv, AppliedIsState, Announced, OnItsWay, Truncate
  <2> QED BY <2>1, <2>2 DEF DaemonInv
<1>4. CASE Write
  <2>1. TypeOK'
    BY <1>4 DEF DaemonInv, TypeOK, Write
  <2>2. AppliedIsState'
    BY <1>4 DEF DaemonInv, AppliedIsState, Write
  <2>3. Announced'
    BY <1>4 DEF DaemonInv, TypeOK, Announced, OnItsWay, Loaded, Write
  <2> QED BY <2>1, <2>2, <2>3 DEF DaemonInv
<1>5. CASE Reload
  <2>1. TypeOK'
    BY <1>5 DEF DaemonInv, TypeOK, Reload
  <2>2. AppliedIsState' /\ Announced'
    BY <1>5 DEF DaemonInv, AppliedIsState, Announced, OnItsWay, Loaded, Has, Reload
  <2> QED BY <2>1, <2>2 DEF DaemonInv
<1> QED BY <1>1, <1>2, <1>3, <1>4, <1>5 DEF Proceed

\* Signals come and are heard or lost; nothing else changes but the loop, which
\* was between two handlers, or stops.
LEMMA SignalKeeps ==
    ASSUME DaemonInv,
           HearHup \/ HearTerm \/ SendHup \/ SendTerm \/ LoseSignal \/ Crash
    PROVE  DaemonInv'
<1>1. /\ UNCHANGED <<channel, state, applied, file, clientVars>>
      /\ loop' = loop \/ loop' = "stopped" \/ (loop = "select" /\ loop' = "reload")
      /\ hup' \in {"none", "sent", "lost"} /\ term' \in {"none", "sent", "lost"}
  BY DEF DaemonInv, TypeOK, HearHup, HearTerm, SendHup, SendTerm, LoseSignal,
         Crash, loopVars, clientVars, signals
<1>2. TypeOK'
  BY <1>1 DEF DaemonInv, TypeOK, clientVars
<1>3. AppliedIsState' /\ Announced'
  BY <1>1 DEF DaemonInv, AppliedIsState, Announced, OnItsWay, Loaded, Has
<1> QED BY <1>2, <1>3 DEF DaemonInv

\* The daemon starts again, with what is in the file.
LEMMA RestartKeeps == DaemonInv /\ Restart => DaemonInv'
<1> SUFFICES ASSUME DaemonInv, Restart PROVE DaemonInv'
  OBVIOUS
<1>1. channel' \in Seq(Command) /\ Len(channel') <= Capacity
  BY DEF Restart
<1>2. Loaded \in States /\ Loaded' = Loaded
  BY DEF DaemonInv, TypeOK, Loaded, Restart
<1>3. TypeOK'
  BY <1>1, <1>2 DEF DaemonInv, TypeOK, Restart
<1>4. AppliedIsState' /\ Announced'
  BY <1>2 DEF AppliedIsState, Announced, Restart
<1> QED BY <1>3, <1>4 DEF DaemonInv

LEMMA StepInv == DaemonInv /\ [Next]_vars => DaemonInv'
<1> SUFFICES ASSUME DaemonInv, [Next]_vars PROVE DaemonInv'
  OBVIOUS
<1>1. CASE UNCHANGED vars
  BY <1>1 DEF DaemonInv, TypeOK, AppliedIsState, Announced, OnItsWay, Loaded, Has,
              vars, loopVars, clientVars, signals
<1>2. CASE \E c \in Clients : Request(c) \/ Enqueue(c)
  BY <1>2, ClientKeeps
<1>3. CASE Handle \/ Proceed \/ Restart
  BY <1>3, HandleKeeps, ProceedKeeps, RestartKeeps
<1>4. CASE HearHup \/ HearTerm \/ SendHup \/ SendTerm \/ LoseSignal \/ Crash
  BY <1>4, SignalKeeps
<1> QED BY <1>1, <1>2, <1>3, <1>4 DEF Next, DaemonStep

-----------------------------------------------------------------------------
(* The theorems.                                                           *)

\* The types hold; in particular the channel never holds more than it has room
\* for, the loop's own WriteState included.
THEOREM DaemonTypeCorrect == Spec => []TypeOK
<1>1. DaemonInv => TypeOK
  BY DEF DaemonInv
<1> QED BY <1>1, InitInv, StepInv, PTL DEF Spec

\* The services run with the state there is, except while a handler applies a
\* new one.
THEOREM StateIsApplied == Spec => []AppliedIsState
<1>1. DaemonInv => AppliedIsState
  BY DEF DaemonInv
<1> QED BY <1>1, InitInv, StepInv, PTL DEF Spec

\* Between two handlers, a state that is not in the file is announced by a
\* WriteState in the channel.
THEOREM UnsavedIsAnnounced == Spec => []UnsavedIsPending
<1>1. DaemonInv => UnsavedIsPending
  BY DEF DaemonInv, Announced, OnItsWay, UnsavedIsPending
<1> QED BY <1>1, InitInv, StepInv, PTL DEF Spec
-----------------------------------------------------------------------------
(* Room in the channel. Every WriteState in it is matched by a command of  *)
(* a client: those that were ahead of it when it was sent.                 *)

\* The commands of clients among the first n, and the WriteStates from the nth on.
Commands(s, n) == {k \in 1..n : s[k] # WriteState}
Saves(s, n) == {k \in n..Len(s) : s[k] = WriteState}
Sending == {c \in Clients : call[c] # None}

\* The WriteState that the handler of a Set is yet to send.
Owed == IF loop \in {"apply", "send"} THEN 1 ELSE 0

\* The commands of clients are bounded as they are under way; the WriteStates
\* from a place on, with the commands before it, are one more at most: the
\* first was sent behind no more than the commands there are, and each other by
\* the handler of a Set that was ahead of the first.
FewCommands ==
    /\ \A c \in Clients : call[c] # WriteState \/ call[c] = None
    /\ Cardinality(Sending) + Cardinality(Commands(channel, Len(channel))) <= Burst
FewSaves ==
    \A n \in 1..Len(channel) : Saves(channel, n) # {} =>
        Cardinality(Commands(channel, n - 1)) + Cardinality(Saves(channel, n)) + Owed
            <= Burst + 1
RoomInv == FewCommands /\ FewSaves

LEMMA ShiftCounts ==
    ASSUME NEW A, NEW B, A \subseteq Nat, IsFiniteSet(A), B = {a + 1 : a \in A}
    PROVE  IsFiniteSet(B) /\ Cardinality(B) = Cardinality(A)
<1> DEFINE f == [a \in A |-> a + 1]
<1>1. f \in [A -> B] /\ \A b \in B : \E a \in A : f[a] = b
  OBVIOUS
<1>2. \A a, b \in A : f[a] = f[b] => a = b
  OBVIOUS
<1>3. f \in Bijection(A, B)
  BY <1>1, <1>2 DEF Bijection, Injection, Surjection, IsInjective
<1>4. ExistsBijection(A, B)
  BY <1>3 DEF ExistsBijection
<1> QED BY <1>4, FS_Bijection

LEMMA CountTypes ==
    ASSUME NEW s \in Seq(Command), NEW n \in Nat
    PROVE  /\ IsFiniteSet(Commands(s, n)) /\ Cardinality(Commands(s, n)) \in Nat
           /\ IsFiniteSet(Saves(s, n)) /\ Cardinality(Saves(s, n)) \in Nat
<1>1. IsFiniteSet(1..n) /\ IsFiniteSet(n..Len(s))
  BY FS_Interval
<1>2. Commands(s, n) \in SUBSET (1..n) /\ Saves(s, n) \in SUBSET (n..Len(s))
  BY DEF Commands, Saves
<1> QED BY <1>1, <1>2, FS_Subset, FS_CardinalityType

\* Taking the head shifts the others.
LEMMA TailCounts ==
    ASSUME NEW s \in Seq(Command), s # <<>>, NEW n \in 1..Len(s)
    PROVE  /\ Cardinality(Saves(Tail(s), n)) = Cardinality(Saves(s, n + 1))
           /\ Saves(Tail(s), n) # {} <=> Saves(s, n + 1) # {}
           /\ Cardinality(Commands(Tail(s), n - 1)) =
                 Cardinality(Commands(s, n)) - (IF s[1] = WriteState THEN 0 ELSE 1)
<1> DEFINE t == Tail(s)
<1>1. /\ t \in Seq(Command) /\ Len(s) \in Nat /\ Len(t) = Len(s) - 1
      /\ \A k \in 1..Len(t) : t[k] = s[k + 1]
      /\ n \in Nat /\ n - 1 \in Nat /\ n + 1 \in Nat
  OBVIOUS
<1>2. Saves(s, n + 1) = {k + 1 : k \in Saves(t, n)}
  <2>1. ASSUME NEW k \in Saves(s, n + 1) PROVE k - 1 \in Saves(t, n) /\ k = (k - 1) + 1
    BY <1>1, <2>1 DEF Saves
  <2>2. \A k \in Saves(t, n) : k + 1 \in Saves(s, n + 1)
    BY <1>1 DEF Saves
  <2> QED BY <2>1, <2>2
<1>3. Commands(s, n) \ {1} = {k + 1 : k \in Commands(t, n - 1)}
  <2>1. ASSUME NEW k \in Commands(s, n) \ {1}
        PROVE  k - 1 \in Commands(t, n - 1) /\ k = (k - 1) + 1
    BY <1>1, <2>1 DEF Commands
  <2>2. \A k \in Commands(t, n - 1) : k + 1 \in Commands(s, n) \ {1}
    BY <1>1 DEF Commands
  <2> QED BY <2>1, <2>2
<1>4. Saves(t, n) \subseteq Nat /\ Commands(t, n - 1) \subseteq Nat
  BY <1>1 DEF Saves, Commands
<1>5. /\ Cardinality(Saves(s, n + 1)) = Cardinality(Saves(t, n))
      /\ Cardinality(Commands(s, n) \ {1}) = Cardinality(Commands(t, n - 1))
  <2>1. IsFiniteSet(Saves(t, n)) /\ IsFiniteSet(Commands(t, n - 1))
    BY <1>1, CountTypes
  <2> HIDE DEF t
  <2>2. Cardinality(Saves(s, n + 1)) = Cardinality(Saves(t, n))
    BY <1>2, <1>4, <2>1, ShiftCounts
  <2>3. Cardinality(Commands(s, n) \ {1}) = Cardinality(Commands(t, n - 1))
    BY <1>3, <1>4, <2>1, ShiftCounts
  <2> QED BY <2>2, <2>3
<1>6. 1 \in Commands(s, n) <=> s[1] # WriteState
  BY DEF Commands
<1>7. Cardinality(Commands(s, n) \ {1}) =
         Cardinality(Commands(s, n)) - (IF s[1] = WriteState THEN 0 ELSE 1)
  <2>1. IsFiniteSet(Commands(s, n)) /\ Cardinality(Commands(s, n)) \in Nat
    BY <1>1, CountTypes
  <2>2. Cardinality(Commands(s, n) \ {1}) =
           IF 1 \in Commands(s, n) THEN Cardinality(Commands(s, n)) - 1
                                   ELSE Cardinality(Commands(s, n))
    BY <2>1, FS_RemoveElement
  <2> QED BY <1>6, <2>1, <2>2
<1>8. Saves(t, n) # {} <=> Saves(s, n + 1) # {}
  <2>1. \A k : k \in Saves(t, n) => k + 1 \in Saves(s, n + 1)
    BY <1>2
  <2>2. \A k : k \in Saves(s, n + 1) => \E j : j \in Saves(t, n)
    BY <1>2
  <2> QED BY <2>1, <2>2
<1> QED BY <1>5, <1>7, <1>8

\* Sending one more adds it at the end.
LEMMA AppendCounts ==
    ASSUME NEW s \in Seq(Command), NEW cmd \in Command
    PROVE  LET u == Append(s, cmd)
               end == Len(s) + 1
           IN  /\ \A n \in 1..end : Commands(u, n - 1) = Commands(s, n - 1)
               /\ \A n \in 1..end :
                     Saves(u, n) = IF cmd = WriteState THEN Saves(s, n) \cup {end}
                                                       ELSE Saves(s, n)
               /\ end \notin Commands(s, Len(s))
               /\ \A n \in 1..end : end \notin Saves(s, n)
               /\ Commands(u, Len(u)) =
                     IF cmd = WriteState THEN Commands(s, Len(s))
                                         ELSE Commands(s, Len(s)) \cup {end}
<1> DEFINE u == Append(s, cmd)
           end == Len(s) + 1
<1>1. /\ u \in Seq(Command) /\ Len(s) \in Nat /\ Len(u) = end
      /\ \A k \in 1..Len(s) : u[k] = s[k]
      /\ u[end] = cmd
  OBVIOUS
<1>2. ASSUME NEW n \in 1..end PROVE Commands(u, n - 1) = Commands(s, n - 1)
  BY <1>1, <1>2 DEF Commands
<1>3. ASSUME NEW n \in 1..end
      PROVE  Saves(u, n) = IF cmd = WriteState THEN Saves(s, n) \cup {end} ELSE Saves(s, n)
  <2>1. n..Len(u) = (n..Len(s)) \cup {end}
    BY <1>1, <1>3
  <2>2. \A k \in n..Len(s) : u[k] = s[k]
    BY <1>1, <1>3
  <2> QED BY <1>1, <2>1, <2>2 DEF Saves
<1>4. Commands(u, Len(u)) =
         IF cmd = WriteState THEN Commands(s, Len(s)) ELSE Commands(s, Len(s)) \cup {end}
  <2>1. 1..Len(u) = (1..Len(s)) \cup {end}
    BY <1>1
  <2> QED BY <1>1, <2>1 DEF Commands
<1>5. end \notin Commands(s, Len(s)) /\ \A n \in 1..end : end \notin Saves(s, n)
  BY <1>1 DEF Commands, Saves
<1> QED BY <1>2, <1>3, <1>4, <1>5

LEMMA RoomInit == IsFiniteSet(Clients) /\ Init => RoomInv
<1> SUFFICES ASSUME IsFiniteSet(Clients), Init PROVE RoomInv
  OBVIOUS
<1>1. Sending = {} /\ Commands(channel, Len(channel)) = {} /\ Len(channel) = 0
  BY DEF Init, Sending, Commands
<1>2. \A c \in Clients : call[c] = None
  BY DEF Init
<1> QED BY <1>1, <1>2, FS_EmptySet DEF RoomInv, FewCommands, FewSaves

\* The calls that send, when one begins or ends.
LEMMA SendingTypes ==
    ASSUME IsFiniteSet(Clients)
    PROVE  IsFiniteSet(Sending) /\ Cardinality(Sending) \in Nat
<1>1. Sending \in SUBSET Clients
  BY DEF Sending
<1> QED BY <1>1, FS_Subset, FS_CardinalityType

\* A command is submitted while there are fewer than Burst.
LEMMA RequestKeepsRoom ==
    ASSUME IsFiniteSet(Clients), DaemonInv, RoomInv, NEW c \in Clients, Request(c)
    PROVE  RoomInv'
<1> PICK cmd \in Command : Submit(c, cmd) /\ cmd # WriteState
  BY CommandTypes DEF Request
<1>1. UNCHANGED <<channel, loop>> /\ call' = [call EXCEPT ![c] = cmd]
      /\ call \in [Clients -> Command \cup {None}] /\ call[c] = None
  BY DEF DaemonInv, TypeOK, Submit, loopVars
<1>2. UnderWay = Cardinality(Sending) + Cardinality(Commands(channel, Len(channel)))
  <2>1. DOMAIN channel = 1..Len(channel)
    BY DEF DaemonInv, TypeOK
  <2> QED BY <2>1 DEF UnderWay, Sending, Commands
<1>3. Cardinality(Sending') <= Cardinality(Sending) + 1
  <2>1. Sending' \in SUBSET (Sending \cup {c})
    BY <1>1 DEF Sending
  <2>2. IsFiniteSet(Sending) /\ Cardinality(Sending) \in Nat
    BY SendingTypes
  <2>3. IsFiniteSet(Sending \cup {c}) /\ Cardinality(Sending \cup {c}) <= Cardinality(Sending) + 1
    <3>1. c \notin Sending
      BY <1>1 DEF Sending
    <3>2. /\ IsFiniteSet(Sending \cup {c})
          /\ Cardinality(Sending \cup {c}) =
                IF c \in Sending THEN Cardinality(Sending) ELSE Cardinality(Sending) + 1
      BY <2>2, FS_AddElement
    <3> QED BY <2>2, <3>1, <3>2
  <2>4. Cardinality(Sending') <= Cardinality(Sending \cup {c})
    BY <2>1, <2>3, FS_Subset
  <2>5. Cardinality(Sending') \in Nat /\ Cardinality(Sending \cup {c}) \in Nat
    BY <2>1, <2>3, FS_Subset, FS_CardinalityType
  <2> QED BY <2>2, <2>3, <2>4, <2>5
<1>4. Cardinality(Sending') + Cardinality(Commands(channel, Len(channel))) <= Burst
  <2>1. Len(channel) \in Nat /\ channel \in Seq(Command)
    BY DEF DaemonInv, TypeOK
  <2>2. Cardinality(Sending) \in Nat /\ Cardinality(Commands(channel, Len(channel))) \in Nat
    BY <2>1, CountTypes, SendingTypes
  <2>3. UnderWay < Burst
    BY DEF Submit
  <2>4. Cardinality(Sending') \in Nat
    <3>1. Sending' \in SUBSET Clients
      BY DEF Sending
    <3> QED BY <3>1, FS_Subset, FS_CardinalityType
  <2> QED BY <1>2, <1>3, <2>2, <2>3, <2>4
<1>5. FewCommands'
  <2>1. \A d \in Clients : call'[d] # WriteState \/ call'[d] = None
    BY <1>1 DEF RoomInv, FewCommands
  <2> QED BY <1>1, <1>4, <2>1 DEF FewCommands
<1>6. FewSaves'
  BY <1>1 DEF RoomInv, FewSaves, Owed
<1> QED BY <1>5, <1>6 DEF RoomInv

\* A command gets into the channel; it is one under way as before.
LEMMA EnqueueKeepsRoom ==
    ASSUME IsFiniteSet(Clients), DaemonInv, RoomInv, NEW c \in Clients, Enqueue(c)
    PROVE  RoomInv'
<1> PICK cmd \in Command : cmd = call[c]
  BY DEF DaemonInv, TypeOK, Enqueue
<1>1. /\ channel \in Seq(Command) /\ Len(channel) \in Nat
      /\ call \in [Clients -> Command \cup {None}]
      /\ cmd \in Command /\ cmd # WriteState /\ cmd # None
      /\ channel' = Append(channel, cmd) /\ call' = [call EXCEPT ![c] = None]
      /\ loop' = loop
  BY DEF DaemonInv, TypeOK, RoomInv, FewCommands, Enqueue
<1>2. Sending' = Sending \ {c} /\ c \in Sending
  BY <1>1 DEF Sending
<1>3. Cardinality(Sending') = Cardinality(Sending) - 1 /\ Cardinality(Sending) \in Nat
  BY <1>2, SendingTypes, FS_RemoveElement
<1>4. Cardinality(Commands(channel', Len(channel'))) =
         Cardinality(Commands(channel, Len(channel))) + 1
  <2>1. /\ Commands(channel', Len(channel')) =
              Commands(channel, Len(channel)) \cup {Len(channel) + 1}
        /\ Len(channel) + 1 \notin Commands(channel, Len(channel))
    BY <1>1, AppendCounts
  <2>2. IsFiniteSet(Commands(channel, Len(channel)))
    BY <1>1, CountTypes
  <2> QED BY <2>1, <2>2, FS_AddElement
<1>5. FewCommands'
  <2>1. \A d \in Clients : call'[d] # WriteState \/ call'[d] = None
    BY <1>1 DEF RoomInv, FewCommands
  <2>2. Cardinality(Commands(channel, Len(channel))) \in Nat
    BY <1>1, CountTypes
  <2>3. Cardinality(Sending) + Cardinality(Commands(channel, Len(channel))) <= Burst
    BY DEF RoomInv, FewCommands
  <2>4. Cardinality(Sending') + Cardinality(Commands(channel', Len(channel'))) <= Burst
    BY <1>3, <1>4, <2>2, <2>3
  <2> QED BY <2>1, <2>4 DEF FewCommands
<1>6. FewSaves'
  <2> SUFFICES ASSUME NEW n \in 1..Len(channel'), Saves(channel', n) # {}
               PROVE  Cardinality(Commands(channel', n - 1))
                         + Cardinality(Saves(channel', n)) + Owed' <= Burst + 1
    BY DEF FewSaves
  <2>1. n \in 1..Len(channel) + 1
    BY <1>1
  <2>2. /\ Saves(channel', n) = Saves(channel, n)
        /\ Commands(channel', n - 1) = Commands(channel, n - 1)
    <3>1. channel' \in Seq(Command) /\ Len(channel') = Len(channel) + 1
          /\ \A k \in 1..Len(channel) : channel'[k] = channel[k]
          /\ channel'[Len(channel) + 1] = cmd
      BY <1>1
    <3> QED BY <1>1, <2>1, <3>1 DEF Saves, Commands
  <2>3. n \in 1..Len(channel)
    <3>1. Saves(channel, Len(channel) + 1) = {}
      BY <1>1 DEF Saves
    <3> QED BY <1>1, <2>1, <2>2, <3>1
  <2> QED BY <1>1, <2>2, <2>3 DEF RoomInv, FewSaves, Owed
<1> QED BY <1>5, <1>6 DEF RoomInv

LEMMA OwedIsTaken ==
    ASSUME NEW a \in Nat, NEW b \in Nat, NEW m \in Nat, a + b <= m + 1,
           NEW h \in 0..1, NEW o \in 0..1, o <= h
    PROVE  (a - h) + b + o <= m + 1
OBVIOUS

\* A command is taken. Behind a Set a WriteState is owed.
LEMMA TakeKeepsRoom ==
    ASSUME IsFiniteSet(Clients), DaemonInv, RoomInv, NEW cmd, Take(cmd), call' = call,
           loop' \in {"apply", "send"} => cmd # WriteState
    PROVE  RoomInv'
<1>1. /\ channel \in Seq(Command) /\ channel # <<>> /\ Len(channel) \in Nat
      /\ channel' = Tail(channel) /\ channel' \in Seq(Command)
      /\ Len(channel') = Len(channel) - 1
      /\ channel[1] = cmd /\ Owed = 0
  BY DEF DaemonInv, TypeOK, Take, Owed
<1> DEFINE head == IF channel[1] = WriteState THEN 0 ELSE 1
<1>2. head \in 0..1 /\ Owed' <= head /\ Owed' \in 0..1
  BY <1>1 DEF Owed
<1>3. Sending' = Sending
  BY DEF Sending
<1>4. FewCommands'
  <2>1. Cardinality(Commands(channel', Len(channel'))) =
           Cardinality(Commands(channel, Len(channel))) - head
    <3>1. Len(channel) \in 1..Len(channel) /\ Len(channel') = Len(channel) - 1
      BY <1>1
    <3> QED BY <1>1, <3>1, TailCounts
  <2>2. /\ Cardinality(Commands(channel, Len(channel))) \in Nat
        /\ Cardinality(Sending) \in Nat
    BY <1>1, CountTypes, SendingTypes
  <2>3. Cardinality(Sending') + Cardinality(Commands(channel', Len(channel'))) <= Burst
    <3> HIDE DEF head
    <3> QED BY <1>2, <1>3, <2>1, <2>2 DEF RoomInv, FewCommands
  <2> QED BY <2>3 DEF RoomInv, FewCommands
<1>5. FewSaves'
  <2> SUFFICES ASSUME NEW n \in 1..Len(channel'), Saves(channel', n) # {}
               PROVE  Cardinality(Commands(channel', n - 1))
                         + Cardinality(Saves(channel', n)) + Owed' <= Burst + 1
    BY DEF FewSaves
  <2>1. n \in 1..Len(channel) /\ n + 1 \in 1..Len(channel) /\ (n + 1) - 1 = n
        /\ n \in Nat /\ n + 1 \in Nat
    BY <1>1
  <2>2. /\ Cardinality(Saves(channel', n)) = Cardinality(Saves(channel, n + 1))
        /\ Saves(channel, n + 1) # {}
        /\ Cardinality(Commands(channel', n - 1)) = Cardinality(Commands(channel, n)) - head
    BY <1>1, <2>1, TailCounts
  <2>3. Cardinality(Commands(channel, n)) + Cardinality(Saves(channel, n + 1)) + Owed
           <= Burst + 1
    <3>1. Cardinality(Commands(channel, (n + 1) - 1)) + Cardinality(Saves(channel, n + 1))
             + Owed <= Burst + 1
      BY <2>1, <2>2 DEF RoomInv, FewSaves
    <3>2. (n + 1) - 1 = n
      BY <2>1
    <3> QED BY <3>1, <3>2
  <2>4. /\ Cardinality(Commands(channel, n)) \in Nat
        /\ Cardinality(Saves(channel, n + 1)) \in Nat
    BY <1>1, <2>1, CountTypes
  <2> DEFINE a == Cardinality(Commands(channel, n))
             b == Cardinality(Saves(channel, n + 1))
  <2>5. a \in Nat /\ b \in Nat /\ a + b <= Burst + 1
    BY <1>1, <2>3, <2>4
  <2>6. (a - head) + b + Owed' <= Burst + 1
    <3> HIDE DEF head, a, b
    <3> QED BY <1>2, <2>5, OwedIsTaken
  <2> HIDE DEF head
  <2> QED BY <2>2, <2>6
<1> QED BY <1>4, <1>5 DEF RoomInv

\* The handler of a Set sends what it owes.
LEMMA SendKeepsRoom ==
    ASSUME IsFiniteSet(Clients), DaemonInv, RoomInv, SendWriteState
    PROVE  RoomInv'
<1> DEFINE end == Len(channel) + 1
<1>1. /\ channel \in Seq(Command) /\ Len(channel) \in Nat
      /\ channel' = Append(channel, WriteState) /\ WriteState \in Command
      /\ call' = call /\ Owed = 1 /\ Owed' = 0
  BY CommandTypes DEF DaemonInv, TypeOK, SendWriteState, Owed, clientVars
<1>2. FewCommands'
  <2>1. Commands(channel', Len(channel')) = Commands(channel, Len(channel))
    BY <1>1, AppendCounts
  <2> QED BY <1>1, <2>1 DEF RoomInv, FewCommands, Sending
<1>3. FewSaves'
  <2> SUFFICES ASSUME NEW n \in 1..Len(channel'), Saves(channel', n) # {}
               PROVE  Cardinality(Commands(channel', n - 1))
                         + Cardinality(Saves(channel', n)) + Owed' <= Burst + 1
    BY DEF FewSaves
  <2>1. n \in 1..end /\ n \in Nat /\ n - 1 \in Nat
    BY <1>1
  <2>2. /\ Saves(channel', n) = Saves(channel, n) \cup {end}
        /\ end \notin Saves(channel, n)
        /\ Commands(channel', n - 1) = Commands(channel, n - 1)
    BY <1>1, <2>1, AppendCounts
  <2>3. /\ IsFiniteSet(Saves(channel, n)) /\ Cardinality(Saves(channel, n)) \in Nat
        /\ Cardinality(Commands(channel, n - 1)) \in Nat
    BY <1>1, <2>1, CountTypes
  <2>4. Cardinality(Saves(channel', n)) = Cardinality(Saves(channel, n)) + 1
    BY <2>2, <2>3, FS_AddElement
  <2>5. CASE Saves(channel, n) # {}
    <3>1. n \in 1..Len(channel)
      BY <1>1, <2>1, <2>5 DEF Saves
    <3>2. Cardinality(Commands(channel, n - 1)) + Cardinality(Saves(channel, n)) + 1 <= Burst + 1
      BY <1>1, <2>5, <3>1 DEF RoomInv, FewSaves
    <3> QED BY <1>1, <2>2, <2>3, <2>4, <3>2
  <2>6. CASE Saves(channel, n) = {}
    <3>1. Cardinality(Saves(channel, n)) = 0
      BY <2>6, FS_EmptySet
    <3>2. Cardinality(Commands(channel, n - 1)) <= Cardinality(Commands(channel, Len(channel)))
      <4>1. Commands(channel, n - 1) \in SUBSET Commands(channel, Len(channel))
        BY <1>1, <2>1 DEF Commands
      <4>2. IsFiniteSet(Commands(channel, Len(channel)))
        BY <1>1, CountTypes
      <4> QED BY <4>1, <4>2, FS_Subset
    <3>3. Cardinality(Commands(channel, Len(channel))) <= Burst
      <4>1. Cardinality(Sending) \in Nat /\ Cardinality(Commands(channel, Len(channel))) \in Nat
        BY <1>1, CountTypes, SendingTypes
      <4> QED BY <4>1 DEF RoomInv, FewCommands
    <3>4. Cardinality(Commands(channel, Len(channel))) \in Nat
      BY <1>1, CountTypes
    <3> QED BY <1>1, <2>2, <2>3, <2>4, <3>1, <3>2, <3>3, <3>4
  <2> QED BY <2>5, <2>6
<1> QED BY <1>2, <1>3 DEF RoomInv

LEMMA RoomStep ==
    ASSUME IsFiniteSet(Clients), DaemonInv, RoomInv, [Next]_vars
    PROVE  RoomInv'
<1>1. ASSUME NEW c \in Clients, Request(c) \/ Enqueue(c) PROVE RoomInv'
  BY <1>1, RequestKeepsRoom, EnqueueKeepsRoom
<1>2. CASE Handle
  <2>1. ASSUME NEW s \in States, HandleSet(s) PROVE RoomInv'
    BY <2>1, CommandTypes, TakeKeepsRoom DEF HandleSet, clientVars
  <2>2. ASSUME NEW c \in Clients, HandleGet(c) PROVE RoomInv'
    BY <2>2, TakeKeepsRoom DEF HandleGet, Take
  <2>3. CASE HandleWriteState \/ HandleReadConfig
    BY <2>3, TakeKeepsRoom DEF HandleWriteState, HandleReadConfig, clientVars
  <2> QED BY <1>2, <2>1, <2>2, <2>3 DEF Handle
<1>3. CASE SendWriteState
  BY <1>3, SendKeepsRoom
<1>4. CASE Restart
  <2>1. Sending' = {} /\ Commands(channel', Len(channel')) = {} /\ Len(channel') = 0
    BY <1>4 DEF Restart, Sending, Commands
  <2>2. \A c \in Clients : call'[c] = None
    BY <1>4 DEF Restart
  <2> QED BY <2>1, <2>2, FS_EmptySet DEF RoomInv, FewCommands, FewSaves
<1>5. CASE \/ Apply \/ Truncate \/ Write \/ Reload \/ HearHup \/ HearTerm \/ SendHup
           \/ SendTerm \/ LoseSignal \/ Crash \/ UNCHANGED vars
  <2>1. UNCHANGED <<channel, call>>
    BY <1>5 DEF Apply, Truncate, Write, Reload, HearHup, HearTerm, SendHup, SendTerm,
                LoseSignal, Crash, vars, loopVars, clientVars
  <2>2. Owed' <= Owed /\ Owed' \in 0..1 /\ Owed \in 0..1
    BY <1>5 DEF Apply, Truncate, Write, Reload, HearHup, HearTerm, SendHup, SendTerm,
                LoseSignal, Crash, vars, loopVars, Owed
  <2>3. FewCommands'
    BY <2>1 DEF RoomInv, FewCommands, Sending
  <2>4. FewSaves'
    <3> SUFFICES ASSUME NEW n \in 1..Len(channel), Saves(channel, n) # {}
                 PROVE  Cardinality(Commands(channel, n - 1))
                           + Cardinality(Saves(channel, n)) + Owed' <= Burst + 1
      BY <2>1 DEF FewSaves
    <3>1. /\ Cardinality(Commands(channel, n - 1)) \in Nat
          /\ Cardinality(Saves(channel, n)) \in Nat
      <4>1. channel \in Seq(Command) /\ n \in Nat /\ n - 1 \in Nat
        BY DEF DaemonInv, TypeOK
      <4> QED BY <4>1, CountTypes
    <3>2. Cardinality(Commands(channel, n - 1)) + Cardinality(Saves(channel, n)) + Owed
             <= Burst + 1
      BY DEF RoomInv, FewSaves
    <3> QED BY <2>2, <3>1, <3>2
  <2> QED BY <2>3, <2>4 DEF RoomInv
<1> QED BY <1>1, <1>2, <1>3, <1>4, <1>5 DEF Next, DaemonStep, Proceed

\* The channel holds no more than twice as many commands as are under way, while
\* a handler has its own to send.
LEMMA RoomIsLeft ==
    ASSUME IsFiniteSet(Clients), Capacity > 2 * Burst, DaemonInv, RoomInv
    PROVE  LoopHasRoom
<1> SUFFICES ASSUME loop = "send" PROVE Len(channel) < Capacity
  BY DEF LoopHasRoom
<1> DEFINE C == Commands(channel, Len(channel))
           W == Saves(channel, 1)
<1>1. channel \in Seq(Command) /\ Len(channel) \in Nat /\ Owed = 1
  BY DEF DaemonInv, TypeOK, Owed
<1>2. /\ IsFiniteSet(C) /\ IsFiniteSet(W)
      /\ Cardinality(C) \in Nat /\ Cardinality(W) \in Nat
      /\ Cardinality(Sending) \in Nat
  BY <1>1, CountTypes, SendingTypes
<1>3. Cardinality(C) <= Burst
  BY <1>2 DEF RoomInv, FewCommands
<1>4. Cardinality(W) <= Burst
  <2>1. CASE W = {}
    BY <2>1, FS_EmptySet
  <2>2. CASE W # {}
    <3>1. 1 \in 1..Len(channel)
      BY <1>1, <2>2 DEF Saves
    <3>2. Cardinality(Commands(channel, 1 - 1)) + Cardinality(W) + 1 <= Burst + 1
      BY <1>1, <2>2, <3>1 DEF RoomInv, FewSaves
    <3>3. Cardinality(Commands(channel, 1 - 1)) \in Nat
      BY <1>1, CountTypes
    <3> QED BY <1>2, <3>2, <3>3
  <2> QED BY <2>1, <2>2
<1>5. Len(channel) = Cardinality(C) + Cardinality(W)
  <2>1. 1..Len(channel) = C \cup W /\ C \cap W = {}
    BY <1>1 DEF Commands, Saves
  <2>2. Cardinality(1..Len(channel)) = Len(channel)
    BY <1>1, FS_Interval
  <2>3. Cardinality(C \cup W) = Cardinality(C) + Cardinality(W) - Cardinality(C \cap W)
    BY <1>2, FS_Union
  <2>4. Cardinality(C \cap W) = 0
    BY <2>1, FS_EmptySet
  <2>5. Len(channel) = Cardinality(C \cup W)
    BY <2>1, <2>2
  <2> HIDE DEF C, W
  <2> QED BY <1>2, <2>3, <2>4, <2>5
<1> HIDE DEF C, W
<1> QED BY <1>1, <1>2, <1>3, <1>4, <1>5

\* With fewer commands under way than half of what the channel holds, the loop
\* never waits for room in the channel that it alone can empty. (With one more
\* it may, and then for ever: daemon_full.)
THEOREM LoopNeverWaitsForItself ==
    ASSUME IsFiniteSet(Clients), Capacity > 2 * Burst
    PROVE  Spec => []LoopHasRoom
<1>1. Init => RoomInv
  BY RoomInit
<1>2. DaemonInv /\ RoomInv /\ [Next]_vars => RoomInv'
  BY RoomStep
<1>3. DaemonInv /\ RoomInv => LoopHasRoom
  BY RoomIsLeft
<1> QED BY <1>1, <1>2, <1>3, InitInv, StepInv, PTL DEF Spec
=============================================================================
