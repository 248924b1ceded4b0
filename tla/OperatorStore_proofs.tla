----------------------- MODULE OperatorStore_proofs -----------------------
(***************************************************************************)
(* Proofs about OperatorStore, for any set of threads and any calls.       *)
(***************************************************************************)
EXTENDS OperatorStore, TLAPS

(***************************************************************************)
(* Facts about the operator state record.                                  *)
(***************************************************************************)

\* The defaults are an operator state that requests and starts nothing.
LEMMA DefaultsFact == Defaults \in OperatorState /\ StartedIsRequested(Defaults)
BY DEF Defaults, OperatorState, PlaybackModes, WifiModes, StartedIsRequested

\* Every method of the store turns an operator state into one.
LEMMA UpdatedType ==
  ASSUME NEW c \in StoreCalls, NEW s \in OperatorState
  PROVE  Updated(c, s) \in OperatorState
<1>1. CASE c.op = "load"
  BY <1>1 DEF Updated
<1>2. CASE c.op = "set_mode"
  <2>1. c.mode \in PlaybackModes
    BY <1>2 DEF StoreCalls
  <2>2. QED
    BY <1>2, <2>1 DEF Updated, SetPlaybackMode, OperatorState
<1>3. CASE c.op = "mark_setup"
  <2>1. c.requested \in BOOLEAN /\ c.wifi \in WifiModes
    BY <1>3 DEF StoreCalls
  <2>2. QED
    BY <1>3, <2>1 DEF Updated, MarkSetupRequested, OperatorState
<1>4. CASE c.op = "mark_reauth"
  <2>1. c.requested \in BOOLEAN
    BY <1>4 DEF StoreCalls
  <2>2. QED
    BY <1>4, <2>1 DEF Updated, MarkReauthRequested, OperatorState
<1>5. CASE c.op = "mark_started"
  BY <1>5 DEF Updated, MarkReauthStarted, OperatorState
<1>6. QED
  BY <1>1, <1>2, <1>3, <1>4, <1>5 DEF StoreCalls

\* No method of the store starts a flow that is not requested.
LEMMA UpdatedStarted ==
  ASSUME NEW c \in StoreCalls, NEW s \in OperatorState, StartedIsRequested(s)
  PROVE  StartedIsRequested(Updated(c, s))
<1>1. CASE c.op = "load"
  BY <1>1 DEF Updated
<1>2. CASE c.op = "set_mode"
  BY <1>2 DEF Updated, SetPlaybackMode, OperatorState, StartedIsRequested
<1>3. CASE c.op = "mark_setup"
  BY <1>3 DEF Updated, MarkSetupRequested, OperatorState, StartedIsRequested
<1>4. CASE c.op = "mark_reauth"
  <2>1. c.requested \in BOOLEAN
    BY <1>4 DEF StoreCalls
  <2>2. QED
    BY <1>4, <2>1
       DEF Updated, MarkReauthRequested, OperatorState, StartedIsRequested
<1>5. CASE c.op = "mark_started"
  BY <1>5 DEF Updated, MarkReauthStarted, OperatorState, StartedIsRequested
<1>6. QED
  BY <1>1, <1>2, <1>3, <1>4, <1>5 DEF StoreCalls

\* A text has a length.
LEMMA TextLengthType ==
  ASSUME NEW s \in OperatorState
  PROVE  TextLength(s) \in Nat
BY DEF TextLength, BooleanLength, OperatorState, PlaybackModes, WifiModes

-----------------------------------------------------------------------------
(***************************************************************************)
(* The inductive invariant: the types, and that neither the file nor a     *)
(* thread's memory holds a started flow that is not requested.             *)
(***************************************************************************)
IInv == TypeOK /\ StartedNeverUnrequested

FileType == [kind : Kinds, state : OperatorState, length : Nat]

\* What a write can leave in the file.
LEMMA OverwrittenFact ==
  ASSUME NEW f \in FileType, NEW s \in OperatorState, StartedIsRequested(s)
  PROVE  /\ Overwritten(f, s) \in FileType
         /\ StartedIsRequested(Overwritten(f, s).state)
<1>1. TextLength(s) \in Nat
  BY TextLengthType
<1>2. CASE TextLength(s) >= f.length
  BY <1>1, <1>2 DEF Overwritten, Text, FileType, Kinds
<1>3. CASE ~(TextLength(s) >= f.length)
  BY <1>3, DefaultsFact DEF Overwritten, NoText, FileType, Kinds
<1>4. QED
  BY <1>2, <1>3

LEMMA InitIInv == Init => IInv
<1> SUFFICES ASSUME Init PROVE IInv
  OBVIOUS
<1>1. file \in FileType /\ StartedIsRequested(file.state)
  <2>1. CASE file = NoText("absent", 0)
    BY <2>1, DefaultsFact DEF NoText, FileType, Kinds
  <2>2. CASE \E s \in OperatorState : StartedIsRequested(s) /\ file = Text(s)
    BY <2>2, TextLengthType DEF Text, FileType, Kinds
  <2>3. QED
    BY <2>1, <2>2 DEF Init
<1>2. [op |-> "load"] \in StoreCalls
  BY DEF StoreCalls
<1>3. QED
  BY <1>1, <1>2, DefaultsFact DEF Init, IInv, TypeOK, StartedNeverUnrequested, FileType

LEMMA NextIInv == IInv /\ [Next]_vars => IInv'
<1> SUFFICES ASSUME IInv, [Next]_vars PROVE IInv'
  OBVIOUS
<1> USE DefaultsFact DEF IInv, TypeOK, StartedNeverUnrequested
<1>1. ASSUME NEW t \in Threads, Call(t) PROVE IInv'
  <2>1. PICK c \in Calls[t] : call' = [call EXCEPT ![t] = c]
    BY <1>1 DEF Call
  <2>2. c \in StoreCalls
    BY <2>1, CallsAssumption
  <2>3. QED
    BY <1>1, <2>1, <2>2 DEF Call
<1>2. ASSUME NEW t \in Threads, TestExists(t) PROVE IInv'
  BY <1>2 DEF TestExists
<1>3. ASSUME NEW t \in Threads, Read(t) PROVE IInv'
  <2>1. CASE current' = [current EXCEPT ![t] = file.state] /\ UNCHANGED disturbed
    BY <1>3, <2>1 DEF Read
  <2>2. CASE current' = [current EXCEPT ![t] = Defaults] /\ disturbed' = TRUE
    BY <1>3, <2>2 DEF Read
  <2>3. QED
    BY <1>3, <2>1, <2>2 DEF Read
<1>4. ASSUME NEW t \in Threads, OpenForWrite(t) PROVE IInv'
  BY <1>4 DEF OpenForWrite, NoText, Kinds
<1>5. ASSUME NEW t \in Threads, Write(t) PROVE IInv'
  <2>1. ToSave(t) \in OperatorState /\ StartedIsRequested(ToSave(t))
    BY UpdatedType, UpdatedStarted DEF ToSave
  <2>2. file' \in FileType /\ StartedIsRequested(file'.state)
    BY <1>5, <2>1, OverwrittenFact DEF Write, FileType
  <2>3. CASE call[t].op = "load" \/ saving[t]
    BY <1>5, <2>1, <2>2, <2>3 DEF Write, FileType
  <2>4. CASE ~(call[t].op = "load" \/ saving[t])
    BY <1>5, <2>1, <2>2, <2>4 DEF Write, FileType
  <2>5. QED
    BY <2>3, <2>4
<1>6. ASSUME NEW t \in Threads, Return(t) PROVE IInv'
  BY <1>6 DEF Return
<1>7. CASE Crash
  BY <1>7 DEF Crash
<1>8. CASE UNCHANGED vars
  BY <1>8 DEF vars
<1>9. QED
  BY <1>1, <1>2, <1>3, <1>4, <1>5, <1>6, <1>7, <1>8 DEF Next, Step

(***************************************************************************)
(* The variables have their types in every reachable state.                *)
(***************************************************************************)
THEOREM TypeCorrect == Spec => []TypeOK
<1>1. IInv => TypeOK
  BY DEF IInv
<1>2. QED
  BY InitIInv, NextIInv, <1>1, PTL DEF Spec

(***************************************************************************)
(* For any threads making any calls of the store, whatever their           *)
(* interleaving, whichever readings fail and wherever the process crashes, *)
(* neither the state file nor a loaded state ever says started without     *)
(* requested: a truncated, garbled or unreadable file decodes to defaults  *)
(* that agree, and every text written was built from one consistent        *)
(* record.                                                                 *)
(***************************************************************************)
THEOREM StartedSafety == Spec => []StartedNeverUnrequested
<1>1. IInv => StartedNeverUnrequested
  BY DEF IInv
<1>2. QED
  BY InitIInv, NextIInv, <1>1, PTL DEF Spec

-----------------------------------------------------------------------------
(***************************************************************************)
(* Calls that take turns: OperatorStore implements AtomicOperatorStore as  *)
(* long as it is not disturbed, and again once it no longer is.            *)
(*                                                                         *)
(* The invariant says where the state is at each step of the thread whose  *)
(* turn it is: in the file, or, between the truncation and the write, in   *)
(* its current.                                                            *)
(***************************************************************************)

\* No two calls overlap in their accesses to the file.
OneAtATime == \A t, u \in Threads : InCall(t) /\ InCall(u) => t = u

\* Whatever disturbed it, the file stands for a state.
Settled == file.kind # "json" => file.state = Defaults

Located(t) ==
  /\ pc[t] \in {"exists", "read"} => ~saving[t]
  /\ pc[t] = "open" => current[t] = file.state
  /\ pc[t] = "open" /\ saving[t] => file.kind = "json"
  /\ pc[t] = "write" => file.kind = "empty" /\ file.length = 0
  /\ saving[t] /\ pc[t] \in {"open", "write"} => call[t].op # "load"

InTurn == OneAtATime /\ \A t \in Threads : Located(t)

TurnsInv == Settled /\ (~disturbed => InTurn)

\* Where the abstract register is, said without a choice.
LEMMA RegisterFact ==
  ASSUME Settled, InTurn
  PROVE  /\ \A t \in Threads : pc[t] = "write" => Register = current[t]
         /\ (\A t \in Threads : pc[t] # "write") => Register = file.state
<1> DEFINE Holds(u) == pc[u] = "write" \/ (pc[u] = "open" /\ saving[u])
<1> USE DEF InTurn, Located
<1>1. ASSUME NEW t \in Threads, pc[t] = "write"
      PROVE  Register = current[t]
  <2>1. file.kind # "json"
    BY <1>1
  <2>2. \A u \in Threads : Holds(u) => u = t
    BY <1>1 DEF OneAtATime, InCall
  <2>3. (CHOOSE u \in Threads : Holds(u)) = t
    BY <1>1, <2>2
  <2>4. QED
    BY <1>1, <2>1, <2>3 DEF Register
<1>2. ASSUME \A t \in Threads : pc[t] # "write"
      PROVE  Register = file.state
  <2>1. CASE file.kind = "json"
    BY <2>1 DEF Register
  <2>2. CASE file.kind # "json"
    <3>1. \A u \in Threads : ~Holds(u)
      BY <1>2, <2>2
    <3>2. QED
      BY <2>2, <3>1 DEF Register, Settled
  <2>3. QED
    BY <2>1, <2>2
<1>3. QED
  BY <1>1, <1>2

\* ... and where it is after a step.
LEMMA RegisterFactNext ==
  ASSUME Settled', InTurn'
  PROVE  /\ \A t \in Threads : pc'[t] = "write" => Register' = current'[t]
         /\ (\A t \in Threads : pc'[t] # "write") => Register' = file'.state
<1> DEFINE Holds(u) == pc'[u] = "write" \/ (pc'[u] = "open" /\ saving'[u])
<1> USE DEF InTurn, Located
<1>1. ASSUME NEW t \in Threads, pc'[t] = "write"
      PROVE  Register' = current'[t]
  <2>1. file'.kind # "json"
    BY <1>1
  <2>2. \A u \in Threads : Holds(u) => u = t
    BY <1>1 DEF OneAtATime, InCall
  <2>3. (CHOOSE u \in Threads : Holds(u)) = t
    BY <1>1, <2>2
  <2>4. QED
    BY <1>1, <2>1, <2>3 DEF Register
<1>2. ASSUME \A t \in Threads : pc'[t] # "write"
      PROVE  Register' = file'.state
  <2>1. CASE file'.kind = "json"
    BY <2>1 DEF Register
  <2>2. CASE file'.kind # "json"
    <3>1. \A u \in Threads : ~Holds(u)
      BY <1>2, <2>2
    <3>2. QED
      BY <2>2, <3>1 DEF Register, Settled
  <2>3. QED
    BY <2>1, <2>2
<1>3. QED
  BY <1>1, <1>2

\* When nobody is in a call, whatever happened before.
LEMMA AtRest ==
  ASSUME Settled, \A t \in Threads : ~InCall(t)
  PROVE  InTurn /\ Register = file.state
<1>1. InTurn
  BY DEF InTurn, OneAtATime, Located, InCall
<1>2. QED
  BY <1>1, RegisterFact DEF InCall

LEMMA TurnsInit == Init => TurnsInv
BY DEF Init, TurnsInv, Settled, InTurn, OneAtATime, InCall, Located, NoText, Text

\* A step of a call finds all the other threads outside theirs.
LEMMA Alone ==
  ASSUME InTurn, NEW t \in Threads, InCall(t)
  PROVE  \A u \in Threads \ {t} : ~InCall(u)
BY DEF InTurn, OneAtATime

\* A text written after the truncation is the whole file.
LEMMA WrittenWhole ==
  ASSUME TypeOK, NEW t \in Threads, file.length = 0, file' = Overwritten(file, ToSave(t))
  PROVE  file' = Text(ToSave(t))
<1>1. TextLength(ToSave(t)) \in Nat
  BY UpdatedType, TextLengthType DEF ToSave, TypeOK
<1>2. QED
  BY <1>1 DEF Overwritten

\* The file stands for a state after every step, whatever disturbs it.
LEMMA SettledNext ==
  ASSUME Settled, [Next]_vars
  PROVE  Settled'
<1> USE DEF Settled
<1>1. ASSUME NEW t \in Threads, OpenForWrite(t) \/ Write(t) PROVE Settled'
  BY <1>1 DEF OpenForWrite, Write, Overwritten, NoText, Text
<1>2. ASSUME NEW t \in Threads, Call(t) \/ TestExists(t) \/ Read(t) \/ Return(t)
      PROVE  Settled'
  BY <1>2 DEF Call, TestExists, Read, Return
<1>3. CASE Crash
  BY <1>3 DEF Crash
<1>4. CASE UNCHANGED vars
  BY <1>4 DEF vars
<1>5. QED
  BY <1>1, <1>2, <1>3, <1>4 DEF Next, Step

\* A call that begins undisturbed begins alone.
LEMMA BeginsAlone ==
  ASSUME TypeOK, Settled, NEW t \in Threads, Call(t), ~disturbed'
  PROVE  InTurn'
<1>1. /\ \A u \in Threads : ~InCall(u)
      /\ pc' = [pc EXCEPT ![t] = "exists"] /\ saving' = [saving EXCEPT ![t] = FALSE]
      /\ UNCHANGED <<file, current>>
  BY DEF Call
<1>2. \A u \in Threads \ {t} : pc'[u] \notin {"exists", "read", "open", "write"}
  BY <1>1 DEF InCall, TypeOK
<1>3. pc'[t] = "exists" /\ saving'[t] = FALSE
  BY <1>1 DEF TypeOK
<1>4. OneAtATime'
  BY <1>2 DEF OneAtATime, InCall
<1>5. \A u \in Threads : Located(u)'
  BY <1>2, <1>3 DEF Located
<1>6. QED
  BY <1>4, <1>5 DEF InTurn

\* The steps of a call lead to no other call, so its turn stays its own.
LEMMA TurnsNext ==
  ASSUME TypeOK, TurnsInv, [Next]_vars
  PROVE  TurnsInv'
<1>1. Settled'
  BY SettledNext DEF TurnsInv
<1> SUFFICES ASSUME ~disturbed' PROVE InTurn'
  BY <1>1 DEF TurnsInv
<1> USE DEF TypeOK, Located
<1>2. ASSUME NEW t \in Threads, Call(t) PROVE InTurn'
  BY <1>2, BeginsAlone DEF TurnsInv
<1>3. ASSUME NEW t \in Threads, Step(t) PROVE InTurn'
  <2>1. InTurn /\ Settled
    BY <1>3 DEF TurnsInv, Step, TestExists, Read, OpenForWrite, Write, Return
  <2>2. \A u \in Threads : InCall(u)' => InCall(u)
    BY <1>3 DEF Step, TestExists, Read, OpenForWrite, Write, Return, InCall
  <2>3. OneAtATime'
    BY <2>1, <2>2 DEF InTurn, OneAtATime
  <2>4. CASE TestExists(t)
    <3>1. \A u \in Threads \ {t} : ~InCall(u)
      BY <2>1, <2>4, Alone DEF TestExists, InCall
    <3>2. \A u \in Threads : Located(u)'
      BY <2>1, <2>4, <3>1 DEF TestExists, InTurn, InCall, Settled
    <3>3. QED
      BY <2>3, <3>2 DEF InTurn
  <2>5. CASE Read(t)
    <3>1. /\ pc[t] = "read" /\ pc' = [pc EXCEPT ![t] = "open"]
          /\ current' = [current EXCEPT ![t] = file.state]
          /\ UNCHANGED <<file, call, saving>>
      BY <2>5 DEF Read
    <3>2. \A u \in Threads : Located(u)'
      BY <2>1, <3>1 DEF InTurn
    <3>3. QED
      BY <2>3, <3>2 DEF InTurn
  <2>6. CASE OpenForWrite(t)
    <3>1. \A u \in Threads \ {t} : ~InCall(u)
      BY <2>1, <2>6, Alone DEF OpenForWrite, InCall
    <3>2. \A u \in Threads : Located(u)'
      BY <2>1, <2>6, <3>1 DEF OpenForWrite, NoText, InTurn, InCall
    <3>3. QED
      BY <2>3, <3>2 DEF InTurn
  <2>7. CASE Write(t)
    <3>1. \A u \in Threads \ {t} : ~InCall(u)
      BY <2>1, <2>7, Alone DEF Write, InCall
    <3>2. file' = Text(ToSave(t))
      BY <2>1, <2>7, WrittenWhole DEF Write, InTurn
    <3>3. CASE call[t].op = "load" \/ saving[t]
      <4>1. \A u \in Threads : ~InCall(u)'
        BY <2>7, <3>1, <3>3 DEF Write, InCall
      <4>2. QED
        BY <4>1 DEF InTurn, OneAtATime, InCall
    <3>4. CASE ~(call[t].op = "load" \/ saving[t])
      <4>1. /\ pc' = [pc EXCEPT ![t] = "open"] /\ saving' = [saving EXCEPT ![t] = TRUE]
            /\ current' = current /\ call' = call
        BY <2>7, <3>4 DEF Write
      <4>2. file'.kind = "json" /\ file'.state = current[t]
        BY <3>2, <3>4 DEF Text, ToSave
      <4>3. Located(t)'
        BY <3>4, <4>1, <4>2
      <4>4. \A u \in Threads \ {t} : Located(u)'
        BY <3>1, <4>1 DEF InCall
      <4>5. QED
        BY <2>3, <4>3, <4>4 DEF InTurn
    <3>5. QED
      BY <3>3, <3>4
  <2>8. CASE Return(t)
    <3>1. \A u \in Threads : Located(u)'
      BY <2>1, <2>8 DEF Return, InTurn
    <3>2. QED
      BY <2>3, <3>1 DEF InTurn
  <2>9. QED
    BY <1>3, <2>4, <2>5, <2>6, <2>7, <2>8 DEF Step
<1>4. CASE Crash
  BY <1>4 DEF Crash
<1>5. CASE UNCHANGED vars
  BY <1>5 DEF vars, TurnsInv, InTurn, OneAtATime, InCall
<1>6. QED
  BY <1>2, <1>3, <1>4, <1>5 DEF Next

\* The abstract store has the operator state module's definitions as its own.
LEMMA AtomicDefinitions ==
  /\ Atomic!OperatorState = OperatorState
  /\ Atomic!Defaults = Defaults
  /\ \A s : Atomic!StartedIsRequested(s) = StartedIsRequested(s)
  /\ \A c, s : Atomic!Updated(c, s) = Updated(c, s)
<1>1. Atomic!OperatorState = OperatorState
  BY DEF Atomic!OperatorState, OperatorState, Atomic!PlaybackModes, PlaybackModes,
         Atomic!WifiModes, WifiModes
<1>2. Atomic!Defaults = Defaults
  BY DEF Atomic!Defaults, Defaults
<1>3. \A s : Atomic!StartedIsRequested(s) = StartedIsRequested(s)
  BY DEF Atomic!StartedIsRequested, StartedIsRequested
<1>4. \A c, s : Atomic!Updated(c, s) = Updated(c, s)
  BY DEF Atomic!Updated, Updated, Atomic!SetPlaybackMode, SetPlaybackMode,
         Atomic!MarkSetupRequested, MarkSetupRequested,
         Atomic!MarkReauthRequested, MarkReauthRequested,
         Atomic!MarkReauthStarted, MarkReauthStarted
<1>5. QED
  BY <1>1, <1>2, <1>3, <1>4

\* The initial states are initial states of the abstract store.
LEMMA RefinementInit == Init => Atomic!Init
<1> SUFFICES ASSUME Init PROVE Atomic!Init
  OBVIOUS
<1>1. TypeOK /\ StartedNeverUnrequested /\ TurnsInv
  BY InitIInv, TurnsInit DEF IInv
<1>2. \A t \in Threads : ~InCall(t)
  BY DEF Init, InCall
<1>3. Register = file.state
  BY <1>1, <1>2, AtRest DEF TurnsInv
<1>4. QED
  BY <1>1, <1>3, AtomicDefinitions
     DEF Init, Atomic!Init, TypeOK, StartedNeverUnrequested, AbstractStatus, AbstractAnswer

\* The last write of a call is its commit; its invocation and its return are
\* those of the abstract store; every other step leaves the abstract state.
LEMMA RefinementNext ==
  ASSUME TypeOK, TypeOK', TurnsInv, TurnsInv', ~disturbed', [Next]_vars
  PROVE  [Atomic!Next]_Atomic!vars
<1> DEFINE Writing == \E t \in Threads : pc[t] = "write"
<1>1. ~disturbed => InTurn /\ (\A t \in Threads : pc[t] = "write" => Register = current[t])
                          /\ (~Writing => Register = file.state)
  BY RegisterFact DEF TurnsInv
<1>2. /\ \A t \in Threads : pc'[t] = "write" => Register' = current'[t]
      /\ ~Writing' => Register' = file'.state
  BY RegisterFactNext DEF TurnsInv
<1> USE DEF TypeOK
<1>3. ASSUME NEW t \in Threads, Call(t) PROVE Atomic!Invoke(t)
  <2>1. /\ \A u \in Threads : ~InCall(u)
        /\ UNCHANGED <<file, current>> /\ ~Writing'
    BY <1>3 DEF Call, InCall
  <2>2. Register' = Register
    BY <1>2, <2>1, AtRest DEF TurnsInv
  <2>3. QED
    BY <1>3, <2>2 DEF Call, Atomic!Invoke, AbstractStatus, AbstractAnswer
<1>4. ASSUME NEW t \in Threads, TestExists(t) \/ Read(t) PROVE UNCHANGED Atomic!vars
  <2>1. ~disturbed /\ UNCHANGED <<file, call>> /\ ~Writing /\ ~Writing'
    BY <1>1, <1>4, Alone DEF TestExists, Read, InCall
  <2>2. Register' = Register
    BY <1>1, <1>2, <2>1
  <2>3. AbstractStatus' = AbstractStatus /\ AbstractAnswer' = AbstractAnswer
    BY <1>4 DEF TestExists, Read, AbstractStatus, AbstractAnswer
  <2>4. QED
    BY <2>1, <2>2, <2>3 DEF Atomic!vars
<1>5. ASSUME NEW t \in Threads, OpenForWrite(t) PROVE UNCHANGED Atomic!vars
  <2>1. ~Writing /\ Register = current[t]
    BY <1>1, <1>5, Alone DEF OpenForWrite, InCall, InTurn, Located
  <2>2. pc'[t] = "write" /\ Register' = current[t]
    BY <1>2, <1>5 DEF OpenForWrite
  <2>3. AbstractStatus' = AbstractStatus /\ AbstractAnswer' = AbstractAnswer
    BY <1>5 DEF OpenForWrite, AbstractStatus, AbstractAnswer
  <2>4. call' = call
    BY <1>5 DEF OpenForWrite
  <2>5. QED
    BY <2>1, <2>2, <2>3, <2>4 DEF Atomic!vars
<1>6. ASSUME NEW t \in Threads, Write(t)
      PROVE  Register = current[t] /\ Register' = ToSave(t) /\ file' = Text(ToSave(t))
  <2>1. Register = current[t] /\ InTurn
    BY <1>1, <1>6 DEF Write
  <2>2. file' = Text(ToSave(t))
    BY <1>6, <2>1, WrittenWhole DEF Write, InTurn, Located
  <2>3. ~Writing'
    BY <1>6, <2>1, Alone DEF Write, InCall
  <2>4. QED
    BY <1>2, <2>1, <2>2, <2>3 DEF Text
<1>7. ASSUME NEW t \in Threads, Write(t), call[t].op = "load" \/ saving[t]
      PROVE  Atomic!Commit(t)
  <2>1. ToSave(t) = Updated(call[t], current[t])
    BY <1>1, <1>7 DEF ToSave, Updated, Write, InTurn, Located
  <2>2. /\ pc[t] = "write" /\ call' = call
        /\ pc' = [pc EXCEPT ![t] = "returned"]
        /\ current' = [current EXCEPT ![t] = ToSave(t)]
    BY <1>7 DEF Write
  <2>3. AbstractStatus[t] = "called" /\ AbstractStatus' = [AbstractStatus EXCEPT ![t] = "done"]
    BY <2>2 DEF AbstractStatus
  <2>4. AbstractAnswer' = [AbstractAnswer EXCEPT ![t] = ToSave(t)]
    BY <2>2 DEF AbstractAnswer
  <2>5. QED
    BY <1>6, <1>7, <2>1, <2>2, <2>3, <2>4, AtomicDefinitions DEF Atomic!Commit
<1>8. ASSUME NEW t \in Threads, Write(t), ~(call[t].op = "load" \/ saving[t])
      PROVE  UNCHANGED Atomic!vars
  <2>1. ToSave(t) = current[t]
    BY <1>8 DEF ToSave
  <2>2. AbstractStatus' = AbstractStatus /\ AbstractAnswer' = AbstractAnswer /\ call' = call
    BY <1>8 DEF Write, AbstractStatus, AbstractAnswer
  <2>3. QED
    BY <1>6, <1>8, <2>1, <2>2 DEF Atomic!vars
<1>9. ASSUME NEW t \in Threads, Return(t) PROVE Atomic!Return(t)
  <2>1. ~disturbed /\ UNCHANGED <<file, call>> /\ (Writing' <=> Writing)
        /\ \A u \in Threads : (pc'[u] = "write" <=> pc[u] = "write")
                              /\ (pc[u] = "write" => current'[u] = current[u])
    BY <1>9 DEF Return
  <2>2. Register' = Register
    BY <1>1, <1>2, <2>1
  <2>3. QED
    BY <1>9, <2>1, <2>2, AtomicDefinitions DEF Return, Atomic!Return, AbstractStatus, AbstractAnswer
<1>10. ASSUME UNCHANGED vars PROVE UNCHANGED Atomic!vars
  BY <1>10 DEF vars, Atomic!vars, Register, AbstractStatus, AbstractAnswer
<1>11. QED
  BY <1>3, <1>4, <1>5, <1>7, <1>8, <1>9, <1>10 DEF Next, Step, Crash, Atomic!Next

(***************************************************************************)
(* For any number of threads and every choice of calls, crashes and failed *)
(* readings: a call that nothing comes to takes effect once, as a whole,   *)
(* and returns the state it leaves, although it is made of a read and one  *)
(* or two truncating rewrites of the file, and whatever state earlier      *)
(* disturbances left the file in.  This is what the modules that make a    *)
(* call on the operator state one step rely on.                            *)
(***************************************************************************)
THEOREM TurnsAtomic == Spec => CallsInTurnAreAtomic
<1>1. Init => Atomic!Init
  BY RefinementInit
<1>2. Init => TurnsInv
  BY TurnsInit
<1>3. Spec => []TypeOK
  BY TypeCorrect
<1>4. TypeOK /\ TurnsInv /\ [Next]_vars => TurnsInv'
  BY TurnsNext
<1>5. TypeOK /\ TypeOK' /\ TurnsInv /\ TurnsInv' /\ [Next]_vars
        => [disturbed' \/ Atomic!Next]_(Atomic!vars)
  BY RefinementNext
<1>6. QED
  BY <1>1, <1>2, <1>3, <1>4, <1>5, PTL DEF Spec, CallsInTurnAreAtomic

(***************************************************************************)
(* The calls of a single thread cannot overlap: with one thread that finds *)
(* its file readable, and no crash, the store is atomic.                   *)
(***************************************************************************)
THEOREM OneThreadAtomic ==
  ASSUME NEW t, Threads = {t}, MayCrash = FALSE, MayFail = FALSE
  PROVE  Spec => Atomic!Spec
<1>1. Init => ~disturbed
  BY DEF Init
<1>2. ~disturbed /\ [Next]_vars => ~disturbed'
  <2> SUFFICES ASSUME ~disturbed, [Next]_vars PROVE ~disturbed'
    OBVIOUS
  <2>1. ASSUME NEW u \in Threads, Call(u) PROVE ~disturbed'
    BY <2>1 DEF Call, InCall
  <2>2. ASSUME NEW u \in Threads, Step(u) PROVE ~disturbed'
    BY <2>2 DEF Step, TestExists, Read, OpenForWrite, Write, Return
  <2>3. QED
    BY <2>1, <2>2 DEF Next, Crash, vars
<1>3. ~disturbed' /\ [disturbed' \/ Atomic!Next]_(Atomic!vars) => [Atomic!Next]_(Atomic!vars)
  OBVIOUS
<1>4. QED
  BY <1>1, <1>2, <1>3, TurnsAtomic, PTL DEF Spec, CallsInTurnAreAtomic, Atomic!Spec

=============================================================================
