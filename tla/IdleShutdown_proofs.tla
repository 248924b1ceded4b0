------------------------ MODULE IdleShutdown_proofs ------------------------
(***************************************************************************)
(* Proofs about IdleShutdown, for every interval and every set of playback *)
(* codes.  What poll_once decided is still true when it acts on it, or an  *)
(* event was handled meanwhile (Decided); the ages it compares are no more *)
(* than the times they stand for (Ages); and an answer "inactive" is kept  *)
(* with the silence it was given for (Silent).                             *)
(***************************************************************************)
EXTENDS IdleShutdown, TLAPS

Decided == Looking => idleFor = Timeout \/ disturbed

Ages ==
  /\ ~disturbed => age <= idleFor
  /\ idlePc = "wait" /\ ~requested => age <= sinceCheck
  /\ Looking => checkAge <= sinceCheck

Silent ==
  /\ idlePc = "look" /\ ~playing => quiet
  /\ idlePc = "act" /\ answer = "inactive" => quiet

IInv == TypeOK /\ Decided /\ Ages /\ Silent

-----------------------------------------------------------------------------
(***************************************************************************)
(* The worst of three statuses is one of them.                             *)
(***************************************************************************)
LEMMA PriorityFact == \A c \in Codes : StatusPriority[c] \in Nat
PROOF BY DEF Codes, StatusPriority

LEMMA WorstFact ==
  ASSUME NEW a \in Codes, NEW b \in Codes, NEW c \in Codes
  PROVE  Worst({a, b, c}) \in Codes
PROOF
  <1> DEFINE P(x) == StatusPriority[x]
  <1>1. P(a) \in Nat /\ P(b) \in Nat /\ P(c) \in Nat
    BY PriorityFact
  <1>2. \/ P(a) <= P(b) /\ P(a) <= P(c)
        \/ P(b) <= P(a) /\ P(b) <= P(c)
        \/ P(c) <= P(a) /\ P(c) <= P(b)
    <2> HIDE DEF P
    <2> QED BY <1>1
  <1>3. P(a) <= P(a) /\ P(b) <= P(b) /\ P(c) <= P(c)
    <2> HIDE DEF P
    <2> QED BY <1>1
  <1>4. \E x \in {a, b, c} : \A y \in {a, b, c} : P(x) <= P(y)
    <2> HIDE DEF P
    <2> QED BY <1>2, <1>3
  <1>5. Worst({a, b, c}) \in {a, b, c}
    BY <1>4 DEF Worst
  <1>6. QED
    BY <1>5

LEMMA CodesFact ==
  /\ ScannerCodes \subseteq Codes /\ SetupCodes \subseteq Codes
  /\ PlaybackCodes \subseteq Codes
  /\ "ready" \in ScannerCodes /\ "ready" \in PlaybackCodes
PROOF
  BY PlaybackCodesAssumption DEF ScannerCodes, SetupCodes, Codes, StatusPriority

LEMMA OlderFact ==
  ASSUME NEW t \in 0..Timeout
  PROVE  /\ Older(t) \in 0..Timeout /\ t <= Older(t)
         /\ \A u \in 0..Timeout : t <= u => Older(t) <= Older(u)
         /\ t = Timeout => Older(t) = Timeout
PROOF BY TimeoutAssumption DEF Older

-----------------------------------------------------------------------------
(***************************************************************************)
(* Type correctness, which holds of the health monitor's part by itself.   *)
(***************************************************************************)
IdleTypeOK ==
  /\ powered \in BOOLEAN /\ playing \in BOOLEAN
  /\ setupActive \in BOOLEAN /\ requested \in BOOLEAN
  /\ disturbed \in BOOLEAN /\ quiet \in BOOLEAN
  /\ age \in 0..Timeout /\ checkAge \in 0..Timeout
  /\ sinceCheck \in 0..Timeout /\ idleFor \in 0..Timeout
  /\ idlePc \in {"wait", "look", "act", "dead"}
  /\ answer \in {"active", "inactive", "unknown"}

LEMMA TypeParts == (TypeOK <=> HealthTypeOK /\ IdleTypeOK) /\ (TypeOK' <=> HealthTypeOK' /\ IdleTypeOK')
PROOF BY DEF TypeOK, IdleTypeOK

LEMMA NothingSeenFact == NothingSeen \in [scanner : ScannerCodes, playback : PlaybackCodes]
PROOF BY CodesFact DEF NothingSeen

LEMMA HealthTypeStep == HealthTypeOK /\ [Next]_vars => HealthTypeOK'
PROOF
  <1> SUFFICES ASSUME HealthTypeOK, [Next]_vars
               PROVE  HealthTypeOK'
    OBVIOUS
  <1>1. CASE UNCHANGED <<sourceVars, healthVars>>
    BY <1>1 DEF HealthTypeOK, sourceVars, healthVars
  <1>2. CASE PollScanner /\ UNCHANGED sourceVars
    BY <1>2 DEF HealthTypeOK, PollScanner, sourceVars
  <1>3. CASE PollPlayback /\ UNCHANGED sourceVars
    BY <1>3 DEF HealthTypeOK, PollPlayback, sourceVars
  <1>4. CASE PollSetup /\ UNCHANGED sourceVars
    <2>1. seen.scanner \in Codes /\ seen.playback \in Codes /\ setup \in Codes
      BY CodesFact DEF HealthTypeOK
    <2>2. Worst({seen.scanner, seen.playback, setup}) \in Codes
      BY <2>1, WorstFact
    <2>3. QED
      BY <1>4, <2>2, NothingSeenFact DEF HealthTypeOK, PollSetup, sourceVars
  <1>5. CASE Emitted /\ UNCHANGED sourceVars
    BY <1>5 DEF HealthTypeOK, Emitted, sourceVars
  <1>6. CASE SourceChanges
    BY <1>6 DEF HealthTypeOK, SourceChanges, SourcesChange, sourceVars, healthVars
  <1>7. CASE PowerOn \/ FirstPollRaises
    BY <1>7, NothingSeenFact DEF HealthTypeOK, PowerOn, FirstPollRaises, ServiceStarts, sourceVars
  <1>8. CASE ThreadDies /\ UNCHANGED sourceVars
    BY <1>8, NothingSeenFact DEF HealthTypeOK, ThreadDies, sourceVars
  <1>9. QED
    BY <1>1, <1>2, <1>3, <1>4, <1>5, <1>6, <1>7, <1>8
    DEF Next, HealthThread, IdleThread, HealthPolls, HealthPollsSetup, HealthDies, HealthEmits, Activity, PlayerChanges,
        Tick, Decide, LookSees, LookFails, LookRaises, LookIsOver, Rearm, Request, vars

LEMMA IdleTypeStep == TypeOK /\ [Next]_vars => IdleTypeOK'
PROOF
  <1> SUFFICES ASSUME IdleTypeOK, [Next]_vars
               PROVE  IdleTypeOK'
    BY TypeParts
  <1> USE DEF IdleTypeOK
  <1>0. 0 \in 0..Timeout /\ Timeout \in 0..Timeout
    BY TimeoutAssumption
  <1>1. CASE HealthPolls \/ HealthPollsSetup \/ HealthDies \/ HealthEmits \/ SourceChanges
    <2>1. setupActive' \in BOOLEAN
      <3>1. CASE UNCHANGED setupActive
        BY <3>1
      <3>2. CASE HealthEmits
        BY <3>2, Zenon DEF HealthEmits
      <3>3. QED
        BY <1>1, <3>1, <3>2 DEF HealthPolls, HealthPollsSetup, HealthDies, SourceChanges, idleVars
    <2>2. UNCHANGED <<powered, playing, age, requested, idlePc, checkAge, answer, historyVars>>
      BY <1>1 DEF HealthPolls, HealthPollsSetup, HealthDies, HealthEmits, SourceChanges, idleVars
    <2>3. QED
      BY <2>1, <2>2 DEF historyVars
  <1>2. CASE Activity
    <2>1. disturbed' \in BOOLEAN
      <3>1. disturbed' = Looking
        BY <1>2 DEF Activity
      <3>2. Looking \in BOOLEAN
        BY DEF Looking
      <3>3. QED
        BY <3>1, <3>2
    <2>2. playing' \in BOOLEAN
      BY <1>2 DEF Activity
    <2>3. /\ age' = 0 /\ idleFor' = 0
          /\ UNCHANGED <<powered, setupActive, requested, quiet>>
          /\ UNCHANGED <<checkAge, sinceCheck, idlePc, answer>>
      BY <1>2 DEF Activity
    <2>4. QED
      BY <1>0, <2>1, <2>2, <2>3
  <1>3. CASE PlayerChanges
    BY <1>3 DEF PlayerChanges, idleVars
  <1>4. CASE Tick
    BY <1>4, OlderFact DEF Tick
  <1>5. CASE Decide
    BY <1>0, <1>5 DEF Decide
  <1>6. CASE LookSees \/ LookFails
    BY <1>6 DEF LookSees, LookFails, historyVars
  <1>7. CASE Rearm \/ Request \/ LookRaises
    BY <1>0, <1>7 DEF Rearm, Request, LookRaises, LookIsOver
  <1>8. CASE PowerOn \/ FirstPollRaises
    BY <1>0, <1>8 DEF PowerOn, FirstPollRaises, ServiceStarts
  <1>9. CASE UNCHANGED vars
    BY <1>9 DEF vars, idleVars, historyVars
  <1>10. QED
    BY <1>1, <1>2, <1>3, <1>4, <1>5, <1>6, <1>7, <1>8, <1>9 DEF Next, HealthThread, IdleThread

LEMMA TypeInit == Init => TypeOK
PROOF
  <1> SUFFICES ASSUME Init
               PROVE  HealthTypeOK /\ IdleTypeOK
    BY TypeParts
  <1>1. HealthTypeOK
    BY NothingSeenFact DEF Init, MonitorInit, HealthInit, HealthTypeOK
  <1>2. IdleTypeOK
    <2>1. 0 \in 0..Timeout /\ Timeout \in 0..Timeout
      BY TimeoutAssumption
    <2>2. QED
      BY <2>1 DEF Init, MonitorInit, IdleTypeOK
  <1>3. QED
    BY <1>1, <1>2

\* Every field the three threads share holds a value its readers expect, in
\* every interleaving of them.
THEOREM TypeCorrect == Spec => []TypeOK
<1>1. TypeOK /\ [Next]_vars => TypeOK'
  BY TypeParts, HealthTypeStep, IdleTypeStep
<1>2. QED
  BY TypeInit, <1>1, PTL DEF Spec

-----------------------------------------------------------------------------
(***************************************************************************)
(* What poll_once knows.                                                   *)
(***************************************************************************)
LEMMA InitIInv == Init => IInv
PROOF
  <1> SUFFICES ASSUME Init
               PROVE  IInv
    OBVIOUS
  <1>1. Decided /\ Silent
    BY DEF Init, MonitorInit, Looking, Decided, Silent
  <1>2. Ages
    BY TimeoutAssumption DEF Init, MonitorInit, Looking, Ages
  <1>3. QED
    BY <1>1, <1>2, TypeInit DEF IInv

LEMMA StepIInv == IInv /\ [Next]_vars => IInv'
PROOF
  <1> SUFFICES ASSUME IInv, [Next]_vars
               PROVE  Decided' /\ Ages' /\ Silent'
    BY TypeParts, HealthTypeStep, IdleTypeStep DEF IInv
  <1> USE DEF IInv, Looking, Decided, Ages, Silent
  <1>0. /\ age \in 0..Timeout /\ checkAge \in 0..Timeout
        /\ sinceCheck \in 0..Timeout /\ idleFor \in 0..Timeout
        /\ disturbed \in BOOLEAN /\ requested \in BOOLEAN /\ playing \in BOOLEAN
        /\ quiet \in BOOLEAN /\ idlePc \in {"wait", "look", "act", "dead"}
        /\ Timeout \in Nat
    BY TimeoutAssumption DEF TypeOK
  <1>1. CASE \/ HealthPolls \/ HealthPollsSetup \/ HealthDies \/ HealthEmits \/ SourceChanges
           \/ UNCHANGED vars
    <2>1. UNCHANGED <<playing, age, requested, idlePc, checkAge, answer, historyVars>>
      BY <1>1 DEF HealthPolls, HealthPollsSetup, HealthDies, HealthEmits, SourceChanges, idleVars, vars
    <2>2. QED
      BY <2>1 DEF historyVars
  <1>2. CASE Activity
    <2>1. /\ age' = 0 /\ idleFor' = 0 /\ disturbed' = Looking
          /\ UNCHANGED <<idlePc, checkAge, answer, requested, sinceCheck, quiet>>
      BY <1>2 DEF Activity
    <2>2. Decided'
      BY <2>1
    <2>3. Ages'
      BY <1>0, <2>1
    <2>4. ~playing' => ~playing
      BY <1>2 DEF Activity
    <2>5. Silent'
      BY <2>1, <2>4
    <2>6. QED
      BY <2>2, <2>3, <2>5
  <1>3. CASE PlayerChanges
    BY <1>3 DEF PlayerChanges, idleVars
  <1>4. CASE Tick
    <2>1. Decided'
      BY <1>0, <1>4, OlderFact DEF Tick
    <2>2. ~disturbed' => age' <= idleFor'
      BY <1>0, <1>4, OlderFact DEF Tick
    <2>3. idlePc' = "wait" /\ ~requested' => age' <= sinceCheck'
      BY <1>0, <1>4, OlderFact DEF Tick
    <2>4. Looking' => checkAge' <= sinceCheck'
      BY <1>0, <1>4, OlderFact DEF Tick
    <2>5. Silent'
      BY <1>4 DEF Tick
    <2>6. QED
      BY <2>1, <2>2, <2>3, <2>4, <2>5
  <1>5. CASE Decide
    <2>1. /\ idlePc = "wait" /\ ~requested /\ age >= Timeout
          /\ idlePc' = "look" /\ checkAge' = 0 /\ sinceCheck' = 0
          /\ UNCHANGED <<age, requested, idleFor, disturbed, playing>>
      BY <1>5 DEF Decide
    <2>2. ~playing' => quiet'
      BY <1>5 DEF Decide
    <2>3. disturbed \/ idleFor = Timeout
      BY <1>0, <2>1
    <2>4. Decided'
      BY <2>1, <2>3
    <2>5. Ages'
      BY <1>0, <2>1
    <2>6. Silent'
      BY <2>1, <2>2
    <2>7. QED
      BY <2>4, <2>5, <2>6
  <1>6. CASE LookSees \/ LookFails
    BY <1>6 DEF LookSees, LookFails, historyVars
  <1>7. CASE Rearm
    BY <1>0, <1>7 DEF Rearm, LookIsOver
  <1>8. CASE Request \/ LookRaises
    BY <1>0, <1>8 DEF Request, LookRaises, LookIsOver
  <1>9. CASE PowerOn \/ FirstPollRaises
    BY <1>0, <1>9 DEF PowerOn, FirstPollRaises, ServiceStarts
  <1>10. QED
    BY <1>1, <1>2, <1>3, <1>4, <1>5, <1>6, <1>7, <1>8, <1>9 DEF Next, HealthThread, IdleThread

LEMMA Invariance == Spec => []IInv
<1>1. QED
  BY InitIInv, StepIInv, PTL DEF Spec

\* The only step that requests a shutdown is poll_once's, with the answer
\* "inactive".
LEMMA OnlyRequest ==
  ASSUME [Next]_vars, Requests
  PROVE  Request
PROOF
  BY DEF Requests, Next, HealthThread, IdleThread, HealthPolls, HealthPollsSetup,
         HealthDies, FirstPollRaises, ServiceStarts, HealthEmits, SourceChanges,
         Activity, PlayerChanges, Tick, Decide, LookSees, LookFails, LookRaises, LookIsOver, Rearm, PowerOn, vars, idleVars

\* The only step that begins a live look is poll_once's decision.
LEMMA OnlyDecide ==
  ASSUME [Next]_vars, idlePc = "wait", idlePc' = "look"
  PROVE  Decide
PROOF
  BY DEF Next, HealthThread, IdleThread, HealthPolls, HealthPollsSetup, HealthDies,
         FirstPollRaises, ServiceStarts, HealthEmits, SourceChanges, Activity, PlayerChanges,
         Tick, LookSees, LookFails, LookRaises, LookIsOver, Rearm, Request, PowerOn, vars, idleVars

-----------------------------------------------------------------------------
\* For every interval: a shutdown comes after a whole one in which nothing was
\* done, or after a last event that came while the player was being asked.
THEOREM LongIdleSafety == Spec => ShutdownAfterLongIdle
<1>1. IInv /\ [Next]_vars => [Requests => idleFor = Timeout \/ disturbed]_vars
  BY OnlyRequest DEF IInv, Looking, Decided, Request
<1>2. QED
  BY Invariance, <1>1, PTL DEF Spec, ShutdownAfterLongIdle

\* Playback that goes on throughout the check is never cut by it, and a look
\* that failed cuts nothing.
THEOREM SilenceSafety == Spec => ShutdownOnlyInSilence
<1>1. IInv /\ [Next]_vars => [Requests => quiet]_vars
  BY OnlyRequest DEF IInv, Silent, Request
<1>2. QED
  BY Invariance, <1>1, PTL DEF Spec, ShutdownOnlyInSilence

\* Two live looks at the player are a whole interval apart, however long each
\* takes and whatever the household does between them.
THEOREM LookSafety == Spec => OneLookPerInterval
<1>1. IInv /\ [Next]_vars
        => [idlePc = "wait" /\ idlePc' = "look" => sinceCheck = Timeout]_vars
  <2> SUFFICES ASSUME IInv, Next, idlePc = "wait", idlePc' = "look"
               PROVE  sinceCheck = Timeout
    OBVIOUS
  <2>1. Decide
    BY OnlyDecide
  <2>2. age \in 0..Timeout /\ sinceCheck \in 0..Timeout /\ Timeout \in Nat
    BY TimeoutAssumption DEF IInv, TypeOK
  <2>3. QED
    BY <2>1, <2>2 DEF IInv, Ages, Decide
<1>2. QED
  BY Invariance, <1>1, PTL DEF Spec, OneLookPerInterval

-----------------------------------------------------------------------------
(***************************************************************************)
(* What the health monitor tells, and what the idle monitor makes of it:   *)
(* the safety in SetupDisablesShutdown and IdleBoxShutsDown.               *)
(***************************************************************************)
Asked == {"setup_required", "auth_required"}

\* Once the sinks have handled it, the flag agrees with the last event: set by
\* the two that ask for setup, cleared by "ready", and clear before any.
FlagFollowsEvents ==
  healthPc # "emit" =>
    /\ lastStatus \in Asked => setupActive
    /\ lastStatus \in {"ready", "none"} => ~setupActive

\* A poll ends: its three statuses were read and compared with the last event.
Polled == healthPc = "setup" /\ healthPc' \in {"scanner", "emit"} /\ lastStatus' # "none"

\* What a poll that found the scanner ready tells while setup is asked for is
\* setup, whatever playback reports; and it tells "ready" only, and always, when
\* each of the three was ready as it was read.
PollTellsSetup ==
  [][Polled =>
       /\ seen.scanner = "ready" /\ setup \in Asked => lastStatus' = setup
       /\ lastStatus' = "ready" <=> seen = NothingSeen /\ setup = "ready"]_vars

\* pi-validation.md:133: no live look, and so no shutdown, is decided on after the
\* event that asks for setup, until another event follows it.
NoLookInSetup ==
  [][idlePc = "wait" /\ idlePc' = "look" => healthPc = "emit" \/ lastStatus \notin Asked]_vars

\* Setup hides whatever playback may report, and a scanner that is not ready
\* hides setup; "ready" hides nothing.
LEMMA WorstOfThree ==
  ASSUME NEW s \in ScannerCodes, NEW p \in PlaybackCodes, NEW t \in SetupCodes
  PROVE  /\ s = "ready" /\ t \in Asked => Worst({s, p, t}) = t
         /\ Worst({s, p, t}) = "ready" <=> s = "ready" /\ p = "ready" /\ t = "ready"
PROOF
  <1> DEFINE P(x) == StatusPriority[x]
             W == Worst({s, p, t})
  <1>1. s \in Codes /\ p \in Codes /\ t \in Codes
    BY CodesFact
  <1>2. P(s) \in Nat /\ P(p) \in Nat /\ P(t) \in Nat
    BY <1>1, PriorityFact
  <1>3. \E x \in {s, p, t} : \A y \in {s, p, t} : P(x) <= P(y)
    <2>1. \/ P(s) <= P(p) /\ P(s) <= P(t)
          \/ P(p) <= P(s) /\ P(p) <= P(t)
          \/ P(t) <= P(s) /\ P(t) <= P(p)
      <3> HIDE DEF P
      <3> QED BY <1>2
    <2>2. P(s) <= P(s) /\ P(p) <= P(p) /\ P(t) <= P(t)
      <3> HIDE DEF P
      <3> QED BY <1>2
    <2>3. QED
      BY <2>1, <2>2
  <1>4. W \in {s, p, t} /\ P(W) <= P(s) /\ P(W) <= P(p) /\ P(W) <= P(t)
    BY <1>3 DEF Worst
  <1>5. \A c \in Codes : (P(c) = 7 <=> c = "ready") /\ P(c) \in 0..7
    BY DEF Codes, StatusPriority
  <1>6. P(t) \in {1, 2, 7} /\ (t \in Asked => P(t) \in {1, 2})
    BY DEF Asked, SetupCodes, StatusPriority
  <1>7. p = "ready" \/ P(p) \in 3..6
    BY PlaybackCodesAssumption DEF Codes, StatusPriority
  <1>8. ASSUME s = "ready", t \in Asked
        PROVE  W = t
    <2>1. P(s) = 7 /\ P(p) \in 3..7
      BY <1>1, <1>5, <1>7, <1>8
    <2>2. P(W) # P(s) /\ P(W) # P(p)
      <3> HIDE DEF P, W
      <3> QED BY <1>4, <1>6, <1>8, <2>1
    <2>3. QED
      BY <1>4, <2>2
  <1>9. W = "ready" <=> s = "ready" /\ p = "ready" /\ t = "ready"
    <2>1. W \in Codes
      BY <1>1, <1>4
    <2>2. (P(W) = 7) <=> (P(s) = 7 /\ P(p) = 7 /\ P(t) = 7)
      <3>1. P(s) \in 0..7 /\ P(p) \in 0..7 /\ P(t) \in 0..7 /\ P(W) \in 0..7
        BY <1>1, <1>5, <2>1
      <3>2. P(W) = P(s) \/ P(W) = P(p) \/ P(W) = P(t)
        BY <1>4
      <3>3. P(W) <= P(s) /\ P(W) <= P(p) /\ P(W) <= P(t)
        BY <1>4
      <3> HIDE DEF P, W
      <3>4. QED
        BY <3>1, <3>2, <3>3
    <2>3. (P(W) = 7 <=> W = "ready") /\ (P(s) = 7 <=> s = "ready")
          /\ (P(p) = 7 <=> p = "ready") /\ (P(t) = 7 <=> t = "ready")
      BY <1>1, <1>5, <2>1
    <2>4. QED
      BY <2>2, <2>3
  <1>10. QED
    BY <1>8, <1>9

\* An event that is on its way has a code.
Told == healthPc = "emit" => lastStatus # "none"

LEMMA StepTold == IInv /\ Told /\ [Next]_vars => Told'
PROOF
  <1> SUFFICES ASSUME IInv, Told, [Next]_vars
               PROVE  Told'
    OBVIOUS
  <1> USE DEF Told
  <1>1. CASE HealthPollsSetup
    <2>1. seen.scanner \in Codes /\ seen.playback \in Codes /\ setup \in Codes
      BY CodesFact DEF IInv, TypeOK, HealthTypeOK
    <2>2. Worst({seen.scanner, seen.playback, setup}) \in Codes
      BY <2>1, WorstFact
    <2>3. "none" \notin Codes
      BY DEF Codes, StatusPriority
    <2>4. healthPc' = "scanner" \/ lastStatus' = Worst({seen.scanner, seen.playback, setup})
      BY <1>1 DEF HealthPollsSetup, PollSetup
    <2>5. QED
      BY <2>2, <2>3, <2>4
  <1>2. CASE healthPc' # "emit"
    BY <1>2
  <1>3. CASE UNCHANGED <<healthPc, lastStatus>>
    BY <1>3
  <1>4. QED
    BY <1>1, <1>2, <1>3
    DEF Next, HealthThread, IdleThread, HealthPolls, PollScanner, PollPlayback, HealthDies,
        ThreadDies, HealthEmits, Emitted, FirstPollRaises, PowerOn, ServiceStarts, SourceChanges,
        Activity, PlayerChanges, Tick, Decide, LookSees, LookFails, LookRaises, Rearm, Request,
        vars, healthVars

LEMMA StepFlag == FlagFollowsEvents /\ Told /\ [Next]_vars => FlagFollowsEvents'
PROOF
  <1> SUFFICES ASSUME FlagFollowsEvents, Told, [Next]_vars
               PROVE  FlagFollowsEvents'
    OBVIOUS
  <1> USE DEF FlagFollowsEvents
  <1>1. CASE UNCHANGED <<healthPc, lastStatus, setupActive>>
    BY <1>1
  <1>2. CASE HealthPolls
    BY <1>2 DEF HealthPolls, PollScanner, PollPlayback, idleVars
  <1>3. CASE HealthPollsSetup
    <2>1. healthPc = "setup" /\ UNCHANGED setupActive
      BY <1>3 DEF HealthPollsSetup, PollSetup, idleVars
    <2>2. healthPc' = "emit" \/ UNCHANGED lastStatus
      BY <1>3 DEF HealthPollsSetup, PollSetup
    <2>3. QED
      BY <2>1, <2>2
  <1>4. CASE HealthDies
    BY <1>4 DEF HealthDies, ThreadDies, SetupRaises, idleVars
  <1>5. CASE HealthEmits
    <2>1. UNCHANGED lastStatus
      BY <1>5 DEF HealthEmits, Emitted
    <2>2. lastStatus \in Asked => setupActive'
      BY <1>5 DEF HealthEmits, Asked
    <2>3. lastStatus = "ready" => ~setupActive'
      BY <1>5 DEF HealthEmits
    <2>4. QED
      BY <1>5, <2>1, <2>2, <2>3 DEF HealthEmits, Emitted, Told
  <1>6. CASE FirstPollRaises \/ PowerOn
    BY <1>6 DEF FirstPollRaises, PowerOn, ServiceStarts, Asked
  <1>7. QED
    BY <1>1, <1>2, <1>3, <1>4, <1>5, <1>6
    DEF Next, HealthThread, IdleThread, SourceChanges, Activity, PlayerChanges, Tick, Decide,
        LookSees, LookFails, LookRaises, Rearm, Request, vars, idleVars, healthVars

\* The flag says what the last event said, in every interleaving of the health
\* monitor's polls, the idle monitor's and the restarts of the service.
THEOREM FlagSafety == Spec => []FlagFollowsEvents
<1>1. Init => FlagFollowsEvents /\ Told
  BY DEF Init, MonitorInit, HealthInit, FlagFollowsEvents, Asked, Told
<1>2. QED
  BY <1>1, Invariance, StepFlag, StepTold, PTL DEF Spec

\* For every set of playback codes: setup is told while it is asked for, and
\* only a poll that read "ready" three times says that it is over.
THEOREM PollSafety == Spec => PollTellsSetup
<1>1. IInv /\ [Next]_vars =>
        [Polled => /\ seen.scanner = "ready" /\ setup \in Asked => lastStatus' = setup
                   /\ lastStatus' = "ready" <=> seen = NothingSeen /\ setup = "ready"]_vars
  <2> SUFFICES ASSUME IInv, Next, Polled
               PROVE  /\ seen.scanner = "ready" /\ setup \in Asked => lastStatus' = setup
                      /\ lastStatus' = "ready" <=> seen = NothingSeen /\ setup = "ready"
    OBVIOUS
  <2>1. PollSetup
    BY DEF Polled, Next, HealthThread, IdleThread, HealthPolls, HealthPollsSetup, HealthDies,
           HealthEmits, Emitted, FirstPollRaises, ServiceStarts, SourceChanges, Activity,
           PlayerChanges, Tick, Decide, LookSees, LookFails, LookRaises, Rearm, Request,
           PowerOn, PollScanner, PollPlayback, ThreadDies, healthVars
  <2>2. lastStatus' = Worst({seen.scanner, seen.playback, setup})
    BY <2>1 DEF PollSetup
  <2>3. seen.scanner \in ScannerCodes /\ seen.playback \in PlaybackCodes /\ setup \in SetupCodes
    BY DEF IInv, TypeOK, HealthTypeOK
  <2>4. seen = NothingSeen <=> seen.scanner = "ready" /\ seen.playback = "ready"
    BY DEF IInv, TypeOK, HealthTypeOK, NothingSeen
  <2>5. QED
    BY <2>2, <2>3, <2>4, WorstOfThree
<1>2. QED
  BY Invariance, <1>1, PTL DEF Spec, PollTellsSetup

\* Once setup was asked for and handled, no shutdown is on its way that was not
\* decided on before.
THEOREM SetupLookSafety == Spec => NoLookInSetup
<1>1. FlagFollowsEvents /\ [Next]_vars =>
        [idlePc = "wait" /\ idlePc' = "look" => healthPc = "emit" \/ lastStatus \notin Asked]_vars
  <2> SUFFICES ASSUME FlagFollowsEvents, Next, idlePc = "wait", idlePc' = "look"
               PROVE  healthPc = "emit" \/ lastStatus \notin Asked
    OBVIOUS
  <2>1. Decide
    BY OnlyDecide
  <2>2. QED
    BY <2>1 DEF Decide, FlagFollowsEvents
<1>2. QED
  BY FlagSafety, <1>1, PTL DEF Spec, NoLookInSetup

=============================================================================
