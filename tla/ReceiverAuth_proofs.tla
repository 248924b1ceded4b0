----------------------- MODULE ReceiverAuth_proofs -----------------------
(***************************************************************************)
(* Proofs about ReceiverAuth, for any callers, tasks and workers.          *)
(***************************************************************************)
EXTENDS ReceiverAuth, TLAPS

(***************************************************************************)
(* The invariant that holds over any overlap of the callers: where each    *)
(* answer of the helper came from, that a worker is launched only where    *)
(* spotifyd is installed, and which task each step belongs to.             *)
(***************************************************************************)
StartSteps ==
  {"request", "start", "refuse", "pend", "rename", "launch", "report", "accept"}

AnswersInv ==
  /\ helper = "succeeded" => proven
  /\ Alive # {} => installed
  /\ \A c \in Callers :
       /\ payload[c] # "failed" => helper # "absent"
       /\ payload[c] = "succeeded" => proven
       /\ pc[c] = "mark_started" => payload[c] \in InProgress
       /\ pc[c] = "accept" => payload[c] # "failed"
       /\ pc[c] \in {"pend", "rename", "launch"} => installed
       /\ pc[c] = "clear" => payload[c] = "succeeded"
       /\ pc[c] \in StartSteps => task[c] = "start"

IInv == TypeOK /\ StartedWasLaunched /\ AnswersInv

(***************************************************************************)
(* The invariant of start commands that take turns, whatever the other     *)
(* callers do.  Only one process is writing state.json, so its renaming    *)
(* finds the temporary file it wrote; and there is one worker at most, and *)
(* only for a flow in progress.                                            *)
(***************************************************************************)
OneStarts == \A c, d \in Callers : Starting(c) /\ Starting(d) => c = d

WorkersInv ==
  /\ \A v, w \in Alive : v = w
  /\ helper \notin InProgress => Alive = {}
  /\ \A w \in Workers :
       /\ worker[w] = "starting" => temporary = "running"
       /\ worker[w] = "ending" => temporary \in {"succeeded", "failed"}

StarterInv(c) ==
  /\ pc[c] = "refuse" => Alive = {} /\ temporary = "failed"
  /\ pc[c] = "pend" => Alive = {} /\ helper \notin InProgress
  /\ pc[c] = "rename" => Alive = {} /\ helper \notin InProgress /\ temporary = "pending"
  /\ pc[c] = "launch" => Alive = {} /\ helper = "pending"

Starts ==
  /\ OneStarts
  /\ WorkersInv
  /\ \A c \in Callers : StarterInv(c)
  /\ restarts = 0 => ProgressIsReal

StartsInv == ~contended => Starts

(***************************************************************************)
(* The invariant of callers that take turns.  Only one of them is at work, *)
(* and a flow in progress is always a requested one; so a success found    *)
(* once the request is marked started is a success of this request,        *)
(* although cards may be scanned between any two of the caller's steps.    *)
(***************************************************************************)
InTurn == \A c, d \in Callers : Busy(c) /\ Busy(d) => c = d

FlowInv ==
  /\ helper \in InProgress => store.reauth
  /\ store.reauth /\ store.started /\ helper = "succeeded" => fresh

CallerInv(c) ==
  /\ pc[c] \in {"start", "refuse", "pend", "rename", "launch", "report", "accept"}
       => store.reauth
  /\ pc[c] \in {"report", "accept"} /\ helper = "succeeded" => fresh
  /\ pc[c] \in {"load", "mark_started"} /\ payload[c] \in InProgress
       => store.reauth /\ (helper = "succeeded" => fresh)
  /\ pc[c] \in {"load", "clear", "accept"} /\ payload[c] = "succeeded" => helper = "succeeded"
  /\ pc[c] = "clear" => store.reauth /\ store.started /\ fresh

TurnsInv ==
  ~overlapped => ~contended /\ InTurn /\ FlowInv /\ \A c \in Callers : CallerInv(c)

-----------------------------------------------------------------------------
\* What the calls on the store leave of an operator state.
LEMMA StoreFact ==
  ASSUME NEW s \in OperatorState
  PROVE  /\ MarkReauthRequested(s, TRUE) \in OperatorState
         /\ MarkReauthRequested(s, TRUE).reauth
         /\ MarkReauthRequested(s, TRUE).started = (s.reauth /\ s.started)
         /\ MarkReauthRequested(s, FALSE) \in OperatorState
         /\ ~MarkReauthRequested(s, FALSE).reauth
         /\ ~MarkReauthRequested(s, FALSE).started
         /\ MarkReauthStarted(s) \in OperatorState
         /\ MarkReauthStarted(s).reauth
         /\ MarkReauthStarted(s).started
BY DEF OperatorState, MarkReauthRequested, MarkReauthStarted

\* What a renaming, or its failure, leaves of the helper and the history.
LEMMA RenameFact ==
  ASSUME TypeOK, helper = "succeeded" => proven,
         RenameReports \/ (RenameFails /\ UNCHANGED historyVars)
  PROVE  /\ helper' \in HelperStates /\ temporary' \in HelperStates
         /\ helper # "absent" => helper' # "absent"
         /\ fresh' \in BOOLEAN /\ proven' \in BOOLEAN
         /\ proven => proven'
         /\ helper' = "succeeded" => proven'
<1>1. CASE RenameReports
  <2>1. /\ helper' = temporary /\ temporary # "absent" /\ temporary' = "absent"
        /\ fresh' = (fresh \/ temporary = "succeeded")
        /\ proven' = (proven \/ temporary = "succeeded")
    BY <1>1 DEF RenameReports, Rename
  <2>2. fresh' \in BOOLEAN /\ proven' \in BOOLEAN
    BY <2>1
  <2>3. (proven => proven') /\ (helper' = "succeeded" => proven')
    BY <2>1
  <2>4. QED
    BY <2>1, <2>2, <2>3 DEF TypeOK, HelperTypeOK, HelperStates
<1>2. CASE RenameFails /\ UNCHANGED historyVars
  BY <1>2 DEF RenameFails, historyVars, TypeOK, HelperTypeOK
<1>3. QED
  BY <1>1, <1>2

LEMMA InitIInv == Init => IInv
<1> SUFFICES ASSUME Init PROVE IInv
  OBVIOUS
<1>1. Defaults \in OperatorState /\ ~Defaults.started
  BY DEF Defaults, OperatorState, PlaybackModes, WifiModes
<1>2. TypeOK
  <2>1. proven \in BOOLEAN
    BY DEF Init
  <2>2. HelperTypeOK
    BY DEF Init, HelperInit, HelperTypeOK, HelperStates, WorkerSteps
  <2>3. pc \in [Callers -> Steps] /\ payload \in [Callers -> HelperStates \ {"absent"}]
    BY DEF Init, Steps, HelperStates
  <2>4. /\ task \in [Callers -> {"poll", "get", "start"}]
        /\ code \in [Callers -> {"auth_required", "other"}]
        /\ fresh \in BOOLEAN /\ overlapped \in BOOLEAN /\ contended \in BOOLEAN
        /\ restarts = 0 /\ store = Defaults
    BY DEF Init
  <2>5. QED
    BY <1>1, <2>1, <2>2, <2>3, <2>4, MaxRestartsAssumption DEF TypeOK
<1>3. /\ Alive = {} /\ store = Defaults
      /\ \A c \in Callers : pc[c] = "idle" /\ payload[c] = "failed"
  BY DEF Init, HelperInit, InProgress, Alive
<1>4. helper = "succeeded" => proven
  BY DEF Init
<1>5. QED
  BY <1>1, <1>2, <1>3, <1>4 DEF IInv, StartedWasLaunched, AnswersInv, StartSteps

LEMMA NextIInv == IInv /\ [Next]_vars => IInv'
<1> SUFFICES ASSUME IInv, [Next]_vars PROVE IInv'
  OBVIOUS
<1> USE StoreFact, MaxRestartsAssumption
    DEF IInv, TypeOK, HelperTypeOK, WorkerSteps, HelperStates, Steps, StartedWasLaunched,
        AnswersInv, InProgress, StartSteps, helperVars, historyVars, Goto, Alive,
        AfterReconcile
<1>1. CASE ScanReauthCard
  BY <1>1 DEF ScanReauthCard, RequestReauth
<1>2. ASSUME NEW c \in Callers, NEW t \in {"poll", "get", "start"}, Begin(c, t)
      PROVE  IInv'
  BY <1>2 DEF Begin
<1>3. ASSUME NEW c \in Callers, Guard(c) PROVE IInv'
  BY <1>3 DEF Guard
<1>4. ASSUME NEW c \in Callers, ReadStatus(c) PROVE IInv'
  BY <1>4 DEF ReadStatus, Emitted
<1>5. ASSUME NEW c \in Callers, HelperFails(c) PROVE IInv'
  BY <1>5 DEF HelperFails
<1>6. ASSUME NEW c \in Callers, Load(c) PROVE IInv'
  BY <1>6 DEF Load
<1>7. ASSUME NEW c \in Callers, MarkStarted(c) PROVE IInv'
  <2>1. /\ store' \in OperatorState
        /\ store'.reauth
        /\ store'.started => store.started \/ payload[c] # "failed"
        /\ fresh' \in BOOLEAN
    BY <1>7 DEF MarkStarted, StartReauth
  <2>2. pc' \in [Callers -> Steps]
    BY <1>7 DEF MarkStarted
  <2>3. QED
    BY <1>7, <2>1, <2>2 DEF MarkStarted, StartReauth
<1>8. ASSUME NEW c \in Callers, Clear(c) PROVE IInv'
  <2>1. store' \in OperatorState /\ ~store'.reauth /\ ~store'.started
    BY <1>8 DEF Clear, ClearReauth
  <2>2. pc' \in [Callers -> Steps]
    BY <1>8 DEF Clear
  <2>3. UNCHANGED <<helperVars, task, payload, code, proven, overlapped, contended, restarts>>
    BY <1>8 DEF Clear, ClearReauth
  <2>5. AnswersInv'
    BY <1>8, <2>2, <2>3 DEF Clear
  <2>6. fresh' \in BOOLEAN
    BY <1>8, <2>1 DEF Clear, ClearReauth
  <2>7. QED
    BY <2>1, <2>2, <2>3, <2>5, <2>6
<1>9. ASSUME NEW c \in Callers, Publish(c) PROVE IInv'
  BY <1>9 DEF Publish
<1>18. ASSUME NEW c \in Callers, StatusRaises(c) PROVE IInv'
  BY <1>18 DEF StatusRaises
<1>10. ASSUME NEW c \in Callers, Request(c) PROVE IInv'
  <2>1. /\ store' \in OperatorState
        /\ store'.reauth
        /\ store'.started => store.started \/ payload[c] # "failed"
        /\ fresh' \in BOOLEAN
    BY <1>10 DEF Request, RequestReauth
  <2>2. pc' \in [Callers -> Steps]
    BY <1>10 DEF Request
  <2>3. UNCHANGED <<helperVars, task, payload, code, proven, overlapped, contended, restarts>>
    BY <1>10 DEF Request, RequestReauth
  <2>5. AnswersInv'
    BY <1>10, <2>2, <2>3 DEF Request
  <2>6. fresh' \in BOOLEAN
    BY <1>10, <2>1 DEF Request, RequestReauth
  <2>7. QED
    BY <2>1, <2>2, <2>3, <2>5, <2>6
<1>11. ASSUME NEW c \in Callers, StartCommand(c) PROVE IInv'
  BY <1>11 DEF StartCommand, StartRefused, StartJoins, StartLaunches, WriteTemporary
<1>12. ASSUME NEW c \in Callers, Pend(c) PROVE IInv'
  BY <1>12 DEF Pend, WriteTemporary
<1>22. ASSUME NEW c \in Callers, FinishWrite(c) PROVE IInv'
  <2>1. UNCHANGED <<store, task, payload, code, worker, installed, overlapped, contended, restarts>>
    BY <1>22 DEF FinishWrite, RenameReports
  <2>2. /\ helper' \in HelperStates /\ temporary' \in HelperStates
        /\ helper # "absent" => helper' # "absent"
        /\ fresh' \in BOOLEAN /\ proven' \in BOOLEAN
        /\ proven => proven'
        /\ helper' = "succeeded" => proven'
    BY <1>22, RenameFact DEF FinishWrite
  <2>3. PICK s \in {"report", "launch"} : Goto(c, s) /\ (s = "launch" => pc[c] = "rename")
    BY <1>22 DEF FinishWrite
  <2>4. pc[c] \in {"refuse", "rename"}
    BY <1>22 DEF FinishWrite
  <2>5. pc' = [pc EXCEPT ![c] = s] /\ pc' \in [Callers -> Steps]
    BY <2>3
  <2>6. QED
    BY <2>1, <2>2, <2>3, <2>4, <2>5
<1>23. ASSUME NEW c \in Callers, LoseWrite(c) PROVE IInv'
  BY <1>23 DEF LoseWrite, RenameFails
<1>13. ASSUME NEW c \in Callers, Launch(c) PROVE IInv'
  BY <1>13 DEF Launch, LaunchWorker
<1>14. ASSUME NEW c \in Callers, Report(c) PROVE IInv'
  BY <1>14 DEF Report, Emitted
<1>15. ASSUME NEW c \in Callers, Accept(c) PROVE IInv'
  <2>1. /\ store' \in OperatorState
        /\ store'.reauth
        /\ store'.started => store.started \/ payload[c] # "failed"
        /\ fresh' \in BOOLEAN
    BY <1>15 DEF Accept, StartReauth
  <2>2. pc' \in [Callers -> Steps]
    BY <1>15 DEF Accept
  <2>3. QED
    BY <1>15, <2>1, <2>2 DEF Accept, StartReauth
<1>16. ASSUME NEW w \in Workers, WorkerRuns(w) PROVE IInv'
  BY <1>16 DEF WorkerRuns, WorkerStarts, WorkerEnds, WriteTemporary
<1>17. ASSUME NEW w \in Workers, WorkerReports(w) PROVE IInv'
  <2>1. UNCHANGED <<store, pc, task, payload, code, installed, overlapped, contended, restarts>>
    BY <1>17 DEF WorkerReports, WorkerRenames, RenameReports
  <2>5. RenameReports \/ (RenameFails /\ UNCHANGED historyVars)
    BY <1>17 DEF WorkerReports
  <2>2. /\ helper' \in HelperStates /\ temporary' \in HelperStates
        /\ helper # "absent" => helper' # "absent"
        /\ fresh' \in BOOLEAN /\ proven' \in BOOLEAN
        /\ proven => proven'
        /\ helper' = "succeeded" => proven'
    BY <2>5, RenameFact
  <2>3. worker' \in [Workers -> WorkerSteps] /\ (Alive' # {} => Alive # {})
    BY <1>17 DEF WorkerReports, WorkerRenames
  <2>4. QED
    BY <2>1, <2>2, <2>3
<1>19. CASE Restart
  BY <1>19 DEF Restart, WorkersDie
<1>20. CASE UNCHANGED vars
  BY <1>20 DEF vars
<1>21. QED
  BY <1>1, <1>2, <1>3, <1>4, <1>5, <1>6, <1>7, <1>8, <1>9, <1>10, <1>11, <1>12,
     <1>13, <1>14, <1>15, <1>16, <1>17, <1>18, <1>19, <1>20, <1>22, <1>23 DEF Next, CallerStep

LEMMA Invariance == Spec => []IInv
BY InitIInv, NextIInv, PTL DEF Spec

(***************************************************************************)
(* The variables have their types in every reachable state.                *)
(***************************************************************************)
THEOREM TypeCorrect == Spec => []TypeOK
<1>1. IInv => TypeOK
  BY DEF IInv
<1>2. QED
  BY Invariance, <1>1, PTL

(***************************************************************************)
(* However the callers overlap and whenever the service restarts, the      *)
(* persisted started flag is set only on a requested flow and only after   *)
(* a start command has written state.json.                                 *)
(***************************************************************************)
THEOREM StartedSafety == Spec => []StartedWasLaunched
<1>1. IInv => StartedWasLaunched
  BY DEF IInv
<1>2. QED
  BY Invariance, <1>1, PTL

-----------------------------------------------------------------------------
\* The only step that withdraws a request is a caller's Clear.
LEMMA OnlyClearWithdraws ==
  ASSUME IInv, [Next]_vars, store.reauth, ~store'.reauth
  PROVE  \E c \in Callers : Clear(c)
<1> USE StoreFact DEF IInv, TypeOK, helperVars, historyVars
<1>1. CASE ScanReauthCard
  BY <1>1 DEF ScanReauthCard, RequestReauth
<1>2. ASSUME NEW c \in Callers, NEW t \in {"poll", "get", "start"}, Begin(c, t)
      PROVE  FALSE
  BY <1>2 DEF Begin
<1>3. ASSUME NEW c \in Callers, CallerStep(c), ~Clear(c) PROVE FALSE
  <2>1. CASE MarkStarted(c) \/ Accept(c)
    <3>1. store' = MarkReauthStarted(store)
      BY <2>1 DEF MarkStarted, Accept, StartReauth
    <3>2. QED
      BY <3>1
  <2>2. CASE Request(c)
    BY <2>2 DEF Request, RequestReauth
  <2>3. CASE Guard(c) \/ ReadStatus(c) \/ HelperFails(c) \/ Load(c) \/ Publish(c)
               \/ StatusRaises(c)
    BY <2>3 DEF Guard, ReadStatus, HelperFails, Load, Publish, StatusRaises
  <2>4. CASE StartCommand(c) \/ Pend(c) \/ FinishWrite(c) \/ LoseWrite(c)
               \/ Launch(c) \/ Report(c)
    BY <2>4 DEF StartCommand, Pend, FinishWrite, LoseWrite, Launch, Report
  <2>5. QED
    BY <1>3, <2>1, <2>2, <2>3, <2>4 DEF CallerStep
<1>4. ASSUME NEW w \in Workers, WorkerRuns(w) \/ WorkerReports(w)
      PROVE  FALSE
  BY <1>4 DEF WorkerRuns, WorkerReports
<1>5. CASE Restart
  BY <1>5 DEF Restart
<1>6. CASE UNCHANGED vars
  BY <1>6 DEF vars
<1>7. QED
  BY <1>1, <1>2, <1>3, <1>4, <1>5, <1>6 DEF Next

(***************************************************************************)
(* auth_required is cleared only on a device where some authentication has *)
(* succeeded, for any overlap of the callers.                              *)
(***************************************************************************)
THEOREM ClearSafety == Spec => ClearNeedsSomeSuccess
<1>1. IInv /\ [Next]_vars => [store.reauth /\ ~store'.reauth => proven]_vars
  BY OnlyClearWithdraws DEF IInv, AnswersInv, Clear
<1>2. QED
  BY Invariance, <1>1, PTL DEF Spec, ClearNeedsSomeSuccess

-----------------------------------------------------------------------------
(***************************************************************************)
(* Start commands that take turns.                                         *)
(***************************************************************************)
LEMMA InitStarts == Init => StartsInv
<1> SUFFICES ASSUME Init PROVE StartsInv
  OBVIOUS
<1>1. /\ pc = [c \in Callers |-> "idle"]
      /\ worker = [w \in Workers |-> "none"]
      /\ helper \notin InProgress
  BY DEF Init, HelperInit, InProgress
<1>2. QED
  BY <1>1 DEF StartsInv, Starts, OneStarts, Starting, Busy, WorkersInv, StarterInv, Alive, ProgressIsReal

\* A step that leaves the helper alone, of a caller that does not launch.
LEMMA ElsewhereKept ==
  ASSUME IInv, Starts, NEW c \in Callers, NEW s \in Steps,
         pc[c] \notin {"idle", "dead", "launch"}, s \notin {"refuse", "pend", "rename", "launch"},
         Goto(c, s), UNCHANGED <<helperVars, task, restarts>>
  PROVE  Starts'
<1>1. /\ pc' = [pc EXCEPT ![c] = s] /\ pc \in [Callers -> Steps]
      /\ UNCHANGED <<helper, temporary, worker, task, restarts>>
  BY DEF Goto, IInv, TypeOK, helperVars
<1>2. pc'[c] = s /\ \A d \in Callers : d # c => pc'[d] = pc[d]
  BY <1>1
<1>3. OneStarts'
  BY <1>1, <1>2 DEF Starts, OneStarts, Starting, Busy
<1>4. Alive' = Alive
  BY <1>1 DEF Alive
<1>5. WorkersInv'
  BY <1>1, <1>4 DEF Starts, WorkersInv
<1>6. ASSUME NEW d \in Callers PROVE StarterInv(d)'
  BY <1>1, <1>2, <1>4 DEF Starts, StarterInv
<1>7. restarts = 0 => ProgressIsReal'
  BY <1>1, <1>2, <1>4 DEF Starts, ProgressIsReal
<1>8. QED
  BY <1>1, <1>3, <1>5, <1>6, <1>7 DEF Starts

\* While a caller starts, no other is at a step of a start command.
LEMMA StarterAlone ==
  ASSUME IInv, OneStarts, NEW c \in Callers, pc[c] \in StartSteps,
         NEW d \in Callers, d # c
  PROVE  pc[d] \notin StartSteps
<1>1. Starting(c) /\ (pc[d] \in StartSteps => Starting(d))
  BY DEF IInv, AnswersInv, Starting, Busy, StartSteps
<1>2. QED
  BY <1>1 DEF OneStarts

\* A step of the caller that starts: what is to be shown of it.
LEMMA StarterKept ==
  ASSUME IInv, Starts, NEW c \in Callers, pc[c] \in StartSteps, NEW s \in Steps, Goto(c, s),
         UNCHANGED <<task, restarts>>,
         WorkersInv', StarterInv(c)', restarts = 0 => ProgressIsReal'
  PROVE  Starts'
<1>1. pc'[c] = s /\ \A d \in Callers : d # c => pc'[d] = pc[d]
  BY DEF Goto, IInv, TypeOK
<1>2. pc[c] # "idle" /\ Starting(c)
  BY DEF IInv, AnswersInv, Starting, Busy, StartSteps
<1>3. OneStarts'
  BY <1>1, <1>2 DEF Starts, OneStarts, Starting, Busy
<1>4. ASSUME NEW d \in Callers, d # c PROVE StarterInv(d)'
  BY <1>1, <1>4, StarterAlone DEF Starts, StarterInv, StartSteps
<1>5. QED
  BY <1>3, <1>4 DEF Starts

\* A step of a worker, which there is only beside starters that are past
\* their launch, if beside any.
LEMMA WorkerKept ==
  ASSUME IInv, Starts, NEW w \in Alive, UNCHANGED <<pc, task, restarts>>,
         WorkersInv', restarts = 0 => ProgressIsReal'
  PROVE  Starts'
<1>1. Alive # {}
  OBVIOUS
<1>2. \A d \in Callers : pc[d] \notin {"refuse", "pend", "rename", "launch"}
  BY <1>1 DEF Starts, StarterInv
<1>3. \A d \in Callers : StarterInv(d)'
  BY <1>2 DEF StarterInv
<1>4. OneStarts'
  BY DEF Starts, OneStarts, Starting, Busy
<1>5. QED
  BY <1>3, <1>4 DEF Starts

LEMMA NextStarts == IInv /\ StartsInv /\ [Next]_vars => StartsInv'
<1> SUFFICES ASSUME IInv, StartsInv, [Next]_vars, ~contended' PROVE Starts'
  BY DEF StartsInv
<1>1. ~contended
  <2>1. contended \in BOOLEAN
    BY DEF IInv, TypeOK
  <2>2. CASE \E c \in Callers, t \in {"poll", "get", "start"} : Begin(c, t)
    BY <2>2 DEF Begin
  <2>3. CASE ~\E c \in Callers, t \in {"poll", "get", "start"} : Begin(c, t)
    BY <2>3 DEF Next, vars, ScanReauthCard, RequestReauth, CallerStep, Guard,
                ReadStatus, HelperFails, Load, MarkStarted, Clear, ClearReauth, Publish,
                StatusRaises, Request, StartCommand, Pend, FinishWrite, LoseWrite, RenameReports,
                Launch, Report, Accept, StartReauth, WorkerRuns, WorkerReports, Restart,
                historyVars
  <2>4. QED
    BY <2>2, <2>3
<1>2. Starts
  BY <1>1 DEF StartsInv
<1>3. CASE ScanReauthCard \/ UNCHANGED vars
  <2>1. UNCHANGED <<helper, temporary, worker, pc, task, restarts>>
    BY <1>3 DEF ScanReauthCard, RequestReauth, helperVars, vars, historyVars
  <2>2. QED
    BY <1>2, <2>1 DEF Starts, OneStarts, Starting, Busy, WorkersInv, StarterInv, Alive, ProgressIsReal
<1>4. ASSUME NEW c \in Callers, NEW t \in {"poll", "get", "start"}, Begin(c, t)
      PROVE  Starts'
  <2>1. /\ pc[c] = "idle" /\ pc'[c] \in {"guard", "status", "request"} /\ task'[c] = t
        /\ \A d \in Callers : d # c => pc'[d] = pc[d] /\ task'[d] = task[d]
        /\ t = "start" => \A d \in Callers : ~Starting(d)
        /\ UNCHANGED <<helper, temporary, worker, restarts>>
    BY <1>1, <1>4 DEF Begin, Goto, IInv, TypeOK, helperVars
  <2>2. OneStarts'
    BY <1>2, <2>1 DEF Starts, OneStarts, Starting, Busy
  <2>3. Alive' = Alive
    BY <2>1 DEF Alive
  <2>4. WorkersInv'
    BY <1>2, <2>1, <2>3 DEF Starts, WorkersInv
  <2>5. ASSUME NEW d \in Callers PROVE StarterInv(d)'
    BY <1>2, <2>1, <2>3 DEF Starts, StarterInv
  <2>6. restarts = 0 => ProgressIsReal'
    BY <1>2, <2>1, <2>3 DEF Starts, ProgressIsReal
  <2>7. QED
    BY <2>1, <2>2, <2>4, <2>5, <2>6 DEF Starts
<1>5. ASSUME NEW c \in Callers, CallerStep(c) PROVE Starts'
  <2>1. CASE Guard(c) \/ ReadStatus(c) \/ HelperFails(c) \/ Load(c) \/ MarkStarted(c)
             \/ Clear(c) \/ Publish(c) \/ StatusRaises(c) \/ Request(c) \/ Report(c) \/ Accept(c)
    <3>1. PICK s \in {"guard", "status", "load", "mark_started", "clear", "publish", "idle",
                      "start", "accept", "dead"} : Goto(c, s)
      BY <2>1 DEF Guard, ReadStatus, HelperFails, Load, MarkStarted, Clear, Publish,
                  StatusRaises, Request,
                  Report, Accept, AfterReconcile
    <3>2. s \in Steps /\ s \notin {"refuse", "pend", "rename", "launch"}
      BY DEF Steps
    <3>3. /\ pc[c] \notin {"idle", "dead", "launch"}
          /\ UNCHANGED <<helperVars, task, restarts>>
      BY <2>1 DEF Guard, ReadStatus, HelperFails, Load, MarkStarted, Clear, ClearReauth,
                  Publish, StatusRaises, Request, RequestReauth, Report, Accept, StartReauth, historyVars
    <3>4. QED
      BY <1>2, <3>1, <3>2, <3>3, ElsewhereKept
  <2> SUFFICES ASSUME StartCommand(c) \/ Pend(c) \/ FinishWrite(c) \/ LoseWrite(c) \/ Launch(c)
               PROVE  Starts'
    BY <1>5, <2>1 DEF CallerStep
  <2>2. /\ WorkersInv /\ StarterInv(c) /\ (restarts = 0 => ProgressIsReal)
        /\ pc[c] \in {"start", "refuse", "pend", "rename", "launch"}
        /\ UNCHANGED <<task, restarts>>
    BY <1>2 DEF Starts, StartCommand, Pend, FinishWrite, LoseWrite, RenameReports, Launch, historyVars
  <2>3. ASSUME NEW s \in Steps, Goto(c, s), WorkersInv', StarterInv(c)',
               restarts = 0 => ProgressIsReal'
        PROVE  Starts'
    BY <1>2, <2>2, <2>3, StarterKept DEF StartSteps
  <2>4. ASSUME NEW s \in Steps, Goto(c, s) PROVE pc'[c] = s
    BY <2>4 DEF Goto, IInv, TypeOK
  <2>5. \A d \in Callers : d # c => pc[d] # "launch"
    BY <1>2, <2>2, StarterAlone DEF Starts, StartSteps
  <2> USE DEF InProgress
  <2>6. CASE StartCommand(c)
    <3>1. UNCHANGED worker /\ Alive' = Alive /\ pc[c] = "start"
      BY <2>6 DEF StartCommand, StartRefused, StartJoins, StartLaunches, helperVars, Alive
    <3>2. CASE StartRefused /\ Goto(c, "refuse")
      <4>1. Alive = {} /\ temporary' = "failed" /\ helper' = helper
        BY <3>2 DEF StartRefused, WriteTemporary, IInv, AnswersInv
      <4>2. pc'[c] = "refuse" /\ "refuse" \in Steps
        BY <2>4, <3>2 DEF Steps
      <4>3. WorkersInv' /\ StarterInv(c)'
        BY <2>2, <3>1, <4>1, <4>2 DEF WorkersInv, StarterInv, Alive
      <4>4. restarts = 0 => ProgressIsReal'
        BY <2>2, <2>5, <3>1, <4>1 DEF ProgressIsReal
      <4>5. QED
        BY <2>3, <3>2, <4>2, <4>3, <4>4
    <3>3. CASE (StartJoins /\ Goto(c, "report")) \/ (StartLaunches /\ Goto(c, "pend"))
      <4>1. UNCHANGED <<helper, temporary>>
        BY <3>3 DEF StartJoins, StartLaunches, helperVars
      <4>2. PICK s \in {"report", "pend"} : Goto(c, s) /\ (s = "pend" => helper \notin InProgress)
        BY <3>3 DEF StartLaunches
      <4>3. s \in Steps /\ pc'[c] = s
        BY <2>4, <4>2 DEF Steps
      <4>4. WorkersInv' /\ StarterInv(c)'
        BY <2>2, <3>1, <4>1, <4>2, <4>3 DEF WorkersInv, StarterInv
      <4>5. restarts = 0 => ProgressIsReal'
        BY <2>2, <2>5, <3>1, <4>1 DEF ProgressIsReal
      <4>6. QED
        BY <2>3, <4>2, <4>3, <4>4, <4>5
    <3>4. QED
      BY <2>6, <3>2, <3>3 DEF StartCommand
  <2>7. CASE Pend(c)
    <3>1. /\ pc[c] = "pend" /\ pc'[c] = "rename" /\ Goto(c, "rename") /\ "rename" \in Steps
          /\ UNCHANGED <<helper, worker>> /\ temporary' = "pending"
          /\ Alive' = Alive
      BY <2>4, <2>7 DEF Pend, WriteTemporary, Steps, Alive
    <3>2. Alive = {} /\ helper \notin InProgress
      BY <2>2, <3>1 DEF StarterInv
    <3>3. WorkersInv' /\ StarterInv(c)' /\ ProgressIsReal'
      BY <3>1, <3>2 DEF WorkersInv, StarterInv, Alive, ProgressIsReal
    <3>4. QED
      BY <2>3, <3>1, <3>3
  <2>8. CASE FinishWrite(c)
    <3>1. PICK s \in {"report", "launch"} :
            /\ Goto(c, s)
            /\ pc[c] = "refuse" => s = "report"
            /\ pc[c] = "rename" => s = "launch"
      BY <2>8 DEF FinishWrite
    <3>2. /\ pc[c] \in {"refuse", "rename"} /\ pc'[c] = s /\ s \in Steps
          /\ UNCHANGED worker /\ helper' = temporary /\ Alive' = Alive
      BY <2>4, <2>8, <3>1 DEF FinishWrite, RenameReports, Rename, Steps, Alive
    <3>3. /\ Alive = {}
          /\ pc[c] = "refuse" => helper' = "failed"
          /\ pc[c] = "rename" => helper' = "pending"
      BY <2>2, <3>2 DEF StarterInv
    <3>4. WorkersInv' /\ StarterInv(c)' /\ ProgressIsReal'
      BY <3>1, <3>2, <3>3 DEF WorkersInv, StarterInv, Alive, ProgressIsReal
    <3>5. QED
      BY <2>3, <3>1, <3>2, <3>4
  <2>9. CASE LoseWrite(c)
    BY <2>2, <2>9 DEF LoseWrite, RenameFails, StarterInv
  <2>10. CASE Launch(c)
    <3>1. /\ pc[c] = "launch" /\ pc'[c] = "report" /\ Goto(c, "report") /\ "report" \in Steps
          /\ UNCHANGED <<helper, temporary>>
      BY <2>4, <2>10 DEF Launch, LaunchWorker, Steps
    <3>2. PICK w \in Workers : worker' = [worker EXCEPT ![w] = "launched"]
      BY <2>10 DEF Launch, LaunchWorker
    <3>3. Alive = {} /\ helper = "pending"
      BY <2>2, <3>1 DEF StarterInv
    <3>4. /\ worker'[w] = "launched" /\ w \in Alive'
          /\ \A v \in Workers : v # w => worker'[v] = "none"
      BY <3>2, <3>3 DEF Alive, IInv, TypeOK, HelperTypeOK
    <3>5. WorkersInv' /\ StarterInv(c)' /\ ProgressIsReal'
      BY <3>1, <3>3, <3>4 DEF WorkersInv, StarterInv, Alive, ProgressIsReal
    <3>6. QED
      BY <2>3, <3>1, <3>5
  <2>11. QED
    BY <2>6, <2>7, <2>8, <2>9, <2>10
<1>6. ASSUME NEW w \in Workers, WorkerRuns(w) \/ WorkerReports(w) PROVE Starts'
  <2> USE DEF InProgress
  <2>1. w \in Alive /\ UNCHANGED <<pc, task, restarts>>
    BY <1>6 DEF WorkerRuns, WorkerStarts, WorkerEnds, WorkerReports, WorkerRenames,
                RenameReports, Alive, historyVars
  <2>2. installed /\ helper \in InProgress /\ \A v \in Workers : v # w => worker[v] = "none"
    BY <1>2, <2>1 DEF Starts, WorkersInv, Alive, IInv, AnswersInv
  <2>3. PICK step \in WorkerSteps :
          /\ worker' = [worker EXCEPT ![w] = step]
          /\ step = "starting" => temporary' = "running" /\ helper' = helper
          /\ step = "ending" => temporary' \in {"succeeded", "failed"} /\ helper' = helper
          /\ step = "authenticating" => helper' = "running"
          /\ step = "none" => helper' \in {"succeeded", "failed"}
          /\ step # "launched"
    <3>1. CASE WorkerRuns(w)
      BY <2>2, <3>1 DEF WorkerRuns, WorkerStarts, WorkerEnds, WriteTemporary, WorkerSteps
    <3>2. CASE WorkerReports(w)
      <4>1. /\ worker[w] = "starting" => temporary = "running"
            /\ worker[w] = "ending" => temporary \in {"succeeded", "failed"}
            /\ worker[w] \in {"starting", "ending"}
        BY <1>2, <3>2 DEF Starts, WorkersInv, WorkerReports, WorkerRenames
      <4>2. helper' = temporary
        BY <3>2, <4>1 DEF WorkerReports, RenameReports, Rename, RenameFails
      <4>3. worker' = [worker EXCEPT ![w] = IF @ = "starting" THEN "authenticating" ELSE "none"]
        BY <3>2, <4>1 DEF WorkerReports, WorkerRenames, Rename, RenameFails
      <4>4. CASE worker[w] = "starting"
        BY <4>1, <4>2, <4>3, <4>4 DEF WorkerSteps
      <4>5. CASE worker[w] = "ending"
        BY <4>1, <4>2, <4>3, <4>5 DEF WorkerSteps
      <4>6. QED
        BY <4>1, <4>4, <4>5
    <3>3. QED
      BY <1>6, <3>1, <3>2
  <2>4. /\ worker'[w] = step
        /\ \A v \in Workers : v # w => worker'[v] = "none"
    BY <2>2, <2>3 DEF IInv, TypeOK, HelperTypeOK
  <2>5. Alive' = IF step = "none" THEN {} ELSE {w}
    BY <2>4 DEF Alive
  <2>6. step # "none" => helper' \in InProgress
    BY <2>2, <2>3 DEF WorkerSteps
  <2>7. WorkersInv' /\ ProgressIsReal'
    BY <2>3, <2>4, <2>5, <2>6 DEF WorkersInv, ProgressIsReal
  <2>8. QED
    BY <1>2, <2>1, <2>7, WorkerKept
<1>7. CASE Restart
  <2>1. /\ worker' = [w \in Workers |-> "none"] /\ Alive' = {}
        /\ \A c \in Callers : pc'[c] = "idle"
        /\ restarts' # 0
    BY <1>7, MaxRestartsAssumption DEF Restart, WorkersDie, Alive, IInv, TypeOK
  <2>2. QED
    BY <2>1 DEF Starts, OneStarts, Starting, Busy, WorkersInv, StarterInv
<1>8. QED
  BY <1>3, <1>4, <1>5, <1>6, <1>7 DEF Next

LEMMA StartsInvariance == Spec => []StartsInv
BY Invariance, InitStarts, NextStarts, PTL DEF Spec

(***************************************************************************)
(* While start commands take turns, start_cmd never launches a second      *)
(* worker beside a first, over any polls and restarts.                     *)
(***************************************************************************)
THEOREM OneFlowSafety == Spec => []OneFlowAtATime
<1>1. StartsInv => OneFlowAtATime
  BY DEF StartsInv, Starts, WorkersInv, OneFlowAtATime
<1>2. QED
  BY StartsInvariance, <1>1, PTL

(***************************************************************************)
(* While start commands take turns, and until the service restarts, a flow *)
(* that state.json calls pending or running has a worker.                  *)
(***************************************************************************)
THEOREM ProgressSafety == Spec => []ProgressIsRealUntilRestart
<1>1. StartsInv => ProgressIsRealUntilRestart
  BY DEF StartsInv, Starts, ProgressIsRealUntilRestart
<1>2. QED
  BY StartsInvariance, <1>1, PTL

-----------------------------------------------------------------------------
(***************************************************************************)
(* Callers that take turns.                                                *)
(***************************************************************************)
LEMMA InitTurns == Init => TurnsInv
<1> SUFFICES ASSUME Init PROVE TurnsInv
  OBVIOUS
<1>1. /\ pc = [c \in Callers |-> "idle"]
      /\ helper \notin InProgress
      /\ ~store.started /\ ~contended
  BY DEF Init, HelperInit, InProgress, Defaults
<1>2. QED
  BY <1>1 DEF TurnsInv, InTurn, Busy, FlowInv, CallerInv

\* A caller's step leaves no other caller busy, and so what is said of it.
LEMMA TurnKept ==
  ASSUME TypeOK, InTurn, NEW c \in Callers, Busy(c),
         NEW s \in Steps, Goto(c, s), FlowInv', CallerInv(c)'
  PROVE  (InTurn /\ FlowInv /\ \A d \in Callers : CallerInv(d))'
<1>1. \A d \in Callers : d # c => pc'[d] \in {"idle", "dead"}
  BY DEF TypeOK, InTurn, Busy, Goto
<1>2. InTurn'
  BY <1>1 DEF InTurn, Busy
<1>3. ASSUME NEW d \in Callers, d # c PROVE CallerInv(d)'
  BY <1>1, <1>3 DEF CallerInv
<1>4. QED
  BY <1>2, <1>3

LEMMA NextTurns == IInv /\ StartsInv /\ TurnsInv /\ [Next]_vars => TurnsInv'
<1> DEFINE Kept == InTurn /\ FlowInv /\ \A c \in Callers : CallerInv(c)
<1> SUFFICES ASSUME IInv, StartsInv, TurnsInv, [Next]_vars, ~overlapped'
             PROVE  ~contended' /\ Kept'
  BY DEF TurnsInv
<1>1. ~overlapped
  <2>1. overlapped \in BOOLEAN
    BY DEF IInv, TypeOK
  <2>2. CASE \E c \in Callers, t \in {"poll", "get", "start"} : Begin(c, t)
    BY <2>2 DEF Begin
  <2>3. CASE ~\E c \in Callers, t \in {"poll", "get", "start"} : Begin(c, t)
    BY <2>3 DEF Next, vars, ScanReauthCard, RequestReauth, CallerStep, Guard,
                ReadStatus, HelperFails, Load, MarkStarted, Clear, ClearReauth, Publish,
                StatusRaises, Request, StartCommand, Pend, FinishWrite, LoseWrite, RenameReports,
                Launch, Report, Accept, StartReauth, WorkerRuns, WorkerReports, Restart,
                historyVars
  <2>4. QED
    BY <2>2, <2>3
<1>2. TypeOK /\ ~contended /\ Kept /\ Starts
  BY <1>1 DEF TurnsInv, StartsInv, IInv
<1>11. ~contended'
  <2>1. CASE \E c \in Callers, t \in {"poll", "get", "start"} : Begin(c, t)
    BY <1>2, <2>1 DEF Begin, Starting, Busy, IInv, TypeOK
  <2>2. CASE ~\E c \in Callers, t \in {"poll", "get", "start"} : Begin(c, t)
    BY <1>2, <2>2 DEF Next, vars, ScanReauthCard, RequestReauth, CallerStep, Guard,
                ReadStatus, HelperFails, Load, MarkStarted, Clear, ClearReauth, Publish,
                StatusRaises, Request, StartCommand, Pend, FinishWrite, LoseWrite, RenameReports,
                Launch, Report, Accept, StartReauth, WorkerRuns, WorkerReports, Restart,
                historyVars
  <2>3. QED
    BY <2>1, <2>2
<1> HIDE DEF Kept
<1>3. CASE ScanReauthCard
  <2>1. /\ UNCHANGED <<helper, pc, payload>>
        /\ store'.reauth
        /\ store'.started = (store.reauth /\ store.started)
        /\ fresh' = (fresh /\ store.reauth)
    BY <1>2, <1>3, StoreFact DEF ScanReauthCard, RequestReauth, helperVars, TypeOK
  <2>2. (InTurn /\ FlowInv)'
    BY <1>2, <2>1 DEF Kept, InTurn, Busy, FlowInv
  <2>3. \A c \in Callers : CallerInv(c)'
    BY <1>2, <2>1 DEF Kept, CallerInv
  <2>4. QED
    BY <1>11, <2>2, <2>3 DEF Kept
<1>4. ASSUME NEW c \in Callers, NEW t \in {"poll", "get", "start"}, Begin(c, t)
      PROVE  Kept'
  <2>1. \A d \in Callers : pc[d] \in {"idle", "dead"}
    BY <1>4 DEF Begin, Busy
  <2>2. /\ UNCHANGED <<helper, store, fresh>>
        /\ \A d \in Callers : d # c => pc'[d] \in {"idle", "dead"}
        /\ pc'[c] \in {"guard", "status", "request"}
    BY <1>2, <1>4, <2>1 DEF Begin, Goto, helperVars, TypeOK
  <2>3. (InTurn /\ FlowInv)'
    BY <1>2, <2>2 DEF Kept, InTurn, Busy, FlowInv
  <2>4. ASSUME NEW d \in Callers PROVE CallerInv(d)'
    BY <2>2 DEF CallerInv
  <2>5. QED
    BY <2>3, <2>4 DEF Kept
<1>5. ASSUME NEW c \in Callers, CallerStep(c) PROVE Kept'
  <2> USE DEF InProgress
  <2>1. /\ InTurn /\ FlowInv /\ CallerInv(c)
        /\ AnswersInv /\ StarterInv(c)
    BY <1>2 DEF Kept, IInv, Starts
  <2>2. ASSUME NEW s \in Steps, pc[c] \notin {"idle", "dead"}, Goto(c, s), FlowInv', CallerInv(c)'
        PROVE  Kept'
    BY <1>2, <2>1, <2>2, TurnKept DEF Kept, Busy
  <2>3. ASSUME NEW s \in Steps, Goto(c, s) PROVE pc'[c] = s
    BY <1>2, <2>3 DEF Goto, TypeOK
  <2>4. AfterReconcile(c) \in {"publish", "idle"}
    BY DEF AfterReconcile
  <2>10. CASE Guard(c) \/ Publish(c) \/ StatusRaises(c)
    <3>1. PICK s \in {"status", "publish", "idle", "dead"} : Goto(c, s)
      BY <2>10 DEF Guard, Publish, StatusRaises
    <3>2. pc[c] \notin {"idle", "dead"} /\ pc'[c] = s /\ s \in Steps
      BY <2>3, <2>10, <3>1 DEF Guard, Publish, StatusRaises, Steps
    <3>3. UNCHANGED <<helper, store, payload, fresh>>
      BY <2>10 DEF Guard, Publish, StatusRaises, helperVars, historyVars
    <3>4. FlowInv' /\ CallerInv(c)'
      BY <2>1, <3>2, <3>3 DEF FlowInv, CallerInv
    <3>5. QED
      BY <2>2, <3>1, <3>2, <3>4
  <2>11. CASE ReadStatus(c)
    <3>1. pc[c] \notin {"idle", "dead"} /\ pc'[c] = "load" /\ Goto(c, "load") /\ "load" \in Steps
      BY <2>3, <2>11 DEF ReadStatus, Steps
    <3>2. UNCHANGED <<helper, store, fresh>> /\ payload'[c] = Emitted
      BY <1>2, <2>11 DEF ReadStatus, helperVars, historyVars, TypeOK
    <3>3. FlowInv' /\ CallerInv(c)'
      BY <2>1, <3>1, <3>2 DEF FlowInv, CallerInv, Emitted
    <3>4. QED
      BY <2>2, <3>1, <3>3
  <2>12. CASE HelperFails(c)
    <3>1. PICK s \in {"load", "idle"} : Goto(c, s)
      BY <2>12 DEF HelperFails
    <3>2. pc[c] \notin {"idle", "dead"} /\ pc'[c] = s /\ s \in Steps
      BY <2>3, <2>12, <3>1 DEF HelperFails, Steps
    <3>3. UNCHANGED <<helper, store, fresh>> /\ payload'[c] = "failed"
      BY <1>2, <2>12 DEF HelperFails, helperVars, historyVars, TypeOK
    <3>4. FlowInv' /\ CallerInv(c)'
      BY <2>1, <3>2, <3>3 DEF FlowInv, CallerInv
    <3>5. QED
      BY <2>2, <3>1, <3>2, <3>4
  <2>13. CASE Load(c)
    <3>1. PICK s \in {"mark_started", "clear", "publish", "idle"} : Goto(c, s)
      BY <2>4, <2>13 DEF Load
    <3>2. pc[c] = "load" /\ pc'[c] = s /\ s \in Steps
      BY <2>3, <2>13, <3>1 DEF Load, Steps
    <3>3. UNCHANGED <<helper, store, payload, fresh>>
      BY <2>13 DEF Load, helperVars, historyVars
    <3>4. /\ s = "mark_started" => payload[c] \in InProgress
          /\ s = "clear" => payload[c] = "succeeded" /\ store.reauth /\ store.started
      BY <1>2, <2>3, <2>4, <2>13, <3>2 DEF Load, Steps
    <3>5. FlowInv' /\ CallerInv(c)'
      BY <2>1, <3>2, <3>3, <3>4 DEF FlowInv, CallerInv
    <3>6. QED
      BY <2>2, <3>1, <3>2, <3>5
  <2>14. CASE MarkStarted(c)
    <3>1. pc[c] = "mark_started" /\ Goto(c, AfterReconcile(c)) /\ AfterReconcile(c) \in Steps
      BY <2>4, <2>14 DEF MarkStarted, Steps
    <3>2. pc'[c] \in {"publish", "idle"}
      BY <2>3, <2>4, <3>1
    <3>3. UNCHANGED <<helper, payload>> /\ store' = MarkReauthStarted(store)
          /\ fresh' = (fresh /\ store.reauth)
      BY <2>14 DEF MarkStarted, StartReauth, helperVars
    <3>4. store.reauth /\ (helper = "succeeded" => fresh)
      BY <2>1, <3>1 DEF CallerInv, AnswersInv
    <3>5. store'.reauth /\ store'.started /\ (fresh => fresh')
      BY <1>2, <3>3, <3>4, StoreFact DEF TypeOK
    <3>6. FlowInv' /\ CallerInv(c)'
      BY <2>1, <3>2, <3>3, <3>4, <3>5 DEF FlowInv, CallerInv
    <3>7. QED
      BY <2>2, <3>1, <3>6
  <2>15. CASE Clear(c)
    <3>1. pc[c] = "clear" /\ Goto(c, AfterReconcile(c)) /\ AfterReconcile(c) \in Steps
      BY <2>4, <2>15 DEF Clear, Steps
    <3>2. pc'[c] \in {"publish", "idle"}
      BY <2>3, <2>4, <3>1
    <3>3. UNCHANGED <<helper, payload>> /\ ~store'.started
      BY <1>2, <2>15, StoreFact DEF Clear, ClearReauth, helperVars, TypeOK
    <3>4. helper = "succeeded"
      BY <2>1, <3>1 DEF CallerInv, AnswersInv
    <3>5. FlowInv' /\ CallerInv(c)'
      BY <2>1, <3>2, <3>3, <3>4 DEF FlowInv, CallerInv
    <3>6. QED
      BY <2>2, <3>1, <3>5
  <2>16. CASE Request(c)
    <3>1. pc[c] \notin {"idle", "dead"} /\ pc'[c] = "start" /\ Goto(c, "start") /\ "start" \in Steps
      BY <2>3, <2>16 DEF Request, Steps
    <3>2. /\ UNCHANGED <<helper, payload>>
          /\ store'.reauth
          /\ store'.started = (store.reauth /\ store.started)
          /\ fresh' = (fresh /\ store.reauth)
      BY <1>2, <2>16, StoreFact DEF Request, RequestReauth, helperVars, TypeOK
    <3>3. FlowInv' /\ CallerInv(c)'
      BY <2>1, <3>1, <3>2 DEF FlowInv, CallerInv
    <3>4. QED
      BY <2>2, <3>1, <3>3
  <2>17. CASE StartCommand(c)
    <3>1. UNCHANGED <<helper, store, payload, fresh>> /\ pc[c] = "start"
      BY <2>17 DEF StartCommand, StartRefused, StartJoins, StartLaunches, WriteTemporary,
                   helperVars, historyVars
    <3>2. PICK s \in {"refuse", "report", "pend"} :
            Goto(c, s) /\ (s = "report" => helper \in InProgress)
      BY <2>17 DEF StartCommand, StartJoins
    <3>3. pc'[c] = s /\ s \in Steps
      BY <2>3, <3>2 DEF Steps
    <3>4. FlowInv' /\ CallerInv(c)'
      BY <2>1, <3>1, <3>2, <3>3 DEF FlowInv, CallerInv
    <3>5. QED
      BY <2>2, <3>1, <3>2, <3>3, <3>4
  <2>18. CASE Pend(c)
    <3>1. pc[c] = "pend" /\ pc'[c] = "rename" /\ Goto(c, "rename") /\ "rename" \in Steps
      BY <2>3, <2>18 DEF Pend, Steps
    <3>2. UNCHANGED <<helper, store, payload, fresh>>
      BY <2>18 DEF Pend, WriteTemporary, historyVars
    <3>3. FlowInv' /\ CallerInv(c)'
      BY <2>1, <3>1, <3>2 DEF FlowInv, CallerInv
    <3>4. QED
      BY <2>2, <3>1, <3>3
  <2>23. CASE FinishWrite(c)
    <3>1. PICK s \in {"report", "launch"} : Goto(c, s)
      BY <2>23 DEF FinishWrite
    <3>2. pc[c] \in {"refuse", "rename"} /\ pc'[c] = s /\ s \in Steps
      BY <2>3, <2>23, <3>1 DEF FinishWrite, Steps
    <3>3. UNCHANGED <<store, payload>> /\ helper' = temporary /\ (fresh => fresh')
      BY <2>23 DEF FinishWrite, RenameReports, Rename
    <3>4. helper' \in {"failed", "pending"}
      BY <2>1, <3>2, <3>3 DEF StarterInv
    <3>5. FlowInv' /\ CallerInv(c)'
      BY <2>1, <3>2, <3>3, <3>4 DEF FlowInv, CallerInv
    <3>6. QED
      BY <2>2, <3>1, <3>2, <3>5
  <2>24. CASE LoseWrite(c)
    BY <2>1, <2>24 DEF LoseWrite, RenameFails, StarterInv
  <2>19. CASE Launch(c)
    <3>1. pc[c] = "launch" /\ pc'[c] = "report" /\ Goto(c, "report") /\ "report" \in Steps
      BY <2>3, <2>19 DEF Launch, Steps
    <3>2. UNCHANGED <<helper, store, payload, fresh>>
      BY <2>19 DEF Launch, LaunchWorker, historyVars
    <3>3. helper = "pending"
      BY <2>1, <3>1 DEF StarterInv
    <3>4. FlowInv' /\ CallerInv(c)'
      BY <2>1, <3>1, <3>2, <3>3 DEF FlowInv, CallerInv
    <3>5. QED
      BY <2>2, <3>1, <3>4
  <2>20. CASE Report(c)
    <3>1. PICK s \in {"accept", "idle"} : Goto(c, s)
      BY <2>20 DEF Report
    <3>2. pc[c] = "report" /\ pc'[c] = s /\ s \in Steps
      BY <2>3, <2>20, <3>1 DEF Report, Steps
    <3>3. UNCHANGED <<helper, store, fresh>> /\ payload'[c] = Emitted
      BY <1>2, <2>20 DEF Report, helperVars, historyVars, TypeOK
    <3>4. FlowInv' /\ CallerInv(c)'
      BY <2>1, <3>2, <3>3 DEF FlowInv, CallerInv, Emitted
    <3>5. QED
      BY <2>2, <3>1, <3>2, <3>4
  <2>21. CASE Accept(c)
    <3>1. pc[c] = "accept" /\ pc'[c] = "load" /\ Goto(c, "load") /\ "load" \in Steps
      BY <2>3, <2>21 DEF Accept, Steps
    <3>2. UNCHANGED <<helper, payload>> /\ store' = MarkReauthStarted(store)
          /\ fresh' = (fresh /\ store.reauth)
      BY <2>21 DEF Accept, StartReauth, helperVars
    <3>3. store.reauth /\ (helper = "succeeded" => fresh)
      BY <2>1, <3>1 DEF CallerInv
    <3>4. store'.reauth /\ store'.started /\ (fresh => fresh')
      BY <1>2, <3>2, <3>3, StoreFact DEF TypeOK
    <3>5. FlowInv' /\ CallerInv(c)'
      BY <2>1, <3>1, <3>2, <3>3, <3>4 DEF FlowInv, CallerInv
    <3>6. QED
      BY <2>2, <3>1, <3>5
  <2>22. QED
    BY <1>5, <2>10, <2>11, <2>12, <2>13, <2>14, <2>15, <2>16, <2>17, <2>18, <2>19,
       <2>20, <2>21, <2>23, <2>24 DEF CallerStep
<1>6. ASSUME NEW w \in Workers, WorkerRuns(w) \/ WorkerReports(w) PROVE Kept'
  <2>1. UNCHANGED <<pc, payload, store>> /\ w \in Alive
    BY <1>6 DEF WorkerRuns, WorkerStarts, WorkerEnds, WorkerReports, WorkerRenames,
                RenameReports, Alive, historyVars
  <2>2. helper \in InProgress
    BY <1>2, <2>1 DEF Starts, WorkersInv
  <2>3. (fresh => fresh') /\ (helper' = "succeeded" => fresh')
    <3>1. CASE UNCHANGED <<helper, fresh>>
      BY <2>2, <3>1 DEF InProgress
    <3>2. CASE RenameReports
      BY <3>2 DEF RenameReports, Rename
    <3>3. QED
      BY <1>6, <3>1, <3>2 DEF WorkerRuns, WorkerStarts, WorkerEnds, WriteTemporary,
                              WorkerReports, RenameFails, historyVars
  <2>4. (InTurn /\ FlowInv)'
    BY <1>2, <2>1, <2>2, <2>3 DEF Kept, InTurn, Busy, FlowInv, InProgress
  <2>5. ASSUME NEW c \in Callers PROVE CallerInv(c)'
    <3>1. CallerInv(c)
      BY <1>2 DEF Kept
    <3>2. pc[c] # "clear"
      BY <2>2, <3>1 DEF CallerInv, InProgress, IInv, AnswersInv
    <3>3. QED
      BY <2>1, <2>2, <2>3, <3>1, <3>2 DEF CallerInv, InProgress
  <2>6. QED
    BY <2>4, <2>5 DEF Kept
<1>8. CASE Restart
  <2>1. /\ UNCHANGED <<helper, store, fresh>>
        /\ \A c \in Callers : pc'[c] = "idle"
    BY <1>8 DEF Restart, WorkersDie
  <2>2. InTurn' /\ \A c \in Callers : CallerInv(c)'
    BY <2>1 DEF InTurn, Busy, CallerInv
  <2>3. FlowInv'
    BY <1>2, <2>1 DEF Kept, FlowInv
  <2>4. QED
    BY <1>11, <2>2, <2>3 DEF Kept
<1>9. CASE UNCHANGED vars
  BY <1>2, <1>9, <1>11 DEF vars, helperVars, historyVars, Kept, InTurn, Busy, FlowInv, CallerInv
<1>10. QED
  BY <1>3, <1>4, <1>5, <1>6, <1>8, <1>9, <1>11 DEF Next

LEMMA TurnsInvariance == Spec => []TurnsInv
BY Invariance, StartsInvariance, InitTurns, NextTurns, PTL DEF Spec

(***************************************************************************)
(* While the callers take turns, only a success that came after the        *)
(* request was raised clears it, whatever cards are scanned between their  *)
(* steps, whatever the helper answers, and over restarts.                  *)
(***************************************************************************)
THEOREM FreshSuccessSafety == Spec => FreshSuccessClearsInTurn
<1>1. IInv /\ TurnsInv /\ [Next]_vars
        => [store.reauth /\ ~store'.reauth /\ ~overlapped => fresh]_vars
  BY OnlyClearWithdraws DEF TurnsInv, CallerInv, Clear
<1>2. QED
  BY Invariance, TurnsInvariance, <1>1, PTL DEF Spec, FreshSuccessClearsInTurn

=============================================================================
