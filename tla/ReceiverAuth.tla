--------------------------- MODULE ReceiverAuth ---------------------------
(***************************************************************************)
(* Receiver re-authentication: the closures auth_status, start_auth,       *)
(* reconcile_auth_status and setup_status of runtime.build_runtime, called *)
(* by the health monitor's thread and by the HTTP server's, the re-auth    *)
(* card scanned in the main thread, the helper of AuthHelper, and the two  *)
(* flags of the operator state they agree through.                         *)
(*                                                                         *)
(* Each call on the operator state is one step here, as AtomicOperatorStore*)
(* promises; a caller is interrupted between its calls, on the store or on *)
(* the helper.  OperatorStore shows what is left of that promise when the  *)
(* calls themselves overlap.                                               *)
(***************************************************************************)
EXTENDS AuthHelper, OperatorState

CONSTANTS
  Callers,      \* the threads that call the closures
  Tasks,        \* Tasks[c]: what caller c does: "poll", "get", "start"
  MaxRestarts   \* restarts of the service there may be: a bound

ASSUME TasksAssumption == Tasks \in [Callers -> SUBSET {"poll", "get", "start"}]
ASSUME MaxRestartsAssumption == MaxRestarts \in Nat

VARIABLES
  store,       \* the operator state, of which the re-auth flags matter here
  pc,          \* pc[c]: the next call caller c makes, on the store or the helper
  task,        \* task[c]: what c is doing
  payload,     \* payload[c]: the "state" the helper last answered c
  code,        \* code[c]: the status code c last came to know
  fresh,       \* history: has state.json said succeeded since the request
               \* was raised?
  proven,      \* history: has state.json ever said succeeded?
  overlapped,  \* history: has a caller begun before another was through?
  contended,   \* history: has a start begun before another was through?
  restarts     \* the restarts so far

historyVars == <<fresh, proven, overlapped, contended, restarts>>
vars == <<helperVars, store, pc, task, payload, code, historyVars>>

-----------------------------------------------------------------------------
Steps ==
  {"idle", "guard", "status", "load", "mark_started", "clear", "publish",
   "request", "start", "refuse", "pend", "rename", "launch", "report", "accept", "dead"}

TypeOK ==
  /\ HelperTypeOK
  /\ store \in OperatorState
  /\ pc \in [Callers -> Steps]
  /\ task \in [Callers -> {"poll", "get", "start"}]
  /\ payload \in [Callers -> HelperStates \ {"absent"}]
  /\ code \in [Callers -> {"auth_required", "other"}]
  /\ fresh \in BOOLEAN
  /\ proven \in BOOLEAN
  /\ overlapped \in BOOLEAN
  /\ contended \in BOOLEAN
  /\ restarts \in 0..MaxRestarts

Init ==
  /\ HelperInit
  /\ store = Defaults
  /\ pc = [c \in Callers |-> "idle"]
  /\ task = [c \in Callers |-> "poll"]
  /\ payload = [c \in Callers |-> "failed"]
  /\ code = [c \in Callers |-> "other"]
  /\ fresh = FALSE
  /\ proven = (helper = "succeeded")
  /\ overlapped = FALSE
  /\ contended = FALSE
  /\ restarts = 0

-----------------------------------------------------------------------------
(***************************************************************************)
(* The calls on the operator state, with the history of the request.       *)
(***************************************************************************)
RequestReauth ==
  /\ store' = MarkReauthRequested(store, TRUE)
  /\ fresh' = (fresh /\ store.reauth)
  /\ UNCHANGED <<proven, overlapped, contended, restarts>>

ClearReauth ==
  /\ store' = MarkReauthRequested(store, FALSE)
  /\ UNCHANGED historyVars

StartReauth ==
  /\ store' = MarkReauthStarted(store)
  /\ fresh' = (fresh /\ store.reauth)
  /\ UNCHANGED <<proven, overlapped, contended, restarts>>

\* A process renames the temporary file, and with it what it reports.
RenameReports ==
  /\ Rename
  /\ fresh' = (fresh \/ temporary = "succeeded")
  /\ proven' = (proven \/ temporary = "succeeded")
  /\ UNCHANGED <<overlapped, contended, restarts>>

Goto(c, step) == pc' = [pc EXCEPT ![c] = step]

\* What follows reconcile_auth_status in each task.
AfterReconcile(c) == IF task[c] = "poll" THEN "publish" ELSE "idle"

-----------------------------------------------------------------------------
(***************************************************************************)
(* The main thread: ActionRouter.execute on a setup.receiver-reauth card.  *)
(***************************************************************************)
ScanReauthCard ==
  /\ RequestReauth
  /\ UNCHANGED <<helperVars, pc, task, payload, code>>

(***************************************************************************)
(* The callers.  "poll" is setup_status, which the health monitor and      *)
(* GET /status.json call; "get" is auth_status, which GET /auth calls;     *)
(* "start" is start_auth, which POST /auth/start calls.                    *)
(***************************************************************************)
Busy(c) == pc[c] \notin {"idle", "dead"}

Starting(c) == task[c] = "start" /\ Busy(c)

Begin(c, t) ==
  /\ pc[c] = "idle"
  /\ t \in Tasks[c]
  /\ task' = [task EXCEPT ![c] = t]
  /\ Goto(c, CASE t = "poll" -> "guard" [] t = "get" -> "status" [] t = "start" -> "request")
  /\ overlapped' = (overlapped \/ \E d \in Callers : Busy(d))
  /\ contended' = (contended \/ (t = "start" /\ \E d \in Callers : Starting(d)))
  /\ UNCHANGED <<helperVars, store, payload, code, fresh, proven, restarts>>

\* Mutant of Guard: setup_status leaves the helper alone.
GuardSkipsHelper(c) ==
  /\ pc[c] = "guard"
  /\ Goto(c, "publish")
  /\ UNCHANGED <<helperVars, store, task, payload, code, historyVars>>

\* setup_status: if operator_state.load().receiver_reauth_requested
Guard(c) ==
  /\ pc[c] = "guard"
  /\ Goto(c, IF store.reauth THEN "status" ELSE "publish")
  /\ UNCHANGED <<helperVars, store, task, payload, code, historyVars>>

\* auth_status: the helper's status command.
ReadStatus(c) ==
  /\ pc[c] = "status"
  /\ payload' = [payload EXCEPT ![c] = Emitted]
  /\ Goto(c, "load")
  /\ UNCHANGED <<helperVars, store, task, code, historyVars>>

\* call_auth_helper: a RuntimeError of the helper call is a failed payload.
HelperFails(c) ==
  /\ pc[c] \in {"status", "start"}
  /\ payload' = [payload EXCEPT ![c] = "failed"]
  /\ Goto(c, IF pc[c] = "status" THEN "load" ELSE "idle")
  /\ UNCHANGED <<helperVars, store, task, code, historyVars>>

\* Mutant of Load: any success clears, whether this request was started or not.
LoadTrustsAnySuccess(c) ==
  /\ pc[c] = "load"
  /\ Goto(c, IF payload[c] \in InProgress /\ store.reauth /\ ~store.started THEN "mark_started"
             ELSE IF payload[c] = "succeeded" /\ store.reauth THEN "clear"
             ELSE AfterReconcile(c))
  /\ UNCHANGED <<helperVars, store, task, payload, code, historyVars>>

\* reconcile_auth_status: load the flags and decide.
Load(c) ==
  /\ pc[c] = "load"
  /\ Goto(c, IF payload[c] \in InProgress /\ store.reauth /\ ~store.started THEN "mark_started"
             ELSE IF payload[c] = "succeeded" /\ store.reauth /\ store.started THEN "clear"
             ELSE AfterReconcile(c))
  /\ UNCHANGED <<helperVars, store, task, payload, code, historyVars>>

MarkStarted(c) ==
  /\ pc[c] = "mark_started"
  /\ StartReauth
  /\ Goto(c, AfterReconcile(c))
  /\ UNCHANGED <<helperVars, task, payload, code>>

Clear(c) ==
  /\ pc[c] = "clear"
  /\ ClearReauth
  /\ Goto(c, AfterReconcile(c))
  /\ UNCHANGED <<helperVars, task, payload, code>>

\* Mutant of Publish: a flow once started is no longer reported.
PublishForgetsStarted(c) ==
  /\ pc[c] = "publish"
  /\ code' = [code EXCEPT ![c] =
                 IF store.reauth /\ ~store.started THEN "auth_required" ELSE "other"]
  /\ Goto(c, "idle")
  /\ UNCHANGED <<helperVars, store, task, payload, historyVars>>

\* SetupModeManager.status(): the re-auth flag decides before anything else.
Publish(c) ==
  /\ pc[c] = "publish"
  /\ code' = [code EXCEPT ![c] = IF store.reauth THEN "auth_required" ELSE "other"]
  /\ Goto(c, "idle")
  /\ UNCHANGED <<helperVars, store, task, payload, historyVars>>

(***************************************************************************)
(* With no request, SetupModeManager.status() goes on to ask the Wi-Fi     *)
(* helper, and the RuntimeError of a helper that fails is caught by nobody:*)
(* it ends an HTTP request, but of the health monitor the whole thread.    *)
(***************************************************************************)
StatusRaises(c) ==
  /\ pc[c] = "publish"
  /\ ~store.reauth
  /\ Goto(c, IF Tasks[c] = {"poll"} THEN "dead" ELSE "idle")
  /\ UNCHANGED <<helperVars, store, task, payload, code, historyVars>>

(***************************************************************************)
(* start_auth: request, the helper's start command, and, if it reports a   *)
(* flow, mark it started and reconcile.                                    *)
(***************************************************************************)
Request(c) ==
  /\ pc[c] = "request"
  /\ RequestReauth
  /\ Goto(c, "start")
  /\ UNCHANGED <<helperVars, task, payload, code>>

\* Mutant of StartCommand: the start command launches over a flow in progress.
StartCommandAlwaysLaunches(c) ==
  /\ pc[c] = "start"
  /\ \/ StartRefused /\ Goto(c, "refuse")
     \/ (StartJoins \/ StartLaunches) /\ Goto(c, "pend")
  /\ UNCHANGED <<store, task, payload, code, historyVars>>

StartCommand(c) ==
  /\ pc[c] = "start"
  /\ \/ StartRefused /\ Goto(c, "refuse")
     \/ StartJoins /\ Goto(c, "report")
     \/ StartLaunches /\ Goto(c, "pend")
  /\ UNCHANGED <<store, task, payload, code, historyVars>>

Pend(c) ==
  /\ pc[c] = "pend"
  /\ WriteTemporary("pending")
  /\ Goto(c, "rename")
  /\ UNCHANGED <<worker, installed, store, task, payload, code, historyVars>>

\* The second half of start_cmd's write_state.
FinishWrite(c) ==
  /\ pc[c] \in {"refuse", "rename"}
  /\ RenameReports
  /\ Goto(c, IF pc[c] = "refuse" THEN "report" ELSE "launch")
  /\ UNCHANGED <<worker, installed, store, task, payload, code>>

\* ... which ends the command when another process took the temporary file.
LoseWrite(c) ==
  /\ pc[c] \in {"refuse", "rename"}
  /\ RenameFails
  /\ payload' = [payload EXCEPT ![c] = "failed"]
  /\ Goto(c, "idle")
  /\ UNCHANGED <<worker, installed, store, task, code, historyVars>>

Launch(c) ==
  /\ pc[c] = "launch"
  /\ LaunchWorker
  /\ Goto(c, "report")
  /\ UNCHANGED <<store, task, payload, code, historyVars>>

Report(c) ==
  /\ pc[c] = "report"
  /\ payload' = [payload EXCEPT ![c] = Emitted]
  /\ Goto(c, IF Emitted \in InProgress \cup {"succeeded"} THEN "accept" ELSE "idle")
  /\ UNCHANGED <<helperVars, store, task, code, historyVars>>

Accept(c) ==
  /\ pc[c] = "accept"
  /\ StartReauth
  /\ Goto(c, "load")
  /\ UNCHANGED <<helperVars, task, payload, code>>

-----------------------------------------------------------------------------
WorkerRuns(w) ==
  /\ \/ WorkerStarts(w)
     \/ WorkerEnds(w, "succeeded")
     \/ WorkerEnds(w, "failed")
  /\ UNCHANGED <<store, pc, task, payload, code, historyVars>>

WorkerReports(w) ==
  /\ WorkerRenames(w)
  /\ \/ RenameReports
     \/ RenameFails /\ UNCHANGED historyVars
  /\ UNCHANGED <<store, pc, task, payload, code>>

\* A reboot or a restart of the service: the two files stay.
Restart ==
  /\ restarts < MaxRestarts
  /\ restarts' = restarts + 1
  /\ WorkersDie
  /\ pc' = [c \in Callers |-> "idle"]
  /\ task' = [c \in Callers |-> "poll"]
  /\ payload' = [c \in Callers |-> "failed"]
  /\ code' = [c \in Callers |-> "other"]
  /\ UNCHANGED <<store, fresh, proven, overlapped, contended>>

CallerStep(c) ==
  \/ Guard(c) \/ ReadStatus(c) \/ HelperFails(c) \/ Load(c) \/ MarkStarted(c)
  \/ Clear(c) \/ Publish(c) \/ StatusRaises(c) \/ Request(c) \/ StartCommand(c)
  \/ Pend(c) \/ FinishWrite(c) \/ LoseWrite(c) \/ Launch(c) \/ Report(c) \/ Accept(c)

Next ==
  \/ ScanReauthCard
  \/ \E c \in Callers : CallerStep(c) \/ \E t \in {"poll", "get", "start"} : Begin(c, t)
  \/ \E w \in Workers : WorkerRuns(w) \/ WorkerReports(w)
  \/ Restart

Spec == Init /\ [][Next]_vars

(***************************************************************************)
(* Fairness: the health monitor, the caller that does nothing but poll,    *)
(* goes on between its calls and polls for as long as it lives, and the    *)
(* helper's status command does not fail it every time from some time on   *)
(* (strong fairness).  Nothing is assumed of the HTTP threads, of the      *)
(* operator, of the workers or of the approval `spotifyd authenticate`     *)
(* waits for, and nothing that keeps the monitor's thread alive.           *)
(***************************************************************************)
Monitors == {c \in Callers : Tasks[c] = {"poll"}}

Fairness ==
  \A c \in Monitors :
    /\ WF_vars(Begin(c, "poll"))
    /\ WF_vars(CallerStep(c))
    /\ SF_vars(ReadStatus(c))

FairSpec == Spec /\ Fairness

-----------------------------------------------------------------------------
(***************************************************************************)
(* Safety.                                                                 *)
(***************************************************************************)

(***************************************************************************)
(* The flag started tells the truth: it is set only on a requested flow,   *)
(* and only once some start command has got as far as writing state.json,  *)
(* over any overlap of the callers and any restart.                        *)
(***************************************************************************)
StartedWasLaunched == store.started => store.reauth /\ helper # "absent"

(***************************************************************************)
(* EPIC-4-technical.md: the helper is completed "so `POST /auth/start`     *)
(* returns a real approval flow".  state.json says pending or running only *)
(* while a worker is there, or about to be, that will replace it:          *)
(* otherwise start_cmd joins a flow that nobody runs, now and ever after.  *)
(***************************************************************************)
ProgressIsReal ==
  helper \in InProgress => Alive # {} \/ \E c \in Callers : pc[c] = "launch"

(***************************************************************************)
(* It holds as long as the service has not restarted and no two start      *)
(* commands overlapped: two that do share the temporary file.              *)
(***************************************************************************)
ProgressIsRealUntilRestart == restarts = 0 /\ ~contended => ProgressIsReal

(***************************************************************************)
(* While no two start commands overlap, at most one worker runs, whatever  *)
(* else is polled: start_cmd's look at state.json is guard enough, and     *)
(* there are never two approvals at a time.                                *)
(***************************************************************************)
OneFlowAtATime == ~contended => \A v, w \in Alive : v = w

(***************************************************************************)
(* auth_required is never cleared on a device where no authentication has  *)
(* ever succeeded, whatever the overlap of the callers.                    *)
(***************************************************************************)
ClearNeedsSomeSuccess == [][store.reauth /\ ~store'.reauth => proven]_vars

(***************************************************************************)
(* EPIC-4-technical.md: "only success from the current started flow clears *)
(* `auth_required`; stale helper success does not".  A success is of the   *)
(* current flow when it came after the request was raised.                 *)
(***************************************************************************)
FreshSuccessClears == [][store.reauth /\ ~store'.reauth => fresh]_vars

\* It holds as long as the callers of the closures do not overlap, whatever
\* cards the main thread scans between their steps.
FreshSuccessClearsInTurn ==
  [][store.reauth /\ ~store'.reauth /\ ~overlapped => fresh]_vars

-----------------------------------------------------------------------------
(***************************************************************************)
(* Liveness.                                                               *)
(***************************************************************************)

(***************************************************************************)
(* A started flow that succeeded clears auth_required, unless another      *)
(* start command replaces the helper's answer first: setup_status keeps    *)
(* asking the helper as long as the request stands, past any restart, and  *)
(* as long as the monitor's thread lives.                                  *)
(***************************************************************************)
SuccessClears ==
  (store.reauth /\ store.started /\ helper = "succeeded")
    ~> (~store.reauth \/ helper # "succeeded" \/ \A c \in Monitors : pc[c] = "dead")

(***************************************************************************)
(* A request for re-auth is seen: the health monitor comes to report       *)
(* auth_required, again after a restart, unless the request is withdrawn   *)
(* or an error of the Wi-Fi helper ended the monitor's thread before.      *)
(***************************************************************************)
RequestIsPublished ==
  \A c \in Monitors :
    store.reauth ~> (~store.reauth \/ code[c] = "auth_required" \/ pc[c] = "dead")

=============================================================================
