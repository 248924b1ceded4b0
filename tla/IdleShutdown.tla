---------------------------- MODULE IdleShutdown ----------------------------
(***************************************************************************)
(* idle_monitor.py: IdleMonitor, which powers the box off after a long     *)
(* idle time.  Three threads meet in it: its own, the main thread, whose   *)
(* controller events are the household's activity, and the health          *)
(* monitor's, whose events say whether setup mode is on.  No lock guards   *)
(* the fields they share.                                                  *)
(*                                                                         *)
(* poll_once is cut at its live look at the player: the deadline is read   *)
(* before it, the answer is used after it, and the look itself is made at  *)
(* some moment of the request.  Times are ages, which stop at the timeout: *)
(* nothing the monitor does tells one beyond it from another.              *)
(***************************************************************************)
EXTENDS RuntimeHealth

CONSTANT Timeout   \* idle_shutdown_seconds

ASSUME TimeoutAssumption == Timeout \in Nat \ {0}

VARIABLES
  powered,      \* is the box on?
  playing,      \* is the configured target playing?
  age,          \* the age of self._last_activity
  setupActive,  \* self._setup_mode_active
  requested,    \* self._shutdown_requested
  idlePc,       \* where poll_once is: at its start, or about the live look
  checkAge,     \* the age of poll_once's local now
  answer,       \* what the live look will be answered: True, False or None
  sinceCheck,   \* history: the time since the last live look was decided on
  idleFor,      \* history: the time since the household's last activity
  disturbed,    \* history: did the last activity come during a live look?
  quiet         \* history: was the target silent at some moment of this look?

idleVars == <<age, setupActive, requested, idlePc, checkAge, answer>>
historyVars == <<sinceCheck, idleFor, disturbed, quiet>>
vars == <<sourceVars, healthVars, powered, playing, idleVars, historyVars>>

TypeOK ==
  /\ HealthTypeOK
  /\ powered \in BOOLEAN
  /\ playing \in BOOLEAN
  /\ age \in 0..Timeout
  /\ setupActive \in BOOLEAN
  /\ requested \in BOOLEAN
  /\ idlePc \in {"wait", "look", "act", "dead"}
  /\ checkAge \in 0..Timeout
  /\ answer \in {"active", "inactive", "unknown"}
  /\ sinceCheck \in 0..Timeout
  /\ idleFor \in 0..Timeout
  /\ disturbed \in BOOLEAN
  /\ quiet \in BOOLEAN

\* The service as it starts, with self._last_activity = self._clock().
MonitorInit ==
  /\ HealthInit
  /\ age = 0
  /\ setupActive = FALSE
  /\ requested = FALSE
  /\ idlePc = "wait"
  /\ checkAge = 0
  /\ answer = "unknown"
  /\ idleFor = 0
  /\ disturbed = FALSE
  /\ quiet = FALSE

Init ==
  /\ MonitorInit
  /\ scanner \in ScannerCodes /\ playback \in PlaybackCodes /\ setup \in SetupCodes
  /\ powered = TRUE
  /\ playing \in BOOLEAN
  /\ sinceCheck = Timeout

\* poll_once is between its decision to look and the use of the answer.
Looking == idlePc \in {"look", "act"}

Older(time) == IF time < Timeout THEN time + 1 ELSE time

-----------------------------------------------------------------------------
(***************************************************************************)
(* The health monitor.                                                     *)
(***************************************************************************)
HealthPolls ==
  /\ powered
  /\ PollScanner \/ PollPlayback
  /\ UNCHANGED <<sourceVars, powered, playing, idleVars, historyVars>>

HealthPollsSetup ==
  /\ powered
  /\ PollSetup
  /\ UNCHANGED <<sourceVars, powered, playing, idleVars, historyVars>>

HealthDies ==
  /\ powered
  /\ ThreadDies
  /\ UNCHANGED <<sourceVars, powered, playing, idleVars, historyVars>>

\* Mutant of HealthEmits: only a request for re-auth disables the monitor.
HealthEmitsIgnoresSetup ==
  /\ powered
  /\ Emitted
  /\ setupActive' = CASE lastStatus = "auth_required" -> TRUE
                      [] lastStatus = "ready" -> FALSE
                      [] OTHER -> setupActive
  /\ UNCHANGED <<sourceVars, powered, playing, age, requested, idlePc, checkAge,
                 answer, historyVars>>

\* Mutant of HealthEmits: setup mode is never over.
HealthEmitsNeverReady ==
  /\ powered
  /\ Emitted
  /\ setupActive' = (setupActive \/ lastStatus \in {"setup_required", "auth_required"})
  /\ UNCHANGED <<sourceVars, powered, playing, age, requested, idlePc, checkAge,
                 answer, historyVars>>

\* IdleMonitor.handle, for the events of the health monitor: any other code
\* leaves the flag as it is.
HealthEmits ==
  /\ powered
  /\ Emitted
  /\ setupActive' = CASE lastStatus \in {"setup_required", "auth_required"} -> TRUE
                      [] lastStatus = "ready" -> FALSE
                      [] OTHER -> setupActive
  /\ UNCHANGED <<sourceVars, powered, playing, age, requested, idlePc, checkAge,
                 answer, historyVars>>

SourceChanges ==
  /\ powered
  /\ SourcesChange
  /\ UNCHANGED <<healthVars, powered, playing, idleVars, historyVars>>

-----------------------------------------------------------------------------
(***************************************************************************)
(* The household: a scan that succeeds starts the player, or not, and is   *)
(* handled as an event; the player also starts and stops by itself.        *)
(***************************************************************************)
Activity ==
  /\ powered
  /\ playing' \in {playing, TRUE}
  /\ age' = 0
  /\ idleFor' = 0
  /\ disturbed' = Looking
  /\ UNCHANGED <<sourceVars, healthVars, powered, setupActive, requested, idlePc,
                 checkAge, answer, sinceCheck, quiet>>

PlayerChanges ==
  /\ powered
  /\ playing' = ~playing
  /\ quiet' = (quiet \/ Looking)
  /\ UNCHANGED <<sourceVars, healthVars, powered, idleVars, sinceCheck, idleFor,
                 disturbed>>

\* Time passes for every age, the one of the local now while a poll holds it.
Tick ==
  /\ powered
  /\ age' = Older(age)
  /\ checkAge' = IF Looking THEN Older(checkAge) ELSE checkAge
  /\ sinceCheck' = Older(sinceCheck)
  /\ idleFor' = Older(idleFor)
  /\ UNCHANGED <<sourceVars, healthVars, powered, playing, setupActive, requested,
                 idlePc, answer, disturbed, quiet>>

-----------------------------------------------------------------------------
(***************************************************************************)
(* The idle monitor's thread.                                              *)
(***************************************************************************)
\* Mutant of Decide: one second early.
DecideEarly ==
  /\ powered
  /\ idlePc = "wait" /\ ~requested /\ ~setupActive /\ age >= Timeout - 1
  /\ idlePc' = "look"
  /\ checkAge' = 0
  /\ sinceCheck' = 0
  /\ quiet' = ~playing
  /\ UNCHANGED <<sourceVars, healthVars, powered, playing, age, setupActive,
                 requested, answer, idleFor, disturbed>>

\* poll_once, until it calls current_player_active.
Decide ==
  /\ powered
  /\ idlePc = "wait" /\ ~requested /\ ~setupActive /\ age >= Timeout
  /\ idlePc' = "look"
  /\ checkAge' = 0
  /\ sinceCheck' = 0
  /\ quiet' = ~playing
  /\ UNCHANGED <<sourceVars, healthVars, powered, playing, age, setupActive,
                 requested, answer, idleFor, disturbed>>

\* The player is asked; the answer is None when it cannot be had.
LookFails ==
  /\ powered
  /\ idlePc = "look"
  /\ answer' = "unknown"
  /\ idlePc' = "act"
  /\ UNCHANGED <<sourceVars, healthVars, powered, playing, age, setupActive,
                 requested, checkAge, historyVars>>

LookSees ==
  /\ powered
  /\ idlePc = "look"
  /\ answer' = IF playing THEN "active" ELSE "inactive"
  /\ idlePc' = "act"
  /\ UNCHANGED <<sourceVars, healthVars, powered, playing, age, setupActive,
                 requested, checkAge, historyVars>>

\* poll_once returns, or its thread is gone, and so are its locals.
LookIsOver(pc) ==
  /\ idlePc' = pc
  /\ checkAge' = 0
  /\ answer' = "unknown"
  /\ quiet' = FALSE

\* The backend catches HTTPError and URLError; a read that times out raises
\* neither, and ends the thread.
LookRaises ==
  /\ powered
  /\ idlePc = "look"
  /\ LookIsOver("dead")
  /\ UNCHANGED <<sourceVars, healthVars, powered, playing, age, setupActive, requested,
                 sinceCheck, idleFor, disturbed>>

\* Mutant of Rearm: the deadline itself is recorded as the last activity.
RearmAtTheDeadline ==
  /\ powered
  /\ idlePc = "act" /\ answer \in {"active", "unknown"}
  /\ age' = checkAge - Timeout
  /\ LookIsOver("wait")
  /\ UNCHANGED <<sourceVars, healthVars, powered, playing, setupActive, requested,
                 sinceCheck, idleFor, disturbed>>

\* Active or unknown: the interval begins again, at the poll's now.
Rearm ==
  /\ powered
  /\ idlePc = "act" /\ answer \in {"active", "unknown"}
  /\ age' = checkAge
  /\ LookIsOver("wait")
  /\ UNCHANGED <<sourceVars, healthVars, powered, playing, setupActive, requested,
                 sinceCheck, idleFor, disturbed>>

\* Mutant of Request: the unknown is taken for inactive.
RequestUnlessActive ==
  /\ powered
  /\ idlePc = "act" /\ answer # "active"
  /\ requested' = TRUE
  /\ powered' \in BOOLEAN
  /\ LookIsOver("wait")
  /\ UNCHANGED <<sourceVars, healthVars, playing, age, setupActive, sinceCheck,
                 idleFor, disturbed>>

\* Inactive: the shutdown is requested, once; the helper may fail to do it.
Request ==
  /\ powered
  /\ idlePc = "act" /\ answer = "inactive"
  /\ requested' = TRUE
  /\ powered' \in BOOLEAN
  /\ LookIsOver("wait")
  /\ UNCHANGED <<sourceVars, healthVars, playing, age, setupActive, sinceCheck,
                 idleFor, disturbed>>

\* The service starts anew, and with it all that its threads share.
ServiceStarts ==
  /\ healthPc' = "scanner" /\ seen' = NothingSeen /\ lastStatus' = "none"
  /\ age' = 0 /\ setupActive' = FALSE /\ requested' = FALSE
  /\ idlePc' = "wait" /\ checkAge' = 0 /\ answer' = "unknown"
  /\ sinceCheck' = Timeout /\ idleFor' = 0 /\ disturbed' = FALSE /\ quiet' = FALSE

\* In the first poll, which the main thread makes, the RuntimeError ends the
\* service, and systemd restarts it.
FirstPollRaises ==
  /\ powered
  /\ SetupRaises /\ lastStatus = "none"
  /\ ServiceStarts
  /\ UNCHANGED <<sourceVars, powered, playing>>

PowerOn ==
  /\ ~powered
  /\ powered' = TRUE
  /\ playing' = FALSE
  /\ ServiceStarts
  /\ UNCHANGED sourceVars

HealthThread == HealthPolls \/ HealthPollsSetup \/ HealthEmits \/ HealthDies \/ FirstPollRaises
IdleThread == Decide \/ LookSees \/ LookFails \/ LookRaises \/ Rearm \/ Request

Next ==
  \/ HealthThread \/ SourceChanges
  \/ Activity \/ PlayerChanges \/ Tick
  \/ IdleThread \/ PowerOn

Spec == Init /\ [][Next]_vars

\* Both threads poll for as long as they live, and time goes on; the player can
\* be asked now and then, and setup_status does not raise every time.  Nothing
\* is assumed of the household, the player and the sources, and nothing that
\* keeps a thread alive.
FairSpec ==
  /\ Spec
  /\ WF_vars(HealthThread) /\ WF_vars(IdleThread) /\ WF_vars(Tick)
  /\ SF_vars(LookSees) /\ SF_vars(HealthPollsSetup)

-----------------------------------------------------------------------------
\* The shutdown is requested: poll_once reaches its callback.
Requests == ~requested /\ requested'

\* A shutdown is requested only when the household did nothing for a whole
\* interval, or did its last thing while the player was being asked: the answer
\* is used although an event was handled meanwhile, and `self._last_activity =
\* now` overwrites the later time that event recorded (idle_monitor.py:89-99).
ShutdownAfterLongIdle == [][Requests => idleFor = Timeout \/ disturbed]_vars

\* Playback that goes on from the decision to look until the shutdown is never
\* cut: the target was silent at some moment of that time, however it starts
\* and stops, and an answer that could not be had is not taken for silence.
ShutdownOnlyInSilence == [][Requests => quiet]_vars

\* pi-validation.md:130-132: the player is asked once per interval, and an
\* active or unknown answer costs another whole one, whatever events come
\* between and however long the answer takes.
OneLookPerInterval ==
  [][idlePc = "wait" /\ idlePc' = "look" => sinceCheck = Timeout]_vars

\* The box stays on and the health monitor's thread alive.
Monitored == powered /\ healthPc # "dead"

\* Once the sources stay as they are, what the sinks were told last is the worst
\* of them: a change read in two halves by one poll is made good by the next.
SettledIsPublished ==
  <>[][UNCHANGED sourceVars]_vars /\ <>[]Monitored
     => <>[](lastStatus = Worst({scanner, playback, setup}))

\* pi-validation.md:133: while setup or re-auth stays required, and no outage of
\* the scanner hides it, the idle monitor is disabled in the end, and stays so.
SetupDisablesShutdown ==
  <>[](Monitored /\ scanner = "ready" /\ setup # "ready") => <>[]setupActive

AllReady == scanner = "ready" /\ playback = "ready" /\ setup = "ready"

\* A box that is ready and left alone is powered off, whatever setup mode it was
\* in before: the flag is cleared, every interval expires, the player is asked.
IdleBoxShutsDown ==
  <>[](AllReady /\ ~playing /\ idleFor # 0 /\ healthPc # "dead" /\ idlePc # "dead")
     => []<>requested

=============================================================================
