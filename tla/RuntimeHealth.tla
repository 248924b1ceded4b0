--------------------------- MODULE RuntimeHealth ---------------------------
(***************************************************************************)
(* runtime_health.py: RuntimeHealthMonitor, which reads the status of the  *)
(* scanner, of playback and of setup one after the other, takes the worst, *)
(* and emits an event when that is not what it emitted last.               *)
(*                                                                         *)
(* A status is its code; the message, backend and device that come with    *)
(* the code are left out.  The three sources are what they are: the        *)
(* scanner adapter, the backend's cached status, and setup_status.  start()*)
(* polls once in the main thread before the monitor's own thread does: the *)
(* first poll here.  setup_status may raise, and nobody catches that.      *)
(***************************************************************************)
EXTENDS Naturals

CONSTANT PlaybackCodes   \* the codes the playback backend may report

\* _STATUS_PRIORITY: the lower, the sooner it is reported.
StatusPriority ==
  [scanner_unavailable |-> 0, setup_required |-> 1, auth_required |-> 2,
   controller_auth_unavailable |-> 3, spotify_rate_limited |-> 4,
   network_unavailable |-> 5, receiver_unavailable |-> 6, ready |-> 7]

Codes == DOMAIN StatusPriority

ScannerCodes == {"ready", "scanner_unavailable"}
SetupCodes == {"ready", "setup_required", "auth_required"}

ASSUME PlaybackCodesAssumption ==
  /\ "ready" \in PlaybackCodes
  /\ PlaybackCodes \subseteq Codes \ {"scanner_unavailable", "setup_required", "auth_required"}

VARIABLES
  scanner,     \* what the input adapter's status() returns
  playback,    \* what the playback backend's status() returns
  setup,       \* what setup_status() returns
  healthPc,    \* where poll_once is
  seen,        \* the statuses this poll has read
  lastStatus   \* self._last_status, or "none"

sourceVars == <<scanner, playback, setup>>
healthVars == <<healthPc, seen, lastStatus>>

HealthTypeOK ==
  /\ scanner \in ScannerCodes
  /\ playback \in PlaybackCodes
  /\ setup \in SetupCodes
  /\ healthPc \in {"scanner", "playback", "setup", "emit", "dead"}
  /\ seen \in [scanner : ScannerCodes, playback : PlaybackCodes]
  /\ lastStatus \in Codes \cup {"none"}

NothingSeen == [scanner |-> "ready", playback |-> "ready"]

HealthInit ==
  /\ healthPc = "scanner"
  /\ seen = NothingSeen
  /\ lastStatus = "none"

-----------------------------------------------------------------------------
\* _current_status: ready if all are, else the degraded one that comes first.
Worst(codes) ==
  CHOOSE c \in codes : \A d \in codes : StatusPriority[c] <= StatusPriority[d]

PollScanner ==
  /\ healthPc = "scanner"
  /\ seen' = [seen EXCEPT !.scanner = scanner]
  /\ healthPc' = "playback"
  /\ UNCHANGED lastStatus

PollPlayback ==
  /\ healthPc = "playback"
  /\ seen' = [seen EXCEPT !.playback = playback]
  /\ healthPc' = "setup"
  /\ UNCHANGED lastStatus

\* Mutant of PollSetup: what a ready setup hides is not looked at again.
PollSetupOnlyWorse ==
  /\ healthPc = "setup"
  /\ LET status == Worst({seen.scanner, seen.playback, setup}) IN
       IF lastStatus # "none" /\ StatusPriority[status] >= StatusPriority[lastStatus]
         THEN healthPc' = "scanner" /\ UNCHANGED lastStatus
         ELSE healthPc' = "emit" /\ lastStatus' = status
  /\ seen' = NothingSeen

\* The last source, and the comparison with what was emitted last.
PollSetup ==
  /\ healthPc = "setup"
  /\ LET status == Worst({seen.scanner, seen.playback, setup}) IN
       IF lastStatus = status
         THEN healthPc' = "scanner" /\ UNCHANGED lastStatus
         ELSE healthPc' = "emit" /\ lastStatus' = status
  /\ seen' = NothingSeen

\* setup_status asks the Wi-Fi helper unless a request for re-auth decides first,
\* and does not catch the RuntimeError of a helper that fails.
SetupRaises == healthPc = "setup" /\ setup # "auth_required"

\* Nor does the thread: it is gone for good, and the service goes on.
ThreadDies ==
  /\ SetupRaises /\ lastStatus # "none"
  /\ healthPc' = "dead"
  /\ seen' = NothingSeen
  /\ UNCHANGED lastStatus

\* _emit: the sinks handle the event, which is lastStatus.
Emitted ==
  /\ healthPc = "emit"
  /\ healthPc' = "scanner"
  /\ UNCHANGED <<seen, lastStatus>>

\* The sources, which their own modules are about.
SourcesChange ==
  \/ scanner' \in ScannerCodes /\ UNCHANGED <<playback, setup>>
  \/ playback' \in PlaybackCodes /\ UNCHANGED <<scanner, setup>>
  \/ setup' \in SetupCodes /\ UNCHANGED <<scanner, playback>>

=============================================================================
