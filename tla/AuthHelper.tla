---------------------------- MODULE AuthHelper ----------------------------
(***************************************************************************)
(* scripts/runtime/jukebox-spotifyd-auth-helper.sh: the helper that runs   *)
(* `spotifyd authenticate` in the background and keeps its progress in     *)
(* state.json.                                                             *)
(*                                                                         *)
(* The commands run in processes of their callers; this module gives their *)
(* steps on the shared state, and ReceiverAuth gives the callers.          *)
(* write_state writes one temporary file, the same for every process, and  *)
(* renames it over state.json: two steps, of which the second fails, and   *)
(* ends the script (set -e), when another process renamed the file first.  *)
(* The messages, the log and the approval URL read from it are left out.   *)
(***************************************************************************)

CONSTANT Workers   \* worker processes there may be at a time: a bound

VARIABLES
  helper,     \* the state in state.json, or "absent"
  temporary,  \* the state in state.json.tmp, or "absent"
  worker,     \* worker[w]: what worker process w is doing
  installed   \* is the spotifyd command available?

helperVars == <<helper, temporary, worker, installed>>

InProgress == {"pending", "running"}

HelperStates == {"absent", "succeeded", "failed"} \cup InProgress

WorkerSteps == {"none", "launched", "starting", "authenticating", "ending"}

HelperTypeOK ==
  /\ helper \in HelperStates
  /\ temporary \in HelperStates
  /\ worker \in [Workers -> WorkerSteps]
  /\ installed \in BOOLEAN

\* Any state.json that a flow which came to its end may have left behind.
HelperInit ==
  /\ helper \in {"absent", "succeeded", "failed"}
  /\ temporary = "absent"
  /\ worker = [w \in Workers |-> "none"]
  /\ installed \in BOOLEAN

Alive == {w \in Workers : worker[w] # "none"}

\* Mutant of Emitted: no answer for a missing file.
EmitsTheFile == helper

\* emit_state: the state a command reports.
Emitted == IF helper = "absent" THEN "failed" ELSE helper

(***************************************************************************)
(* write_state: the temporary file, and its renaming.                      *)
(***************************************************************************)
WriteTemporary(state) == temporary' = state /\ UNCHANGED helper

Rename == temporary # "absent" /\ helper' = temporary /\ temporary' = "absent"

RenameFails == temporary = "absent" /\ UNCHANGED <<helper, temporary>>

(***************************************************************************)
(* start_cmd, up to its decision: without spotifyd it writes "failed"; with*)
(* a flow in progress it goes straight to its report; else it will launch. *)
(***************************************************************************)
StartRefused == ~installed /\ WriteTemporary("failed") /\ UNCHANGED <<worker, installed>>

StartJoins == installed /\ helper \in InProgress /\ UNCHANGED helperVars

StartLaunches == installed /\ helper \notin InProgress /\ UNCHANGED helperVars

LaunchWorker ==
  /\ \E w \in Workers \ Alive : worker' = [worker EXCEPT ![w] = "launched"]
  /\ UNCHANGED <<helper, temporary, installed>>

(***************************************************************************)
(* run_worker_cmd: the state, `spotifyd authenticate`, and the result.     *)
(***************************************************************************)
WorkerStarts(w) ==
  /\ worker[w] = "launched"
  /\ IF installed
       THEN WriteTemporary("running") /\ worker' = [worker EXCEPT ![w] = "starting"]
       ELSE WriteTemporary("failed") /\ worker' = [worker EXCEPT ![w] = "ending"]
  /\ UNCHANGED installed

\* Mutant of WorkerEnds: the script exits with spotifyd when that fails.
WorkerExitsOnFailure(w, result) ==
  /\ worker[w] = "authenticating"
  /\ IF result = "failed"
       THEN worker' = [worker EXCEPT ![w] = "none"] /\ UNCHANGED <<helper, temporary>>
       ELSE worker' = [worker EXCEPT ![w] = "ending"] /\ WriteTemporary(result)
  /\ UNCHANGED installed

WorkerEnds(w, result) ==
  /\ worker[w] = "authenticating"
  /\ WriteTemporary(result)
  /\ worker' = [worker EXCEPT ![w] = "ending"]
  /\ UNCHANGED installed

\* The second half of a worker's write_state.
WorkerRenames(w) ==
  /\ worker[w] \in {"starting", "ending"}
  /\ \/ Rename /\ worker' = [worker EXCEPT ![w] =
                               IF @ = "starting" THEN "authenticating" ELSE "none"]
     \/ RenameFails /\ worker' = [worker EXCEPT ![w] = "none"]
  /\ UNCHANGED installed

\* A reboot, or systemd restarting the service with its control group: the
\* workers die, the files stay.  spotifyd may have been installed or removed.
WorkersDie ==
  /\ worker' = [w \in Workers |-> "none"]
  /\ installed' \in BOOLEAN
  /\ UNCHANGED <<helper, temporary>>

=============================================================================
