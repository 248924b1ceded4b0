-------------------------- MODULE PlaybackContract --------------------------
(***************************************************************************)
(* What the playback backend promises its callers, whatever Spotify does:  *)
(* a call ends with an answer of its kind, and in the moment it ends the   *)
(* cached status becomes the one that fits that answer.  Nothing else      *)
(* writes the status, so that a reader is never told of a call that is     *)
(* still under way, nor misses one that has ended.                         *)
(***************************************************************************)

CONSTANTS
  Threads,    \* the threads that call the backend
  Kinds,      \* Kinds[t]: the kinds of call that thread t makes
  AnswersTo,  \* AnswersTo[k]: how a call of kind k may be answered
  StatusOf    \* StatusOf[a]: the status that fits answer a

VARIABLES
  call,    \* call[t]: the kind of call thread t is in, or "none"
  answer,  \* answer[t]: the answer of its latest call, "none" during a call
  status   \* what status() reports

vars == <<call, answer, status>>

Init ==
  /\ call = [t \in Threads |-> IF t = "main" THEN "probe" ELSE "none"]
  /\ answer = [t \in Threads |-> "none"]
  /\ status = "network_unavailable"

Begin(t) ==
  /\ call[t] = "none"
  /\ \E k \in Kinds[t] : call' = [call EXCEPT ![t] = k]
  /\ answer' = [answer EXCEPT ![t] = "none"]
  /\ UNCHANGED status

Finish(t) ==
  /\ call[t] # "none"
  /\ \E a \in AnswersTo[call[t]] :
       /\ answer' = [answer EXCEPT ![t] = a]
       /\ status' = StatusOf[a]
  /\ call' = [call EXCEPT ![t] = "none"]

\* The call raises: the thread ends without an answer.
Abort(t) ==
  /\ call[t] # "none"
  /\ call' = [call EXCEPT ![t] = "none"]
  /\ UNCHANGED <<answer, status>>

\* The service starts anew, with a backend that knows nothing.
Restart ==
  /\ call' = [t \in Threads |-> IF t = "main" THEN "probe" ELSE "none"]
  /\ answer' = [t \in Threads |-> "none"]
  /\ status' = "network_unavailable"

Next ==
  \/ \E t \in Threads : Begin(t) \/ Finish(t) \/ Abort(t)
  \/ Restart

Spec == Init /\ [][Next]_vars

=============================================================================
