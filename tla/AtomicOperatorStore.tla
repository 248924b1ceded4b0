----------------------- MODULE AtomicOperatorStore -----------------------
(***************************************************************************)
(* What the callers of OperatorStateStore rely on: each call on the store  *)
(* takes effect once, as a whole, between its invocation and its return,   *)
(* and returns the state it left behind.  OperatorStore is the file-level  *)
(* implementation.                                                         *)
(***************************************************************************)
EXTENDS OperatorState

CONSTANTS
  Threads,   \* the threads that call the store
  Calls      \* Calls[t]: the calls thread t makes

VARIABLES
  register,  \* the operator state
  call,      \* call[t]: the latest call of thread t
  status,    \* status[t]: "idle", "called" or "done"
  answer     \* answer[t]: what the call of t returns, once it is done

vars == <<register, call, status, answer>>

Init ==
  /\ register \in OperatorState
  /\ StartedIsRequested(register)
  /\ call = [t \in Threads |-> [op |-> "load"]]
  /\ status = [t \in Threads |-> "idle"]
  /\ answer = [t \in Threads |-> Defaults]

Invoke(t) ==
  /\ status[t] = "idle"
  /\ \E c \in Calls[t] : call' = [call EXCEPT ![t] = c]
  /\ status' = [status EXCEPT ![t] = "called"]
  /\ UNCHANGED <<register, answer>>

Commit(t) ==
  /\ status[t] = "called"
  /\ status' = [status EXCEPT ![t] = "done"]
  /\ register' = Updated(call[t], register)
  /\ answer' = [answer EXCEPT ![t] = Updated(call[t], register)]
  /\ UNCHANGED call

Return(t) ==
  /\ status[t] = "done"
  /\ status' = [status EXCEPT ![t] = "idle"]
  /\ answer' = [answer EXCEPT ![t] = Defaults]
  /\ UNCHANGED <<register, call>>

Next == \E t \in Threads : Invoke(t) \/ Commit(t) \/ Return(t)

Spec == Init /\ [][Next]_vars

=============================================================================
