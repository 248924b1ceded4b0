-------------------------- MODULE OperatorStore --------------------------
(***************************************************************************)
(* OperatorStateStore on its file, one step per access to the file.        *)
(*                                                                         *)
(* load() tests that the file exists, reads it, decodes it and writes it   *)
(* back; every setter is a load() followed by a second write.  A write is  *)
(* Path.write_text: the open truncates the file, the close writes the text *)
(* at offset 0.  No lock guards any of this, and the controller, the       *)
(* health monitor and the HTTP handlers call the store from threads of     *)
(* their own.                                                              *)
(***************************************************************************)
EXTENDS OperatorState

CONSTANTS
  Threads,    \* the threads that call the store
  Calls,      \* Calls[t]: the calls thread t makes
  MayCrash,   \* may the process die between two steps?
  MayFail     \* may the reading of the file fail (OSError)?

ASSUME CallsAssumption == Calls \in [Threads -> SUBSET StoreCalls]
ASSUME FaultsAssumption == MayCrash \in BOOLEAN /\ MayFail \in BOOLEAN

VARIABLES
  file,     \* the state file: its content and its length
  call,     \* call[t]: the latest call of thread t
  pc,       \* pc[t]: the next access of thread t to the file
  saving,   \* saving[t]: is t in the setter's own save(), after its load()?
  current,  \* current[t]: the state t loaded; at the end, the one it returns
  disturbed \* history: since a call last began alone, has another begun beside
            \* it, has the process died, or has a reading failed?

vars == <<file, call, pc, saving, current, disturbed>>

-----------------------------------------------------------------------------
(***************************************************************************)
(* The length of the JSON text of s, less the part all states share: what  *)
(* decides whether one text written over another leaves a tail behind.     *)
(***************************************************************************)
BooleanLength(b) == IF b THEN 4 ELSE 5

TextLength(s) ==
  (IF s.mode = "replace" THEN 7 ELSE 12)
    + BooleanLength(s.setup) + BooleanLength(s.reauth) + BooleanLength(s.started)
    + (CASE s.wifi = "none" -> 4 [] s.wifi = "client" -> 8 [] s.wifi = "setup_ap" -> 10)

Kinds == {"absent", "empty", "json", "garbled"}

\* Mutant of NoText: a file without a JSON text decodes to a state with no mode.
NoTextNoMode(kind, length) ==
  [kind |-> kind, state |-> [Defaults EXCEPT !.mode = "none"], length |-> length]

\* A file that holds no JSON text decodes to Defaults, so it carries those.
NoText(kind, length) == [kind |-> kind, state |-> Defaults, length |-> length]

Text(s) == [kind |-> "json", state |-> s, length |-> TextLength(s)]

\* The text of s written at offset 0 of f.  A shorter text leaves the tail of
\* the longer one behind it, which is no JSON document ("Extra data").
Overwritten(f, s) ==
  IF TextLength(s) >= f.length THEN Text(s) ELSE NoText("garbled", f.length)

\* Mutant of ToSave: a setter saves what it loaded.
SavesTheLoaded(t) == current[t]

\* What the save() that thread t is in writes.
ToSave(t) == IF saving[t] THEN Updated(call[t], current[t]) ELSE current[t]

-----------------------------------------------------------------------------
TypeOK ==
  /\ file \in [kind : Kinds, state : OperatorState, length : Nat]
  /\ call \in [Threads -> StoreCalls]
  /\ pc \in [Threads -> {"idle", "exists", "read", "open", "write", "returned"}]
  /\ saving \in [Threads -> BOOLEAN]
  /\ current \in [Threads -> OperatorState]
  /\ disturbed \in BOOLEAN

\* The file of an earlier run of the program, or none.
Init ==
  /\ \/ file = NoText("absent", 0)
     \/ \E s \in OperatorState : StartedIsRequested(s) /\ file = Text(s)
  /\ call = [t \in Threads |-> [op |-> "load"]]
  /\ pc = [t \in Threads |-> "idle"]
  /\ saving = [t \in Threads |-> FALSE]
  /\ current = [t \in Threads |-> Defaults]
  /\ disturbed = FALSE

InCall(t) == pc[t] \in {"exists", "read", "open", "write"}

Call(t) ==
  /\ pc[t] = "idle"
  /\ \E c \in Calls[t] : call' = [call EXCEPT ![t] = c]
  /\ pc' = [pc EXCEPT ![t] = "exists"]
  /\ saving' = [saving EXCEPT ![t] = FALSE]
  /\ disturbed' = \E u \in Threads : InCall(u)
  /\ UNCHANGED <<file, current>>

\* load(): if not self._path.exists(), save the defaults.
TestExists(t) ==
  /\ pc[t] = "exists"
  /\ IF file.kind = "absent"
       THEN /\ pc' = [pc EXCEPT ![t] = "open"]
            /\ current' = [current EXCEPT ![t] = Defaults]
       ELSE /\ pc' = [pc EXCEPT ![t] = "read"]
            /\ UNCHANGED current
  /\ UNCHANGED <<file, call, saving, disturbed>>

\* load(): read and decode; a JSONDecodeError yields the defaults, and so
\* does an OSError, whatever the file holds.
Read(t) ==
  /\ pc[t] = "read"
  /\ \/ /\ current' = [current EXCEPT ![t] = file.state]
        /\ UNCHANGED disturbed
     \/ /\ MayFail
        /\ current' = [current EXCEPT ![t] = Defaults]
        /\ disturbed' = TRUE
  /\ pc' = [pc EXCEPT ![t] = "open"]
  /\ UNCHANGED <<file, call, saving>>

\* save(): the open of write_text creates or truncates the file.
OpenForWrite(t) ==
  /\ pc[t] = "open"
  /\ file' = NoText("empty", 0)
  /\ pc' = [pc EXCEPT ![t] = "write"]
  /\ UNCHANGED <<call, saving, current, disturbed>>

\* save(): the text reaches the file when write_text closes it.  After the
\* save() of its load() a setter goes on to its own; after that the call ends.
Write(t) ==
  /\ pc[t] = "write"
  /\ file' = Overwritten(file, ToSave(t))
  /\ IF call[t].op = "load" \/ saving[t]
       THEN /\ current' = [current EXCEPT ![t] = ToSave(t)]
            /\ pc' = [pc EXCEPT ![t] = "returned"]
            /\ UNCHANGED saving
       ELSE /\ saving' = [saving EXCEPT ![t] = TRUE]
            /\ pc' = [pc EXCEPT ![t] = "open"]
            /\ UNCHANGED current
  /\ UNCHANGED <<call, disturbed>>

Return(t) ==
  /\ pc[t] = "returned"
  /\ pc' = [pc EXCEPT ![t] = "idle"]
  /\ current' = [current EXCEPT ![t] = Defaults]
  /\ UNCHANGED <<file, call, saving, disturbed>>

\* The process dies and starts again: only the file is left.
Crash ==
  /\ MayCrash
  /\ pc' = [t \in Threads |-> "idle"]
  /\ current' = [t \in Threads |-> Defaults]
  /\ disturbed' = TRUE
  /\ UNCHANGED <<file, call, saving>>

Step(t) ==
  TestExists(t) \/ Read(t) \/ OpenForWrite(t) \/ Write(t) \/ Return(t)

Next == Crash \/ \E t \in Threads : Call(t) \/ Step(t)

Spec == Init /\ [][Next]_vars

-----------------------------------------------------------------------------
(***************************************************************************)
(* Whatever the threads' interleaving, whichever readings fail and wherever*)
(* the process dies, the file never holds, and no caller is ever handed, a *)
(* re-auth flow that is started but not requested: reconcile_auth_status   *)
(* would never clear it.  What it does not say is that an update is kept:  *)
(* a load that overlaps it writes back the state from before it.           *)
(***************************************************************************)
StartedNeverUnrequested ==
  /\ StartedIsRequested(file.state)
  /\ \A t \in Threads : StartedIsRequested(current[t])

-----------------------------------------------------------------------------
(***************************************************************************)
(* The refinement.  Between the truncation and the write the state is only *)
(* in the writer's memory, as the record it loaded; a file without a text  *)
(* stands for Defaults.                                                    *)
(***************************************************************************)
Register ==
  IF file.kind = "json" THEN file.state
  ELSE IF \E t \in Threads : pc[t] = "write" \/ (pc[t] = "open" /\ saving[t])
       THEN LET t == CHOOSE u \in Threads :
                       pc[u] = "write" \/ (pc[u] = "open" /\ saving[u])
            IN  current[t]
       ELSE Defaults

AbstractStatus ==
  [t \in Threads |-> CASE pc[t] = "idle"     -> "idle"
                       [] pc[t] = "returned" -> "done"
                       [] OTHER              -> "called"]

AbstractAnswer ==
  [t \in Threads |-> IF pc[t] = "returned" THEN current[t] ELSE Defaults]

Atomic ==
  INSTANCE AtomicOperatorStore
    WITH register <- Register, status <- AbstractStatus, answer <- AbstractAnswer

(***************************************************************************)
(* The store is atomic to callers that take turns: a call that begins      *)
(* alone, and that no other call, crash or failed reading comes to, takes  *)
(* effect once, as a whole, and returns the state it leaves, although load *)
(* and the setters rewrite the file once or twice; and it does so again    *)
(* after any disturbance, on what that left of the file.                   *)
(***************************************************************************)
CallsInTurnAreAtomic == Atomic!Init /\ [][disturbed' \/ Atomic!Next]_(Atomic!vars)

=============================================================================
