------------------------- MODULE WifiHelper_proofs -------------------------
(***************************************************************************)
(* Proofs about WifiHelper, for any networks, callers and bounds.          *)
(*                                                                         *)
(* The argument is about the network an apply committed last: no trial     *)
(* under way, no rollback under way and no file of a pending trial names   *)
(* it, and so nothing that removes a trial's connection removes it.        *)
(***************************************************************************)
EXTENDS WifiTurns, TLAPS

\* t is not the network that was committed last.
Clear(t) == applied = "none" \/ applied # t

\* What the variables of a process say of each other.
Static(p) ==
  /\ pc[p] \in {"idle", "resolve", "rb_load"} => loaded[p] = NoNames
  /\ pc[p] \in {"look", "open"} => cmd[p] \in {"apply", "reset"}
  /\ pc[p] \in {"open", "write", "arm"} => mine[p].number \in Timers
  /\ pc[p] \in {"replace", "connect", "ap_down", "retire", "commit"} => cmd[p] = "apply"
  /\ cmd[p] = "apply" => mine[p].trial \in Connections

\* What a process at work may rely on, being alone.
Live(p) ==
  /\ pc[p] \in {"open", "write", "arm", "replace", "connect"} => Clear(mine[p].trial)
  /\ pc[p] \in {"ap_down", "retire", "commit"} => applied = "none" /\ mine[p].trial \in saved
  /\ pc[p] \in RollbackSteps => Clear(loaded[p].trial)
  /\ pc[p] = "open" /\ cmd[p] = "apply" /\ pending.stage = "whole"
       => mine[p].previous = pending.previous

Shared ==
  /\ pending.stage # "none" => Clear(pending.trial)
  /\ applied # "none" => applied \in saved

Safe == ~Overlap /\ Shared /\ \A p \in Processes : Live(p)

IInv ==
  /\ TypeOK
  /\ \A p \in Processes : Static(p)
  /\ ~raced => Safe

-----------------------------------------------------------------------------
(***************************************************************************)
(* A step of one process.                                                  *)
(***************************************************************************)
ProcessTypes ==
  /\ pc \in [Processes -> Steps]
  /\ cmd \in [Processes -> HelperCommands \cup {"none", "rollback"}]
  /\ mine \in [Processes -> Trial]
  /\ loaded \in [Processes -> Names]

OtherTypes ==
  /\ saved \subseteq Connections
  /\ active \in saved \cup {"ap", "none"}
  /\ pending \in Pending
  /\ asleep \subseteq Timers
  /\ trials \in 0..MaxTrials /\ expired \in 0..trials
  /\ calls \in 0..MaxCalls /\ stops \in 0..MaxStops
  /\ upFailed \in BOOLEAN
  /\ applied \in Connections \cup {"none"}

LEMMA TypesFact == /\ TypeOK <=> ProcessTypes /\ OtherTypes /\ raced \in BOOLEAN
                   /\ TypeOK' <=> ProcessTypes' /\ OtherTypes' /\ raced' \in BOOLEAN
PROOF BY DEF TypeOK, ProcessTypes, OtherTypes

Only(p) ==
  \A q \in Processes \ {p} :
    pc'[q] = pc[q] /\ cmd'[q] = cmd[q] /\ mine'[q] = mine[q] /\ loaded'[q] = loaded[q]

LEMMA NothingFact ==
  /\ NoNames \in Names /\ NoTrial \in Trial /\ NoPending \in Pending
  /\ NoNames.trial = "none" /\ NoTrial.trial = "none"
  /\ NoPending.stage = "none"
PROOF BY BoundsAssumption DEF NoNames, NoTrial, NoPending, Names, Trial, Pending

LEMMA GoToFact ==
  ASSUME ProcessTypes, NEW p \in Processes, NEW step \in Steps, GoTo(p, step)
  PROVE  /\ ProcessTypes' /\ Only(p)
         /\ pc'[p] = step /\ cmd'[p] = cmd[p] /\ mine'[p] = mine[p] /\ loaded'[p] = loaded[p]
PROOF BY DEF ProcessTypes, GoTo, Only

LEMMA EndFact ==
  ASSUME ProcessTypes, NEW p \in Processes, End(p)
  PROVE  /\ ProcessTypes' /\ Only(p)
         /\ pc'[p] = "idle" /\ cmd'[p] = "none" /\ mine'[p] = NoTrial /\ loaded'[p] = NoNames
PROOF
  <1>1. "idle" \in Steps
    BY DEF Steps
  <1>2. QED
    BY <1>1, NothingFact DEF ProcessTypes, End, Only

LEMMA ResolvedFact ==
  ASSUME ProcessTypes, NEW p \in Processes, NEW names \in Names, Resolved(p, names)
  PROVE  /\ ProcessTypes' /\ Only(p)
         /\ \/ pc'[p] = "idle" /\ cmd'[p] = "none" /\ loaded'[p] = NoNames
            \/ pc'[p] = "drop" /\ cmd'[p] = "start_ap"
            \/ pc'[p] = "look" /\ cmd'[p] \in {"apply", "reset"} /\ cmd'[p] = cmd[p]
                 /\ mine'[p] = mine[p]
PROOF
  <1>1. CASE cmd[p] \in {"status", "rollback"} /\ End(p)
    BY <1>1, EndFact
  <1>2. CASE /\ cmd[p] = "start_ap"
             /\ pc' = [pc EXCEPT ![p] = "drop"]
             /\ loaded' = [loaded EXCEPT ![p] = NoNames]
             /\ UNCHANGED <<cmd, mine>>
    <2>1. "drop" \in Steps
      BY DEF Steps, WorkSteps
    <2>2. QED
      BY <1>2, <2>1, NothingFact DEF ProcessTypes, Only
  <1>3. CASE /\ cmd[p] \in {"apply", "reset"}
             /\ pc' = [pc EXCEPT ![p] = "look"]
             /\ loaded' = [loaded EXCEPT ![p] = names]
             /\ UNCHANGED <<cmd, mine>>
    <2>1. "look" \in Steps
      BY DEF Steps
    <2>2. QED
      BY <1>3, <2>1 DEF ProcessTypes, Only
  <1>4. QED
    BY <1>1, <1>2, <1>3 DEF Resolved
-----------------------------------------------------------------------------
(***************************************************************************)
(* Every step of a process keeps the types, the other processes and what   *)
(* its own variables say of each other.                                    *)
(***************************************************************************)
LEMMA EntryFact ==
  ASSUME ProcessTypes, NEW p \in Processes, NEW stage \in {"opened", "whole"}
  PROVE  Entry(p, stage) \in Pending
PROOF BY DEF ProcessTypes, Entry, Trial, Pending

LEMMA StepTypes ==
  ASSUME ProcessTypes, OtherTypes, NEW p \in Processes, Static(p), Step(p)
  PROVE  ProcessTypes' /\ OtherTypes' /\ Only(p) /\ Static(p)'
PROOF
  <1>1. CASE Resolve(p)
    <2>1. loaded[p] \in Names /\ NamesInFile \in Names
      BY DEF ProcessTypes, OtherTypes, NamesInFile, Names, Pending
    <2>2. "rb_load" \in Steps
      BY DEF Steps
    <2>3. OtherTypes'
      BY <1>1 DEF Resolve, OtherTypes, nm, clock, bounds, history
    <2>4. CASE Resolved(p, loaded[p]) \/ Resolved(p, NamesInFile)
      BY <2>1, <2>3, <2>4, ResolvedFact DEF Static
    <2>5. CASE End(p)
      BY <2>3, <2>5, EndFact DEF Static
    <2>6. CASE GoTo(p, "rb_load")
      BY <1>1, <2>2, <2>3, <2>6, GoToFact DEF Static, Resolve
    <2>7. QED
      BY <1>1, <2>4, <2>5, <2>6 DEF Resolve
  <1>2. CASE RollbackLoad(p)
    <2>1. loaded[p] \in Names /\ NamesInFile \in Names
      BY DEF ProcessTypes, OtherTypes, NamesInFile, Names, Pending
    <2>2. "rb_ap" \in Steps
      BY DEF Steps, RollbackSteps
    <2>3. OtherTypes'
      BY <1>2 DEF RollbackLoad, OtherTypes, nm, clock, bounds, history
    <2>4. CASE Resolved(p, loaded[p])
      BY <2>1, <2>3, <2>4, ResolvedFact DEF Static
    <2>5. CASE /\ pc' = [pc EXCEPT ![p] = "rb_ap"]
               /\ \E names \in LoadedNames(p) : loaded' = [loaded EXCEPT ![p] = names]
               /\ UNCHANGED <<cmd, mine>>
      <3>1. PICK names \in LoadedNames(p) : loaded' = [loaded EXCEPT ![p] = names]
        BY <2>5
      <3>2. names \in Names
        BY <2>1 DEF LoadedNames
      <3>3. ProcessTypes' /\ Only(p) /\ pc'[p] = "rb_ap" /\ cmd'[p] = cmd[p] /\ mine'[p] = mine[p]
        BY <2>2, <2>5, <3>1, <3>2 DEF ProcessTypes, Only
      <3>4. QED
        BY <2>3, <3>3 DEF Static
    <2>6. QED
      BY <1>2, <2>4, <2>5 DEF RollbackLoad
  <1>3. CASE RollbackAp(p)
    <2>1. "rb_delete" \in Steps
      BY DEF Steps, RollbackSteps, WorkSteps
    <2>2. ProcessTypes' /\ Only(p) /\ pc'[p] = "rb_delete" /\ cmd'[p] = cmd[p]
           /\ mine'[p] = mine[p] /\ loaded'[p] = loaded[p]
      BY <1>3, <2>1, GoToFact DEF RollbackAp
    <2>3. OtherTypes'
      BY <1>3 DEF RollbackAp, OtherTypes, nm, clock, bounds, history, DisconnectAp, ApActive
    <2>4. QED
      BY <1>3, <2>2, <2>3 DEF Static, RollbackAp
  <1>4. CASE RollbackDelete(p)
    <2>1. "rb_up" \in Steps
      BY DEF Steps, RollbackSteps
    <2>2. OtherTypes'
      BY <1>4 DEF RollbackDelete, OtherTypes, nm, clock, bounds, history, Delete
    <2>3. CASE End(p)
      BY <2>2, <2>3, EndFact DEF Static
    <2>4. CASE GoTo(p, "rb_up")
      BY <2>1, <2>2, <2>4, GoToFact DEF Static
    <2>5. QED
      BY <1>4, <2>3, <2>4 DEF RollbackDelete
  <1>5. CASE RollbackUp(p)
    <2>1. "rb_clear" \in Steps
      BY DEF Steps, RollbackSteps
    <2>2. OtherTypes'
      BY <1>5 DEF RollbackUp, OtherTypes, nm, clock, bounds
    <2>3. CASE End(p)
      BY <2>2, <2>3, EndFact DEF Static
    <2>4. CASE GoTo(p, "rb_clear")
      BY <2>1, <2>2, <2>4, GoToFact DEF Static
    <2>5. QED
      BY <1>5, <2>3, <2>4 DEF RollbackUp
  <1>6. CASE RollbackClear(p)
    <2>1. loaded[p] \in Names /\ Resolved(p, loaded[p])
      BY <1>6 DEF ProcessTypes, RollbackClear
    <2>2. OtherTypes'
      BY <1>6, NothingFact DEF RollbackClear, OtherTypes, nm, clock, bounds, history
    <2>3. QED
      BY <2>1, <2>2, ResolvedFact DEF Static
  <1>7. CASE Look(p)
    <2>1. CASE LookDies(p)
      <3>1. OtherTypes'
        BY <1>7, <2>1 DEF Look, LookDies, OtherTypes, nm, bounds
      <3>2. QED
        BY <2>1, <3>1, EndFact DEF LookDies, Static
    <2>2. CASE \E previous \in Previous(p) : \E recorded \in Recorded(p, previous) :
                 LooksAt(p, previous, recorded)
      <3>1. PICK previous \in Previous(p) : \E recorded \in Recorded(p, previous) :
                                      LooksAt(p, previous, recorded)
        BY <2>2
      <3>2. previous \in Connections \cup {"none"}
        <4>1. \A names \in LoadedNames(p) : names.previous \in Connections \cup {"none"}
          BY DEF LoadedNames, NamesInFile, ProcessTypes, OtherTypes, Names, Pending
        <4>2. QED
          BY <3>1, <4>1 DEF Previous, ClientConnected
      <3>3. OtherTypes'
        BY <1>7, <3>1, BoundsAssumption DEF Look, LooksAt, OtherTypes, nm, bounds
      <3>4. trials + 1 \in Timers /\ trials + 1 \in 0..MaxTrials
        BY <3>1, BoundsAssumption DEF LooksAt, OtherTypes, Timers
      <3>5. {"open", "drop", "replace"} \subseteq Steps
        BY DEF Steps, WorkSteps
      <3>6. /\ pc'[p] \in {"open", "drop", "replace"}
            /\ pc'[p] = "replace" => cmd[p] # "reset"
            /\ pc' \in [Processes -> Steps]
        BY <3>1, <3>5 DEF LooksAt, ProcessTypes
      <3>7. /\ mine' \in [Processes -> Trial]
            /\ mine'[p].number = trials + 1 /\ mine'[p].trial = mine[p].trial
        <4>1. mine' = [mine EXCEPT ![p].previous = previous, ![p].number = trials + 1]
          BY <3>1 DEF LooksAt
        <4>2. trials + 1 \in 0..MaxTrials
          BY <3>4
        <4>3. mine \in [Processes -> Trial]
          BY DEF ProcessTypes
        <4>4. QED
          BY <3>2, <4>1, <4>2, <4>3 DEF Trial
      <3>8. /\ loaded' \in [Processes -> Names] /\ cmd' = cmd
            /\ cmd[p] \in {"apply", "reset"}
        <4>1. cmd[p] \in {"apply", "reset"}
          BY <1>7 DEF Look, Static
        <4>2. loaded' = [loaded EXCEPT ![p] = NoNames] /\ cmd' = cmd
          BY <3>1 DEF LooksAt
        <4>3. QED
          BY <4>1, <4>2, NothingFact DEF ProcessTypes
      <3>9. Only(p)
        BY <3>1 DEF LooksAt, ProcessTypes, Only
      <3>10. QED
        BY <1>7, <3>3, <3>4, <3>6, <3>7, <3>8, <3>9 DEF ProcessTypes, Static, Look
    <2>3. QED
      BY <1>7, <2>1, <2>2 DEF Look
  <1>8. CASE Open(p)
    <2>1. "write" \in Steps
      BY DEF Steps, RollbackSteps, WorkSteps
    <2>2. ProcessTypes' /\ Only(p) /\ pc'[p] = "write" /\ cmd'[p] = cmd[p]
           /\ mine'[p] = mine[p] /\ loaded'[p] = loaded[p]
      BY <1>8, <2>1, GoToFact DEF Open
    <2>3. OtherTypes'
      BY <1>8, EntryFact DEF Open, OtherTypes, nm, clock, bounds, history
    <2>4. QED
      BY <1>8, <2>2, <2>3 DEF Static, Open
  <1>9. CASE Write(p)
    <2>1. "arm" \in Steps
      BY DEF Steps, RollbackSteps, WorkSteps
    <2>2. ProcessTypes' /\ Only(p) /\ pc'[p] = "arm" /\ cmd'[p] = cmd[p]
           /\ mine'[p] = mine[p] /\ loaded'[p] = loaded[p]
      BY <1>9, <2>1, GoToFact DEF Write
    <2>3. OtherTypes'
      BY <1>9, EntryFact DEF Write, OtherTypes, nm, clock, bounds, history
    <2>4. QED
      BY <1>9, <2>2, <2>3 DEF Static, Write
  <1>10. CASE Arm(p)
    <2>1. {"replace", "hotspot"} \subseteq Steps
      BY DEF Steps, WorkSteps
    <2>2. mine[p].number \in Timers
      BY <1>10 DEF Arm, Static
    <2>3. OtherTypes'
      BY <1>10, <2>2 DEF Arm, OtherTypes, nm, bounds, history
    <2>4. CASE cmd[p] = "apply" /\ GoTo(p, "replace")
      BY <2>1, <2>3, <2>4, GoToFact DEF Static
    <2>5. CASE GoTo(p, "hotspot")
      BY <2>1, <2>3, <2>5, GoToFact DEF Static
    <2>6. QED
      BY <1>10, <2>4, <2>5 DEF Arm
  <1>11. CASE Drop(p)
    <2>1. "hotspot" \in Steps
      BY DEF Steps, RollbackSteps, WorkSteps
    <2>2. ProcessTypes' /\ Only(p) /\ pc'[p] = "hotspot" /\ cmd'[p] = cmd[p]
           /\ mine'[p] = mine[p] /\ loaded'[p] = loaded[p]
      BY <1>11, <2>1, GoToFact DEF Drop
    <2>3. OtherTypes'
      BY <1>11, NothingFact DEF Drop, OtherTypes, nm, clock, bounds, history
    <2>4. QED
      BY <1>11, <2>2, <2>3 DEF Static, Drop
  <1>12. CASE Hotspot(p)
    <2>1. OtherTypes'
      BY <1>12 DEF Hotspot, OtherTypes, clock, bounds, history
    <2>2. QED
      BY <1>12, <2>1, EndFact DEF Hotspot, Static
  <1>13. CASE Replace(p)
    <2>1. "connect" \in Steps
      BY DEF Steps, RollbackSteps, WorkSteps
    <2>2. ProcessTypes' /\ Only(p) /\ pc'[p] = "connect" /\ cmd'[p] = cmd[p]
           /\ mine'[p] = mine[p] /\ loaded'[p] = loaded[p]
      BY <1>13, <2>1, GoToFact DEF Replace
    <2>3. OtherTypes'
      BY <1>13 DEF Replace, OtherTypes, nm, clock, bounds, history, Delete
    <2>4. QED
      BY <1>13, <2>2, <2>3 DEF Static, Replace
  <1>14. CASE Connect(p)
    <2>1. "ap_down" \in Steps
      BY DEF Steps, WorkSteps
    <2>2. mine[p].trial \in Connections
      BY <1>14 DEF Connect, Static
    <2>3. OtherTypes'
      BY <1>14, <2>2 DEF Connect, OtherTypes, clock, bounds
    <2>4. CASE End(p)
      BY <2>3, <2>4, EndFact DEF Static
    <2>5. CASE GoTo(p, "ap_down")
      BY <1>14, <2>1, <2>3, <2>5, GoToFact DEF Static, Connect
    <2>6. QED
      BY <1>14, <2>4, <2>5 DEF Connect
  <1>15. CASE ApDown(p)
    <2>1. "retire" \in Steps
      BY DEF Steps, RollbackSteps, WorkSteps
    <2>2. ProcessTypes' /\ Only(p) /\ pc'[p] = "retire" /\ cmd'[p] = cmd[p]
           /\ mine'[p] = mine[p] /\ loaded'[p] = loaded[p]
      BY <1>15, <2>1, GoToFact DEF ApDown
    <2>3. OtherTypes'
      BY <1>15 DEF ApDown, OtherTypes, nm, clock, bounds, history, DisconnectAp, ApActive
    <2>4. QED
      BY <1>15, <2>2, <2>3 DEF Static, ApDown
  <1>16. CASE Retire(p)
    <2>1. "commit" \in Steps
      BY DEF Steps, RollbackSteps, WorkSteps
    <2>2. ProcessTypes' /\ Only(p) /\ pc'[p] = "commit" /\ cmd'[p] = cmd[p]
           /\ mine'[p] = mine[p] /\ loaded'[p] = loaded[p]
      BY <1>16, <2>1, GoToFact DEF Retire
    <2>3. OtherTypes'
      BY <1>16 DEF Retire, OtherTypes, nm, clock, bounds, history, Delete
    <2>4. QED
      BY <1>16, <2>2, <2>3 DEF Static, Retire
  <1>17. CASE Commit(p)
    <2>1. mine[p].trial \in Connections
      BY <1>17 DEF Commit, Static
    <2>2. OtherTypes'
      BY <1>17, <2>1, NothingFact DEF Commit, OtherTypes, nm, clock, bounds
    <2>3. QED
      BY <1>17, <2>2, EndFact DEF Commit, Static
  <1>18. QED
    BY <1>1, <1>2, <1>3, <1>4, <1>5, <1>6, <1>7, <1>8, <1>9, <1>10, <1>11, <1>12, <1>13,
       <1>14, <1>15, <1>16, <1>17 DEF Step
-----------------------------------------------------------------------------
(***************************************************************************)
(* A process that works alone: what the other processes rely on.           *)
(***************************************************************************)
LEMMA OthersAtRest ==
  ASSUME NEW p \in Processes, ~Overlap, ~Overlap', Only(p), Critical(p) \/ Critical(p)'
  PROVE  \A q \in Processes \ {p} : Live(q)'
PROOF
  <1>1. \A q \in Processes \ {p} : ~Critical(q)'
    BY DEF Overlap, Critical, Only
  <1>2. QED
    BY <1>1 DEF Live, Critical, WorkSteps

LEMMA OthersAsBefore ==
  ASSUME NEW p \in Processes, Only(p), \A q \in Processes : Live(q),
         saved' = saved, applied' = applied, pending' = pending
  PROVE  \A q \in Processes \ {p} : Live(q)'
PROOF BY DEF Only, Live, Clear

LEMMA StepSafe ==
  ASSUME ProcessTypes, OtherTypes, NEW p \in Processes, Static(p), Safe, Step(p),
         ProcessTypes', OtherTypes', Only(p), ~Overlap'
  PROVE  Safe'
PROOF
  <1> USE DEF Safe
  <1>a. ASSUME Live(p)', Shared',
               \/ Critical(p) \/ Critical(p)'
               \/ saved' = saved /\ applied' = applied /\ pending' = pending
        PROVE  Safe'
    BY <1>a, OthersAtRest, OthersAsBefore
  <1>1. CASE Resolve(p)
    <2>1. saved' = saved /\ applied' = applied /\ pending' = pending
      BY <1>1 DEF Resolve, nm, history
    <2>2. loaded[p] \in Names /\ NamesInFile \in Names
      BY DEF ProcessTypes, OtherTypes, NamesInFile, Names, Pending
    <2>3. pc'[p] \in {"idle", "look", "rb_load", "drop"}
      <3>1. "rb_load" \in Steps
        BY DEF Steps
      <3>2. QED
        BY <1>1, <2>2, <3>1, ResolvedFact, EndFact, GoToFact DEF Resolve
    <2>4. Live(p)' /\ Shared'
      BY <2>1, <2>3 DEF Live, Shared, Clear, RollbackSteps
    <2>5. QED
      BY <1>a, <2>1, <2>4
  <1>2. CASE RollbackLoad(p)
    <2>1. saved' = saved /\ applied' = applied /\ pending' = pending
      BY <1>2 DEF RollbackLoad, nm, history
    <2>2. CASE Resolved(p, loaded[p])
      <3>1. loaded[p] \in Names
        BY DEF ProcessTypes
      <3>2. pc'[p] \in {"idle", "look", "drop"}
        BY <2>2, <3>1, ResolvedFact
      <3>3. Live(p)' /\ Shared'
        BY <2>1, <3>2 DEF Live, Shared, Clear, RollbackSteps
      <3>4. QED
        BY <1>a, <2>1, <3>3
    <2>3. CASE /\ pending.stage # "none"
               /\ pc' = [pc EXCEPT ![p] = "rb_ap"]
               /\ \E names \in LoadedNames(p) : loaded' = [loaded EXCEPT ![p] = names]
      <3>1. PICK names \in LoadedNames(p) : loaded' = [loaded EXCEPT ![p] = names]
        BY <2>3
      <3>2. loaded[p] = NoNames
        BY <1>2 DEF RollbackLoad, Static
      <3>3. Clear(names.trial)
        <4>1. Clear("none")
          BY DEF Clear
        <4>2. QED
          BY <2>3, <3>2, <4>1, NothingFact DEF LoadedNames, NamesInFile, Shared
      <3>4. pc'[p] = "rb_ap" /\ loaded'[p] = names
        BY <2>3, <3>1 DEF ProcessTypes
      <3>5. Live(p)' /\ Shared'
        BY <2>1, <3>3, <3>4 DEF Live, Shared, Clear
      <3>6. QED
        BY <1>a, <2>1, <3>5
    <2>4. QED
      BY <1>2, <2>2, <2>3 DEF RollbackLoad
  <1>3. CASE RollbackAp(p)
    <2>1. "rb_delete" \in Steps
      BY DEF Steps, RollbackSteps, WorkSteps
    <2>2. /\ pc[p] # "idle" /\ pc'[p] = "rb_delete" /\ mine'[p] = mine[p]
          /\ loaded'[p] = loaded[p] /\ Critical(p)
      BY <1>3, <2>1, GoToFact DEF RollbackAp, Critical, RollbackSteps, WorkSteps
    <2>3. Live(p)' /\ Shared'
      BY <1>3, <2>2 DEF RollbackAp, Live, Shared, Clear, RollbackSteps, nm, history, DisconnectAp
    <2>4. QED
      BY <1>a, <2>2, <2>3
  <1>4. CASE RollbackDelete(p)
    <2>1. Critical(p) /\ Clear(loaded[p].trial)
      BY <1>4 DEF RollbackDelete, Critical, RollbackSteps, Live
    <2>2. Shared'
      BY <1>4, <2>1 DEF RollbackDelete, Shared, Clear, Delete, nm, history
    <2>3. CASE End(p)
      BY <1>a, <2>1, <2>2, <2>3, EndFact DEF Live, RollbackSteps
    <2>4. CASE GoTo(p, "rb_up")
      <3>1. "rb_up" \in Steps
        BY DEF Steps, RollbackSteps
      <3>2. pc'[p] = "rb_up" /\ loaded'[p] = loaded[p] /\ applied' = applied
        BY <1>4, <2>4, <3>1, GoToFact DEF RollbackDelete, history
      <3>3. Live(p)'
        BY <2>1, <3>2 DEF Live, Clear
      <3>4. QED
        BY <1>a, <2>1, <2>2, <3>3
    <2>5. QED
      BY <1>4, <2>3, <2>4 DEF RollbackDelete
  <1>5. CASE RollbackUp(p)
    <2>1. Critical(p) /\ Clear(loaded[p].trial)
      BY <1>5 DEF RollbackUp, Critical, RollbackSteps, Live
    <2>2. Shared' /\ applied' = applied
      BY <1>5 DEF RollbackUp, Shared, Clear, nm
    <2>3. CASE End(p)
      BY <1>a, <2>1, <2>2, <2>3, EndFact DEF Live, RollbackSteps
    <2>4. CASE GoTo(p, "rb_clear")
      <3>1. "rb_clear" \in Steps
        BY DEF Steps, RollbackSteps
      <3>2. pc'[p] = "rb_clear" /\ loaded'[p] = loaded[p]
        BY <2>4, <3>1, GoToFact
      <3>3. Live(p)'
        BY <2>1, <2>2, <3>2 DEF Live, Clear
      <3>4. QED
        BY <1>a, <2>1, <2>2, <3>3
    <2>5. QED
      BY <1>5, <2>3, <2>4 DEF RollbackUp
  <1>6. CASE RollbackClear(p)
    <2>1. Critical(p) /\ loaded[p] \in Names /\ Resolved(p, loaded[p])
      BY <1>6 DEF RollbackClear, Critical, RollbackSteps, ProcessTypes
    <2>2. pc'[p] \in {"idle", "look", "drop"}
      BY <2>1, ResolvedFact
    <2>3. Live(p)' /\ Shared'
      BY <1>6, <2>2, NothingFact DEF RollbackClear, Live, Shared, RollbackSteps, nm, history
    <2>4. QED
      BY <1>a, <2>1, <2>3
  <1>7. CASE Look(p)
    <2>1. CASE LookDies(p)
      <3>1. saved' = saved /\ applied' = applied /\ pending' = pending
        BY <1>7, <2>1 DEF Look, LookDies, nm
      <3>2. pc'[p] = "idle"
        BY <2>1, EndFact DEF LookDies
      <3>3. Live(p)' /\ Shared'
        BY <3>1, <3>2 DEF Live, Shared, Clear, RollbackSteps
      <3>4. QED
        BY <1>a, <3>1, <3>3
    <2>2. CASE \E previous \in Previous(p) : \E recorded \in Recorded(p, previous) :
                 LooksAt(p, previous, recorded)
      <3>1. PICK previous \in Previous(p) : \E recorded \in Recorded(p, previous) :
                                      LooksAt(p, previous, recorded)
        BY <2>2
      <3>2. pc'[p] \in {"open", "drop", "replace"} /\ Critical(p)'
        BY <3>1 DEF LooksAt, ProcessTypes, Critical, WorkSteps
      <3>3. mine'[p].trial = mine[p].trial /\ mine'[p].previous = previous
        BY <3>1 DEF LooksAt, ProcessTypes, Trial
      <3>4. /\ applied' = IF applied = mine[p].trial THEN "none" ELSE applied
            /\ saved' = saved /\ pending' = pending
        BY <1>7, <3>1 DEF LooksAt, Look, nm
      <3>5. pc'[p] = "open" /\ cmd'[p] = "apply" /\ pending.stage = "whole"
              => previous = pending.previous
        <4>1. cmd' = cmd
          BY <3>1 DEF LooksAt
        <4>2. QED
          BY <3>1, <4>1 DEF Previous, LoadedNames, NamesInFile
      <3>6. Clear(mine[p].trial)'
        BY <3>3, <3>4 DEF Clear
      <3>7. Live(p)' /\ Shared'
        BY <3>2, <3>3, <3>4, <3>5, <3>6 DEF Live, Shared, Clear, RollbackSteps
      <3>8. QED
        BY <1>a, <3>2, <3>7
    <2>3. QED
      BY <1>7, <2>1, <2>2 DEF Look
  <1>8. CASE Open(p)
    <2>1. "write" \in Steps
      BY DEF Steps, RollbackSteps, WorkSteps
    <2>2. /\ pc[p] # "idle" /\ pc'[p] = "write" /\ mine'[p] = mine[p]
          /\ loaded'[p] = loaded[p] /\ Critical(p)
      BY <1>8, <2>1, GoToFact DEF Open, Critical, RollbackSteps, WorkSteps
    <2>3. Live(p)' /\ Shared'
      BY <1>8, <2>2 DEF Open, Live, Shared, Clear, RollbackSteps, nm, history, Entry
    <2>4. QED
      BY <1>a, <2>2, <2>3
  <1>9. CASE Write(p)
    <2>1. "arm" \in Steps
      BY DEF Steps, RollbackSteps, WorkSteps
    <2>2. /\ pc[p] # "idle" /\ pc'[p] = "arm" /\ mine'[p] = mine[p]
          /\ loaded'[p] = loaded[p] /\ Critical(p)
      BY <1>9, <2>1, GoToFact DEF Write, Critical, RollbackSteps, WorkSteps
    <2>3. Live(p)' /\ Shared'
      BY <1>9, <2>2 DEF Write, Live, Shared, Clear, RollbackSteps, nm, history, Entry
    <2>4. QED
      BY <1>a, <2>2, <2>3
  <1>10. CASE Arm(p)
    <2>1. Critical(p) /\ Clear(mine[p].trial)
      BY <1>10 DEF Arm, Critical, WorkSteps, Live
    <2>2. {"replace", "hotspot"} \subseteq Steps
      BY DEF Steps, WorkSteps
    <2>3. pc'[p] \in {"replace", "hotspot"} /\ mine'[p] = mine[p]
      BY <1>10, <2>2, GoToFact DEF Arm
    <2>4. Live(p)' /\ Shared'
      BY <1>10, <2>1, <2>3 DEF Arm, Live, Shared, Clear, RollbackSteps, nm, history
    <2>5. QED
      BY <1>a, <2>1, <2>4
  <1>11. CASE Drop(p)
    <2>1. "hotspot" \in Steps
      BY DEF Steps, RollbackSteps, WorkSteps
    <2>2. /\ pc[p] # "idle" /\ pc'[p] = "hotspot" /\ mine'[p] = mine[p]
          /\ loaded'[p] = loaded[p] /\ Critical(p)
      BY <1>11, <2>1, GoToFact DEF Drop, Critical, RollbackSteps, WorkSteps
    <2>3. Live(p)' /\ Shared'
      BY <1>11, <2>2, NothingFact DEF Drop, Live, Shared, Clear, RollbackSteps, nm, history
    <2>4. QED
      BY <1>a, <2>2, <2>3
  <1>12. CASE Hotspot(p)
    <2>1. Critical(p) /\ pc'[p] = "idle"
      BY <1>12, EndFact DEF Hotspot, Critical, WorkSteps
    <2>2. Live(p)' /\ Shared'
      BY <1>12, <2>1 DEF Hotspot, Live, Shared, Clear, RollbackSteps, history
    <2>3. QED
      BY <1>a, <2>1, <2>2
  <1>13. CASE Replace(p)
    <2>1. "connect" \in Steps
      BY DEF Steps, RollbackSteps, WorkSteps
    <2>2. /\ pc[p] # "idle" /\ pc'[p] = "connect" /\ mine'[p] = mine[p]
          /\ loaded'[p] = loaded[p] /\ Critical(p)
      BY <1>13, <2>1, GoToFact DEF Replace, Critical, RollbackSteps, WorkSteps
    <2>3. Live(p)' /\ Shared'
      BY <1>13, <2>2 DEF Replace, Live, Shared, Clear, RollbackSteps, nm, history, Delete
    <2>4. QED
      BY <1>a, <2>2, <2>3
  <1>14. CASE Connect(p)
    <2>1. Critical(p) /\ Clear(mine[p].trial)
      BY <1>14 DEF Connect, Critical, WorkSteps, Live
    <2>2. CASE /\ saved' = saved \cup {mine[p].trial} /\ applied' = "none"
               /\ GoTo(p, "ap_down")
      <3>1. "ap_down" \in Steps
        BY DEF Steps, WorkSteps
      <3>2. pc'[p] = "ap_down" /\ mine'[p] = mine[p]
        BY <2>2, <3>1, GoToFact
      <3>3. Live(p)' /\ Shared'
        BY <2>2, <3>2 DEF Live, Shared, Clear, RollbackSteps
      <3>4. QED
        BY <1>a, <2>1, <3>3
    <2>3. CASE saved' \in {saved, saved \ {mine[p].trial}} /\ applied' = applied /\ End(p)
      <3>1. pc'[p] = "idle"
        BY <2>3, EndFact
      <3>2. Live(p)' /\ Shared'
        BY <1>14, <2>1, <2>3, <3>1 DEF Connect, Live, Shared, Clear, RollbackSteps
      <3>3. QED
        BY <1>a, <2>1, <3>2
    <2>4. QED
      BY <1>14, <2>2, <2>3 DEF Connect
  <1>15. CASE ApDown(p)
    <2>1. "retire" \in Steps
      BY DEF Steps, RollbackSteps, WorkSteps
    <2>2. /\ pc[p] # "idle" /\ pc'[p] = "retire" /\ mine'[p] = mine[p]
          /\ loaded'[p] = loaded[p] /\ Critical(p)
      BY <1>15, <2>1, GoToFact DEF ApDown, Critical, RollbackSteps, WorkSteps
    <2>3. Live(p)' /\ Shared'
      BY <1>15, <2>2 DEF ApDown, Live, Shared, Clear, RollbackSteps, nm, history, DisconnectAp
    <2>4. QED
      BY <1>a, <2>2, <2>3
  <1>16. CASE Retire(p)
    <2>1. "commit" \in Steps
      BY DEF Steps, RollbackSteps, WorkSteps
    <2>2. /\ pc[p] # "idle" /\ pc'[p] = "commit" /\ mine'[p] = mine[p]
          /\ loaded'[p] = loaded[p] /\ Critical(p)
      BY <1>16, <2>1, GoToFact DEF Retire, Critical, RollbackSteps, WorkSteps
    <2>3. Live(p)' /\ Shared'
      BY <1>16, <2>2 DEF Retire, Live, Shared, Clear, RollbackSteps, nm, history, Delete
    <2>4. QED
      BY <1>a, <2>2, <2>3
  <1>17. CASE Commit(p)
    <2>1. Critical(p) /\ pc'[p] = "idle" /\ mine[p].trial \in saved
      BY <1>17, EndFact DEF Commit, Critical, WorkSteps, Live
    <2>2. Live(p)' /\ Shared'
      BY <1>17, <2>1, NothingFact DEF Commit, Live, Shared, RollbackSteps, nm
    <2>3. QED
      BY <1>a, <2>1, <2>2
  <1>18. QED
    BY <1>1, <1>2, <1>3, <1>4, <1>5, <1>6, <1>7, <1>8, <1>9, <1>10, <1>11, <1>12, <1>13,
       <1>14, <1>15, <1>16, <1>17 DEF Step

-----------------------------------------------------------------------------
LEMMA InitIInv == Init => IInv
PROOF
  <1> SUFFICES ASSUME Init
               PROVE  IInv
    OBVIOUS
  <1>1. ProcessTypes
    BY NothingFact DEF Init, ProcessTypes, Steps
  <1>2. OtherTypes
    <2>1. /\ saved \subseteq Connections /\ active \in saved \cup {"ap", "none"}
          /\ pending \in Pending /\ asleep \subseteq Timers
          /\ applied \in Connections \cup {"none"}
      BY NothingFact DEF Init
    <2>2. /\ trials \in 0..MaxTrials /\ expired \in 0..trials
          /\ calls \in 0..MaxCalls /\ stops \in 0..MaxStops
      BY BoundsAssumption DEF Init
    <2>3. upFailed \in BOOLEAN
      BY DEF Init
    <2>4. QED
      BY <2>1, <2>2, <2>3 DEF OtherTypes
  <1>3. \A p \in Processes : Static(p)
    BY DEF Init, Static
  <1>4. Safe
    BY NothingFact
       DEF Init, Safe, Overlap, Critical, Shared, Live, Clear, RollbackSteps, WorkSteps
  <1>5. QED
    BY <1>1, <1>2, <1>3, <1>4, TypesFact DEF IInv, Init

\* What the other processes' variables say of each other stays.
LEMMA OthersStatic ==
  ASSUME NEW p \in Processes, Only(p), \A q \in Processes : Static(q), Static(p)'
  PROVE  \A q \in Processes : Static(q)'
PROOF
  <1>1. \A q \in Processes \ {p} : Static(q)'
    BY DEF Only, Static
  <1>2. QED
    BY <1>1

\* A process that starts leaves everything it shares alone.
LEMMA StartSafe ==
  ASSUME Safe, NEW p \in Processes, Only(p), ~Overlap', pc'[p] \in {"resolve", "rb_load"},
         saved' = saved, applied' = applied, pending' = pending
  PROVE  Safe'
PROOF
  <1>1. Live(p)' /\ Shared'
    BY DEF Safe, Live, Shared, Clear, RollbackSteps
  <1>2. QED
    BY <1>1, OthersAsBefore DEF Safe

LEMMA NextIInv == IInv /\ [Next]_vars => IInv'
PROOF
  <1> SUFFICES ASSUME IInv, [Next]_vars
               PROVE  IInv'
    OBVIOUS
  <1>0. ProcessTypes /\ OtherTypes /\ raced \in BOOLEAN /\ \A p \in Processes : Static(p)
    BY TypesFact DEF IInv
  <1>1. CASE UNCHANGED vars
    <2>1. ProcessTypes' /\ OtherTypes' /\ raced' = raced
      BY <1>0, <1>1 DEF ProcessTypes, OtherTypes, vars, nm, clock, bounds, process, history
    <2>2. \A p \in Processes : Static(p)'
      BY <1>0, <1>1 DEF Static, vars, process
    <2>3. Safe => Safe'
      BY <1>1 DEF Safe, Overlap, Critical, Shared, Live, Clear, vars, nm, process, history
    <2>4. QED
      BY <1>0, <2>1, <2>2, <2>3, TypesFact DEF IInv
  <1>2. CASE Next
    <2> USE <1>0
    <2>1. ~raced /\ Safe /\ raced' = Overlap' /\ raced' \in BOOLEAN
      BY <1>2 DEF Next, IInv, Overlap
    <2>2. SUFFICES /\ ProcessTypes' /\ OtherTypes' /\ \A p \in Processes : Static(p)'
                   /\ ~Overlap' => Safe'
      BY <2>1, TypesFact DEF IInv
    <2>3. ASSUME NEW p \in Processes, Step(p)
          PROVE  /\ ProcessTypes' /\ OtherTypes' /\ \A q \in Processes : Static(q)'
                 /\ ~Overlap' => Safe'
      <3>1. ProcessTypes' /\ OtherTypes' /\ Only(p) /\ Static(p)'
        BY <2>3, StepTypes
      <3>2. QED
        BY <2>1, <2>3, <3>1, OthersStatic, StepSafe
    <2>4. ASSUME NEW c \in Callers, NEW command \in Commands[c], NEW n \in Networks,
                 Begin(c, command, n)
          PROVE  /\ ProcessTypes' /\ OtherTypes' /\ \A q \in Processes : Static(q)'
                 /\ ~Overlap' => Safe'
      <3>1. c \in Processes /\ command \in HelperCommands /\ "resolve" \in Steps
        BY CommandsAssumption DEF Processes, Steps
      <3>2. /\ pc' \in [Processes -> Steps] /\ pc'[c] = "resolve" /\ pc[c] = "idle"
            /\ cmd' \in [Processes -> HelperCommands \cup {"none", "rollback"}]
            /\ cmd'[c] = command /\ loaded' = loaded
        BY <2>4, <3>1 DEF Begin, ProcessTypes
      <3>3. /\ mine' \in [Processes -> Trial]
            /\ command = "apply" => mine'[c].trial \in Connections
        BY <2>4, <3>1, NamesAssumption DEF Begin, TrialName, ProcessTypes, Trial
      <3>4. Only(c)
        BY <2>4, <3>1 DEF Begin, ProcessTypes, Only
      <3>5. OtherTypes'
        BY <2>4, BoundsAssumption DEF Begin, OtherTypes, nm, clock, history
      <3>6. Static(c)'
        BY <3>1, <3>2, <3>3 DEF Static
      <3>7. saved' = saved /\ applied' = applied /\ pending' = pending
        BY <2>4 DEF Begin, nm, history
      <3>8. ~Overlap' => Safe'
        BY <2>1, <3>1, <3>2, <3>4, <3>7, StartSafe
      <3>9. QED
        BY <3>1, <3>2, <3>3, <3>4, <3>5, <3>6, <3>8, OthersStatic DEF ProcessTypes
    <2>5. ASSUME NEW k \in Timers, Fire(k)
          PROVE  /\ ProcessTypes' /\ OtherTypes' /\ \A q \in Processes : Static(q)'
                 /\ ~Overlap' => Safe'
      <3>1. k \in Processes /\ "rb_load" \in Steps
        BY DEF Processes, Steps
      <3>2. /\ pc' \in [Processes -> Steps] /\ pc'[k] = "rb_load" /\ pc[k] = "idle"
            /\ cmd' \in [Processes -> HelperCommands \cup {"none", "rollback"}]
            /\ cmd'[k] = "rollback" /\ mine' = mine /\ loaded' = loaded
        BY <2>5, <3>1 DEF Fire, ProcessTypes
      <3>3. Only(k)
        BY <2>5, <3>1 DEF Fire, ProcessTypes, Only
      <3>4. OtherTypes'
        BY <2>5 DEF Fire, OtherTypes, nm, bounds, history
      <3>5. Static(k)'
        BY <3>1, <3>2 DEF Static
      <3>6. saved' = saved /\ applied' = applied /\ pending' = pending
        BY <2>5 DEF Fire, nm, history
      <3>7. ~Overlap' => Safe'
        BY <2>1, <3>1, <3>2, <3>3, <3>6, StartSafe
      <3>8. QED
        BY <3>1, <3>2, <3>3, <3>4, <3>5, <3>7, OthersStatic DEF ProcessTypes
    <2>6. CASE Expire \/ Autoconnect \/ Outage
      <3>1. UNCHANGED process /\ saved' = saved /\ applied' = applied /\ pending' = pending
        BY <2>6 DEF Expire, Autoconnect, Outage, nm, history
      <3>2. OtherTypes'
        BY <2>6, <3>1, BoundsAssumption
           DEF Expire, Autoconnect, Outage, OtherTypes, nm, clock, bounds, history
      <3>3. ProcessTypes' /\ \A q \in Processes : Static(q)'
        BY <3>1 DEF ProcessTypes, Static, process
      <3>4. Safe'
        BY <2>1, <3>1 DEF Safe, Overlap, Critical, Shared, Live, Clear, process
      <3>5. QED
        BY <3>2, <3>3, <3>4
    <2>7. ASSUME NEW reboot \in BOOLEAN, Stop(reboot)
          PROVE  /\ ProcessTypes' /\ OtherTypes' /\ \A q \in Processes : Static(q)'
                 /\ ~Overlap' => Safe'
      <3>1. ProcessTypes'
        BY <2>7, NothingFact DEF Stop, ProcessTypes, Steps
      <3>2. /\ pending' \in Pending
            /\ pending'.stage = pending.stage /\ pending'.trial = pending.trial
        BY <2>7 DEF Stop, OtherTypes, Pending
      <3>3. OtherTypes'
        BY <2>7, <3>2, BoundsAssumption DEF Stop, OtherTypes, history
      <3>4. \A q \in Processes : Static(q)'
        BY <2>7 DEF Stop, Static
      <3>5. Safe'
        BY <2>1, <2>7, <3>2
           DEF Stop, Safe, Overlap, Critical, Shared, Live, Clear, RollbackSteps, WorkSteps,
               history
      <3>6. QED
        BY <3>1, <3>3, <3>4, <3>5
    <2>8. QED
      BY <1>2, <2>3, <2>4, <2>5, <2>6, <2>7 DEF Next
  <1>3. QED
    BY <1>1, <1>2

LEMMA Invariance == Spec => []IInv
PROOF BY InitIInv, NextIInv, PTL DEF Spec

-----------------------------------------------------------------------------
(***************************************************************************)
(* TypeOK holds in every reachable state of the helper's processes, and    *)
(* the active connection is one that is still there.                       *)
(***************************************************************************)
THEOREM TypeCorrect == Spec => []TypeOK
PROOF
  <1>1. IInv => TypeOK
    BY DEF IInv
  <1>2. QED
    BY Invariance, <1>1, PTL

(***************************************************************************)
(* AppliedStays: what apply_client_cmd answered is not undone by any shell *)
(* still asleep, later command, stop or reboot, because clear_pending has  *)
(* removed the one file that names it (line 329 of the script).            *)
(***************************************************************************)
THEOREM AppliedSafety == Spec => []AppliedStays
PROOF
  <1>1. IInv => AppliedStays
    BY DEF IInv, Safe, Shared, AppliedStays, TypeOK
  <1>2. QED
    BY Invariance, <1>1, PTL

(***************************************************************************)
(* LastNetworkKept: no trial and no rollback takes away the last working   *)
(* connection but the trial's own; retiring the connection before comes    *)
(* after the new one is up (line 327 of the script).                       *)
(***************************************************************************)
THEOREM LastNetworkSafety == Spec => LastNetworkKept
PROOF
  <1> DEFINE Excuse == \E p \in Processes :
                         \/ pc[p] \in {"replace", "connect"} /\ saved = {mine[p].trial}
                         \/ pc[p] = "rb_delete" /\ saved = {loaded[p].trial}
  <1>1. ASSUME IInv, Next, saved # {}, saved' = {}
        PROVE  Excuse
    <2>0. Safe /\ TypeOK
      BY <1>1 DEF IInv, Next
    <2>1. saved' # saved
      BY <1>1
    <2>2. ~\E c \in Callers : \E command \in Commands[c], n \in Networks : Begin(c, command, n)
      BY <2>1 DEF Begin, nm
    <2>3. ~(\E k \in Timers : Fire(k)) /\ ~Expire /\ ~Autoconnect /\ ~Outage
          /\ ~\E reboot \in BOOLEAN : Stop(reboot)
      BY <2>1 DEF Fire, Expire, Autoconnect, Outage, Stop, nm
    <2>4. PICK p \in Processes : Step(p)
      BY <1>1, <2>2, <2>3 DEF Next
    <2>5. ~(Resolve(p) \/ RollbackLoad(p) \/ RollbackAp(p) \/ RollbackUp(p)
             \/ RollbackClear(p) \/ Look(p) \/ Open(p) \/ Write(p) \/ Arm(p)
             \/ Drop(p) \/ Hotspot(p) \/ ApDown(p) \/ Commit(p))
      BY <2>1 DEF Resolve, RollbackLoad, RollbackAp, RollbackUp, RollbackClear, Look, Open,
                  Write, Arm, Drop, Hotspot, ApDown, Commit, DisconnectAp, nm
    <2>6. CASE RollbackDelete(p)
      BY <1>1, <2>1, <2>6 DEF RollbackDelete, Delete, nm
    <2>7. CASE Replace(p) \/ Connect(p)
      BY <1>1, <2>1, <2>7 DEF Replace, Connect, Delete, nm
    <2>8. CASE Retire(p)
      <3>1. mine[p].trial \in saved
        BY <2>0, <2>8 DEF Retire, Safe, Live
      <3>2. QED
        BY <1>1, <2>1, <2>8, <3>1 DEF Retire, Delete, nm
    <2>9. QED
      BY <2>4, <2>5, <2>6, <2>7, <2>8 DEF Step
  <1>2. IInv /\ [Next]_vars => [saved # {} /\ saved' = {} => raced' \/ Excuse]_vars
    BY <1>1
  <1>3. QED
    BY Invariance, <1>2, PTL DEF Spec, LastNetworkKept

(***************************************************************************)
(* PriorRemembered: apply-client writes down again what the pending trial  *)
(* goes back to, because it reads the file first (lines 303 and 304 of the *)
(* script), and nothing it runs beside has rewritten the file meanwhile.   *)
(***************************************************************************)
THEOREM PriorSafety == Spec => PriorRemembered
PROOF
  <1> DEFINE Premise == pending.stage = "whole" /\ pending'.stage = "opened"
             Same == pending'.previous = pending.previous
             Reset == \E p \in Processes : pc[p] = "open" /\ cmd[p] = "reset"
  <1>1. ASSUME IInv, Next, Premise
        PROVE  Same \/ Reset
    <2>0. Safe /\ TypeOK
      BY <1>1 DEF IInv, Next
    <2>1. pending' # pending
      BY <1>1
    <2>2. ~\E c \in Callers : \E command \in Commands[c], n \in Networks : Begin(c, command, n)
      BY <2>1 DEF Begin
    <2>3. ~(\E k \in Timers : Fire(k)) /\ ~Expire /\ ~Autoconnect /\ ~Outage
      BY <2>1 DEF Fire, Expire, Autoconnect, Outage
    <2>4. ~\E reboot \in BOOLEAN : Stop(reboot)
      <3>1. ASSUME NEW reboot \in BOOLEAN, Stop(reboot)
            PROVE  pending'.stage = pending.stage
        BY <2>0, <3>1 DEF Stop, TypeOK, Pending
      <3>2. QED
        BY <1>1, <3>1
    <2>5. PICK p \in Processes : Step(p)
      BY <1>1, <2>2, <2>3, <2>4 DEF Next
    <2>6. ~(Resolve(p) \/ RollbackLoad(p) \/ RollbackAp(p) \/ RollbackDelete(p)
             \/ RollbackUp(p) \/ Look(p) \/ Arm(p) \/ Hotspot(p) \/ Replace(p)
             \/ Connect(p) \/ ApDown(p) \/ Retire(p))
      BY <2>1 DEF Resolve, RollbackLoad, RollbackAp, RollbackDelete, RollbackUp, Look, Arm,
                  Hotspot, Replace, Connect, ApDown, Retire
    <2>7. ~(RollbackClear(p) \/ Drop(p) \/ Commit(p) \/ Write(p))
      BY <1>1, NothingFact DEF RollbackClear, Drop, Commit, Write, Entry
    <2>8. Open(p) /\ pc[p] = "open"
      BY <2>5, <2>6, <2>7 DEF Step, Open
    <2>9. cmd[p] \in {"apply", "reset"}
      BY <1>1, <2>8 DEF IInv, Static
    <2>10. CASE cmd[p] = "apply"
      <3>1. mine[p].previous = pending.previous
        BY <1>1, <2>0, <2>8, <2>10 DEF Safe, Live
      <3>2. QED
        BY <2>8, <3>1 DEF Open, Entry
    <2>11. QED
      BY <2>8, <2>9, <2>10
  <1>2. IInv /\ [Next]_vars => [Premise => Same \/ raced' \/ Reset]_vars
    BY <1>1
  <1>3. QED
    BY Invariance, <1>2, PTL DEF Spec, PriorRemembered

-----------------------------------------------------------------------------
(***************************************************************************)
(* No trial is left without a watch.  The argument counts the background   *)
(* shells: a number is handed out once, so that the shell a trial asks for *)
(* is not at work on an earlier one, and a rollback that finds a file with *)
(* four lines has the names it needs to go through.                        *)
(***************************************************************************)
Fresh(k) == pc[k] = "idle" /\ k \notin asleep

Entering == {"open", "write", "arm"}
RollingBack == {"rb_load"} \cup RollbackSteps

Numbered ==
  /\ \A k \in Timers : k > trials => Fresh(k)
  /\ \A k \in asleep : pc[k] = "idle"
  /\ \A p \in Processes : pc[p] \in Entering => mine[p].number <= trials /\ Fresh(mine[p].number)
  /\ \A p \in Processes :
       pc[p] \in {"rb_ap", "rb_delete"} /\ pending.stage = "whole" => loaded[p].set

\* Somebody is about to end the trial in the file, or to see to it.
Watched ==
  \/ pending.stage = "none"
  \/ pending.stage = "opened"
       /\ \E p \in Processes : pc[p] = "write" /\ mine[p].number = pending.number
  \/ pending.stage = "whole"
       /\ \/ /\ pending.number \in asleep /\ pending.number <= trials
             /\ pc[pending.number] = "idle"
          \/ \E p \in Processes : pc[p] = "arm" /\ mine[p].number = pending.number
          \/ \E p \in Processes : pc[p] \in RollingBack

\* Until two processes overlap, a rollback has failed to bring its connection up or a
\* stop has come, a trial in the file has somebody who will end it: the shell that
\* write_pending's caller leaves behind, its writer, or a rollback at work.
TrialWatched == raced \/ upFailed \/ stops > 0 \/ Watched

WInv == IInv /\ (~raced => Numbered) /\ TrialWatched

\* What a step of a process does to the file, the shells and the numbers.
Effect(p) ==
  /\ pc[p] # "idle"
  /\ pc[p] = "write" => Write(p)
  /\ pc[p] = "arm" => Arm(p)
  /\ \/ /\ pc[p] = "look" /\ trials' = trials + 1 /\ asleep' = asleep
        /\ mine'[p].number = trials'
     \/ trials' = trials /\ asleep' = asleep /\ pc'[p] \notin Entering
     \/ /\ pc[p] \in {"open", "write"} /\ mine'[p].number = mine[p].number
        /\ trials' = trials /\ asleep' = asleep
     \/ Arm(p) /\ trials' = trials /\ pc'[p] \notin Entering
  /\ pending' = pending \/ pending'.stage = "none" \/ Open(p) \/ Write(p)
  /\ pc'[p] \in {"rb_ap", "rb_delete"} =>
       /\ pending' = pending
       /\ \/ pending.stage = "whole" => loaded'[p].set
          \/ pc[p] = "rb_ap" /\ loaded'[p] = loaded[p]
  /\ pc[p] \in RollingBack /\ pending'.stage = "whole" =>
       \/ pc'[p] \in RollingBack
       \/ upFailed'
       \/ pc[p] = "rb_delete" /\ ~loaded[p].set

LEMMA StepNames ==
  /\ Steps = {"idle", "resolve", "rb_load", "look", "rb_ap", "rb_delete", "rb_up", "rb_clear",
              "drop", "open", "write", "arm", "hotspot", "replace", "connect", "ap_down",
              "retire", "commit"}
  /\ RollingBack = {"rb_load", "rb_ap", "rb_delete", "rb_up", "rb_clear"}
PROOF BY DEF Steps, RollingBack, RollbackSteps, WorkSteps

LEMMA StepEffect ==
  ASSUME ProcessTypes, OtherTypes, NEW p \in Processes, Static(p), Step(p)
  PROVE  Effect(p)
PROOF
  <1> USE StepNames DEF Entering
  <1>1. CASE Resolve(p)
    <2>1. loaded[p] \in Names /\ NamesInFile \in Names
      BY DEF ProcessTypes, OtherTypes, NamesInFile, Names, Pending
    <2>2. pc'[p] \in {"idle", "look", "rb_load", "drop"}
      BY <1>1, <2>1, ResolvedFact, EndFact, GoToFact DEF Resolve
    <2>3. QED
      BY <1>1, <2>2 DEF Resolve, Effect, clock
  <1>2. CASE RollbackLoad(p)
    <2>1. loaded[p] \in Names
      BY DEF ProcessTypes
    <2>2. CASE pending.stage = "none" /\ Resolved(p, loaded[p])
      <3>1. pc'[p] \in {"idle", "look", "drop"}
        BY <2>1, <2>2, ResolvedFact
      <3>2. QED
        BY <1>2, <2>2, <3>1 DEF RollbackLoad, Effect, clock
    <2>3. CASE /\ pending.stage # "none"
               /\ pc' = [pc EXCEPT ![p] = "rb_ap"]
               /\ \E names \in LoadedNames(p) : loaded' = [loaded EXCEPT ![p] = names]
      <3>1. PICK names \in LoadedNames(p) : loaded' = [loaded EXCEPT ![p] = names]
        BY <2>3
      <3>2. pc'[p] = "rb_ap" /\ loaded'[p] = names
        BY <2>3, <3>1 DEF ProcessTypes
      <3>3. pending.stage = "whole" => names.set
        BY <3>1 DEF LoadedNames, NamesInFile
      <3>4. QED
        BY <1>2, <3>2, <3>3 DEF RollbackLoad, Effect, clock
    <2>4. QED
      BY <1>2, <2>2, <2>3 DEF RollbackLoad
  <1>3. CASE RollbackAp(p)
    <2>1. pc'[p] = "rb_delete" /\ loaded'[p] = loaded[p]
      BY <1>3, GoToFact DEF RollbackAp
    <2>2. QED
      BY <1>3, <2>1 DEF RollbackAp, Effect, clock
  <1>4. CASE RollbackDelete(p)
    <2>1. CASE ~loaded[p].set /\ End(p)
      <3>1. pc'[p] = "idle"
        BY <2>1, EndFact
      <3>2. QED
        BY <1>4, <2>1, <3>1 DEF RollbackDelete, Effect, clock
    <2>2. CASE GoTo(p, "rb_up")
      <3>1. pc'[p] = "rb_up"
        BY <2>2, GoToFact
      <3>2. QED
        BY <1>4, <3>1 DEF RollbackDelete, Effect, clock
    <2>3. QED
      BY <1>4, <2>1, <2>2 DEF RollbackDelete
  <1>5. CASE RollbackUp(p)
    <2>1. CASE upFailed' /\ End(p)
      <3>1. pc'[p] = "idle"
        BY <2>1, EndFact
      <3>2. QED
        BY <1>5, <2>1, <3>1 DEF RollbackUp, Effect, clock
    <2>2. CASE GoTo(p, "rb_clear")
      <3>1. pc'[p] = "rb_clear"
        BY <2>2, GoToFact
      <3>2. QED
        BY <1>5, <3>1 DEF RollbackUp, Effect, clock
    <2>3. QED
      BY <1>5, <2>1, <2>2 DEF RollbackUp
  <1>6. CASE RollbackClear(p)
    <2>1. loaded[p] \in Names /\ Resolved(p, loaded[p])
      BY <1>6 DEF RollbackClear, ProcessTypes
    <2>2. pc'[p] \in {"idle", "look", "drop"}
      BY <2>1, ResolvedFact
    <2>3. QED
      BY <1>6, <2>2, NothingFact DEF RollbackClear, Effect, clock
  <1>7. CASE Look(p)
    <2>1. CASE LookDies(p)
      <3>1. pc'[p] = "idle"
        BY <2>1, EndFact DEF LookDies
      <3>2. QED
        BY <1>7, <2>1, <3>1 DEF Look, LookDies, Effect
    <2>2. CASE \E previous \in Previous(p) : \E recorded \in Recorded(p, previous) :
                 LooksAt(p, previous, recorded)
      <3>1. PICK previous \in Previous(p) : \E recorded \in Recorded(p, previous) :
                                      LooksAt(p, previous, recorded)
        BY <2>2
      <3>2. /\ pc'[p] \in {"open", "drop", "replace"}
            /\ mine'[p].number = trials + 1 /\ trials' = trials + 1
        BY <3>1 DEF LooksAt, ProcessTypes, Trial
      <3>3. QED
        BY <1>7, <3>2 DEF Look, Effect
    <2>3. QED
      BY <1>7, <2>1, <2>2 DEF Look
  <1>8. CASE Open(p)
    <2>1. pc'[p] = "write" /\ mine'[p] = mine[p]
      BY <1>8, GoToFact DEF Open
    <2>2. QED
      BY <1>8, <2>1 DEF Open, Effect, clock
  <1>9. CASE Write(p)
    <2>1. pc'[p] = "arm" /\ mine'[p] = mine[p] /\ trials' = trials /\ asleep' = asleep
          /\ pc[p] = "write"
      BY <1>9, GoToFact DEF Write, clock
    <2>2. QED
      BY <1>9, <2>1 DEF Effect
  <1>10. CASE Arm(p)
    <2>1. pc'[p] \in {"replace", "hotspot"} /\ trials' = trials /\ pending' = pending
          /\ pc[p] = "arm"
      BY <1>10, GoToFact DEF Arm
    <2>2. QED
      BY <1>10, <2>1 DEF Effect
  <1>11. CASE Drop(p) \/ Replace(p) \/ ApDown(p) \/ Retire(p)
    <2>1. pc'[p] \in {"hotspot", "connect", "retire", "commit"}
      BY <1>11, GoToFact DEF Drop, Replace, ApDown, Retire
    <2>2. QED
      BY <1>11, <2>1, NothingFact DEF Drop, Replace, ApDown, Retire, Effect, clock
  <1>12. CASE Hotspot(p) \/ Commit(p)
    <2>1. pc'[p] = "idle"
      BY <1>12, EndFact DEF Hotspot, Commit
    <2>2. QED
      BY <1>12, <2>1, NothingFact DEF Hotspot, Commit, Effect, clock
  <1>13. CASE Connect(p)
    <2>1. pc'[p] \in {"idle", "ap_down"}
      BY <1>13, EndFact, GoToFact DEF Connect
    <2>2. QED
      BY <1>13, <2>1 DEF Connect, Effect, clock
  <1>14. QED
    BY <1>1, <1>2, <1>3, <1>4, <1>5, <1>6, <1>7, <1>8, <1>9, <1>10, <1>11, <1>12, <1>13
       DEF Step

LEMMA TimersFact ==
  ASSUME OtherTypes
  PROVE  /\ trials \in Nat /\ asleep \subseteq Timers /\ pending.number \in Nat
         /\ Timers \subseteq Nat /\ Timers \subseteq Processes
PROOF BY BoundsAssumption DEF OtherTypes, Timers, Processes, Pending

LEMMA StepNumbered ==
  ASSUME ProcessTypes, OtherTypes, OtherTypes', NEW p \in Processes, Static(p)', Effect(p), Only(p),
         \A q \in Processes : Static(q), ~Overlap, Numbered
  PROVE  Numbered'
PROOF
  <1>0. /\ \A k \in Timers : pc[k] = "idle" => pc'[k] = "idle"
        /\ trials \in Nat /\ Timers \subseteq Nat /\ asleep \subseteq Timers
        /\ asleep' \subseteq Timers
    BY TimersFact DEF Effect, Only, OtherTypes
  <1>1. asleep' \subseteq asleep \cup (IF pc[p] = "arm" THEN {mine[p].number} ELSE {})
    BY DEF Effect, Arm
  <1>2. trials' = trials \/ trials' = trials + 1
    BY DEF Effect
  <1>3. pc[p] = "arm" => mine[p].number <= trials /\ Fresh(mine[p].number)
                         /\ mine[p].number \in Timers
    BY DEF Numbered, Entering, Static
  <1>4. \A k \in Timers : k > trials' => Fresh(k)'
    <2>1. SUFFICES ASSUME NEW k \in Timers, k > trials'
                   PROVE  Fresh(k)'
      OBVIOUS
    <2>2. k > trials
      BY <1>0, <1>2, <2>1
    <2>3. Fresh(k) /\ (pc[p] = "arm" => k # mine[p].number)
      BY <1>0, <1>3, <2>2 DEF Numbered
    <2>4. QED
      BY <1>0, <1>1, <2>3 DEF Fresh
  <1>5. \A k \in asleep' : pc'[k] = "idle"
    BY <1>0, <1>1, <1>3 DEF Numbered, Fresh
  <1>6. ASSUME NEW q \in Processes, pc'[q] \in Entering
        PROVE  (mine[q].number <= trials /\ Fresh(mine[q].number))'
    <2>1. CASE q # p
      <3>1. pc[q] \in Entering /\ mine'[q] = mine[q]
        BY <1>6, <2>1 DEF Only
      <3>2. mine[q].number \in Timers /\ mine[q].number <= trials /\ Fresh(mine[q].number)
        BY <3>1 DEF Numbered, Static, Entering
      <3>3. pc[p] # "arm"
        BY <2>1, <3>1 DEF Overlap, Critical, Entering, WorkSteps
      <3>4. mine[q].number <= trials'
        <4>1. \A n \in Nat : n <= trials => n <= trials'
          BY <1>0, <1>2
        <4>2. QED
          BY <1>0, <3>2, <4>1
      <3>5. pc'[mine[q].number] = "idle" /\ mine[q].number \notin asleep'
        BY <1>0, <1>1, <3>2, <3>3 DEF Fresh
      <3>6. QED
        BY <3>1, <3>4, <3>5 DEF Fresh
    <2>2. CASE q = p
      <3>1. mine'[p].number \in Timers
        BY <1>6, <2>2 DEF Static, Entering
      <3>2. CASE pc[p] = "look" /\ trials' = trials + 1 /\ asleep' = asleep
                   /\ mine'[p].number = trials'
        <4>1. Fresh(trials + 1)
          BY <1>0, <3>1, <3>2 DEF Numbered
        <4>2. QED
          BY <1>0, <2>2, <3>1, <3>2, <4>1 DEF Fresh
      <3>3. CASE pc[p] \in {"open", "write"} /\ mine'[p].number = mine[p].number
                   /\ trials' = trials /\ asleep' = asleep
        <4>1. mine[p].number <= trials /\ Fresh(mine[p].number)
          BY <3>3 DEF Numbered, Entering
        <4>2. QED
          BY <1>0, <2>2, <3>1, <3>3, <4>1 DEF Fresh
      <3>4. QED
        BY <1>6, <2>2, <3>2, <3>3 DEF Effect
    <2>3. QED
      BY <2>1, <2>2
  <1>7. ASSUME NEW q \in Processes, pc'[q] \in {"rb_ap", "rb_delete"}, pending'.stage = "whole"
        PROVE  loaded'[q].set
    <2>1. CASE q # p
      <3>1. pc[q] \in {"rb_ap", "rb_delete"} /\ loaded'[q] = loaded[q]
        BY <1>7, <2>1 DEF Only
      <3>2. ~Critical(p)
        BY <2>1, <3>1 DEF Overlap, Critical, RollbackSteps
      <3>3. pending' = pending
        BY <1>7, <3>2 DEF Effect, Open, Write, Critical, WorkSteps
      <3>4. QED
        BY <1>7, <3>1, <3>3 DEF Numbered
    <2>2. CASE q = p
      BY <1>7, <2>2 DEF Effect, Numbered
    <2>3. QED
      BY <2>1, <2>2
  <1>8. QED
    BY <1>4, <1>5, <1>6, <1>7 DEF Numbered

LEMMA StepWatched ==
  ASSUME ProcessTypes, OtherTypes, NEW p \in Processes, Effect(p), Only(p),
         \A q \in Processes : Static(q), Numbered, Numbered', ~upFailed', Watched
  PROVE  Watched'
PROOF
  <1>1. CASE pending'.stage = "none"
    BY <1>1 DEF Watched
  <1>2. CASE Open(p)
    <2>1. /\ pending'.stage = "opened" /\ pending'.number = mine[p].number
          /\ pc'[p] = "write" /\ mine'[p] = mine[p]
      BY <1>2, GoToFact, StepNames DEF Open, Entry
    <2>2. QED
      BY <2>1 DEF Watched
  <1>3. CASE Write(p)
    <2>1. /\ pending'.stage = "whole" /\ pending'.number = mine[p].number
          /\ pc'[p] = "arm" /\ mine'[p] = mine[p]
      BY <1>3, GoToFact, StepNames DEF Write, Entry
    <2>2. QED
      BY <2>1 DEF Watched
  <1>4. CASE pending' = pending /\ ~Write(p) /\ pending.stage # "none"
    <2>1. CASE pending.stage = "opened"
      <3>1. PICK q \in Processes : pc[q] = "write" /\ mine[q].number = pending.number
        BY <2>1 DEF Watched
      <3>2. q # p
        BY <1>4, <3>1 DEF Effect
      <3>3. pc'[q] = "write" /\ mine'[q] = mine[q]
        BY <3>1, <3>2 DEF Only
      <3>4. QED
        BY <1>4, <2>1, <3>1, <3>3 DEF Watched
    <2>2. CASE pending.stage = "whole" /\ pending.number \in asleep
      <3>1. pending.number <= trials
        BY <2>2, TimersFact DEF Numbered, Fresh
      <3>2. asleep \subseteq asleep' /\ trials <= trials'
        BY TimersFact DEF Effect, Arm
      <3>3. pending.number \in asleep' /\ pending.number <= trials'
        BY <2>2, <3>1, <3>2, TimersFact DEF Effect
      <3>4. pc'[pending.number] = "idle"
        BY <3>3 DEF Numbered
      <3>5. QED
        BY <1>4, <2>2, <3>3, <3>4 DEF Watched
    <2>3. ASSUME pending.stage = "whole",
                 NEW q \in Processes, pc[q] = "arm", mine[q].number = pending.number
          PROVE  Watched'
      <3>1. CASE q # p
        <4>1. pc'[q] = "arm" /\ mine'[q] = mine[q]
          BY <2>3, <3>1 DEF Only
        <4>2. QED
          BY <1>4, <2>3, <4>1 DEF Watched
      <3>2. CASE q = p
        <4>1. Arm(p) /\ pending.number <= trials
          BY <2>3, <3>2 DEF Effect, Numbered, Entering
        <4>2. pending.number \in asleep' /\ trials' = trials
          BY <2>3, <3>2, <4>1 DEF Arm
        <4>3. pc'[pending.number] = "idle"
          BY <4>2 DEF Numbered
        <4>4. QED
          BY <1>4, <2>3, <4>1, <4>2, <4>3 DEF Watched
      <3>3. QED
        BY <3>1, <3>2
    <2>4. ASSUME pending.stage = "whole", NEW q \in Processes, pc[q] \in RollingBack
          PROVE  Watched'
      <3>1. CASE q # p
        BY <1>4, <2>4, <3>1 DEF Watched, Only
      <3>2. CASE q = p
        <4>1. pc[p] = "rb_delete" => loaded[p].set
          BY <2>4 DEF Numbered
        <4>2. pc'[p] \in RollingBack
          BY <1>4, <2>4, <3>2, <4>1 DEF Effect
        <4>3. QED
          BY <1>4, <2>4, <4>2 DEF Watched
      <3>3. QED
        BY <3>1, <3>2
    <2>5. QED
      BY <1>4, <2>1, <2>2, <2>3, <2>4 DEF Watched
  <1>5. QED
    BY <1>1, <1>2, <1>3, <1>4 DEF Effect

LEMMA InitWInv == Init => WInv
PROOF
  <1> SUFFICES ASSUME Init
               PROVE  WInv
    OBVIOUS
  <1>1. Timers \subseteq Processes
    BY DEF Processes
  <1>2. Numbered
    BY <1>1 DEF Init, Numbered, Fresh, Entering
  <1>3. Watched
    BY NothingFact DEF Init, Watched
  <1>4. QED
    BY <1>2, <1>3, InitIInv DEF WInv, TrialWatched

LEMMA NextWInv == WInv /\ [Next]_vars => WInv'
PROOF
  <1> SUFFICES ASSUME WInv, [Next]_vars
               PROVE  WInv'
    OBVIOUS
  <1>1. IInv /\ IInv'
    BY NextIInv DEF WInv
  <1>2. /\ ProcessTypes /\ OtherTypes /\ \A p \in Processes : Static(p)
        /\ ProcessTypes' /\ OtherTypes' /\ \A p \in Processes : Static(p)'
    BY <1>1, TypesFact DEF IInv
  <1>3. CASE UNCHANGED vars
    BY <1>1, <1>3 DEF WInv, TrialWatched, Numbered, Fresh, Watched, vars, nm, clock, bounds,
                      process, history
  <1>4. CASE Next /\ ~raced'
    <2>1. ~raced /\ ~Overlap /\ Numbered /\ ~Overlap'
      BY <1>1, <1>4 DEF Next, IInv, Safe, WInv
    <2>2. SUFFICES Numbered' /\ (Watched /\ ~upFailed' /\ ~(stops' > 0) => Watched')
                   /\ (upFailed => upFailed') /\ (stops > 0 => stops' > 0)
      BY <1>1, <1>4, <2>1 DEF WInv, TrialWatched
    <2>3. /\ \A k \in Timers : k \in Nat /\ k \in Processes
          /\ asleep \subseteq Timers /\ trials \in Nat
      BY <1>2, TimersFact
    <2>4. ASSUME NEW p \in Processes, Step(p)
          PROVE  /\ Numbered' /\ (Watched /\ ~upFailed' => Watched')
                 /\ (upFailed => upFailed') /\ stops' = stops
      <3>1. Only(p) /\ Effect(p)
        BY <1>2, <2>4, StepTypes, StepEffect
      <3>2. Numbered'
        BY <1>2, <2>1, <3>1, StepNumbered
      <3>3. Watched /\ ~upFailed' => Watched'
        BY <1>2, <2>1, <3>1, <3>2, StepWatched
      <3>4. (upFailed => upFailed') /\ stops' = stops
        BY <2>4 DEF Step, Resolve, RollbackLoad, RollbackAp, RollbackDelete, RollbackUp,
           RollbackClear, Look, Open, Write, Arm, Drop, Hotspot, Replace, Connect, ApDown,
           Retire, Commit, history, bounds
      <3>5. QED
        BY <3>2, <3>3, <3>4
    <2>5. ASSUME NEW c \in Callers, NEW command \in Commands[c], NEW n \in Networks,
                 Begin(c, command, n)
          PROVE  /\ Numbered' /\ (Watched => Watched') /\ upFailed' = upFailed /\ stops' = stops
      <3>1. c \in Processes /\ c \notin Timers /\ pc[c] = "idle" /\ pc'[c] = "resolve"
        BY <1>2, <2>5, CallersAssumption DEF Begin, ProcessTypes, Processes
      <3>2. \A q \in Processes \ {c} : pc'[q] = pc[q] /\ mine'[q] = mine[q] /\ loaded'[q] = loaded[q]
        BY <1>2, <2>5, <3>1 DEF Begin, ProcessTypes
      <3>3. /\ trials' = trials /\ asleep' = asleep /\ pending' = pending
            /\ upFailed' = upFailed /\ stops' = stops
        BY <2>5 DEF Begin, clock, history
      <3>4. \A k \in Timers : pc'[k] = pc[k]
        BY <2>3, <3>1, <3>2
      <3>5. Numbered'
        <4>1. \A q \in Processes : pc'[q] \in Entering => mine[q].number \in Timers
          BY <1>2, <3>1, <3>2 DEF Static, Entering
        <4>2. QED
          BY <2>1, <2>3, <3>1, <3>2, <3>3, <3>4, <4>1 DEF Numbered, Fresh, Entering
      <3>6. Watched => Watched'
        BY <2>3, <3>1, <3>2, <3>3, <3>4, StepNames DEF Watched
      <3>7. QED
        BY <3>3, <3>5, <3>6
    <2>6. ASSUME NEW k \in Timers, Fire(k)
          PROVE  /\ Numbered' /\ (Watched => Watched') /\ upFailed' = upFailed /\ stops' = stops
      <3>1. k \in Processes /\ k \in asleep /\ pc[k] = "idle" /\ pc'[k] = "rb_load"
        BY <1>2, <2>3, <2>6 DEF Fire, ProcessTypes
      <3>2. \A q \in Processes \ {k} : pc'[q] = pc[q] /\ mine'[q] = mine[q] /\ loaded'[q] = loaded[q]
        BY <1>2, <2>6, <3>1 DEF Fire, ProcessTypes
      <3>3. /\ trials' = trials /\ asleep' = asleep \ {k} /\ pending' = pending
            /\ upFailed' = upFailed /\ stops' = stops
        BY <2>6 DEF Fire, bounds, history
      <3>4. Numbered'
        <4>1. \A q \in Processes : pc'[q] \in Entering => mine[q].number \in Timers
          BY <1>2, <3>1, <3>2 DEF Static, Entering
        <4>2. QED
          BY <2>1, <2>3, <3>1, <3>2, <3>3, <4>1 DEF Numbered, Fresh, Entering
      <3>5. Watched => Watched'
        BY <2>3, <3>1, <3>2, <3>3, StepNames DEF Watched
      <3>6. QED
        BY <3>3, <3>4, <3>5
    <2>7. CASE Expire \/ Autoconnect \/ Outage
      <3>1. /\ UNCHANGED process /\ trials' = trials /\ asleep' = asleep
            /\ pending' = pending /\ upFailed' = upFailed /\ stops' = stops
        BY <2>7 DEF Expire, Autoconnect, Outage, clock, bounds, history
      <3>2. QED
        BY <2>1, <3>1 DEF Numbered, Fresh, Watched, process
    <2>8. ASSUME NEW reboot \in BOOLEAN, Stop(reboot)
          PROVE  Numbered' /\ stops' > 0 /\ upFailed' = upFailed
      <3>1. \A q \in Processes : pc'[q] = "idle"
        BY <2>8 DEF Stop
      <3>2. asleep' = {} /\ stops' > 0 /\ upFailed' = upFailed
        BY <1>2, <2>8, BoundsAssumption DEF Stop, OtherTypes, history
      <3>3. QED
        BY <2>3, <3>1, <3>2 DEF Numbered, Fresh, Entering
    <2>9. QED
      BY <1>4, <2>4, <2>5, <2>6, <2>7, <2>8 DEF Next
  <1>5. CASE Next /\ raced'
    BY <1>1, <1>5 DEF WInv, TrialWatched
  <1>6. QED
    BY <1>3, <1>4, <1>5

(***************************************************************************)
(* TrialWatched: as long as no two processes were at work at once, no      *)
(* rollback failed and nothing was stopped, a file of a pending trial is   *)
(* never left to itself: a process is about to write or arm it, a shell    *)
(* with its deadline sleeps and is free to wake, or a rollback that will   *)
(* go through is under way (arm_rollback_timer, rollback_pending).  What   *)
(* DueTrialEnds adds to it is that the one who watches takes its steps.    *)
(***************************************************************************)
THEOREM WatchSafety == Spec => []TrialWatched
PROOF
  <1>1. WInv => TrialWatched
    BY DEF WInv
  <1>2. QED
    BY InitWInv, NextWInv, <1>1, PTL DEF Spec

-----------------------------------------------------------------------------
(***************************************************************************)
(* WifiTurns.  The links of WifiCommands, first: what has the fields of a  *)
(* member of Cut is one, and what resolve_pending_trial leaves is no trial *)
(* that is over.                                                           *)
(***************************************************************************)
Fine(links) ==
  /\ links \in Links
  /\ links.active = "client" => links.saved
  /\ links.trial = "none" => ~links.due

Same(links, other) ==
  /\ links.saved = other.saved /\ links.active = other.active
  /\ links.trial = other.trial /\ links.due = other.due

LEMMA SameFact ==
  ASSUME NEW links \in Links, NEW other \in Links, Same(links, other)
  PROVE  links = other
PROOF BY DEF Links, Same

LEMMA ForgetFact ==
  ASSUME NEW links \in Links
  PROVE  /\ Forget(links) \in Links
         /\ Forget(links).saved = links.saved /\ Forget(links).active = links.active
         /\ Forget(links).trial = "none" /\ Forget(links).due = FALSE
PROOF BY DEF Forget, Links

LEMMA TrialFact ==
  ASSUME NEW links \in Links, NEW left \in {"none", "client", "nothing"}
  PROVE  /\ [links EXCEPT !.trial = left] \in Links
         /\ [links EXCEPT !.trial = left].saved = links.saved
         /\ [links EXCEPT !.trial = left].active = links.active
         /\ [links EXCEPT !.trial = left].trial = left
         /\ [links EXCEPT !.trial = left].due = links.due
PROOF BY DEF Links

LEMMA OnNetworkFact ==
  /\ OnNetwork \in Links
  /\ OnNetwork.saved = TRUE /\ OnNetwork.active = "client"
  /\ OnNetwork.trial = "none" /\ OnNetwork.due = FALSE
PROOF BY DEF OnNetwork, Links

Within(cut, links) ==
  /\ cut.saved \in {links.saved, FALSE} /\ cut.active \in {links.active, "none"}
  /\ cut.trial = links.trial /\ cut.due = links.due
  /\ cut.active = "client" => cut.saved

LEMMA CutFact ==
  ASSUME NEW links \in Links, NEW cut
  PROVE  cut \in Cut(links) <=> cut \in Links /\ Within(cut, links)
PROOF
  <1>1. ASSUME cut \in Cut(links)
        PROVE  cut \in Links /\ Within(cut, links)
    BY <1>1 DEF Cut, Links, Within
  <1>2. ASSUME cut \in Links, Within(cut, links)
        PROVE  cut \in Cut(links)
    BY <1>2 DEF Cut, Links, Within
  <1>3. QED
    BY <1>1, <1>2

LEMMA SettledFact ==
  ASSUME NEW links, Fine(links), NEW settled \in Settled(links)
  PROVE  Fine(settled) /\ settled.due = FALSE
PROOF
  <1>1. CASE ~links.due
    BY <1>1 DEF Settled, Fine, Links
  <1>2. CASE links.due /\ settled = OnNetwork
    BY <1>2, OnNetworkFact DEF Fine
  <1>3. CASE links.due /\ settled \in Cut(Forget(links))
    <2>1. settled \in Links /\ Within(settled, Forget(links))
      BY <1>3, ForgetFact, CutFact DEF Fine
    <2>2. QED
      BY <2>1, ForgetFact DEF Fine, Within
  <1>4. links.trial \in {"client", "nothing"} \/ ~links.due
    BY DEF Fine, Links
  <1>5. QED
    BY <1>1, <1>2, <1>3, <1>4 DEF Settled, RolledBack

LEMMA BackFact ==
  ASSUME NEW settled \in Links
  PROVE  Back(settled) \subseteq {"none", "client", "nothing"}
PROOF BY DEF Back, Links

(***************************************************************************)
(* The connections, now and after a step.                                  *)
(***************************************************************************)
NowIs(links) ==
  /\ links.saved = (saved # {})
  /\ links.active = IF active \in Connections THEN "client" ELSE active
  /\ links.trial = IF pending.stage # "whole" THEN "none"
                   ELSE IF pending.previous # "none" THEN "client" ELSE "nothing"
  /\ links.due = (pending.stage = "whole" /\ Due)

LEMMA NowFact ==
  ASSUME OtherTypes
  PROVE  Fine(Now) /\ NowIs(Now)
PROOF
  <1>1. NowIs(Now)
    BY DEF Now, NowIs, ClientConnected
  <1>2. active \in Connections \cup {"ap", "none"} /\ (active \in Connections => saved # {})
    BY NamesAssumption DEF OtherTypes
  <1>3. Now \in Links
    BY <1>2 DEF Now, Links, ClientConnected
  <1>4. QED
    BY <1>1, <1>2, <1>3, NamesAssumption DEF Fine, NowIs

LEMMA NowNextFact ==
  ASSUME OtherTypes'
  PROVE  Fine(Now') /\ NowIs(Now)'
PROOF
  <1>1. NowIs(Now)'
    BY DEF Now, NowIs, ClientConnected
  <1>2. active' \in Connections \cup {"ap", "none"} /\ (active' \in Connections => saved' # {})
    BY NamesAssumption DEF OtherTypes
  <1>3. Now' \in Links
    BY <1>2 DEF Now, Links, ClientConnected
  <1>4. QED
    BY <1>1, <1>2, <1>3, NamesAssumption DEF Fine, NowIs

LEMMA NowKept ==
  ASSUME UNCHANGED <<nm, pending, expired>>
  PROVE  Now' = Now
PROOF BY DEF Now, ClientConnected, Due, nm

(***************************************************************************)
(* Turn: what process p, which nothing has disturbed since its command     *)
(* began on the links b, has made of them so far.                          *)
(***************************************************************************)
\* What the trial of a command goes back to, and what it may.
Kept(p) == IF mine[p].previous # "none" THEN "client" ELSE "nothing"
Goals(command, settled) == IF command = "reset" THEN {"client", "nothing"} ELSE Back(settled)

Resolving(p, b) ==
  /\ pc[p] \in {"resolve", "rb_load"} => Now = b
  /\ pc[p] = "resolve" => cmd[p] \in HelperCommands
  /\ pc[p] = "rb_load" => pending.stage # "opened"
  /\ pc[p] \in RollingBack => cmd[p] = "rollback" \/ b.due
  /\ pc[p] \in {"rb_ap", "rb_delete", "rb_up"} =>
       Now \in Cut(b) /\ pending.stage = "whole" /\ loaded[p] = NamesInFile
  /\ pc[p] = "rb_clear" => Forget(Now) \in RolledBack(b)

EntryOf(p, settled) ==
  /\ cmd[p] = "apply" \/ (cmd[p] = "reset" /\ settled.active = "client")
  /\ Kept(p) \in Goals(cmd[p], settled)
  /\ pc[p] = "open" => Now = settled
  /\ pc[p] = "write" => Now = Forget(settled)
  /\ pc[p] = "arm" => Now = [Forget(settled) EXCEPT !.trial = Kept(p)]

HotspotOf(p, settled) ==
  \/ cmd[p] = "reset" /\ Now \in ResetTrials(settled)
  \/ cmd[p] = "start_ap" /\ Now = Forget(settled)

Working(p, b) ==
  /\ pc[p] \in {"look", "drop"} => Now \in Settled(b)
  /\ pc[p] = "look" => pending.stage # "opened"
  /\ pc[p] = "drop" => cmd[p] \in {"start_ap", "reset"}
  /\ pc[p] \in Entering => mine[p].number > expired /\ \E settled \in Settled(b) : EntryOf(p, settled)
  /\ pc[p] = "hotspot" => \E settled \in Settled(b) : HotspotOf(p, settled)
  /\ pc[p] \in {"replace", "connect"} =>
       \E settled \in Settled(b) : Now \in LeftPending(settled)
  /\ pc[p] \in {"ap_down", "retire", "commit"} => active = mine[p].trial /\ Settled(b) # {}

Turn(p, b) == Fine(b) /\ Resolving(p, b) /\ Working(p, b)

\* The command ends with an effect that WifiCommands has.
Fits(p, b) ==
  Now' \in IF DiesEarly(p) THEN Undone(cmd[p], b) ELSE Done(cmd[p], b)

GoesOrFits(p, b) ==
  /\ pc'[p] = "idle" => Fits(p, b)
  /\ pc'[p] # "idle" => Turn(p, b)'

\* What resolve_pending_trial goes on to.
LEMMA ResolvedTurn ==
  ASSUME ProcessTypes, NEW p \in Processes, NEW b, Fine(b), NEW names \in Names,
         Resolved(p, names), ~DiesEarly(p), pending'.stage # "opened",
         cmd[p] # "rollback" => Now' \in Settled(b),
         cmd[p] = "rollback" => Now' \in RolledBack(b)
  PROVE  GoesOrFits(p, b)
PROOF
  <1>1. CASE cmd[p] \in {"status", "rollback"} /\ End(p)
    <2>1. pc'[p] = "idle"
      BY <1>1, EndFact
    <2>2. Now' \in Done(cmd[p], b)
      BY <1>1 DEF Done
    <2>3. QED
      BY <2>1, <2>2 DEF GoesOrFits, Fits
  <1>2. CASE /\ cmd[p] \in {"start_ap", "apply", "reset"}
             /\ pc'[p] = IF cmd[p] = "start_ap" THEN "drop" ELSE "look"
             /\ cmd' = cmd
    <2>1. Resolving(p, b)'
      BY <1>2, StepNames DEF Resolving
    <2>2. Working(p, b)'
      BY <1>2, StepNames DEF Working, Entering
    <2>3. QED
      BY <1>2, <2>1, <2>2 DEF GoesOrFits, Turn, Fine
  <1>3. QED
    BY <1>1, <1>2 DEF Resolved, ProcessTypes

\* What a step inside a rollback or before the connection leaves of the links.
LEMMA CutStep ==
  ASSUME OtherTypes, OtherTypes', NEW links \in Links, Now \in Cut(links),
         UNCHANGED <<pending, expired>>,
         saved' \subseteq saved, active' \in {active, "none"}
  PROVE  Now' \in Cut(links)
PROOF
  <1>1. Fine(Now) /\ NowIs(Now) /\ Fine(Now') /\ NowIs(Now)'
    BY NowFact, NowNextFact
  <1>2. Within(Now, links)
    BY CutFact
  <1>3. Now'.saved \in {Now.saved, FALSE}
    BY <1>1 DEF NowIs
  <1>4. Now'.active \in {Now.active, "none"}
    BY <1>1, NamesAssumption DEF NowIs
  <1>5. Now'.trial = Now.trial /\ Now'.due = Now.due
    BY <1>1 DEF NowIs, Due
  <1>6. Now'.active = "client" => Now'.saved
    BY <1>1 DEF Fine
  <1>7. Within(Now', links)
    BY <1>2, <1>3, <1>4, <1>5, <1>6 DEF Within
  <1>8. QED
    BY <1>1, <1>7, CutFact DEF Fine

\* Turn and its parts, where only the step of p matters.
LEMMA ResolvingTurn ==
  ASSUME NEW p, NEW b, Fine(b), pc'[p] \in {"resolve"} \cup RollingBack, Resolving(p, b)'
  PROVE  GoesOrFits(p, b)
PROOF
  <1>1. pc'[p] # "idle" /\ pc'[p] \in {"resolve", "rb_load", "rb_ap", "rb_delete", "rb_up", "rb_clear"}
    BY StepNames
  <1>2. Working(p, b)'
    BY <1>1 DEF Working, Entering
  <1>3. QED
    BY <1>1, <1>2 DEF GoesOrFits, Turn, Fine

LEMMA WorkingTurn ==
  ASSUME NEW p, NEW b, Fine(b), pc'[p] \in WorkSteps \cup {"look"}, Working(p, b)'
  PROVE  GoesOrFits(p, b)
PROOF
  <1>1. pc'[p] \notin {"idle", "resolve", "rb_load", "rb_ap", "rb_delete", "rb_up", "rb_clear"}
    BY DEF WorkSteps
  <1>2. Resolving(p, b)'
    BY <1>1, StepNames DEF Resolving
  <1>3. QED
    BY <1>1, <1>2 DEF GoesOrFits, Turn, Fine

LEMMA ResolveTurn ==
  ASSUME ProcessTypes, OtherTypes, OtherTypes', NEW p \in Processes, NEW b, Turn(p, b), Resolve(p)
  PROVE  GoesOrFits(p, b)
PROOF
  <1>1. /\ pc[p] = "resolve" /\ cmd[p] \in HelperCommands /\ cmd[p] # "rollback"
        /\ Fine(b) /\ Now = b /\ NowIs(b)
    BY NowFact DEF Resolve, Turn, Resolving, HelperCommands
  <1>2. Now' = b /\ UNCHANGED <<pending, expired>>
    BY <1>1, NowKept DEF Resolve, clock
  <1>3. loaded[p] \in Names /\ NamesInFile \in Names
    BY DEF ProcessTypes, OtherTypes, NamesInFile, Names, Pending
  <1>4. CASE pending.stage # "opened" /\ (Resolved(p, loaded[p]) \/ Resolved(p, NamesInFile)) /\ ~b.due
    <2>1. Now' \in Settled(b) /\ ~DiesEarly(p)
      BY <1>1, <1>2, <1>4 DEF Settled, DiesEarly
    <2>2. QED
      BY <1>1, <1>2, <1>3, <1>4, <2>1, ResolvedTurn
  <1>5. CASE pending.stage = "opened" /\ End(p)
    <2>1. pc'[p] = "idle"
      BY <1>5, EndFact
    <2>2. QED
      BY <1>1, <1>2, <1>5, <2>1 DEF GoesOrFits, Fits, DiesEarly, Undone, Failed
  <1>6. CASE pending.stage = "whole" /\ Due /\ GoTo(p, "rb_load")
    <2>1. pc'[p] = "rb_load" /\ cmd'[p] = cmd[p] /\ b.due
      BY <1>1, <1>6, StepNames, GoToFact DEF NowIs
    <2>2. Resolving(p, b)'
      BY <1>2, <1>6, <2>1, StepNames DEF Resolving
    <2>3. QED
      BY <1>1, <2>1, <2>2, StepNames, ResolvingTurn
  <1>7. QED
    BY <1>1, <1>4, <1>5, <1>6 DEF Resolve, NowIs

LEMMA RollbackLoadTurn ==
  ASSUME ProcessTypes, OtherTypes, OtherTypes', NEW p \in Processes, NEW b, Turn(p, b), RollbackLoad(p)
  PROVE  GoesOrFits(p, b)
PROOF
  <1>1. /\ pc[p] = "rb_load" /\ (cmd[p] = "rollback" \/ b.due) /\ pending.stage # "opened"
        /\ Fine(b) /\ Now = b /\ NowIs(b)
    BY NowFact, StepNames DEF RollbackLoad, Turn, Resolving
  <1>2. Now' = b /\ UNCHANGED <<pending, expired>>
    BY <1>1, NowKept DEF RollbackLoad, clock
  <1>3. CASE pending.stage = "none" /\ Resolved(p, loaded[p])
    <2>1. cmd[p] = "rollback" /\ b.trial = "none" /\ Now' \in RolledBack(b)
      BY <1>1, <1>2, <1>3 DEF NowIs, RolledBack
    <2>2. ~DiesEarly(p) /\ loaded[p] \in Names
      BY <1>1 DEF DiesEarly, ProcessTypes
    <2>3. QED
      BY <1>1, <1>2, <1>3, <2>1, <2>2, ResolvedTurn
  <1>4. CASE /\ pending.stage = "whole"
             /\ pc' = [pc EXCEPT ![p] = "rb_ap"]
             /\ \E names \in LoadedNames(p) : loaded' = [loaded EXCEPT ![p] = names]
             /\ UNCHANGED <<cmd, mine>>
    <2>1. pc'[p] = "rb_ap" /\ cmd'[p] = cmd[p] /\ loaded'[p] = NamesInFile
      BY <1>4 DEF ProcessTypes, LoadedNames
    <2>2. NamesInFile' = NamesInFile
      BY <1>2 DEF NamesInFile
    <2>3. b \in Cut(b)
      BY <1>1, CutFact DEF Fine, Within
    <2>4. Resolving(p, b)'
      BY <1>1, <1>2, <1>4, <2>1, <2>2, <2>3, StepNames DEF Resolving
    <2>5. QED
      BY <1>1, <2>1, <2>4, StepNames, ResolvingTurn
  <1>5. pending.stage \in {"none", "whole"}
    BY <1>1 DEF OtherTypes, Pending
  <1>6. QED
    BY <1>3, <1>4, <1>5 DEF RollbackLoad

\* A step of the rollback that leaves less of the connections, and the trial.
LEMMA RollbackCut ==
  ASSUME OtherTypes, OtherTypes', NEW p \in Processes, NEW b, Turn(p, b),
         pc[p] \in {"rb_ap", "rb_delete", "rb_up"}, pc'[p] \in {"rb_delete", "rb_up"},
         cmd'[p] = cmd[p], loaded'[p] = loaded[p], UNCHANGED <<pending, expired>>,
         saved' \subseteq saved, active' \in {active, "none"}
  PROVE  GoesOrFits(p, b)
PROOF
  <1>1. /\ Fine(b) /\ Now \in Cut(b) /\ pending.stage = "whole" /\ loaded[p] = NamesInFile
        /\ cmd[p] = "rollback" \/ b.due
    BY StepNames DEF Turn, Resolving
  <1>2. Now' \in Cut(b)
    BY <1>1, CutStep DEF Fine
  <1>3. loaded'[p] = NamesInFile'
    BY <1>1 DEF NamesInFile
  <1>4. Resolving(p, b)'
    BY <1>1, <1>2, <1>3, StepNames DEF Resolving
  <1>5. QED
    BY <1>1, <1>4, StepNames, ResolvingTurn

LEMMA RollbackApTurn ==
  ASSUME ProcessTypes, OtherTypes, OtherTypes', NEW p \in Processes, NEW b, Turn(p, b), RollbackAp(p)
  PROVE  GoesOrFits(p, b)
PROOF
  <1>1. pc'[p] = "rb_delete" /\ cmd'[p] = cmd[p] /\ loaded'[p] = loaded[p]
    BY StepNames, GoToFact DEF RollbackAp
  <1>2. /\ pc[p] = "rb_ap" /\ UNCHANGED <<pending, expired>>
        /\ saved' \subseteq saved /\ active' \in {active, "none"}
    BY DEF RollbackAp, DisconnectAp, ApActive, clock
  <1>3. QED
    BY <1>1, <1>2, RollbackCut

LEMMA DeleteFact ==
  ASSUME NEW n, Delete(n)
  PROVE  saved' \subseteq saved /\ active' \in {active, "none"}
PROOF BY DEF Delete, nm

LEMMA RollbackDeleteTurn ==
  ASSUME ProcessTypes, OtherTypes, OtherTypes', NEW p \in Processes, NEW b, Turn(p, b), RollbackDelete(p)
  PROVE  GoesOrFits(p, b)
PROOF
  <1>1. pc[p] = "rb_delete" /\ loaded[p].set
    BY StepNames DEF RollbackDelete, Turn, Resolving, NamesInFile
  <1>2. pc'[p] = "rb_up" /\ cmd'[p] = cmd[p] /\ loaded'[p] = loaded[p]
    BY <1>1, StepNames, GoToFact DEF RollbackDelete
  <1>3. /\ UNCHANGED <<pending, expired>>
        /\ saved' \subseteq saved /\ active' \in {active, "none"}
    BY <1>1, DeleteFact DEF RollbackDelete, clock, nm
  <1>4. QED
    BY <1>1, <1>2, <1>3, RollbackCut

LEMMA RollbackUpTurn ==
  ASSUME ProcessTypes, OtherTypes, OtherTypes', NEW p \in Processes, NEW b, Turn(p, b), RollbackUp(p)
  PROVE  GoesOrFits(p, b)
PROOF
  <1> DEFINE previous == loaded[p].previous
  <1>1. /\ pc[p] = "rb_up" /\ UNCHANGED <<pending, expired>>
        /\ Fine(b) /\ Now \in Cut(b) /\ pending.stage = "whole" /\ previous = pending.previous
        /\ cmd[p] = "rollback" \/ b.due
    BY StepNames DEF RollbackUp, clock, Turn, Resolving, NamesInFile
  <1>2. Fine(Now) /\ NowIs(Now) /\ Fine(Now') /\ NowIs(Now)' /\ Within(Now, b)
    BY <1>1, NowFact, NowNextFact, CutFact DEF Fine
  <1>3. b.trial = IF previous # "none" THEN "client" ELSE "nothing"
    BY <1>1, <1>2 DEF NowIs, Within
  <1>4. ASSUME GoTo(p, "rb_clear"), Forget(Now') \in RolledBack(b)
        PROVE  GoesOrFits(p, b)
    <2>1. pc'[p] = "rb_clear" /\ cmd'[p] = cmd[p]
      BY <1>4, StepNames, GoToFact
    <2>2. Forget(Now)' = Forget(Now')
      BY DEF Forget
    <2>3. Resolving(p, b)'
      BY <1>1, <1>4, <2>1, <2>2, StepNames DEF Resolving, RolledBack
    <2>4. QED
      BY <1>1, <2>1, <2>3, StepNames, ResolvingTurn
  <1>5. CASE previous = "none" /\ GoTo(p, "rb_clear") /\ UNCHANGED nm
    <2>1. Now' = Now
      BY <1>1, <1>5, NowKept
    <2>2. Forget(Now) \in Cut(Forget(b))
      <3>1. Within(Forget(Now), Forget(b))
        BY <1>1, <1>2, ForgetFact DEF Within, Fine
      <3>2. QED
        BY <1>1, <1>2, <3>1, ForgetFact, CutFact DEF Fine
    <2>3. QED
      BY <1>3, <1>4, <1>5, <2>1, <2>2 DEF RolledBack
  <1>6. CASE previous \in saved /\ active' = previous /\ GoTo(p, "rb_clear") /\ saved' = saved
    <2>1. previous \in Connections /\ previous # "none" /\ saved # {}
      BY <1>6, NamesAssumption DEF OtherTypes
    <2>2. Now'.saved = TRUE /\ Now'.active = "client" /\ Now.saved = TRUE
      BY <1>2, <1>6, <2>1 DEF NowIs
    <2>3. Forget(Now') = OnNetwork
      <3>1. /\ Forget(Now') \in Links
            /\ Forget(Now').saved = Now'.saved /\ Forget(Now').active = Now'.active
            /\ Forget(Now').trial = "none" /\ Forget(Now').due = FALSE
        BY <1>2, ForgetFact DEF Fine
      <3>2. Same(Forget(Now'), OnNetwork)
        BY <2>2, <3>1, OnNetworkFact DEF Same
      <3>3. QED
        BY <3>1, <3>2, OnNetworkFact, SameFact
    <2>4. b.saved /\ b.trial = "client"
      BY <1>2, <1>3, <2>1, <2>2 DEF Within
    <2>5. QED
      BY <1>4, <1>6, <2>3, <2>4 DEF RolledBack
  <1>7. CASE previous # "none" /\ active' \in {active, "none"} /\ saved' = saved /\ End(p)
    <2>1. pc'[p] = "idle"
      BY <1>7, EndFact
    <2>2. Now' \in Cut(b)
      BY <1>1, <1>7, CutStep DEF Fine
    <2>3. Now' \in Stuck(b) /\ Now' \in Undone(cmd[p], b)
      BY <1>1, <1>3, <1>7, <2>2 DEF Stuck, Undone, Failed
    <2>4. QED
      BY <1>1, <2>1, <2>3 DEF GoesOrFits, Fits, DiesEarly
  <1>8. QED
    BY <1>5, <1>6, <1>7 DEF RollbackUp

LEMMA RollbackClearTurn ==
  ASSUME ProcessTypes, OtherTypes, OtherTypes', NEW p \in Processes, NEW b, Turn(p, b), RollbackClear(p)
  PROVE  GoesOrFits(p, b)
PROOF
  <1>1. /\ pc[p] = "rb_clear" /\ Fine(b) /\ Forget(Now) \in RolledBack(b)
        /\ cmd[p] = "rollback" \/ b.due
    BY StepNames DEF RollbackClear, Turn, Resolving
  <1>2. pending'.stage = "none" /\ saved' = saved /\ active' = active
    BY NothingFact DEF RollbackClear, nm
  <1>3. Fine(Now) /\ NowIs(Now) /\ Fine(Now') /\ NowIs(Now)'
    BY NowFact, NowNextFact
  <1>4. Now' = Forget(Now)
    <2>1. Same(Now', Forget(Now))
      BY <1>2, <1>3, ForgetFact DEF Same, NowIs, Fine
    <2>2. QED
      BY <1>3, <2>1, ForgetFact, SameFact DEF Fine
  <1>5. Now' \in RolledBack(b) /\ (cmd[p] # "rollback" => Now' \in Settled(b))
    BY <1>1, <1>4 DEF Settled
  <1>6. Resolved(p, loaded[p]) /\ loaded[p] \in Names /\ ~DiesEarly(p)
    BY <1>1 DEF RollbackClear, ProcessTypes, DiesEarly
  <1>7. QED
    BY <1>1, <1>2, <1>5, <1>6, ResolvedTurn

\* A step of the work that keeps the connections and the file.
LEMMA EntryFields ==
  ASSUME NEW settled, Fine(settled), settled.due = FALSE,
         NEW left \in {"client", "nothing"}, NEW links \in Links,
         links.saved = settled.saved, links.active = settled.active,
         links.trial = left, links.due = FALSE
  PROVE  /\ links = [Forget(settled) EXCEPT !.trial = left]
         /\ links = [settled EXCEPT !.trial = left]
PROOF
  <1>1. settled \in Links /\ Forget(settled) \in Links
        /\ Forget(settled).saved = settled.saved /\ Forget(settled).active = settled.active
        /\ Forget(settled).due = FALSE
    BY ForgetFact DEF Fine
  <1>2. ASSUME NEW from \in {settled, Forget(settled)}
        PROVE  links = [from EXCEPT !.trial = left]
    <2>1. /\ from \in Links /\ from.saved = settled.saved
          /\ from.active = settled.active /\ from.due = FALSE
      BY <1>1, <1>2
    <2> DEFINE other == [from EXCEPT !.trial = left]
    <2>2. /\ other \in Links /\ other.saved = from.saved /\ other.active = from.active
          /\ other.trial = left /\ other.due = from.due
      <3>1. left \in {"none", "client", "nothing"}
        OBVIOUS
      <3>2. QED
        BY <2>1, <3>1, TrialFact, Zenon
    <2> HIDE DEF other
    <2>3. Same(links, other)
      BY <2>1, <2>2 DEF Same
    <2>4. QED
      BY <2>2, <2>3, SameFact DEF other
  <1>3. QED
    BY <1>2

LEMMA LookTurn ==
  ASSUME ProcessTypes, OtherTypes, OtherTypes', NEW p \in Processes, NEW b, Static(p), Turn(p, b), Look(p)
  PROVE  GoesOrFits(p, b)
PROOF
  <1>1. /\ pc[p] = "look" /\ Fine(b) /\ Now \in Settled(b) /\ pending.stage \in {"none", "whole"}
        /\ cmd[p] \in {"apply", "reset"}
    BY DEF Look, Turn, Working, Static, OtherTypes, Pending
  <1>2. Fine(Now) /\ NowIs(Now) /\ Now.due = FALSE
    BY <1>1, NowFact, SettledFact
  <1>3. PICK previous \in Previous(p) : \E recorded \in Recorded(p, previous) :
                                      LooksAt(p, previous, recorded)
    BY <1>1 DEF Look, LookDies
  <1>4. /\ Now' = Now /\ UNCHANGED <<pending, expired, active>>
    BY NowKept DEF Look, nm
  <1>5. PICK recorded \in Recorded(p, previous) : LooksAt(p, previous, recorded)
    BY <1>3
  <1>6. /\ cmd' = cmd /\ mine'[p].previous = previous /\ mine'[p].number = trials + 1
        /\ pc'[p] = IF recorded THEN "open" ELSE IF cmd[p] = "reset" THEN "drop" ELSE "replace"
    BY <1>5 DEF LooksAt, ProcessTypes, Trial
  <1>7. trials + 1 > expired
    BY BoundsAssumption DEF OtherTypes
  <1>8. /\ ClientConnected <=> Now.active = "client"
        /\ ApActive <=> Now.active = "ap"
    BY <1>2, NamesAssumption DEF NowIs, ClientConnected, ApActive, OtherTypes
  <1>9. /\ cmd[p] = "apply" /\ pending.stage = "whole" => previous = pending.previous
        /\ cmd[p] = "reset" \/ pending.stage = "none"
             => previous = "none" \/ ClientConnected
    BY <1>1, <1>3 DEF Previous, LoadedNames, NamesInFile
  <1>10. CASE ~recorded /\ cmd[p] = "reset"
    <2>1. pc'[p] = "drop"
      BY <1>6, <1>10
    <2>2. Working(p, b)'
      BY <1>1, <1>4, <1>6, <1>10, <2>1 DEF Working, Entering
    <2>3. QED
      BY <1>1, <2>1, <2>2, WorkingTurn DEF WorkSteps
  <1>11. CASE ~recorded /\ cmd[p] = "apply"
    <2>1. pc'[p] = "replace" /\ previous = "none"
      BY <1>5, <1>6, <1>11 DEF Recorded
    <2>2. Now.trial \in Back(Now)
      BY <1>1, <1>2, <1>9, <1>11, <2>1 DEF Back, NowIs, Fine, Links
    <2>3. Now = [Now EXCEPT !.trial = Now.trial]
      BY <1>2 DEF Fine, Links
    <2>4. Now \in Cut([Now EXCEPT !.trial = Now.trial])
      BY <1>2, <2>3, CutFact DEF Fine, Within
    <2>5. Now \in LeftPending(Now)
      BY <2>2, <2>4 DEF LeftPending
    <2>6. Working(p, b)'
      BY <1>1, <1>4, <2>1, <2>5 DEF Working, Entering
    <2>7. QED
      BY <1>1, <2>1, <2>6, WorkingTurn DEF WorkSteps
  <1>12. CASE recorded
    <2>1. pc'[p] = "open"
      BY <1>6, <1>12
    <2> DEFINE kept == IF previous # "none" THEN "client" ELSE "nothing"
    <2>2. cmd[p] = "apply" \/ (cmd[p] = "reset" /\ Now.active = "client")
      BY <1>1, <1>5, <1>8, <1>9, <1>12 DEF Recorded
    <2>3. kept \in Goals(cmd[p], Now)
      <3>1. CASE cmd[p] = "reset"
        BY <3>1 DEF Goals
      <3>2. CASE cmd[p] = "apply" /\ pending.stage = "whole"
        <4>1. Now.trial = kept
          BY <1>2, <1>9, <3>2 DEF NowIs
        <4>2. QED
          BY <3>2, <4>1 DEF Goals, Back
      <3>3. CASE cmd[p] = "apply" /\ pending.stage = "none"
        <4>1. Now.trial = "none"
          BY <1>2, <3>3 DEF NowIs
        <4>2. IF previous # "none" THEN Now.active = "client" ELSE Now.active = "ap"
          BY <1>5, <1>8, <1>9, <1>12, <3>3 DEF Recorded
        <4>3. QED
          BY <3>3, <4>1, <4>2 DEF Goals, Back
      <3>4. QED
        BY <1>1, <3>1, <3>2, <3>3
    <2>4. Kept(p)' = kept
      BY <1>6 DEF Kept
    <2>5. EntryOf(p, Now)'
      BY <1>4, <1>6, <2>1, <2>2, <2>3, <2>4 DEF EntryOf
    <2>6. Working(p, b)'
      <3>1. mine'[p].number > expired'
        BY <1>4, <1>6, <1>7
      <3>2. \E settled \in Settled(b) : EntryOf(p, settled)'
        BY <1>1, <1>4, <2>5 DEF EntryOf
      <3>3. QED
        BY <2>1, <3>1, <3>2 DEF Working, Entering
    <2>7. QED
      BY <1>1, <2>1, <2>6, WorkingTurn DEF WorkSteps
  <1>13. QED
    BY <1>1, <1>10, <1>11, <1>12 DEF Recorded

LEMMA OpenTurn ==
  ASSUME ProcessTypes, OtherTypes, OtherTypes', NEW p \in Processes, NEW b, Turn(p, b), Open(p)
  PROVE  GoesOrFits(p, b)
PROOF
  <1>1. pc[p] = "open" /\ Fine(b) /\ mine[p].number > expired
    BY DEF Open, Turn, Working, Entering
  <1>2. PICK settled \in Settled(b) : EntryOf(p, settled)
    BY <1>1 DEF Turn, Working, Entering
  <1>3. pc'[p] = "write" /\ cmd'[p] = cmd[p] /\ mine'[p] = mine[p]
    BY StepNames, GoToFact DEF Open
  <1>4. Fine(Now) /\ NowIs(Now) /\ Fine(Now') /\ NowIs(Now)'
    BY NowFact, NowNextFact
  <1>5. Now' = Forget(settled)
    <2>1. Now = settled
      BY <1>1, <1>2 DEF EntryOf
    <2>2. pending'.stage = "opened" /\ saved' = saved /\ active' = active
      BY DEF Open, Entry, nm
    <2>3. Same(Now', Forget(Now))
      BY <1>4, <2>2, ForgetFact DEF Same, NowIs, Fine
    <2>4. QED
      BY <1>4, <2>1, <2>3, ForgetFact, SameFact DEF Fine
  <1>6. EntryOf(p, settled)'
    BY <1>2, <1>3, <1>5 DEF EntryOf, Kept
  <1>7. Working(p, b)'
    <2>1. mine'[p].number > expired'
      BY <1>1, <1>3 DEF Open, clock
    <2>2. QED
      BY <1>3, <1>6, <2>1 DEF Working, Entering
  <1>8. QED
    BY <1>1, <1>3, <1>7, WorkingTurn DEF WorkSteps

LEMMA WriteTurn ==
  ASSUME ProcessTypes, OtherTypes, OtherTypes', NEW p \in Processes, NEW b, Turn(p, b), Write(p)
  PROVE  GoesOrFits(p, b)
PROOF
  <1>1. pc[p] = "write" /\ Fine(b) /\ mine[p].number > expired
    BY DEF Write, Turn, Working, Entering
  <1>2. PICK settled \in Settled(b) : EntryOf(p, settled)
    BY <1>1 DEF Turn, Working, Entering
  <1>3. pc'[p] = "arm" /\ cmd'[p] = cmd[p] /\ mine'[p] = mine[p]
    BY StepNames, GoToFact DEF Write
  <1>4. Fine(Now) /\ NowIs(Now) /\ Fine(Now') /\ NowIs(Now)' /\ Fine(settled) /\ settled.due = FALSE
    BY <1>1, NowFact, NowNextFact, SettledFact
  <1>5. Now' = [Forget(settled) EXCEPT !.trial = Kept(p)]
    <2>1. Now = Forget(settled)
      BY <1>1, <1>2 DEF EntryOf
    <2>2. Now.saved = settled.saved /\ Now.active = settled.active
      BY <1>4, <2>1, ForgetFact DEF Fine
    <2>3. /\ pending'.stage = "whole" /\ pending'.previous = mine[p].previous
          /\ pending'.sameBoot /\ pending'.number = mine[p].number
          /\ saved' = saved /\ active' = active /\ expired' = expired
      BY DEF Write, Entry, nm, clock
    <2>4. ~Due'
      <3>1. mine[p].number \in Nat /\ expired \in Nat
        BY BoundsAssumption DEF ProcessTypes, Trial, OtherTypes
      <3>2. QED
        BY <1>1, <2>3, <3>1 DEF Due
    <2>5. Now'.saved = settled.saved /\ Now'.active = settled.active /\ Now'.due = FALSE
      BY <1>4, <2>2, <2>3, <2>4 DEF NowIs
    <2>6. Now'.trial = Kept(p) /\ Kept(p) \in {"client", "nothing"}
      BY <1>4, <2>3 DEF NowIs, Kept
    <2>7. QED
      BY <1>4, <2>5, <2>6, EntryFields DEF Fine
  <1>6. EntryOf(p, settled)'
    BY <1>2, <1>3, <1>5 DEF EntryOf, Kept
  <1>7. Working(p, b)'
    <2>1. mine'[p].number > expired'
      BY <1>1, <1>3 DEF Write, clock
    <2>2. QED
      BY <1>3, <1>6, <2>1 DEF Working, Entering
  <1>8. QED
    BY <1>1, <1>3, <1>7, WorkingTurn DEF WorkSteps

LEMMA ArmTurn ==
  ASSUME ProcessTypes, OtherTypes, OtherTypes', NEW p \in Processes, NEW b, Turn(p, b), Arm(p)
  PROVE  GoesOrFits(p, b)
PROOF
  <1>1. pc[p] = "arm" /\ Fine(b)
    BY DEF Arm, Turn
  <1>2. PICK settled \in Settled(b) : EntryOf(p, settled)
    BY <1>1 DEF Turn, Working, Entering
  <1>3. Fine(settled) /\ settled.due = FALSE /\ Fine(Now)
    BY <1>1, SettledFact, NowFact
  <1>4. Now' = Now
    BY NowKept DEF Arm
  <1>5. Now = [Forget(settled) EXCEPT !.trial = Kept(p)]
    BY <1>1, <1>2 DEF EntryOf
  <1>6. Kept(p) \in {"client", "nothing"} /\ Kept(p) \in Goals(cmd[p], settled)
    BY <1>2 DEF EntryOf, Kept
  <1>7. CASE cmd[p] = "apply"
    <2>1. pc'[p] = "replace"
      BY <1>7, StepNames, GoToFact DEF Arm
    <2>2. Kept(p) \in Back(settled)
      BY <1>6, <1>7 DEF Goals
    <2>3. Now = [settled EXCEPT !.trial = Kept(p)]
      <3>1. /\ Now.saved = settled.saved /\ Now.active = settled.active
            /\ Now.trial = Kept(p) /\ Now.due = FALSE
        <4>1. /\ Forget(settled) \in Links /\ Forget(settled).saved = settled.saved
              /\ Forget(settled).active = settled.active /\ Forget(settled).due = FALSE
          BY <1>3, ForgetFact DEF Fine
        <4>2. /\ Now.saved = Forget(settled).saved /\ Now.active = Forget(settled).active
              /\ Now.trial = Kept(p) /\ Now.due = Forget(settled).due
          BY <1>5, <1>6, <4>1, TrialFact
        <4>3. QED
          BY <4>1, <4>2
      <3>2. QED
        BY <1>3, <1>6, <3>1, EntryFields DEF Fine
    <2>4. Now \in LeftPending(settled)
      <3>1. Now \in Cut([settled EXCEPT !.trial = Kept(p)])
        BY <1>3, <2>3, CutFact DEF Fine, Within
      <3>2. QED
        BY <2>2, <3>1 DEF LeftPending
    <2>5. Working(p, b)'
      BY <1>4, <2>1, <2>4 DEF Working, Entering
    <2>6. QED
      BY <1>1, <2>1, <2>5, WorkingTurn DEF WorkSteps
  <1>8. CASE cmd[p] = "reset" /\ settled.active = "client"
    <2>1. pc'[p] = "hotspot" /\ cmd'[p] = cmd[p]
      BY <1>8, StepNames, GoToFact DEF Arm
    <2>2. Now \in ResetTrials(settled)
      BY <1>5, <1>6, <1>8 DEF ResetTrials
    <2>3. HotspotOf(p, settled)'
      BY <1>4, <1>8, <2>1, <2>2 DEF HotspotOf
    <2>4. Working(p, b)'
      BY <2>1, <2>3 DEF Working, Entering
    <2>5. QED
      BY <1>1, <2>1, <2>4, WorkingTurn DEF WorkSteps
  <1>9. QED
    BY <1>2, <1>7, <1>8 DEF EntryOf

LEMMA DropTurn ==
  ASSUME ProcessTypes, OtherTypes, OtherTypes', NEW p \in Processes, NEW b, Turn(p, b), Drop(p)
  PROVE  GoesOrFits(p, b)
PROOF
  <1>1. /\ pc[p] = "drop" /\ Fine(b) /\ Now \in Settled(b)
        /\ cmd[p] \in {"start_ap", "reset"}
    BY DEF Drop, Turn, Working
  <1>2. Fine(Now) /\ NowIs(Now) /\ Fine(Now') /\ NowIs(Now)'
    BY NowFact, NowNextFact
  <1>3. Now' = Forget(Now)
    <2>1. pending'.stage = "none" /\ saved' = saved /\ active' = active
      BY NothingFact DEF Drop, nm
    <2>2. Same(Now', Forget(Now))
      BY <1>2, <2>1, ForgetFact DEF Same, NowIs, Fine
    <2>3. QED
      BY <1>2, <2>2, ForgetFact, SameFact DEF Fine
  <1>4. pc'[p] = "hotspot" /\ cmd'[p] = cmd[p]
    BY StepNames, GoToFact DEF Drop
  <1>5. PICK settled \in Settled(b) : settled = Now
    BY <1>1
  <1>6. HotspotOf(p, settled)'
    <2>1. CASE cmd[p] = "start_ap"
      BY <1>3, <1>4, <1>5, <2>1 DEF HotspotOf
    <2>2. CASE cmd[p] = "reset"
      <3>1. Forget(settled) = [Forget(settled) EXCEPT !.trial = "none"]
        BY <1>2, <1>5 DEF Forget, Fine, Links
      <3>2. Forget(settled) \in ResetTrials(settled)
        BY <3>1 DEF ResetTrials
      <3>3. QED
        BY <1>3, <1>4, <1>5, <2>2, <3>2 DEF HotspotOf
    <2>3. QED
      BY <1>1, <2>1, <2>2
  <1>7. Working(p, b)'
    BY <1>4, <1>6 DEF Working, Entering
  <1>8. QED
    BY <1>1, <1>4, <1>7, WorkingTurn DEF WorkSteps

LEMMA HotspotTurn ==
  ASSUME ProcessTypes, OtherTypes, OtherTypes', NEW p \in Processes, NEW b, Turn(p, b), Hotspot(p)
  PROVE  GoesOrFits(p, b)
PROOF
  <1>1. pc[p] = "hotspot" /\ pc'[p] = "idle" /\ active' \in {"ap", active}
    BY EndFact DEF Hotspot
  <1>2. PICK settled \in Settled(b) : HotspotOf(p, settled)
    BY <1>1 DEF Turn, Working
  <1>3. Fine(Now) /\ NowIs(Now) /\ Fine(Now') /\ NowIs(Now)'
    BY NowFact, NowNextFact
  <1>4. Now' \in HotspotFrom(Now)
    <2>1. UNCHANGED <<saved, pending, expired>>
      BY DEF Hotspot, clock
    <2>2. CASE active' = active
      <3>1. Now' = Now
        BY <2>1, <2>2, NowKept DEF nm
      <3>2. Now = [Now EXCEPT !.active = Now.active]
        BY <1>3 DEF Fine, Links
      <3>3. QED
        BY <3>1, <3>2 DEF HotspotFrom
    <2>3. CASE active' = "ap"
      <3>1. /\ Now'.saved = Now.saved /\ Now'.active = "ap"
            /\ Now'.trial = Now.trial /\ Now'.due = Now.due
        BY <1>3, <2>1, <2>3, NamesAssumption DEF NowIs, Due
      <3>2. Now' = [Now EXCEPT !.active = "ap"]
        BY <1>3, <3>1 DEF Fine, Links
      <3>3. QED
        BY <3>2 DEF HotspotFrom
    <2>4. QED
      BY <1>1, <2>2, <2>3
  <1>5. Now' \in Done(cmd[p], b)
    BY <1>2, <1>4 DEF HotspotOf, Done, ClientReset, ApStarted
  <1>6. QED
    BY <1>1, <1>5 DEF GoesOrFits, Fits, DiesEarly

\* What a failed trial may leave, and what a step before it leaves of that.
LEMMA TriedCut ==
  ASSUME OtherTypes, OtherTypes', NEW p \in Processes, NEW b, Turn(p, b),
         pc[p] \in {"replace", "connect"}, UNCHANGED <<pending, expired>>,
         saved' \subseteq saved, active' \in {active, "none"}
  PROVE  \E settled \in Settled(b) : Now' \in LeftPending(settled)
PROOF
  <1>1. PICK settled \in Settled(b) : Now \in LeftPending(settled)
    BY DEF Turn, Working
  <1>2. settled \in Links
    BY SettledFact DEF Turn, Fine
  <1>3. PICK back \in Back(settled) : Now \in Cut([settled EXCEPT !.trial = back])
    BY <1>1 DEF LeftPending
  <1> DEFINE links == [settled EXCEPT !.trial = back]
  <1>4. Now \in Cut(links) /\ links \in Links
    <2>1. back \in {"none", "client", "nothing"}
      BY <1>2, <1>3, BackFact
    <2>2. QED
      BY <1>2, <1>3, <2>1, TrialFact
  <1>5. Now' \in Cut(links)
    <2> HIDE DEF links
    <2>1. QED
      BY <1>4, CutStep
  <1>6. QED
    BY <1>3, <1>5 DEF LeftPending

LEMMA ReplaceTurn ==
  ASSUME ProcessTypes, OtherTypes, OtherTypes', NEW p \in Processes, NEW b, Turn(p, b), Replace(p)
  PROVE  GoesOrFits(p, b)
PROOF
  <1>1. pc[p] = "replace" /\ Fine(b) /\ pc'[p] = "connect" /\ UNCHANGED <<pending, expired>>
    BY StepNames, GoToFact DEF Replace, Turn, clock
  <1>2. \E settled \in Settled(b) : Now' \in LeftPending(settled)
    BY <1>1, DeleteFact, TriedCut DEF Replace
  <1>3. Working(p, b)'
    BY <1>1, <1>2 DEF Working, Entering
  <1>4. QED
    BY <1>1, <1>3, WorkingTurn DEF WorkSteps

LEMMA ConnectTurn ==
  ASSUME ProcessTypes, OtherTypes, OtherTypes', NEW p \in Processes, NEW b, Turn(p, b), Static(p),
         Connect(p)
  PROVE  GoesOrFits(p, b)
PROOF
  <1>1. pc[p] = "connect" /\ Fine(b) /\ cmd[p] = "apply" /\ UNCHANGED <<pending, expired>>
    BY DEF Connect, Turn, Static, clock
  <1>2. CASE active' = mine[p].trial /\ GoTo(p, "ap_down")
    <2>1. pc'[p] = "ap_down" /\ mine'[p] = mine[p]
      BY <1>2, StepNames, GoToFact
    <2>2. Settled(b) # {}
      BY <1>1 DEF Turn, Working
    <2>3. Working(p, b)'
      BY <1>2, <2>1, <2>2 DEF Working, Entering
    <2>4. QED
      BY <1>1, <2>1, <2>3, WorkingTurn DEF WorkSteps
  <1>3. CASE saved' \subseteq saved /\ active' \in {active, "none"} /\ End(p)
    <2>1. pc'[p] = "idle"
      BY <1>3, EndFact
    <2>2. PICK settled \in Settled(b) : Now' \in LeftPending(settled)
      BY <1>1, <1>3, TriedCut
    <2>3. Now' \in Done(cmd[p], b)
      BY <1>1, <2>2 DEF Done, ClientApplied, Tried
    <2>4. QED
      BY <1>1, <2>1, <2>3 DEF GoesOrFits, Fits, DiesEarly
  <1>4. QED
    BY <1>2, <1>3 DEF Connect

\* The steps once the network has come up.
LEMMA UpTurn ==
  ASSUME NEW p \in Processes, NEW b, Turn(p, b), pc[p] \in {"ap_down", "retire"},
         pc'[p] \in {"retire", "commit"}, mine'[p] = mine[p], active' = active
  PROVE  GoesOrFits(p, b)
PROOF
  <1>1. Fine(b) /\ active = mine[p].trial /\ Settled(b) # {}
    BY DEF Turn, Working
  <1>2. Working(p, b)'
    BY <1>1 DEF Working, Entering
  <1>3. QED
    BY <1>1, <1>2, WorkingTurn DEF WorkSteps

LEMMA ApDownTurn ==
  ASSUME ProcessTypes, OtherTypes, OtherTypes', NEW p \in Processes, NEW b, Turn(p, b), Static(p),
         ApDown(p)
  PROVE  GoesOrFits(p, b)
PROOF
  <1>1. pc[p] = "ap_down" /\ pc'[p] = "retire" /\ mine'[p] = mine[p]
    BY StepNames, GoToFact DEF ApDown
  <1>2. active = mine[p].trial /\ mine[p].trial \in Connections
    BY <1>1 DEF Turn, Working, Static
  <1>3. active' = active
    BY <1>2, NamesAssumption DEF ApDown, DisconnectAp, ApActive
  <1>4. QED
    BY <1>1, <1>3, UpTurn

LEMMA RetireTurn ==
  ASSUME ProcessTypes, OtherTypes, OtherTypes', NEW p \in Processes, NEW b, Turn(p, b), Static(p),
         Retire(p)
  PROVE  GoesOrFits(p, b)
PROOF
  <1>1. pc[p] = "retire" /\ pc'[p] = "commit" /\ mine'[p] = mine[p]
    BY StepNames, GoToFact DEF Retire
  <1>2. active = mine[p].trial
    BY <1>1 DEF Turn, Working
  <1>3. active' = active
    BY <1>2 DEF Retire, Delete, nm
  <1>4. QED
    BY <1>1, <1>3, UpTurn

LEMMA CommitTurn ==
  ASSUME ProcessTypes, OtherTypes, OtherTypes', NEW p \in Processes, NEW b, Turn(p, b), Static(p),
         Commit(p)
  PROVE  GoesOrFits(p, b)
PROOF
  <1>1. /\ pc[p] = "commit" /\ pc'[p] = "idle" /\ cmd[p] = "apply"
        /\ active = mine[p].trial /\ mine[p].trial \in Connections /\ Settled(b) # {}
    BY EndFact DEF Commit, Turn, Working, Static
  <1>2. pending'.stage = "none" /\ saved' = saved /\ active' = active
    BY NothingFact DEF Commit, nm
  <1>3. Fine(Now') /\ NowIs(Now)'
    BY NowNextFact
  <1>4. Now'.active = "client" /\ Now'.trial = "none" /\ Now'.due = FALSE
    BY <1>1, <1>2, <1>3 DEF NowIs
  <1>5. Now'.saved = TRUE
    BY <1>3, <1>4 DEF Fine, Links
  <1>6. Now' = OnNetwork
    <2>1. Same(Now', OnNetwork)
      BY <1>4, <1>5, OnNetworkFact DEF Same
    <2>2. QED
      BY <1>3, <2>1, OnNetworkFact, SameFact DEF Fine
  <1>7. Now' \in Done(cmd[p], b)
    <2>1. PICK settled \in Settled(b) : TRUE
      BY <1>1
    <2>2. QED
      BY <1>1, <1>6, <2>1 DEF Done, ClientApplied, Tried
  <1>8. QED
    BY <1>1, <1>7 DEF GoesOrFits, Fits, DiesEarly

LEMMA StepTurn ==
  ASSUME ProcessTypes, OtherTypes, OtherTypes', NEW p \in Processes, NEW b, Turn(p, b), Static(p),
         Step(p)
  PROVE  GoesOrFits(p, b)
PROOF
  BY ResolveTurn, RollbackLoadTurn, RollbackApTurn, RollbackDeleteTurn, RollbackUpTurn,
     RollbackClearTurn, LookTurn, OpenTurn, WriteTurn, ArmTurn, DropTurn, HotspotTurn,
     ReplaceTurn, ConnectTurn, ApDownTurn, RetireTurn, CommitTurn DEF Step

(***************************************************************************)
(* The inductive invariant of WifiTurns.                                   *)
(***************************************************************************)
\* A command that nothing has disturbed is the only one there is.
Underway ==
  inTurn => \E p \in Processes, b \in Links :
    /\ p = runner /\ b = before
    /\ pc[p] # "idle" /\ \A q \in Processes \ {p} : pc[q] = "idle"
    /\ Turn(p, b)

\* A file that lacks a line is one that is being written, or one that a process
\* left behind that was killed, and its shells with it.
Quiet ==
  pending.stage = "opened" =>
    \/ \E p \in Processes : pc[p] = "write"
    \/ asleep = {} /\ \A p \in Processes : pc[p] \in {"idle", "resolve"}

TurnsInv == IInv /\ runner \in Processes /\ (~raced => Underway /\ Quiet)

LEMMA InitTurnsInv == TurnInit => TurnsInv
PROOF
  <1> SUFFICES ASSUME TurnInit
               PROVE  TurnsInv
    OBVIOUS
  <1>1. IInv /\ runner \in Processes /\ inTurn = FALSE
    BY InitIInv DEF TurnInit
  <1>2. pending.stage = "none"
    BY NothingFact DEF TurnInit, Init
  <1>3. QED
    BY <1>1, <1>2 DEF TurnsInv, Underway, Quiet

LEMMA StepQuiet ==
  ASSUME ProcessTypes, OtherTypes, NEW p \in Processes, Static(p), Step(p), Quiet, ~Overlap
  PROVE  Quiet'
PROOF
  <1>1. Only(p) /\ Effect(p)
    BY StepTypes, StepEffect
  <1>2. SUFFICES ASSUME pending'.stage = "opened"
                 PROVE  Quiet'
    BY DEF Quiet
  <1>3. CASE Open(p)
    <2>1. pc'[p] = "write"
      BY <1>3, StepNames, GoToFact DEF Open
    <2>2. QED
      BY <2>1 DEF Quiet
  <1>4. CASE pending' = pending /\ ~Write(p)
    <2>1. CASE \E q \in Processes : pc[q] = "write"
      <3>1. PICK q \in Processes : pc[q] = "write"
        BY <2>1
      <3>2. q # p
        BY <1>1, <1>4, <3>1 DEF Effect
      <3>3. QED
        BY <1>1, <3>1, <3>2 DEF Only, Quiet
    <2>2. CASE asleep = {} /\ \A q \in Processes : pc[q] \in {"idle", "resolve"}
      <3>1. pc[p] = "resolve" /\ Resolve(p)
        BY <2>2 DEF Step, Resolve, RollbackLoad, RollbackAp, RollbackDelete, RollbackUp,
           RollbackClear, Look, Open, Write, Arm, Drop, Hotspot, Replace, Connect, ApDown,
           Retire, Commit
      <3>2. End(p) /\ asleep' = {}
        BY <1>2, <1>4, <2>2, <3>1 DEF Resolve, clock
      <3>3. pc'[p] = "idle"
        BY <3>2, EndFact
      <3>4. QED
        BY <1>1, <2>2, <3>2, <3>3 DEF Only, Quiet
    <2>3. QED
      BY <1>2, <1>4, <2>1, <2>2 DEF Quiet
  <1>5. ~Write(p)
    BY <1>2 DEF Write, Entry
  <1>6. QED
    BY <1>1, <1>2, <1>3, <1>4, <1>5 DEF Effect

LEMMA NextQuiet ==
  ASSUME IInv, IInv', Next, Quiet, ~raced
  PROVE  Quiet'
PROOF
  <1>1. /\ ProcessTypes /\ OtherTypes /\ ProcessTypes' /\ OtherTypes' /\ ~Overlap
        /\ \A p \in Processes : Static(p)
    BY TypesFact DEF IInv, Safe
  <1>2. ASSUME NEW p \in Processes, Step(p)
        PROVE  Quiet'
    BY <1>1, <1>2, StepQuiet
  <1>3. ASSUME NEW c \in Callers, NEW command \in Commands[c], NEW n \in Networks,
               Begin(c, command, n)
        PROVE  Quiet'
    <2>1. c \in Processes /\ pc[c] = "idle" /\ pc' = [pc EXCEPT ![c] = "resolve"]
          /\ pending' = pending /\ asleep' = asleep
      BY <1>3 DEF Begin, Processes, clock
    <2>2. \A q \in Processes : pc'[q] = IF q = c THEN "resolve" ELSE pc[q]
      BY <1>1, <2>1 DEF ProcessTypes
    <2>3. QED
      BY <2>1, <2>2 DEF Quiet
  <1>4. ASSUME NEW k \in Timers, Fire(k)
        PROVE  Quiet'
    <2>1. k \in Processes /\ k \in asleep /\ pc[k] = "idle" /\ pc' = [pc EXCEPT ![k] = "rb_load"]
          /\ pending' = pending
      BY <1>4 DEF Fire, Processes
    <2>2. \A q \in Processes : pc'[q] = IF q = k THEN "rb_load" ELSE pc[q]
      BY <1>1, <2>1 DEF ProcessTypes
    <2>3. QED
      BY <2>1, <2>2 DEF Quiet
  <1>5. CASE Expire \/ Autoconnect \/ Outage
    <2>1. pc' = pc /\ asleep' = asleep /\ pending' = pending
      BY <1>5 DEF Expire, Autoconnect, Outage, process, clock
    <2>2. QED
      BY <2>1 DEF Quiet
  <1>6. ASSUME NEW reboot \in BOOLEAN, Stop(reboot)
        PROVE  Quiet'
    <2>1. asleep' = {} /\ \A q \in Processes : pc'[q] = "idle"
      BY <1>6 DEF Stop
    <2>2. QED
      BY <2>1 DEF Quiet
  <1>7. QED
    BY <1>2, <1>3, <1>4, <1>5, <1>6 DEF Next

\* A command begins, and nothing else is under way.
LEMMA BeginTurn ==
  ASSUME IInv, IInv', Next, Quiet, ~raced, NEW p \in Processes, Begins(p),
         \A q \in Processes : pc[q] = "idle"
  PROVE  /\ \A q \in Processes \ {p} : pc'[q] = "idle"
         /\ \E b \in Links : b = Now /\ Turn(p, b)'
PROOF
  <1>1. ProcessTypes /\ OtherTypes /\ ProcessTypes' /\ OtherTypes'
    BY TypesFact DEF IInv
  <1>2. Fine(Now)
    BY <1>1, NowFact
  <1>3. PICK b \in Links : b = Now
    BY <1>2 DEF Fine
  <1>4. \/ /\ cmd'[p] \in HelperCommands /\ pc' = [pc EXCEPT ![p] = "resolve"]
           /\ UNCHANGED <<nm, pending, expired>>
        \/ /\ p \in asleep /\ cmd'[p] = "rollback" /\ pc' = [pc EXCEPT ![p] = "rb_load"]
           /\ UNCHANGED <<nm, pending, expired>>
    <2>1. ASSUME NEW c \in Callers, NEW command \in Commands[c], NEW n \in Networks,
                 Begin(c, command, n)
          PROVE  /\ cmd'[p] \in HelperCommands /\ pc' = [pc EXCEPT ![p] = "resolve"]
                 /\ UNCHANGED <<nm, pending, expired>>
      <3>1. c = p
        BY <1>1, <2>1 DEF Begin, Begins, ProcessTypes
      <3>2. command \in HelperCommands
        BY CommandsAssumption
      <3>3. QED
        BY <1>1, <2>1, <3>1, <3>2 DEF Begin, ProcessTypes, clock
    <2>2. ASSUME NEW k \in Timers, Fire(k)
          PROVE  /\ p \in asleep /\ cmd'[p] = "rollback" /\ pc' = [pc EXCEPT ![p] = "rb_load"]
                 /\ UNCHANGED <<nm, pending, expired>>
      <3>1. k = p
        BY <1>1, <2>2 DEF Fire, Begins, ProcessTypes
      <3>2. QED
        BY <1>1, <2>2, <3>1 DEF Fire, ProcessTypes
    <2>3. ASSUME NEW q \in Processes, Step(q)
          PROVE  FALSE
      <3>1. Effect(q)
        BY <1>1, <2>3, StepEffect DEF IInv
      <3>2. QED
        BY <3>1 DEF Effect
    <2>4. ~(Expire \/ Autoconnect \/ Outage)
      BY DEF Expire, Autoconnect, Outage, process, Begins
    <2>5. \A reboot \in BOOLEAN : ~Stop(reboot)
      BY DEF Stop, Begins
    <2>6. QED
      BY <2>1, <2>2, <2>3, <2>4, <2>5 DEF Next
  <1>5. Now' = b
    BY <1>3, <1>4, NowKept
  <1>6. /\ pc'[p] \in {"resolve", "rb_load"}
        /\ pc'[p] = "resolve" => cmd'[p] \in HelperCommands
        /\ pc'[p] = "rb_load" => cmd'[p] = "rollback" /\ pending'.stage # "opened"
        /\ \A q \in Processes \ {p} : pc'[q] = "idle"
    BY <1>1, <1>4 DEF ProcessTypes, Quiet
  <1>7. Resolving(p, b)' /\ Working(p, b)'
    BY <1>5, <1>6, StepNames DEF Resolving, Working, Entering
  <1>8. QED
    BY <1>2, <1>3, <1>6, <1>7 DEF Turn, Fine

LEMMA NextTurnsInv == TurnsInv /\ [TurnNext]_turnVars => TurnsInv'
PROOF
  <1> SUFFICES ASSUME TurnsInv, [TurnNext]_turnVars
               PROVE  TurnsInv'
    OBVIOUS
  <1>1. IInv /\ IInv' /\ runner \in Processes
    BY NextIInv DEF TurnsInv, TurnNext, turnVars
  <1>2. CASE UNCHANGED turnVars
    <2>1. UNCHANGED <<saved, active, pending, expired, asleep, pc, cmd, mine, loaded, raced,
                      before, runner, inTurn>>
      BY <1>2 DEF turnVars, vars, nm, clock, process
    <2>2. \A p \in Processes, b \in Links : Turn(p, b)' <=> Turn(p, b)
      BY <2>1 DEF Turn, Fine, Resolving, Working, EntryOf, HotspotOf, Now, Due, ClientConnected,
                  NamesInFile, Kept
    <2>3. Underway => Underway'
      BY <2>1, <2>2 DEF Underway
    <2>4. QED
      BY <1>1, <2>1, <2>3 DEF TurnsInv, Quiet
  <1>3. CASE TurnNext
    <2>1. Next /\ ~raced /\ Underway /\ Quiet /\ Quiet'
      BY <1>1, <1>3, NextQuiet DEF TurnNext, Next, TurnsInv
    <2>2. ASSUME NEW p \in Processes, Begins(p), runner' = p, before' = Now,
                 inTurn' = (\A q \in Processes : pc[q] = "idle")
          PROVE  TurnsInv'
      <3>1. ASSUME \A q \in Processes : pc[q] = "idle"
            PROVE  Underway'
        <4>1. /\ \A q \in Processes \ {p} : pc'[q] = "idle"
              /\ \E b \in Links : b = Now /\ Turn(p, b)'
          BY <1>1, <2>1, <2>2, <3>1, BeginTurn
        <4>2. QED
          BY <2>2, <4>1 DEF Underway, Begins
      <3>2. Underway'
        BY <2>2, <3>1 DEF Underway
      <3>3. QED
        BY <1>1, <2>1, <2>2, <3>2 DEF TurnsInv
    <2>3. CASE /\ inTurn' = (inTurn /\ Step(runner) /\ ~Ends(runner))
               /\ UNCHANGED <<before, runner>>
      <3>1. ASSUME inTurn, Step(runner), ~Ends(runner)
            PROVE  Underway'
        <4>1. PICK p \in Processes, b \in Links :
                /\ p = runner /\ b = before
                /\ pc[p] # "idle" /\ \A q \in Processes \ {p} : pc[q] = "idle"
                /\ Turn(p, b)
          BY <2>1, <3>1 DEF Underway
        <4>2. /\ ProcessTypes /\ OtherTypes /\ OtherTypes' /\ Static(p) /\ Step(p)
              /\ pc'[p] # "idle"
          BY <1>1, <3>1, <4>1, TypesFact DEF IInv, Ends
        <4>3. Turn(p, b)' /\ \A q \in Processes \ {p} : pc'[q] = "idle"
          BY <4>1, <4>2, StepTurn, StepTypes DEF GoesOrFits, Only
        <4>4. QED
          BY <2>3, <4>1, <4>2, <4>3 DEF Underway
      <3>2. Underway'
        BY <2>3, <3>1 DEF Underway
      <3>3. QED
        BY <1>1, <2>1, <2>3, <3>2 DEF TurnsInv
    <2>4. QED
      BY <1>3, <2>2, <2>3 DEF TurnNext
  <1>4. QED
    BY <1>2, <1>3

(***************************************************************************)
(* CommandsAreSteps: a command of jukebox-wifi-helper.sh that nothing      *)
(* comes in between leaves the connections and the pending trial as one of *)
(* the outcomes that WifiCommands has, for every trial it finds and every  *)
(* nmcli call that fails.  This is what lets Boot take it for one step.    *)
(***************************************************************************)
THEOREM CommandsSafety == TurnSpec => CommandsAreSteps
PROOF
  <1>1. TurnsInv /\ [TurnNext]_turnVars
          => [inTurn /\ Ends(runner)
                => Now' \in IF DiesEarly(runner) THEN Undone(cmd[runner], before)
                            ELSE Done(cmd[runner], before)]_turnVars
    <2> SUFFICES ASSUME TurnsInv, TurnNext, inTurn, Ends(runner)
                 PROVE  Now' \in IF DiesEarly(runner) THEN Undone(cmd[runner], before)
                                 ELSE Done(cmd[runner], before)
      OBVIOUS
    <2>1. IInv /\ IInv' /\ ~raced
      BY NextIInv DEF TurnsInv, TurnNext, Next
    <2>2. PICK p \in Processes, b \in Links : p = runner /\ b = before /\ Turn(p, b)
      BY <2>1 DEF TurnsInv, Underway
    <2>3. ProcessTypes /\ OtherTypes /\ OtherTypes' /\ Static(p) /\ Step(p) /\ pc'[p] = "idle"
      BY <2>1, <2>2, TypesFact DEF IInv, Ends
    <2>4. Fits(p, b)
      BY <2>2, <2>3, StepTurn DEF GoesOrFits
    <2>5. QED
      BY <2>2, <2>4 DEF Fits
  <1>2. QED
    BY <1>1, InitTurnsInv, NextTurnsInv, PTL DEF TurnSpec, CommandsAreSteps

=============================================================================
