----------------------------- MODULE WifiHelper -----------------------------
(***************************************************************************)
(* jukebox-wifi-helper.sh, one step per access to NetworkManager or to the *)
(* file of the pending trial.                                              *)
(*                                                                         *)
(* Joining a network, or leaving it for the setup hotspot, is a trial: the *)
(* connection before it is written down with a deadline, a background      *)
(* shell sleeps until then and rolls the trial back, and so does the first *)
(* command that finds the deadline passed or another boot.  A connection   *)
(* that came up is committed by removing the file.  Each command is a      *)
(* process of its own, no lock guards the file, and the runtime's threads  *)
(* call the helper side by side.  `set -eu' ends a process at the first    *)
(* command that fails and at the first unset variable.                     *)
(*                                                                         *)
(* The script knows a network by the name of its connection alone, which   *)
(* sanitize_connection_name makes of the SSID and which two networks may   *)
(* share ("Home Net" and "home-net"; all that have no ASCII letter or      *)
(* digit).  The hotspot is "ap", and the empty name is "none".             *)
(***************************************************************************)
EXTENDS Naturals, FiniteSets

CONSTANTS
  Networks,   \* the networks within reach
  Connections,\* the names that client connections have
  NameOf,     \* NameOf[n]: the name sanitize_connection_name makes for n
  Callers,    \* the runtime's threads that run the helper
  Commands,   \* Commands[c]: the commands thread c gives
  MaxCalls,   \* how many commands are given
  MaxTrials,  \* how many of them are apply-client or reset-client
  MaxStops    \* how often the service stops or the box reboots

HelperCommands == {"status", "start_ap", "apply", "reset"}

ASSUME NamesAssumption ==
  /\ "none" \notin Connections /\ "ap" \notin Connections
  /\ NameOf \in [Networks -> Connections]
ASSUME BoundsAssumption == {MaxCalls, MaxTrials, MaxStops} \subseteq Nat
ASSUME CommandsAssumption == Commands \in [Callers -> SUBSET HelperCommands]

\* One background shell for each trial: sleep, then rollback-pending.
Timers == 1..MaxTrials

ASSUME CallersAssumption == Callers \cap Timers = {}

VARIABLES
  saved,      \* the names of the client connections that come up
  active,     \* the active wireless connection
  pending,    \* pending-trial.env
  asleep,     \* the background shells that sleep
  trials,     \* the trials so far: a trial's number stands for its deadline
  expired,    \* the deadlines up to this one have passed
  calls,      \* the commands given so far
  stops,      \* the stops so far
  pc,         \* pc[p]: the next step of process p
  cmd,        \* cmd[p]: the command it runs
  mine,       \* mine[p]: the two connection names and the number of its trial
  loaded,     \* loaded[p]: the names that load_pending left in its variables
  raced,      \* history: have two processes worked on the connections at once?
  upFailed,   \* history: has a rollback failed to bring its connection up?
  applied     \* history: the connection of the latest apply that answered, until
              \* one of its name is tried again or another one has come up

nm == <<saved, active>>
clock == <<asleep, trials, expired>>
process == <<pc, cmd, mine, loaded>>
history == <<upFailed, applied>>
bounds == <<calls, stops>>
vars == <<nm, pending, clock, bounds, process, raced, history>>

Processes == Callers \cup Timers

Names == [set : BOOLEAN, previous : Connections \cup {"none"}, trial : Connections \cup {"none"}]

Trial == [previous : Connections \cup {"none"}, trial : Connections \cup {"none"},
          number : 0..MaxTrials]

\* The stage of the file: "opened" lacks one of its four lines at least.
Pending == [stage : {"none", "opened", "whole"},
            previous : Connections \cup {"none"}, trial : Connections \cup {"none"},
            number : 0..MaxTrials, sameBoot : BOOLEAN]

NoNames == [set |-> FALSE, previous |-> "none", trial |-> "none"]
NoTrial == [previous |-> "none", trial |-> "none", number |-> 0]
NoPending == [stage |-> "none", previous |-> "none", trial |-> "none",
              number |-> 0, sameBoot |-> TRUE]

RollbackSteps == {"rb_ap", "rb_delete", "rb_up", "rb_clear"}

\* What a command does once it has looked at the connections.
WorkSteps == {"drop", "open", "write", "arm", "hotspot",
              "replace", "connect", "ap_down", "retire", "commit"}

Steps == {"idle", "resolve", "rb_load", "look"} \cup RollbackSteps \cup WorkSteps

TypeOK ==
  /\ saved \subseteq Connections
  /\ active \in saved \cup {"ap", "none"}
  /\ pending \in Pending
  /\ asleep \subseteq Timers
  /\ trials \in 0..MaxTrials /\ expired \in 0..trials
  /\ calls \in 0..MaxCalls /\ stops \in 0..MaxStops
  /\ pc \in [Processes -> Steps]
  /\ cmd \in [Processes -> HelperCommands \cup {"none", "rollback"}]
  /\ mine \in [Processes -> Trial]
  /\ loaded \in [Processes -> Names]
  /\ raced \in BOOLEAN /\ upFailed \in BOOLEAN
  /\ applied \in Connections \cup {"none"}

\* client_connected and ap_active.
ClientConnected == active \in Connections
ApActive == active = "ap"

\* A box that runs, with whatever connections were made on it before.
Init ==
  /\ saved \in SUBSET Connections
  /\ active \in saved \cup {"none"}
  /\ pending = NoPending
  /\ asleep = {} /\ trials = 0 /\ expired = 0 /\ calls = 0 /\ stops = 0
  /\ pc = [p \in Processes |-> "idle"]
  /\ cmd = [p \in Processes |-> "none"]
  /\ mine = [p \in Processes |-> NoTrial]
  /\ loaded = [p \in Processes |-> NoNames]
  /\ raced = FALSE /\ upFailed = FALSE
  /\ applied = "none"

Critical(p) == pc[p] \in RollbackSteps \cup WorkSteps
Overlap == \E p, q \in Processes : p # q /\ Critical(p) /\ Critical(q)

-----------------------------------------------------------------------------
(***************************************************************************)
(* NetworkManager, as the script uses it.                                  *)
(***************************************************************************)
\* Mutant of Delete: the connection goes, and stays up.
DeleteStaysUp(n) ==
  \/ UNCHANGED nm
  \/ n \in Connections /\ saved' = saved \ {n} /\ UNCHANGED active

\* delete_connection_if_present: a deletion that fails is passed over.
Delete(n) ==
  \/ UNCHANGED nm
  \/ /\ n \in Connections
     /\ saved' = saved \ {n}
     /\ active' = IF active = n THEN "none" ELSE active

\* disconnect_ap_if_active, likewise.
DisconnectAp ==
  /\ active' \in IF ApActive THEN {"ap", "none"} ELSE {active}
  /\ UNCHANGED saved

\* A free device takes up a connection that works, by itself.
Autoconnect ==
  /\ active = "none"
  /\ active' \in saved
  /\ UNCHANGED <<saved, pending, clock, bounds, process, history>>

\* The network goes out of reach for a while.
Outage ==
  /\ active \in Connections
  /\ active' = "none"
  /\ UNCHANGED <<saved, pending, clock, bounds, process, history>>

-----------------------------------------------------------------------------
(***************************************************************************)
(* The life of a process.                                                  *)
(***************************************************************************)
GoTo(p, step) ==
  /\ pc' = [pc EXCEPT ![p] = step]
  /\ UNCHANGED <<cmd, mine, loaded>>

\* The process ends: it is through, or `set -e' or `set -u' ended it.
End(p) ==
  /\ pc' = [pc EXCEPT ![p] = "idle"]
  /\ cmd' = [cmd EXCEPT ![p] = "none"]
  /\ mine' = [mine EXCEPT ![p] = NoTrial]
  /\ loaded' = [loaded EXCEPT ![p] = NoNames]

\* The name of the connection that a command tries.
TrialName(command, network) == IF command = "apply" THEN NameOf[network] ELSE "none"

\* The calls that have yet to take a number: Begin keeps one for each.
Numberless == {p \in Callers : cmd[p] \in {"apply", "reset"} /\ mine[p].number = 0}

Begin(p, command, network) ==
  /\ pc[p] = "idle"
  /\ calls < MaxCalls
  /\ calls' = calls + 1
  /\ command \in {"apply", "reset"} => trials + Cardinality(Numberless) < MaxTrials
  /\ pc' = [pc EXCEPT ![p] = "resolve"]
  /\ cmd' = [cmd EXCEPT ![p] = command]
  /\ mine' = [mine EXCEPT ![p].trial = TrialName(command, network)]
  /\ UNCHANGED <<nm, pending, clock, stops, loaded, history>>

\* A background shell wakes up: rollback-pending, which asks for no deadline.
Fire(k) ==
  /\ k \in asleep /\ k <= expired
  /\ pc[k] = "idle"
  /\ asleep' = asleep \ {k}
  /\ pc' = [pc EXCEPT ![k] = "rb_load"]
  /\ cmd' = [cmd EXCEPT ![k] = "rollback"]
  /\ UNCHANGED <<nm, pending, trials, expired, bounds, mine, loaded, history>>

\* The next deadline passes.
Expire ==
  /\ expired < trials
  /\ expired' = expired + 1
  /\ UNCHANGED <<nm, pending, asleep, trials, bounds, process, history>>

-----------------------------------------------------------------------------
(***************************************************************************)
(* resolve_pending_trial and rollback_pending.                             *)
(***************************************************************************)
\* What follows on resolve_pending_trial; status goes on to read its answer.
Resolved(p, names) ==
  \/ /\ cmd[p] = "start_ap"
     /\ pc' = [pc EXCEPT ![p] = "drop"]
     /\ loaded' = [loaded EXCEPT ![p] = NoNames]
     /\ UNCHANGED <<cmd, mine>>
  \/ /\ cmd[p] \in {"apply", "reset"}
     /\ pc' = [pc EXCEPT ![p] = "look"]
     /\ loaded' = [loaded EXCEPT ![p] = names]
     /\ UNCHANGED <<cmd, mine>>
  \/ cmd[p] \in {"status", "rollback"} /\ End(p)

NamesInFile == [set |-> TRUE, previous |-> pending.previous, trial |-> pending.trial]

\* load_pending on a file that is still being written may find the lines with
\* the names, or leave the variables as they were.
LoadedNames(p) == {NamesInFile} \cup (IF pending.stage = "opened" THEN {loaded[p]} ELSE {})

Due == ~pending.sameBoot \/ pending.number <= expired

Resolve(p) ==
  /\ pc[p] = "resolve"
  /\ \/ pending.stage = "none" /\ Resolved(p, loaded[p])
     \/ pending.stage = "opened" /\ End(p)
     \/ pending.stage = "whole" /\ Due /\ GoTo(p, "rb_load")
     \/ pending.stage = "whole" /\ ~Due /\ Resolved(p, NamesInFile)
  /\ UNCHANGED <<nm, pending, clock, bounds, history>>

RollbackLoad(p) ==
  /\ pc[p] = "rb_load"
  /\ \/ pending.stage = "none" /\ Resolved(p, loaded[p])
     \/ /\ pending.stage # "none"
        /\ pc' = [pc EXCEPT ![p] = "rb_ap"]
        /\ \E names \in LoadedNames(p) : loaded' = [loaded EXCEPT ![p] = names]
        /\ UNCHANGED <<cmd, mine>>
  /\ UNCHANGED <<nm, pending, clock, bounds, history>>

RollbackAp(p) ==
  /\ pc[p] = "rb_ap"
  /\ DisconnectAp
  /\ GoTo(p, "rb_delete")
  /\ UNCHANGED <<pending, clock, bounds, history>>

RollbackDelete(p) ==
  /\ pc[p] = "rb_delete"
  /\ \/ ~loaded[p].set /\ End(p) /\ UNCHANGED nm
     \/ /\ loaded[p].set
        /\ IF loaded[p].trial \notin {"none", loaded[p].previous}
           THEN Delete(loaded[p].trial)
           ELSE UNCHANGED nm
        /\ GoTo(p, "rb_up")
  /\ UNCHANGED <<pending, clock, bounds, history>>

\* Mutant of RollbackUp: with no connection to bring up, it returns at once.
RollbackUpReturns(p) ==
  /\ pc[p] = "rb_up"
  /\ \/ loaded[p].previous = "none" /\ Resolved(p, loaded[p]) /\ UNCHANGED nm
     \/ /\ loaded[p].previous \in saved
        /\ active' = loaded[p].previous
        /\ GoTo(p, "rb_clear")
        /\ UNCHANGED saved
  /\ UNCHANGED <<pending, clock, bounds, history>>

\* A connection that does not come up ends the process, the file stays.
RollbackUp(p) ==
  /\ pc[p] = "rb_up"
  /\ LET previous == loaded[p].previous
     IN \/ previous = "none" /\ GoTo(p, "rb_clear") /\ UNCHANGED <<nm, upFailed>>
        \/ /\ previous \in saved
           /\ active' = previous
           /\ GoTo(p, "rb_clear")
           /\ UNCHANGED <<saved, upFailed>>
        \/ /\ previous # "none"
           /\ active' \in {active, "none"}
           /\ upFailed' = TRUE
           /\ End(p)
           /\ UNCHANGED saved
  /\ UNCHANGED <<pending, clock, bounds, applied>>

RollbackClear(p) ==
  /\ pc[p] = "rb_clear"
  /\ pending' = NoPending
  /\ Resolved(p, loaded[p])
  /\ UNCHANGED <<nm, clock, bounds, history>>

-----------------------------------------------------------------------------
(***************************************************************************)
(* reset_client_cmd, start_ap_cmd and apply_client_cmd.                    *)
(***************************************************************************)
\* Mutant of Previous: it looks at the connections only.
PreviousIsActive(p) == IF ClientConnected THEN {active, "none"} ELSE {"none"}

\* The connection a trial goes back to: for apply-client, the one the pending
\* trial goes back to, if there is one; else the active one, which reads as
\* empty when nmcli fails to list it.
Previous(p) ==
  IF cmd[p] = "apply" /\ pending.stage # "none"
  THEN {names.previous : names \in {n \in LoadedNames(p) : n.set}}
  ELSE IF ClientConnected THEN {active, "none"} ELSE {"none"}

\* Is the trial written down?  Always with a way back, and without one where
\* the hotspot (apply-client) or a connection (reset-client) reads as active.
Recorded(p, previous) ==
  {previous # "none",
   previous # "none" \/ (IF cmd[p] = "apply" THEN ApActive ELSE ClientConnected)}

\* apply-client finds a file without the name it reads.
LookDies(p) ==
  /\ cmd[p] = "apply" /\ pending.stage = "opened" /\ ~loaded[p].set
  /\ End(p)
  /\ UNCHANGED <<trials, applied>>

LooksAt(p, previous, recorded) ==
  /\ trials < MaxTrials
  /\ trials' = trials + 1
  /\ mine' = [mine EXCEPT ![p].previous = previous, ![p].number = trials + 1]
  /\ pc' = [pc EXCEPT ![p] =
       IF recorded THEN "open" ELSE IF cmd[p] = "reset" THEN "drop" ELSE "replace"]
  /\ loaded' = [loaded EXCEPT ![p] = NoNames]
  /\ applied' = IF applied = mine[p].trial THEN "none" ELSE applied
  /\ UNCHANGED cmd

\* The reads of the file and of the connections, and the deadline.
Look(p) ==
  /\ pc[p] = "look"
  /\ \/ LookDies(p)
     \/ \E previous \in Previous(p) : \E recorded \in Recorded(p, previous) :
          LooksAt(p, previous, recorded)
  /\ UNCHANGED <<nm, pending, asleep, expired, bounds, upFailed>>

\* write_pending: the file is truncated, and then written line by line.
Entry(p, stage) ==
  [stage |-> stage, previous |-> mine[p].previous, trial |-> mine[p].trial,
   number |-> mine[p].number, sameBoot |-> TRUE]

Open(p) ==
  /\ pc[p] = "open"
  /\ pending' = Entry(p, "opened")
  /\ GoTo(p, "write")
  /\ UNCHANGED <<nm, clock, bounds, history>>

Write(p) ==
  /\ pc[p] = "write"
  /\ pending' = Entry(p, "whole")
  /\ GoTo(p, "arm")
  /\ UNCHANGED <<nm, clock, bounds, history>>

\* arm_rollback_timer, which does nothing once the file is gone.
Arm(p) ==
  /\ pc[p] = "arm"
  /\ asleep' = IF pending.stage = "none" THEN asleep ELSE asleep \cup {mine[p].number}
  /\ GoTo(p, IF cmd[p] = "apply" THEN "replace" ELSE "hotspot")
  /\ UNCHANGED <<nm, pending, trials, expired, bounds, history>>

\* clear_pending before the hotspot: start-ap, and reset-client with no client.
Drop(p) ==
  /\ pc[p] = "drop"
  /\ pending' = NoPending
  /\ GoTo(p, "hotspot")
  /\ UNCHANGED <<nm, clock, bounds, history>>

Hotspot(p) ==
  /\ pc[p] = "hotspot"
  /\ active' \in {"ap", active}
  /\ End(p)
  /\ UNCHANGED <<saved, pending, clock, bounds, history>>

\* The connection of the network's name goes before the new one is made.
Replace(p) ==
  /\ pc[p] = "replace"
  /\ Delete(mine[p].trial)
  /\ GoTo(p, "connect")
  /\ UNCHANGED <<pending, clock, bounds, history>>

\* Mutant of Connect: the failure of nmcli is passed over.
ConnectGoesOn(p) ==
  /\ pc[p] = "connect"
  /\ saved' \in {saved \cup {mine[p].trial}, saved \ {mine[p].trial}}
  /\ active' = IF mine[p].trial \in saved' THEN mine[p].trial ELSE "none"
  /\ applied' = "none"
  /\ GoTo(p, "ap_down")
  /\ UNCHANGED <<pending, clock, bounds, upFailed>>

\* nmcli device wifi connect.  What a failure leaves behind does not come up.
Connect(p) ==
  /\ pc[p] = "connect"
  /\ LET network == mine[p].trial
     IN \/ /\ saved' = saved \cup {network}
           /\ active' = network
           /\ applied' = "none"
           /\ GoTo(p, "ap_down")
        \/ /\ saved' \in {saved, saved \ {network}}
           /\ active' \in {active, "none"} \ (Connections \ saved')
           /\ End(p)
           /\ UNCHANGED applied
  /\ UNCHANGED <<pending, clock, bounds, upFailed>>

ApDown(p) ==
  /\ pc[p] = "ap_down"
  /\ DisconnectAp
  /\ GoTo(p, "retire")
  /\ UNCHANGED <<pending, clock, bounds, history>>

\* The connection before goes, unless it has the new one's name.
Retire(p) ==
  /\ pc[p] = "retire"
  /\ IF mine[p].previous \notin {"none", mine[p].trial}
     THEN Delete(mine[p].previous)
     ELSE UNCHANGED nm
  /\ GoTo(p, "commit")
  /\ UNCHANGED <<pending, clock, bounds, history>>

\* Mutant of Commit: the file stays.
CommitKeepsPending(p) ==
  /\ pc[p] = "commit"
  /\ applied' = mine[p].trial
  /\ End(p)
  /\ UNCHANGED <<nm, pending, clock, bounds, upFailed>>

Commit(p) ==
  /\ pc[p] = "commit"
  /\ pending' = NoPending
  /\ applied' = mine[p].trial
  /\ End(p)
  /\ UNCHANGED <<nm, clock, bounds, upFailed>>

-----------------------------------------------------------------------------
\* The service stops, and with it everything in its control group; a reboot
\* leaves no connection up either.
Stop(reboot) ==
  /\ stops < MaxStops
  /\ stops' = stops + 1
  /\ pc' = [p \in Processes |-> "idle"]
  /\ cmd' = [p \in Processes |-> "none"]
  /\ mine' = [p \in Processes |-> NoTrial]
  /\ loaded' = [p \in Processes |-> NoNames]
  /\ asleep' = {}
  /\ IF reboot
     THEN /\ active' = "none"
          /\ pending' = [pending EXCEPT !.sameBoot = (pending.stage = "none")]
     ELSE UNCHANGED <<active, pending>>
  /\ UNCHANGED <<saved, trials, expired, calls, history>>

Step(p) ==
  \/ Resolve(p)
  \/ RollbackLoad(p) \/ RollbackAp(p) \/ RollbackDelete(p)
  \/ RollbackUp(p) \/ RollbackClear(p)
  \/ Look(p) \/ Open(p) \/ Write(p) \/ Arm(p)
  \/ Drop(p) \/ Hotspot(p)
  \/ Replace(p) \/ Connect(p) \/ ApDown(p) \/ Retire(p) \/ Commit(p)

\* The model ends where two processes work at once: no lock keeps them apart,
\* and from there on the script promises nothing.
Next ==
  /\ ~raced
  /\ \/ \E p \in Processes : Step(p)
     \/ \E c \in Callers : \E command \in Commands[c], n \in Networks : Begin(c, command, n)
     \/ \E k \in Timers : Fire(k)
     \/ Expire
     \/ Autoconnect
     \/ Outage
     \/ \E reboot \in BOOLEAN : Stop(reboot)
  /\ raced' = Overlap'

\* A process that runs goes on, and a shell that sleeps wakes up.
Alone == ~raced /\ raced' = Overlap'

Fairness ==
  /\ \A p \in Processes : WF_vars(Step(p) /\ Alone)
  /\ \A k \in Timers : WF_vars(Fire(k) /\ Alone)

Spec == Init /\ [][Next]_vars /\ Fairness

-----------------------------------------------------------------------------
\* The last working connection is taken away by nothing but a trial of a network
\* that has a connection of the same name: no failed trial of any other one, no
\* rollback of one, no shell that outlived its trial and no reboot leave the box
\* without a connection to come back to (epic 4's "restores the prior working
\* client configuration"), unless two processes have been at work at once.  The
\* network of the same name may be another one: its trial takes the connection's
\* place, and the rollback has nothing to go back to.
LastNetworkKept ==
  [][saved # {} /\ saved' = {} =>
       \/ raced'
       \/ \E p \in Processes :
            \/ pc[p] \in {"replace", "connect"} /\ saved = {mine[p].trial}
            \/ pc[p] = "rb_delete" /\ saved = {loaded[p].trial}]_vars

\* A network that is tried on top of a pending trial goes back to what that trial
\* goes back to: the connection of the trial itself, up or failed, does not take
\* its place.  reset-client does put it there: it writes down what is active.
PriorRemembered ==
  [][pending.stage = "whole" /\ pending'.stage = "opened"
       => \/ pending'.previous = pending.previous
          \/ raced'
          \/ \E p \in Processes : pc[p] = "open" /\ cmd[p] = "reset"]_vars

\* An apply that answered is final: no shell still asleep, no later command, no
\* stop and no reboot undoes it, unless two processes have been at work at once,
\* or a network with a connection of its name is tried (see "applied").
AppliedStays == applied # "none" => applied \in saved \/ raced

\* A trial whose deadline has passed does not stay pending, even if no command
\* is given any more.  Excused: a rollback whose connection did not come up,
\* and a stop, which takes the sleeping shell with it (systemd ends the control
\* group): then the trial waits for the next command.
DueTrialEnds ==
  pending.stage = "whole" /\ pending.number <= expired
    ~> pending.number > expired \/ pending.stage = "none" \/ raced \/ upFailed \/ stops > 0
=============================================================================
