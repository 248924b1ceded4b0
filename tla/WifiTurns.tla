----------------------------- MODULE WifiTurns -----------------------------
(***************************************************************************)
(* WifiHelper, watched for commands that run from their start to their end *)
(* with nothing in between: no other process, no network that comes or     *)
(* goes, no deadline that passes and no kill.  Each of them has one of the *)
(* effects that WifiCommands gives it as one step.                         *)
(***************************************************************************)
EXTENDS WifiHelper, WifiCommands

VARIABLES
  before,     \* history: the connections when the latest command began
  runner,     \* history: the process that runs it
  inTurn      \* history: has nothing come in between?

turnVars == <<vars, before, runner, inTurn>>

\* The connections, as WifiCommands has them.
Now ==
  [saved |-> saved # {},
   active |-> IF ClientConnected THEN "client" ELSE active,
   trial |-> IF pending.stage # "whole" THEN "none"
             ELSE IF pending.previous # "none" THEN "client" ELSE "nothing",
   due |-> pending.stage = "whole" /\ Due]

Begins(p) == pc[p] = "idle" /\ pc'[p] # "idle"
Ends(p) == Step(p) /\ pc'[p] = "idle"

\* The process ends in resolve_pending_trial, or in its rollback.
DiesEarly(p) ==
  \/ pc[p] = "resolve" /\ pending.stage = "opened"
  \/ pc[p] \in {"rb_delete", "rb_up"}

\* What a command that began on these connections may leave, once it is done.
Done(command, links) ==
  CASE command = "status" -> Settled(links)
    [] command = "start_ap" -> ApStarted(links)
    [] command = "reset" -> ClientReset(links)
    [] command = "apply" -> ClientApplied(links)
    [] command = "rollback" -> RolledBack(links)

\* And once it has failed: rollback-pending asks for no deadline.
Undone(command, links) == IF command = "rollback" THEN Stuck(links) ELSE Failed(links)

TurnInit ==
  /\ Init
  /\ before = Now /\ runner \in Processes /\ inTurn = FALSE

TurnNext ==
  /\ Next
  /\ \/ \E p \in Processes :
          /\ Begins(p)
          /\ runner' = p /\ before' = Now
          /\ inTurn' = (\A q \in Processes : pc[q] = "idle")
     \/ /\ \A p \in Processes : ~Begins(p)
        /\ inTurn' = (inTurn /\ Step(runner) /\ ~Ends(runner))
        /\ UNCHANGED <<before, runner>>

TurnSpec == TurnInit /\ [][TurnNext]_turnVars

-----------------------------------------------------------------------------
\* A command that runs by itself has one of the effects that Boot gives it in one
\* step: a rollback that went through or failed, the hotspot up or not, the network
\* joined or its trial left pending with the right way back, whatever trial, of this
\* boot or another, it found.
CommandsAreSteps ==
  [][inTurn /\ Ends(runner)
       => Now' \in IF DiesEarly(runner) THEN Undone(cmd[runner], before)
                   ELSE Done(cmd[runner], before)]_turnVars

=============================================================================
