------------------------- MODULE MCOperatorStore -------------------------
(***************************************************************************)
(* OperatorStore on two threads, with the calls the program makes from the *)
(* scan loop (main) and from the health monitor and the HTTP handlers      *)
(* (side).                                                                 *)
(***************************************************************************)
EXTENDS OperatorStore, TLC

CONSTANTS main, side

TwoThreads == {main, side}

ScanLoopCalls ==
  {[op |-> "load"], [op |-> "set_mode", mode |-> "queue_tracks"],
   [op |-> "mark_setup", requested |-> TRUE, wifi |-> "setup_ap"],
   [op |-> "mark_setup", requested |-> FALSE, wifi |-> "client"],
   [op |-> "mark_reauth", requested |-> TRUE]}

SideCalls ==
  {[op |-> "load"], [op |-> "mark_started"],
   [op |-> "mark_reauth", requested |-> TRUE],
   [op |-> "mark_reauth", requested |-> FALSE]}

ProgramCalls == (main :> ScanLoopCalls) @@ (side :> SideCalls)

=============================================================================
