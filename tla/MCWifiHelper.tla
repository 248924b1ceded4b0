---------------------------- MODULE MCWifiHelper ----------------------------
(***************************************************************************)
(* WifiHelper with three networks, of which two have a name in common; the *)
(* HTTP handlers submit settings, and the main thread boots, resets and    *)
(* asks.                                                                   *)
(***************************************************************************)
EXTENDS WifiHelper, TLC

CONSTANTS web, main, homeNet, home_net, cafeNet, home, cafe

SharedName == (homeNet :> home) @@ (home_net :> home) @@ (cafeNet :> cafe)

TwoCallers == {web, main}
ThreadCommands == [c \in TwoCallers |->
  IF c = web THEN {"apply"} ELSE {"status", "start_ap", "reset"}]
=============================================================================
