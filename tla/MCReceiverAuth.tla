-------------------------- MODULE MCReceiverAuth --------------------------
(***************************************************************************)
(* ReceiverAuth with the health monitor's thread, which only polls, and    *)
(* one HTTP thread that serves every request of the operator pages; and    *)
(* with two HTTP threads that each serve a browser's POST /auth/start.     *)
(***************************************************************************)
EXTENDS ReceiverAuth, TLC

CONSTANTS health, web, web2, w1, w2

BothCallers == {health, web}
BothBrowsers == {web, web2}
TwoWorkers == {w1, w2}

PollAndServe == (health :> {"poll"}) @@ (web :> {"poll", "get", "start"})

BothStart == [c \in BothBrowsers |-> {"start"}]

=============================================================================
