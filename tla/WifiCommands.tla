---------------------------- MODULE WifiCommands ----------------------------
(***************************************************************************)
(* What a command of jukebox-wifi-helper.sh does to the connections when   *)
(* nothing comes in between, as sets of the outcomes it may have.  Boot    *)
(* takes a command for one such step; WifiTurns sets WifiHelper's steps    *)
(* against them.  "client" stands for any client network, and "nothing" is *)
(* what a trial goes back to that was begun on the hotspot alone.          *)
(***************************************************************************)

\* Is there a client connection, which one is active, what does the pending trial
\* go back to, and is its deadline over, or was it begun in another boot?
Links == [saved : BOOLEAN, active : {"none", "client", "ap"},
          trial : {"none", "client", "nothing"}, due : BOOLEAN]

OnNetwork == [saved |-> TRUE, active |-> "client", trial |-> "none", due |-> FALSE]

\* clear_pending.
Forget(links) == [links EXCEPT !.trial = "none", !.due = FALSE]

\* The hotspot is taken down and a connection deleted, which may be the last one and
\* may be up: nothing says that nmcli succeeds in either.
Cut(links) ==
  {cut \in [saved : {links.saved, FALSE}, active : {links.active, "none"},
            trial : {links.trial}, due : {links.due}] :
     cut.active = "client" => cut.saved}

\* rollback_pending: the trial's own connection goes, the one before comes up.
RolledBack(links) ==
  CASE links.trial = "client" -> IF links.saved THEN {OnNetwork} ELSE {}
    [] links.trial = "nothing" -> Cut(Forget(links))
    [] links.trial = "none" -> {links}

\* It fails where the connection before does not come up.
Stuck(links) == IF links.trial = "client" THEN Cut(links) ELSE {}

\* What resolve_pending_trial, with which each command begins, may leave.
Settled(links) == IF links.due THEN RolledBack(links) ELSE {links}

\* The command ends before it has done what it is for: there is no NetworkManager,
\* the file of the trial lacks a line, or there is no way back.
Failed(links) == {links} \cup (IF links.due THEN Stuck(links) ELSE {})

\* start_ap_connection, which may fail.
HotspotFrom(links) == {[links EXCEPT !.active = up] : up \in {"ap", links.active}}

\* start-ap: a pending trial is forgotten.
ApStarted(links) == UNION {HotspotFrom(Forget(settled)) : settled \in Settled(links)}

\* reset-client: a trial of the hotspot, if a connection is active.  One that reads as
\* inactive, or as nameless, is not gone back to.
ResetTrials(settled) ==
  {[Forget(settled) EXCEPT !.trial = back] :
     back \in IF settled.active = "client" THEN {"client", "nothing", "none"} ELSE {"none"}}

ClientReset(links) ==
  UNION {HotspotFrom(reset) : reset \in UNION {ResetTrials(settled) : settled \in Settled(links)}}

\* apply-client: what the trial of a network goes back to, which is what the pending
\* trial does, if there is one, and else what reads as active.
Back(settled) ==
  CASE settled.trial # "none" -> {settled.trial}
    [] settled.trial = "none" /\ settled.active = "client" -> {"client", "none"}
    [] settled.trial = "none" /\ settled.active = "ap" -> {"nothing", "none"}
    [] settled.trial = "none" /\ settled.active = "none" -> {"none"}

\* The trial of a network that does not come up.
LeftPending(settled) ==
  UNION {Cut([settled EXCEPT !.trial = back]) : back \in Back(settled)}

Tried(settled) == {OnNetwork} \cup LeftPending(settled)

ClientApplied(links) == UNION {Tried(settled) : settled \in Settled(links)}

=============================================================================
