-------------------------------- MODULE Boot --------------------------------
(***************************************************************************)
(* The service from its start to its end: main.py's main(), build_runtime, *)
(* SetupModeManager.initialize, and what outlives a run, which is the file *)
(* of operator flags, the Wi-Fi connections and the pending trial.  systemd*)
(* starts the service again unless it ended with 0 or 2; a kill or a reboot*)
(* may come at any time.                                                   *)
(*                                                                         *)
(* A command of the Wi-Fi helper is one step here, with the outcomes that  *)
(* WifiCommands gives it; WifiHelper has its steps.  Of the requests that  *)
(* the services handle once they run, those are here that change the flags *)
(* or the connections.  Nothing else runs before the operator server does. *)
(***************************************************************************)
EXTENDS OperatorState, Config, WifiCommands

CONSTANTS
  Environments,   \* what jukebox.env may hold when the service is started
  MaxStops,       \* how often the service is killed or the box reboots
  MaxDeeds        \* how many cards and browser requests the operator tries

ASSUME EnvironmentsAssumption ==
  Environments # {} /\ \A env \in Environments : DOMAIN env = Keys
ASSUME BoundsAssumption == MaxStops \in Nat /\ MaxDeeds \in Nat

VARIABLES
  pc,         \* where main() is
  code,       \* the exit status of the latest run, "none" after a reboot
  settings,   \* the settings of this run, as far as the boot reads them
  services,   \* the services that were started and run
  file,       \* the operator state
  saved,      \* is there a client connection?
  active,     \* the active connection
  trial,      \* what the pending trial goes back to
  due,        \* is its deadline over, or was it begun in another boot?
  timers,     \* how many background shells sleep until they roll back
  waited,     \* the seconds since initialize() set its deadline
  failed,     \* history: has initialize() given up, or left Wi-Fi alone?
  inTime,     \* history: has the network come up within the grace, and stayed?
  missed,     \* history: has this boot been told that a connection is not there?
  joined,     \* history: has a browser joined a network, and no card reset it since?
  stops,
  deeds

run == <<pc, code, settings, services>>
wifi == <<saved, active, trial, due, timers>>
history == <<failed, inTime, missed, joined>>
bounds == <<stops, deeds>>
vars == <<run, file, wifi, waited, history, bounds>>

\* The settings that decide how a boot goes.
Relevant == {"environment", "playback_backend", "input_backend", "scanner_device",
             "spotify_client_id", "spotify_client_secret", "spotify_refresh_token",
             "setup_fallback_grace_seconds"}

Starting == {"probe", "initialize", "look", "grace", "poll", "hotspot", "mark"}
Serving == {"server", "idle", "health", "scan", "reset"}

\* No run: the settings are those a run without variables would have.
NoSettings == [key \in Relevant |-> DefaultSettings[key]]

\* What main() makes of an environment: the settings of a run, or a ConfigError.
Outcome(env) ==
  LET read == FromEnv(env)
  IN IF Accepted(read) THEN [key \in Relevant |-> read[key]] ELSE Invalid

Outcomes == {Outcome(env) : env \in Environments}

TypeOK ==
  /\ pc \in Starting \cup Serving \cup {"off", "leave"}
  /\ code \in {"none", "0", "1", "2", "130"}
  /\ settings \in {NoSettings} \cup (Outcomes \ {Invalid})
  /\ services \subseteq {"server", "idle", "health"}
  /\ services # {} => pc \in Serving \cup {"leave"}
  /\ file \in OperatorState
  /\ saved \in BOOLEAN
  /\ active \in {"none", "client", "ap"}
  /\ trial \in {"none", "client", "nothing"}
  /\ due \in BOOLEAN
  /\ timers \in 0..deeds
  /\ timers > 0 => pc \in Serving \cup {"leave"}
  /\ waited \in Nat
  /\ {failed, inTime, missed, joined} \subseteq BOOLEAN
  /\ stops \in 0..MaxStops /\ deeds \in 0..MaxDeeds

\* A box that was just switched on, with a network or with none.
Init ==
  /\ pc = "off" /\ code = "none"
  /\ settings = NoSettings /\ services = {}
  /\ file = Defaults
  /\ saved \in BOOLEAN
  /\ active = "none" /\ trial = "none" /\ due = FALSE /\ timers = 0
  /\ waited = 0
  /\ failed = FALSE /\ inTime = FALSE /\ missed = FALSE /\ joined = FALSE
  /\ stops = 0 /\ deeds = 0

-----------------------------------------------------------------------------
(***************************************************************************)
(* The commands of the Wi-Fi helper.                                       *)
(***************************************************************************)
Here == [saved |-> saved, active |-> active, trial |-> trial, due |-> due]

Becomes(links) ==
  saved' = links.saved /\ active' = links.active /\ trial' = links.trial /\ due' = links.due

HelperFails == (\E links \in Failed(Here) : Becomes(links)) /\ UNCHANGED timers

\* status: the flags it reports are those it leaves, or show no connection where
\* nmcli fails to list them.
Status == (\E links \in Settled(Here) : Becomes(links)) /\ UNCHANGED timers

\* has_client_config, which ignores the connection of the trial that is pending.
HasClientConfig == {saved'} \cup (IF trial' # "none" THEN {FALSE} ELSE {})

StartAp == (\E links \in ApStarted(Here) : Becomes(links)) /\ UNCHANGED timers

\* A trial has a background shell, if it is written down.
ResetClient ==
  /\ \E links \in ClientReset(Here) : Becomes(links)
  /\ timers' = IF trial' # "none" THEN timers + 1 ELSE timers

\* A pending trial without a way back is written down again only if the access
\* point reads as active.
Shells(settled, back) ==
  IF back = "none" THEN {0}
  ELSE IF back = "client" \/ settled.trial = "none" THEN {1}
  ELSE IF settled.active = "ap" THEN {0, 1} ELSE {0}

ApplyClient ==
  \E settled \in Settled(Here) : \E back \in Back(settled) : \E shells \in Shells(settled, back) :
    /\ \E links \in {OnNetwork} \cup Cut([settled EXCEPT !.trial = back]) : Becomes(links)
    /\ timers' = timers + shells

-----------------------------------------------------------------------------
(***************************************************************************)
(* A start, up to the operator server.                                     *)
(***************************************************************************)
\* Mutant of End: a way out that leaves the services running.
EndLeavesServices(status) ==
  /\ pc' = "off"
  /\ code' = status
  /\ settings' = NoSettings
  /\ UNCHANGED services

\* The run ends, and with it all that the service has started.
End(status) ==
  /\ pc' = "off"
  /\ code' = status
  /\ settings' = NoSettings
  /\ services' = {}

\* What _build_input_backend and _build_playback_backend assert.
AssertionsHold(s) ==
  /\ s.input_backend = Word("evdev") => s.scanner_device # None
  /\ s.playback_backend = Word("spotify") =>
       None \notin {s.spotify_client_id, s.spotify_client_secret, s.spotify_refresh_token}

\* systemd starts the service, and main() reads its configuration.
Start(outcome) ==
  /\ pc = "off" /\ code \notin {"0", "2"}
  /\ \/ outcome = Invalid /\ End("2")
     \/ /\ outcome # Invalid
        /\ pc' = "probe"
        /\ code' = "none"
        /\ settings' = outcome
        /\ UNCHANGED services
  /\ UNCHANGED <<file, wifi, waited, history, bounds>>

\* The adapters are built and the backend is probed.  Credentials that Spotify
\* rejects are a StartupError; any other exception ends the service as well.
Probe ==
  /\ pc = "probe"
  /\ \/ /\ ~AssertionsHold(settings) \/ settings.playback_backend = Word("spotify")
        /\ End("1")
     \/ /\ AssertionsHold(settings)
        /\ pc' = "initialize"
        /\ UNCHANGED <<code, settings, services>>
  /\ UNCHANGED <<file, wifi, waited, history, bounds>>

\* initialize(): the flags decide first.  load() writes back what it reads, and
\* ends main() if it cannot.
Initialize ==
  /\ pc = "initialize"
  /\ \/ /\ pc' = IF file.reauth THEN "server" ELSE IF file.setup THEN "hotspot" ELSE "look"
        /\ waited' = 0
        /\ failed' = file.reauth
        /\ inTime' = FALSE /\ missed' = FALSE
        /\ UNCHANGED <<code, settings, services, joined>>
     \/ End("1") /\ UNCHANGED <<waited, history>>
  /\ UNCHANGED <<file, wifi, bounds>>

\* A RuntimeError of initialize() is swallowed: the service goes on without.
GivesUp ==
  /\ pc' = "server"
  /\ failed' = TRUE
  /\ UNCHANGED <<code, settings, services, file, inTime, missed, joined>>

\* The rollback of a trial may have taken the network away again.  A look is blind
\* if it shows no connection where there is one.
GoesOn(step, blind) ==
  /\ pc' = step
  /\ inTime' = (inTime /\ active' = "client")
  /\ missed' = (missed \/ blind)
  /\ UNCHANGED <<code, settings, services, file, failed, joined>>

\* The box is on its network, and the state file is written, or cannot be: only a
\* RuntimeError is swallowed.
Joins ==
  /\ active' = "client"
  /\ \/ /\ file' = MarkSetupRequested(file, FALSE, "client")
        /\ pc' = "server"
        /\ UNCHANGED <<code, settings, services>>
     \/ End("1") /\ UNCHANGED file
  /\ UNCHANGED history

\* The first look at the network.
Look ==
  /\ pc = "look"
  /\ \/ HelperFails /\ GivesUp
     \/ Status /\ GoesOn("hotspot", FALSE \notin HasClientConfig)
     \/ Status /\ TRUE \in HasClientConfig /\ Joins
     \/ Status /\ TRUE \in HasClientConfig /\ GoesOn("grace", active' = "client")
  /\ UNCHANGED <<waited, bounds>>

\* Has the grace period time left?  Not with NaN, and always without an end.
Within(seconds) ==
  LET grace == settings.setup_fallback_grace_seconds
  IN grace.form = "infinite" \/ (grace.form = "number" /\ 4 * seconds < grace.quarters)

InGrace == Within(waited)

\* Mutant of Grace: when the time is over, nobody looks again.
GraceWithoutLastLook ==
  /\ pc = "grace"
  /\ UNCHANGED <<wifi, bounds>>
  /\ waited' = IF settings.setup_fallback_grace_seconds.form = "number" THEN waited + 1 ELSE waited
  /\ GoesOn(IF Within(waited') THEN "poll" ELSE "hotspot", FALSE)

\* The loop goes round once more, and sleeps, or the grace period is over.
\* Endless time is not counted.
Grace ==
  /\ pc = "grace"
  /\ UNCHANGED <<wifi, bounds>>
  /\ \/ /\ InGrace
        /\ waited' = IF settings.setup_fallback_grace_seconds.form = "number"
                     THEN waited + 1 ELSE waited
        /\ GoesOn("poll", FALSE)
     \/ /\ ~InGrace
        /\ GoesOn("hotspot", FALSE)
        /\ UNCHANGED waited

\* Mutant of Poll: an access point that is found is not remembered.
PollForgetsAp ==
  /\ pc = "poll"
  /\ \/ HelperFails /\ GivesUp
     \/ Status /\ Joins
     \/ Status /\ active' = "ap" /\ GoesOn("server", FALSE)
     \/ Status /\ GoesOn("grace", active' # "none")
  /\ UNCHANGED <<waited, bounds>>

\* The look after each sleep, which finds the access point of a run that was
\* killed before it was remembered, too.
Poll ==
  /\ pc = "poll"
  /\ \/ HelperFails /\ GivesUp
     \/ Status /\ Joins
     \/ Status /\ active' = "ap" /\ GoesOn("mark", FALSE)
     \/ Status /\ GoesOn("grace", active' # "none")
  /\ UNCHANGED <<waited, bounds>>

\* Mutant of Hotspot: it does not look whether the access point came up.
HotspotUnchecked ==
  /\ pc = "hotspot"
  /\ \/ HelperFails /\ GivesUp
     \/ StartAp /\ GoesOn("mark", FALSE)
  /\ UNCHANGED <<waited, bounds>>

\* _enter_setup_mode.
Hotspot ==
  /\ pc = "hotspot"
  /\ \/ HelperFails /\ GivesUp
     \/ StartAp /\ active' # "ap" /\ GivesUp
     \/ StartAp /\ active' = "ap" /\ GoesOn("mark", FALSE)
  /\ UNCHANGED <<waited, bounds>>

\* Setup mode is remembered.
Mark ==
  /\ pc = "mark"
  /\ \/ /\ file' = MarkSetupRequested(file, TRUE, "setup_ap")
        /\ pc' = "server"
        /\ UNCHANGED <<code, settings, services>>
     \/ End("1") /\ UNCHANGED file
  /\ UNCHANGED <<wifi, waited, history, bounds>>

-----------------------------------------------------------------------------
(***************************************************************************)
(* The services, and what they do once they run.                           *)
(***************************************************************************)
\* main() is through with the run: the finally clause is next.
Leaves(status) ==
  /\ pc' = "leave"
  /\ code' = status
  /\ UNCHANGED <<settings, services>>

\* A port that is taken ends the service in production only.
StartServer ==
  /\ pc = "server"
  /\ \/ /\ services' = services \cup {"server"}
        /\ pc' = "idle"
        /\ UNCHANGED <<code, settings>>
     \/ settings.environment = Word("production") /\ Leaves("1")
     \/ /\ settings.environment # Word("production")
        /\ pc' = "idle"
        /\ UNCHANGED <<code, settings, services>>
  /\ missed' = FALSE
  /\ UNCHANGED <<file, wifi, waited, failed, inTime, joined, bounds>>

StartIdle ==
  /\ pc = "idle"
  /\ services' = services \cup {"idle"}
  /\ pc' = "health"
  /\ UNCHANGED <<code, settings, file, wifi, waited, history, bounds>>

\* setup_status: a requested re-authentication is brought up to date, and then
\* the flags decide, or the helper is asked.
Reconciled ==
  IF ~file.reauth THEN {file}
  ELSE {file, MarkReauthStarted(file)}
         \cup (IF file.started THEN {MarkReauthRequested(file, FALSE)} ELSE {})

Decided(f) == f.reauth \/ f.setup \/ f.wifi = "setup_ap"

SetupStatus ==
  /\ file' \in Reconciled
  /\ IF Decided(file') THEN UNCHANGED wifi ELSE Status

\* It raises what the helper or the state file raises.
SetupStatusFails ==
  \/ file' \in Reconciled /\ ~Decided(file') /\ HelperFails
  \/ file' \in Reconciled /\ UNCHANGED wifi

\* The health monitor's start polls once in main's thread, and what the poll
\* raises ends the service.
FirstPoll ==
  /\ pc = "health"
  /\ \/ /\ SetupStatus
        /\ services' = services \cup {"health"}
        /\ pc' = "scan"
        /\ UNCHANGED <<code, settings>>
     \/ SetupStatusFails /\ Leaves("1")
  /\ UNCHANGED <<waited, history, bounds>>

\* A poll of the health monitor, whose thread ends with what it raises, or
\* /status.json, where only the request ends.
StatusAsked(service) ==
  /\ service \in services
  /\ \/ SetupStatus /\ UNCHANGED services
     \/ SetupStatusFails /\ services' = services \ ({service} \cap {"health"})
  /\ UNCHANGED <<pc, code, settings, waited, history, bounds>>

\* The setup page joins a network.
ApplyRequest ==
  /\ "server" \in services
  /\ deeds < MaxDeeds /\ deeds' = deeds + 1
  /\ \/ ApplyClient /\ joined' = (joined \/ (active' = "client" /\ trial' = "none"))
     \/ HelperFails /\ UNCHANGED joined
  /\ UNCHANGED <<run, file, waited, failed, inTime, missed, stops>>

\* The page that starts a re-authentication, whose helper may fail.
StartAuth ==
  /\ "server" \in services
  /\ LET requested == MarkReauthRequested(file, TRUE)
         started == MarkReauthStarted(requested)
     IN file' \in {requested, started, MarkReauthRequested(started, FALSE)}
  /\ UNCHANGED <<run, wifi, waited, history, bounds>>

\* The reset card.
ResetCard ==
  /\ pc = "scan"
  /\ deeds < MaxDeeds /\ deeds' = deeds + 1
  /\ \/ HelperFails /\ UNCHANGED <<pc, joined>>
     \/ ResetClient /\ active' # "ap" /\ UNCHANGED <<pc, joined>>
     \/ ResetClient /\ active' = "ap" /\ pc' = "reset" /\ joined' = FALSE
  /\ UNCHANGED <<code, settings, services, file, waited, failed, inTime, missed, stops>>

\* The state file is written, or cannot be, which ends main().
MarkReset ==
  /\ pc = "reset"
  /\ \/ /\ file' = MarkSetupRequested(file, TRUE, "setup_ap")
        /\ pc' = "scan"
        /\ UNCHANGED <<code, settings, services>>
     \/ Leaves("1") /\ UNCHANGED file
  /\ UNCHANGED <<wifi, waited, history, bounds>>

ReauthCard ==
  /\ pc = "scan"
  /\ \/ file' = MarkReauthRequested(file, TRUE) /\ UNCHANGED run
     \/ Leaves("1") /\ UNCHANGED file
  /\ UNCHANGED <<wifi, waited, history, bounds>>

\* The scanner's file never ends, the standard input does.
Eof ==
  /\ pc = "scan" /\ settings.input_backend = Word("stdin")
  /\ Leaves("0")
  /\ UNCHANGED <<file, wifi, waited, history, bounds>>

Interrupt ==
  /\ pc \in Serving
  /\ Leaves("130")
  /\ UNCHANGED <<file, wifi, waited, history, bounds>>

\* The finally clause stops the health monitor and then the services, the latest
\* first.  The shells that sleep end with the service.
Leave ==
  /\ pc = "leave"
  /\ \/ /\ \E service \in services :
             /\ service = "idle" => "health" \notin services
             /\ service = "server" => services = {"server"}
             /\ services' = services \ {service}
        /\ UNCHANGED <<pc, code, settings, timers>>
     \/ services = {} /\ End(code) /\ timers' = 0
  /\ UNCHANGED <<file, saved, active, trial, due, waited, history, bounds>>

-----------------------------------------------------------------------------
(***************************************************************************)
(* What happens around the service.                                        *)
(***************************************************************************)
\* A background shell wakes up: rollback-pending, which asks for no deadline.
Fire ==
  /\ timers > 0
  /\ timers' = timers - 1
  /\ \E links \in RolledBack(Here) \cup Stuck(Here) : Becomes(links)
  /\ UNCHANGED <<run, file, waited, history, bounds>>

\* The deadline of the trial passes.
Expire ==
  /\ trial # "none" /\ ~due
  /\ due' = TRUE
  /\ UNCHANGED <<run, file, saved, active, trial, timers, waited, history, bounds>>

\* NetworkManager takes up a connection by itself.
Autoconnect ==
  /\ active = "none" /\ saved
  /\ active' = "client"
  /\ inTime' = (pc \in {"grace", "poll"} /\ InGrace)
  /\ UNCHANGED <<run, file, saved, trial, due, timers, waited, failed, missed, joined, bounds>>

\* The network goes out of reach for a while.
Outage ==
  /\ active = "client"
  /\ active' = "none"
  /\ inTime' = FALSE
  /\ UNCHANGED <<run, file, saved, trial, due, timers, waited, failed, missed, joined, bounds>>

\* The service is killed, or the box reboots: no connection is up then, and a
\* trial of another boot is over.
Stop(reboot) ==
  /\ stops < MaxStops
  /\ stops' = stops + 1
  /\ reboot \/ pc # "off"
  /\ End(IF reboot THEN "none" ELSE "1")
  /\ timers' = 0
  /\ active' = IF reboot THEN "none" ELSE active
  /\ due' = IF reboot THEN trial # "none" ELSE due
  /\ UNCHANGED <<file, saved, trial, waited, history, deeds>>

\* What main() does from its start to the first line it waits for.
Boots ==
  \/ Probe \/ Initialize \/ Look \/ Grace \/ Poll \/ Hotspot \/ Mark
  \/ StartServer \/ StartIdle \/ FirstPoll

Next ==
  \/ \E outcome \in Outcomes : Start(outcome)
  \/ Boots
  \/ \E service \in {"health", "server"} : StatusAsked(service)
  \/ ApplyRequest \/ StartAuth
  \/ ResetCard \/ MarkReset \/ ReauthCard
  \/ Eof \/ Interrupt \/ Leave
  \/ Fire \/ Expire \/ Autoconnect \/ Outage
  \/ \E reboot \in BOOLEAN : Stop(reboot)

Spec == Init /\ [][Next]_vars

\* main()'s thread goes on, and the commands it waits for end.
FairSpec == Spec /\ WF_vars(Boots)

-----------------------------------------------------------------------------
\* The box takes up its access point at a boot only if it was left in setup mode,
\* if it has no network but one that is on trial, or if the grace period is over and
\* the network has not come back before that (docs/pi-validation.md:118-120), however
\* the ends of the period, the sleeps and the looks fall.  Excused: a look at which
\* nmcli failed, which the script takes for an answer (lines 109 and 133).
ApOnlyWhenDue ==
  [][pc = "hotspot" /\ active # "ap" /\ active' = "ap"
       => missed \/ (~inTime /\ (file.setup \/ ~saved \/ trial # "none" \/ ~InGrace))]_vars

\* Where the box serves with its access point up, the state file says so: the
\* point is neither left behind by a run that was killed before it had written,
\* nor unknown to the status page.  Excused: an initialize() that gave up, whose
\* helper may have failed after it had raised the point.
SetupRemembered == pc = "scan" /\ active = "ap" => file.setup \/ failed

\* A configuration that from_env accepts passes the assertions of build_runtime.
AcceptedConfigurationBuilds == pc # "off" => AssertionsHold(settings)

\* A boot ends with the box on a network or with its access point up, whatever the
\* network does, unless the helper has failed (which is swallowed, and nothing tries
\* again), a re-authentication was pending or the run has ended.
ReachableAfterBoot ==
  pc = "initialize" /\ ~file.reauth /\ settings.setup_fallback_grace_seconds.form # "infinite"
    ~> active # "none" \/ failed \/ pc = "off"

\* docs/pi-validation.md:119: "Boot the Pi with a saved but unreachable client
\* network and confirm it enters setup AP mode only after the configured fallback
\* grace period elapses."  Here: with the network that the operator has joined
\* through the setup page, and not reset since, and which each look has seen.
SavedNetworkGetsGrace ==
  [][pc = "hotspot" /\ active # "ap" /\ active' = "ap" /\ saved /\ joined /\ ~missed
       => ~InGrace]_vars

=============================================================================
