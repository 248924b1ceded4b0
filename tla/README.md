# Verification of the jukebox controller

TLA+ models of the jukebox (`src/jukebox`, `scripts/runtime`): a Raspberry Pi
service that reads cards with a barcode scanner and plays what they name on a
Spotify receiver. The modules are checked with TLC on small instances, and the
`*_proofs` modules are proved with TLAPS for every value of the constants.
`PROJECT.json` maps each definition to the source lines it stands for, and lists
the runs, the mutants, the findings, the hazards and the theorems.

## The system

One process, several threads and two helper scripts:

- the **main thread** reads the scanner (`ScanLineReader`, `EvdevScannerInput.readline`)
  and hands each line to `Controller.process_line`, which calls the playback backend
  or the `ActionRouter`, and emits events. Event sinks (log, terminal, feedback
  snapshot, idle monitor) run in the thread that emits;
- the **health monitor's thread** polls the scanner, playback and setup statuses
  every 15 s and emits the worst one when it changes. Its first poll is made by the
  main thread in `start()`. No exception is caught;
- the **idle monitor's thread** polls every second and powers the box off after a
  long idle time;
- the **HTTP threads** of the operator server (one per request) read statuses,
  submit Wi-Fi settings and start the receiver's re-authentication;
- the **auth helper** and the **Wi-Fi helper** are shell scripts run as
  subprocesses; each leaves a process in the background (the worker that waits for
  the approval of `spotifyd authenticate`, the rollback timer).

An exception in the main thread ends the service, and systemd restarts it.
The threads share the operator state file, the scanner adapter (under a lock), the
backend's cached status and token, the fields of the idle monitor and the feedback
snapshot (all without a lock).

### Inventory

| Component | State | Operations | What is hard | What makes it correct |
|---|---|---|---|---|
| `operator_state.py` | a JSON file: mode, setup and re-auth flags | load (which writes back), setters (load, then save) | no lock, truncate-then-write, crashes | a call takes effect at once, an acknowledged request stays, started only if requested |
| re-auth closures of `runtime.py` | the two re-auth flags, the helper's `state.json` | poll, GET auth, POST start, re-auth card | four kinds of callers, each several calls long; restarts | only a fresh success clears, a request is published, one flow at a time |
| auth helper script | `state.json`, its temporary file, workers | start, status, run-worker | a shared temporary file, workers that die | in progress means somebody is at work |
| `core/controller.py`, `deduper.py`, `action_router.py` | two gates, the mode | one scanned line | slow calls, failures, restarts | no replay, retry after failure, actions once, queue only when asked |
| `input_evdev.py` | the stream, the buffer, shift, the status | readline, status | unplugging in mid-scan, lazy open, queue overflow, status from other threads, keys that no table has | a line is one scan of one connection, as printed; a plugged scanner gets opened |
| `runtime_health.py` | the last status emitted | poll | three sources read at three times, a source that raises | what was told last is the truth, in the end |
| `idle_monitor.py` | last activity, setup flag, requested flag | handle, poll | a live look between decision and use | never shut down a box in use; shut down an idle one |
| Wi-Fi helper script | the pending trial, NetworkManager's connections | status, start-ap, apply-client, reset-client, rollback | reboots and failures in mid-trial, timers, networks that share a connection name | the last working network is kept, a due trial ends |
| `setup_mode.py`, `main.py`, `build_runtime` | the setup flag and Wi-Fi mode, the services that run | boot decision, access point, start and stop | a grace period beside a network that comes and goes, kills between two writes, helpers that fail, a first poll in the main thread | the access point comes up when it is due, is remembered, and the box can be reached |
| `playback_spotify.py` | token and expiry, cached status | probe, dispatch, enqueue, stop, next, volume, look | HTTP failures at each step, retries, two threads without a lock, a token that expires, is withdrawn or whose lifetime is misreported | a call shorter than the margin does not lose its token, a success is real, the status is that of the latest call |
| `config.py` | none | `from_env` | kinds of readers, checks between settings, NaN | what it accepts, `build_runtime` can build |
| `operator_server.py`, `feedback_state.py` | the server, a snapshot | requests, events | threads | the page shows the latest state |
| `core/parser.py`, `logging.py`, terminal output, card scripts | none | pure functions, I/O | | |

## The modules

Each component has a module with its state and one action per step of the code; an
`MC…` module gives its constants for TLC; a `…_proofs` module holds theorems.

**`OperatorState`** — the record the file holds and the pure update of each setter.
The members of `enabled_actions` and `schema_version`, which no call changes, are left out.

**`OperatorStore`** — `OperatorStateStore` cut at its accesses to the file: exists,
read, open (truncate), write. A text written over a longer one leaves a tail, which is
no JSON document; so a file has a length. A reading may fail (`OSError`), which `load` takes for a file
with no text. **`AtomicOperatorStore`** is what the callers
take for granted: a call takes effect once between its invocation and its return.
`CallsInTurnAreAtomic` is the refinement (`INSTANCE … WITH`), for as long as calls take turns and nothing disturbs them.

**`AuthHelper`** — the steps of the script on `state.json`, its temporary file and the
workers. `write_state` is two steps; the second fails, and ends the script, if another
process took the temporary file. **`ReceiverAuth`** composes it with the closures of
`build_runtime`, for any set of callers. `pc[c]` is the next call a caller makes; `task[c]`
tells `setup_status` ("poll"), `auth_status` ("get") and `start_auth` ("start") apart.
Calls on the operator state are one step here.

**`DuplicateGate`** and **`Controller`** — `process_line` from a line to the next: gate,
mode, look at the player, backend call or router, gate record. The clock, the player and
restarts run beside it. The log of scans is history.

**`ScannerInput`** — the reader, the threads that call `status()`, and the kernel's
queue. What happens under the adapter's lock is one step. A line is a sequence of
characters that know their connection, scan and position. A key is of one of the kinds that the two key tables
tell apart: a character that both have, a digit that is meant as the sign above it, one that neither has.

**`RuntimeHealth`** and **`IdleShutdown`** — the poll of the health monitor, one step
per source, and the idle monitor that handles its events, with the household's scans,
the player and the time. Times are ages that stop at the timeout.

**`WifiHelper`** — every command of the Wi-Fi helper as a process, one step per access to
NetworkManager or to the file of the pending trial, beside the background shells that sleep until
a trial's deadline. A trial's number stands for its deadline. The script knows a network by its connection's name only, and `NameOf`
may give one name to several networks. `nmcli` may fail at every
step, in a listing too (which then reads as no connection), the service may be stopped, and the box rebooted, between any two. **`WifiCommands`** says what
a whole command leaves behind as one step, as sets of outcomes over four facts: is there a client connection,
which one is active, what does the pending trial go back to, is it due. `Boot` uses it. **`WifiTurns`** watches
`WifiHelper` for commands that nothing comes between, and states that each has one of those outcomes
(`CommandsAreSteps`); `WifiHelper_proofs` proves it.

**`SpotifyBackend`** — every method of the backend on the two threads that call it, one step per
HTTP request, sleep, or write of the token. A token is the time Spotify still honours it, and the
backend's idea of that is `ttl`; the two are written one after the other. `Reports` is what the backend may take for
the token's lifetime, right or wrong: `expires_in`, or 3600 where Spotify gives no integer. **`PlaybackContract`** is what
the callers take for granted: a call ends with an answer of its kind and leaves the status that fits
it. `ImplementsContract` is the refinement.

**`Config`** — `from_env`: the readers by kind, the defaults, and the checks between settings. It
has operators only. **`Boot`** extends it and `OperatorState`: `main()` from its configuration to its
`finally` clause, `build_runtime`, `SetupModeManager.initialize`, the services' starts and
stops, and the requests and cards that change the flags or the connections. `pc` is where the main thread
is. A command of the Wi-Fi helper is one step (`Status`, `StartAp`, …) with the outcomes of `WifiCommands`,
those of its failures included; what happens inside it is `WifiHelper`. The composition is

    OperatorState ─┐                      WifiHelper ──┐
    Config ────────┼─> Boot <── WifiCommands ──────────┴─> WifiTurns ─> WifiHelper_proofs

How a model's state corresponds to the code is said at each variable; how an action
does, at its `map` entry. Some modules define *mutants* beside an action: the same
operation with a plausible mistake. They are used by no specification; each shows that
one property would notice.

### Abstractions

- Media payloads, characters and threads are model values or numbers; whether a line
  parses is a choice. Messages, log lines and layout are left out.
- The calls on the operator state are atomic in `ReceiverAuth` and `Controller`.
  `TurnsAtomic` proves that they are for any threads that take turns. When they overlap they are not
  (see *Divergences seen*), and what is left then is `StartedNeverUnrequested`. A reading of the file that fails is in
  `OperatorStore` only.
- Results of the backend and the helpers are choices, and they take any time.
  `spotifyd` is installed or not between two restarts.
- A scanner that is plugged in can be opened, and one that is not cannot.
- A line that waits while the controller is busy counts from when it is read.
- I/O errors of the state file other than those `load` catches are left out, but for `Boot`,
  where they end what asked for them.
- In `SpotifyBackend` what a method computes between two requests takes no time, and a request takes
  `MaxWait` at most, an answer or none. Spotify answers as it will, but does what is asked only
  for a token it honours. `_cached_player_active`, which nobody reads, and the local refusals of
  `enqueue` and `set_volume_percent`, which their callers rule out, are left out.
- In `Config` the text of a variable is a number, in quarters, or a word; case and messages are left out.
- In `Boot` "client" stands for any client network. A helper command is one step, which `CommandsSafety`
  shows to be right where nothing comes between; a kill, an outage or another command in the middle of a command is
  in `WifiHelper` and not in `Boot`. The operator
  tries a bounded number of cards and requests. Settings that do not decide how a boot goes are
  checked by `Config` and forgotten. A re-authentication is the flags it leaves.
- A status is its code. `setup_status` may raise unless re-auth is required.
- A Wi-Fi connection that a failed `nmcli` leaves behind counts as none, as it does not come
  up. A stop takes the sleeping shells along (systemd's default `KillMode`), `nohup` is there and
  the helper's background is not disabled. The answer of `status` is in `Boot`; an empty SSID ends after the same steps. `WifiHelper` ends at the first overlap of
  two processes at work on the connections: no lock keeps them apart, and no property says
  anything from there on.

## The runs

| Run | What it shows |
|---|---|
| `store` | two threads, crashes and readings that fail, every file an earlier run may have left: the state is well formed, never started without a request, and calls that take turns are atomic |
| `reauth` | a poller, an HTTP thread, the scan loop, one restart: when a request is cleared, that it is published and that a success clears it |
| `reauth_starts` | two browsers that start: one flow at a time, and one that is real, while starts do not overlap |
| `reauth_stale` | *violated*: the success of an earlier flow clears a later request |
| `controller` | two media cards, three action cards, one restart: no replay, retry, actions once |
| `scanner` | two scans, with a key of each kind, over two connections: one connection per line, lines with all that the tables have of a scan, reopening, no scan lost |
| `scanner_cards` | *violated*: a card with a hyphen becomes a line without it |
| `idle` | shutdown only after long idle, only in silence; health events tell the truth in the end; setup mode disables, an idle box shuts down |
| `wifi` | two threads give three commands over three networks, two of which share a name, with one stop: the last working connection is taken away by a trial of its name only, a network tried on top of a trial goes back to what that goes back to, an apply that answered is final, a due trial ends |
| `spotify` | two threads with a margin that the longest calls exceed and a lifetime reported right or too short: only a call that is longer than what the backend leaves of its token loses it, a success rests on this call's accepted play and on the target seen playing, the status is that of the call that ended last, every call ends, a withdrawn token is forgotten in the end |
| `boot` | a development machine, a box, and the box with each variable changed in turn, over two kills or reboots: the access point comes up at a boot only when due, is remembered, a configuration that is accepted can be built, a boot ends with a box that can be reached |
| `boot_setup` | *violated*: a network joined through the setup page gets neither a look nor its grace period at the next start |

The three violations are the findings of `PROJECT.json`: each quotes the document that
says otherwise. Properties with a condition state how much is left: `FreshSuccessClearsInTurn`
(callers do not overlap) of `FreshSuccessClears`, `ProgressIsRealUntilRestart` (no restart,
no two overlapping starts) of `ProgressIsReal`, which no run checks: a worker that a restart ended
leaves a flow in progress that nobody runs and every later start joins.

What the Wi-Fi properties excuse is what the script gets wrong or leaves open, and is among the
hazards: a trial of another network with the last connection's name deletes that first, and has nothing to go back to if
it fails (`LastNetworkKept`); `reset-client` on a pending trial writes down what is active, the trial's own connection
perhaps, over what the trial was to go back to (`PriorRemembered`); a kill between `nmcli connection delete` of the connection before and the
removal of the file lets the rollback delete the new connection too; applying the network in use deletes
its only connection first; `start-ap` after a restart drops a pending trial; a
rollback whose connection does not come up leaves a file that ends every later command.

`ApOnlyWhenDue` excuses a box whose only network is one on trial (`has_saved_client_config` ignores it), a look at which
`nmcli` failed to list a connection that is there (`missed`), and
the setup flag, as the code asks for it first: `boot_setup` shows what that
leads to. `mark_setup_requested(False)` is reached only where the flag is already clear.
`ReachableAfterBoot` excuses a helper that failed and a re-authentication that is pending, which
`initialize` looks at before it looks at the network.

`WholeLines` excuses the keystrokes that the kernel drops. `ShutdownAfterLongIdle` excuses an activity during the live
look, which the code does not notice. `CallsEnd` takes the death of the calling thread for an end. `RequestsCarryLiveToken`
speaks of tokens that run out, not of those that are withdrawn. Where a hazard of `PROJECT.json` is such a case, it names no property
and a note says what the code does.

### Divergences seen

These are read off the code and the models, and no run checks them:

- `operator_state.py:49`: `load` writes back what it read, with no lock. A background load that overlaps a
  re-auth card overwrites the request that was acknowledged; `docs/pi-validation.md:110` expects the
  runtime to stay in `auth_required`. `OperatorStore` has the overlap.
- `input_evdev.py:152`: the stream is a generator that opens the device at its first `next()`, so
  `status()` is `ready` before anything was opened; `spec/EPIC-3-technical.md:191` says a scanner that
  cannot be opened is reported. `ScannerInput` has `Ask` and `Open` apart.
- `runtime_health.py:116`: one exception of the Wi-Fi helper ends the health monitor's thread, and no recovery
  is emitted any more, as `spec/EPIC-3-technical.md:218` would have it. `IdleShutdown` and `Boot` have the step.
- `playback_spotify.py:334`: the idle monitor's look asks only for the player, so when it is answered after a
  dispatch that found the device missing it makes the status ready. The contract allows it.
- `playback_spotify.py:779`: a 403 is taken for missing authorization before the branch that would report a
  device without volume control (line 793) can be reached.
- `jukebox-wifi-helper.sh:317`: two SSIDs may have one connection name (`sanitize_connection_name`, lines 238-247: "Home Net"
  and "home-net", all SSIDs without an ASCII letter or digit), and a trial deletes the connection of its name first. When
  it fails, the connection of the other network is gone; `spec/EPIC-4-technical.md:323` has the helper restore "the
  prior working client configuration automatically". `MCWifiHelper` has two such networks.
- `jukebox-wifi-helper.sh:274`: `reset-client` does not ask for a pending trial, and writes down the active connection as the one
  to go back to. If that is the trial's, the connection from before it is forgotten, against the same line of the spec.
- `jukebox-wifi-helper.sh:226`: the rollback shell is in the service's control group, which systemd ends with the service, while
  `spec/EPIC-4-technical.md:322` has "a rollback timer that survives Python-process exit". `Stop` empties `asleep`; the
  trial then waits for the next command.
- `config.py:376`: no comparison refuses NaN; with it the grace period is over at once.

### Bounds

- *Store*: two threads already show every overlap of a read, a truncation and a write, and give every call by
  themselves too; `StartedSafety` and `TurnsAtomic` cover any number.
- *Re-auth*: two callers and two workers make a stale answer, a double start and a
  lost temporary file happen; a third caller adds no new pair. One restart leaves a file
  behind; a second repeats the first. When both workers live, no third is launched: the bound
  `Workers` guards `LaunchWorker`. The theorems hold for any callers and workers.
- *Controller*: a track and an album tell the kinds apart; a window of one tick and a clock
  of three let a scan fall within, at the end of and beyond it; three scans make a
  card, one in between and the card again. The theorems have no such bounds.
- *Scanner*: two connections, so that one can break in the middle of a scan; two
  scans, so that they could merge; a queue that holds one scan, so that it overflows. The scan has one key of
  each kind. For the card with a hyphen one connection and one scan will do.
- *Idle*: an interval of two ticks, so that an activity may fall within one. Two
  playback codes: ready, and the outage that is neither setup nor ready.
- *Wi-Fi*: two connection names, that of the network before and that of the one tried, and a third network that shares
  one of them. Two trials make a
  shell outlive its trial and a trial start on top of another; a third command resolves what is
  left, after the one stop or before it. The theorems have no such bounds. 579,760 states.
- *Spotify*: requests of one tick, one retry of the probe, a confirmation that looks twice. A token lives 3, is reported to
  live 3 or 1, and the margin is 2: so it is used for 1 (`max(expires_in - 60, 1)` on either side of the maximum), and calls that take longer than
  the 2 that are left then see it run out. `LiveTokenSafety` holds for every lifetime, report and margin.
  In the code the margin is 60 s, and with the defaults the longest dispatch takes 35 s and the longest probe 40 s, which
  `MarginSuffices` says is enough if Spotify tells the lifetime right and a request ends within its 5 s; but the timeout is one of each read, and `config.py`
  bounds neither the confirmation nor the retries.
- *Boot*: a grace period of two seconds (and of half a second, endless, NaN) lets the network come up before,
  between and after the looks. One variable is changed at a time, to each value that its reader tells apart.
  Two stops: one in mid-boot, and one of the boot that finds what the first left. One deed: a card or an
  apply, whose trial the next boot settles. 1,252,140 states. The theorems have no such bounds.

Deadlock is checked in every run but four: `scanner_cards`, which stops after its one scan, `wifi`, whose box may rest without a connection once its
commands are given, and whose model ends at an overlap, and `boot` and `boot_setup`, whose service is not started
again once it has ended with 0 or 2.

### Fairness

- `ReceiverAuth`: the health monitor goes on between its calls and polls again, and its
  helper does not fail every time from some time on (strong fairness). It is a thread in a
  loop that sleeps 15 s. Nothing is assumed of the HTTP threads, the operator, the workers or
  the restarts, and nothing keeps the thread alive: the properties excuse its death.
- `ScannerInput`: the main thread goes on. Nobody needs to ask, type or plug.
- `IdleShutdown`: the two threads poll and time goes on; the player can be asked now and then,
  and `setup_status` does not raise every time (strong fairness). Nothing is assumed
  of the household, the player and the sources, nor that a thread survives.
- `WifiHelper`: a process that runs goes on, and a shell that sleeps wakes up once its deadline
  has passed. Nothing is assumed of the commands, of time, of the network or of `nmcli`'s success.
- `SpotifyBackend`: a thread whose request is answered, in whatever way, goes on, and time goes on (strong
  fairness, as `Tick` waits for what is due). A request ends because `urlopen` has a timeout. Nothing is assumed
  of the answers, the calls, the withdrawals and the restarts.
- `Boot`: the main thread goes on, and the helper commands it waits for end. Nothing is assumed of the network,
  the helper's success, the operator or the stops.
- `OperatorStore`, `Controller`: none; their properties are safety.

## What is proved

| Module | Theorems | Argument |
|---|---|---|
| `OperatorStore_proofs` | `TypeCorrect`, `StartedSafety` | both are inductive together: each state written is `Defaults` or an update of one a thread read (or failed to), and no update sets started without requested |
| | `TurnsAtomic`, `OneThreadAtomic` | while calls take turns the state is in the file at rest and in the copy of the thread whose turn it is between truncation and write (`TurnsInv`); with it each step maps to a step or a stutter of `AtomicOperatorStore`. The second is the case of one thread |
| `ReceiverAuth_proofs` | `TypeCorrect`, `StartedSafety`, `ClearSafety` | `AnswersInv`: an answer of the helper came from its file, so a caller that clears read a success that was there |
| | `OneFlowSafety`, `ProgressSafety` | `StartsInv`: while starts take turns one process writes `state.json`, so no rename fails and a file in progress has its worker or its starter |
| | `FreshSuccessSafety` | `TurnsInv`: while callers take turns a flow in progress is a requested one, so a success under a started request is later than it |
| `Controller_proofs` | `TypeCorrect`, `ReplaySafety`, `RetrySafety`, `ActionSafety`, `QueueSafety` | each gate stands for the latest entry of its kind in the log; what it let through is still let through when the call returns |
| `ScannerInput_proofs` | `TypeCorrect`, `ConnectionSafety` | all that is on its way to a line is of the session whose device is open (`OfSession`) |
| | `LineSafety` | as long as the kernel drops nothing, the keys to be read follow one another without a gap (`Unbroken`), and the buffer and the shift are those of the current scan up to the next key (`Reading`) |
| `IdleShutdown_proofs` | `TypeCorrect`, `LongIdleSafety`, `SilenceSafety`, `LookSafety` | the ages are ordered: the last activity is at most as old as the household's, and the last look at least as old as the deadline's start |
| | `FlagSafety`, `PollSafety`, `SetupLookSafety` | the flag follows the last event at rest; the worst of three statuses is setup whenever the scanner is ready and setup is asked for (`WorstOfThree`) |
| `WifiHelper_proofs` | `TypeCorrect`, `AppliedSafety`, `LastNetworkSafety`, `PriorSafety` | no trial under way, no rollback under way and no pending file names the connection committed last (`Shared`, `Live`), and a process at work is alone until the model ends |
| | `WatchSafety` | trials are numbered in order, and the trial in the file is that of its writer, of a shell asleep or of the rollback at work (`Watched`, `Numbered`) |
| | `CommandsSafety` | `TurnsInv`: at each step of a command in its turn, what it has done so far and what it still carries (its entry, the connection before, the trial) determine which of the outcomes are left |
| `SpotifyBackend_proofs` | `TypeCorrect`, `LiveTokenSafety`, `RealSuccessSafety`, `ContractSafety` | what Spotify leaves of a carried token and its age add up to more than the slack of one of the reports, at each step and across the other thread's refresh (`BackendInv`, `Covered`); nothing is assumed of how margin, lifetime, reports and the length of calls compare |
| | `CallsAdvanceSafety`, `CallsFitSafety`, `MarginSuffices` | what a call may still take, as a measure: with each tick and each step of a call the time left, or else the steps left at that time, go down. No token is carried for longer than the longest call and the request for it, so a margin that covers both is never exceeded |
| `Boot_proofs` | `TypeCorrect`, `ConfigurationSafety`, `SetupSafety`, `FallbackSafety` | `Timing`: a network seen within the grace is still there when the last look comes; `Remembered`: from the first service on, a point that is up is marked. One lemma for each operator of `WifiCommands` says what it leaves. `ConfigurationSafety` holds for any set of environments |

The assumptions are those on the constants, each named in the module that declares it. `ScanAssumption` is what
a keyboard scanner types: one enter, its last key, and shift held for exactly the characters that need it and
released at the end. Nothing is assumed of `NameOf`: networks may share connections at will. `OneThreadAtomic` has hypotheses beside the
specification: one thread, no crash and no reading that fails.
None of the properties is inductive by itself: none speaks of what a thread carries from one
of its steps to the next, which is what the strengthenings add.

`StartedSafety` and `ClearSafety` of `ReceiverAuth`, `QueueSafety` of `Controller`, `LookSafety`, `FlagSafety`,
`PollSafety` and `SetupLookSafety` of `IdleShutdown`, `WatchSafety` and `CommandsSafety` of `WifiHelper`, 
`CallsAdvanceSafety`, `CallsFitSafety` and `MarginSuffices` of `SpotifyBackend`, and `OneThreadAtomic` of `OperatorStore` are about properties that no run checks. TLC finds no
violation of any of them on the instances of the runs; for `CommandsSafety` that is
`TurnSpec` on the instance of `wifi`, 4,572,178 states, for `MarginSuffices` a lifetime of 11, reported right, and a margin of 9
(with a margin of 5 a token runs out), and for `OneThreadAtomic` one thread that makes every call.

Only model-checked: the eleven liveness properties, as the prover has neither fairness nor `ENABLED`. Of five
of them the part that is safety is proved, and what TLC adds is that the steps are taken:

- `CallsEnd`: every step brings a call nearer to its end, and no call waits for anything but time (`CallsAdvanceSafety`,
  `CallsFitSafety`);
- `DueTrialEnds`: a trial in the file has somebody who will end it (`WatchSafety`);
- `SetupDisablesShutdown`, `IdleBoxShutsDown`: the flag says what the last event said, the event says what
  the poll saw, and a set flag forbids the look (`FlagSafety`, `PollSafety`, `SetupLookSafety`);
- `ScanBecomesLine`: the line that a scan becomes is the whole scan (`LineSafety`).

Every invariant and every action property of the passing runs is stated by a theorem.

## What is not modelled, and the plan

What is left, in the order of the plan:

1. **Proofs**: `Boot` with commands in their steps. `CommandsSafety` covers a command that runs by itself; a kill or
   a reboot in mid-command leaves connections that `WifiCommands` has no outcome for, and neither `Boot` nor its theorems
   speak of those.
2. **Overlapping commands** of the Wi-Fi helper, where `WifiHelper` ends.
3. **Feedback snapshot** (`feedback_state.py`): events from three threads.

Left out for good: parsing, logging and terminal output (no state or pure I/O), the HTML of the operator
pages, the shutdown script (a check of its argument and one command), and the scripts that render cards and QR
codes or probe Spotify from a desk, which share no state with the service.
