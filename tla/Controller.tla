----------------------------- MODULE Controller -----------------------------
(***************************************************************************)
(* core/controller.py with adapters/action_router.py: what the main thread *)
(* does with one scanned line after the other.                             *)
(*                                                                         *)
(* The playback backend and the system helpers answer as they will, and    *)
(* take their time: the clock runs on between the steps of a scan.  The    *)
(* calls on the operator state are one step each, as AtomicOperatorStore   *)
(* promises; the flags that other threads write are never read here.  A    *)
(* line that waits while the controller is busy is read when it is free    *)
(* again, and counts from then.                                            *)
(***************************************************************************)
EXTENDS DuplicateGate, OperatorState, Sequences

CONSTANTS
  Media,        \* the media payloads there are cards of
  KindOf,       \* KindOf[m]: the kind of Spotify URI that payload m is
  Deck,         \* the cards that get scanned
  Window,       \* settings.duplicate_window_seconds
  Debounce,     \* settings.control_debounce_seconds
  MaxTime,      \* the latest time of the clock: a bound
  MaxScans,     \* the scans between two starts of the service: a bound
  MaxRestarts   \* the restarts of the service: a bound

\* "other.action" stands for every identifier that ActionRouter does not know.
ActionIds ==
  {"playback.stop", "playback.next", "mode.replace", "mode.queue",
   "volume.low", "volume.medium", "volume.high", "setup.wifi-reset",
   "setup.receiver-reauth", "system.shutdown", "other.action"}

\* "unreadable" stands for every line that parse_scan_payload raises on.
Cards == Media \cup ActionIds \cup {"unreadable"}

ASSUME KindsAssumption == KindOf \in [Media -> {"track", "album", "playlist"}]
ASSUME MediaAssumption == Media \cap (ActionIds \cup {"unreadable"}) = {}
ASSUME DeckAssumption == Deck \subseteq Cards
ASSUME BoundsAssumption ==
  /\ Window \in Nat /\ Debounce \in Nat /\ MaxTime \in Nat
  /\ MaxScans \in Nat /\ MaxRestarts \in Nat

VARIABLES
  now,         \* time.monotonic()
  mediaGate,   \* the DuplicateGate of media payloads
  actionGate,  \* the ActionDebounceGate of action identifiers
  store,       \* the operator state
  pc,          \* where process_line is
  card,        \* the payload it is processing
  mode,        \* the playback mode it loaded for the payload
  playing,     \* is the configured target playing?
  entered,     \* history: when the payload in hand passed its gate
  sawPlaying,  \* history: did this scan's live check see the target playing?
  log,         \* history: what became of each scan since the last start
  restarts     \* the restarts so far

vars == <<now, mediaGate, actionGate, store, pc, card, mode, playing,
          entered, sawPlaying, log, restarts>>

Outcomes == {"invalid", "suppressed", "dispatched", "enqueued", "failed", "done", "action_failed"}

Entries ==
  [card : Cards, outcome : Outcomes, mode : PlaybackModes,
   from : Nat, to : Nat, sawPlaying : BOOLEAN]

IsGate(gate, payloads) ==
  gate = EmptyGate \/ \E p \in payloads, t \in 0..MaxTime : gate = RecordSuccess(p, t)

TypeOK ==
  /\ now \in 0..MaxTime
  /\ IsGate(mediaGate, Media)
  /\ IsGate(actionGate, ActionIds)
  /\ store \in OperatorState
  /\ pc \in {"idle", "scanned", "mode", "probe", "dispatch", "enqueue", "act"}
  /\ card \in Cards
  /\ mode \in PlaybackModes
  /\ playing \in BOOLEAN
  /\ entered \in 0..MaxTime
  /\ sawPlaying \in BOOLEAN
  /\ log \in Seq(Entries)
  /\ restarts \in 0..MaxRestarts

Init ==
  /\ now = 0
  /\ mediaGate = EmptyGate
  /\ actionGate = EmptyGate
  /\ \E m \in PlaybackModes : store = SetPlaybackMode(Defaults, m)
  /\ pc = "idle"
  /\ card = "unreadable"
  /\ mode = "replace"
  /\ playing \in BOOLEAN
  /\ entered = 0
  /\ sawPlaying = FALSE
  /\ log = <<>>
  /\ restarts = 0

-----------------------------------------------------------------------------
\* The end of a scan: its outcome, and the wait for the next line.
Finish(outcome, from) ==
  /\ pc' = "idle"
  /\ log' = Append(log, [card |-> card, outcome |-> outcome, mode |-> mode,
                         from |-> from, to |-> now, sawPlaying |-> sawPlaying])

\* process_line: a line arrives and is parsed.
Scan(c) ==
  /\ pc = "idle"
  /\ Len(log) < MaxScans
  /\ card' = c
  /\ mode' = "replace"
  /\ sawPlaying' = FALSE
  /\ pc' = "scanned"
  /\ UNCHANGED <<now, mediaGate, actionGate, store, playing, entered, log, restarts>>

\* InvalidPayloadError or UnsupportedContentError: nothing but an event.
Reject ==
  /\ pc = "scanned"
  /\ card = "unreadable"
  /\ Finish("invalid", now)
  /\ UNCHANGED <<now, mediaGate, actionGate, store, card, mode, playing,
                 entered, sawPlaying, restarts>>

Suppress ==
  /\ pc = "scanned"
  /\ \/ card \in Media /\ IsDuplicate(mediaGate, card, now, Window)
     \/ card \in ActionIds /\ IsDuplicate(actionGate, card, now, Debounce)
  /\ Finish("suppressed", now)
  /\ UNCHANGED <<now, mediaGate, actionGate, store, card, mode, playing,
                 entered, sawPlaying, restarts>>

\* The gate lets the card through: action_card_accepted, scan_accepted.
AcceptCard ==
  /\ pc = "scanned"
  /\ \/ card \in Media /\ ~IsDuplicate(mediaGate, card, now, Window) /\ pc' = "mode"
     \/ card \in ActionIds /\ ~IsDuplicate(actionGate, card, now, Debounce) /\ pc' = "act"
  /\ entered' = now
  /\ UNCHANGED <<now, mediaGate, actionGate, store, card, mode, playing,
                 sawPlaying, log, restarts>>

(***************************************************************************)
(* A media card: the mode, for a track in queue mode a live look at the    *)
(* player, then the backend call.                                          *)
(***************************************************************************)
LoadMode ==
  /\ pc = "mode"
  /\ mode' = store.mode
  /\ pc' = IF store.mode = "queue_tracks" /\ KindOf[card] = "track"
             THEN "probe" ELSE "dispatch"
  /\ UNCHANGED <<now, mediaGate, actionGate, store, card, playing, entered,
                 sawPlaying, log, restarts>>

\* current_player_active(): True, False, or None when it cannot tell; only
\* True enqueues.
ProbePlayer ==
  /\ pc = "probe"
  /\ \/ sawPlaying' = playing /\ pc' = IF playing THEN "enqueue" ELSE "dispatch"
     \/ sawPlaying' = FALSE /\ pc' = "dispatch"
  /\ UNCHANGED <<now, mediaGate, actionGate, store, card, mode, playing,
                 entered, log, restarts>>

\* Mutant of Play: a failed call is recorded like a successful one.
PlayRecordsFailure ==
  /\ pc \in {"dispatch", "enqueue"}
  /\ \/ Finish(IF pc = "dispatch" THEN "dispatched" ELSE "enqueued", entered)
     \/ Finish("failed", entered)
  /\ mediaGate' = RecordSuccess(card, now)
  /\ UNCHANGED <<now, actionGate, store, card, mode, playing, entered,
                 sawPlaying, restarts>>

\* Mutant of Play: the window counts from the scan, not from the success.
PlayRecordsTheScan ==
  /\ pc \in {"dispatch", "enqueue"}
  /\ \/ /\ Finish(IF pc = "dispatch" THEN "dispatched" ELSE "enqueued", entered)
        /\ mediaGate' = RecordSuccess(card, entered)
     \/ Finish("failed", entered) /\ UNCHANGED mediaGate
  /\ UNCHANGED <<now, actionGate, store, card, mode, playing, entered,
                 sawPlaying, restarts>>

\* dispatch() or enqueue() returns; only a success is recorded.
Play ==
  /\ pc \in {"dispatch", "enqueue"}
  /\ \/ /\ Finish(IF pc = "dispatch" THEN "dispatched" ELSE "enqueued", entered)
        /\ mediaGate' = RecordSuccess(card, now)
     \/ Finish("failed", entered) /\ UNCHANGED mediaGate
  /\ UNCHANGED <<now, actionGate, store, card, mode, playing, entered,
                 sawPlaying, restarts>>

Done(s) == [outcome |-> "done", store |-> s]

ActionFailed(s) == [outcome |-> "action_failed", store |-> s]

\* Mutant of RouterResults: the mode gets the name on its card.
RouterSavesTheCardName(action, s) ==
  CASE action = "mode.replace" -> {Done(SetPlaybackMode(s, "replace"))}
    [] action = "mode.queue" -> {Done(SetPlaybackMode(s, "queue"))}
    [] OTHER -> {ActionFailed(s), Done(s)}

(***************************************************************************)
(* An action card: ActionRouter.execute, whose results are its outcome and *)
(* the operator state it leaves.                                           *)
(***************************************************************************)
RouterResults(action, s) ==
  CASE action = "mode.replace" -> {Done(SetPlaybackMode(s, "replace"))}
    [] action = "mode.queue" -> {Done(SetPlaybackMode(s, "queue_tracks"))}
    [] action = "setup.wifi-reset" ->
         {ActionFailed(s), Done(MarkSetupRequested(s, TRUE, "setup_ap"))}
    [] action = "setup.receiver-reauth" -> {Done(MarkReauthRequested(s, TRUE))}
    [] action = "other.action" -> {ActionFailed(s)}
    [] OTHER -> {ActionFailed(s), Done(s)}

\* Mutant of Act: a failed action is not debounced.
ActRecordsSuccessOnly ==
  /\ pc = "act"
  /\ \E r \in RouterResults(card, store) :
       /\ store' = r.store
       /\ Finish(r.outcome, entered)
       /\ actionGate' = IF r.outcome = "done" THEN RecordSuccess(card, now) ELSE actionGate
  /\ UNCHANGED <<now, mediaGate, card, mode, playing, entered, sawPlaying, restarts>>

\* The action is recorded in its gate, whether it succeeded or not.
Act ==
  /\ pc = "act"
  /\ \E r \in RouterResults(card, store) :
       /\ store' = r.store
       /\ Finish(r.outcome, entered)
  /\ actionGate' = RecordSuccess(card, now)
  /\ UNCHANGED <<now, mediaGate, card, mode, playing, entered, sawPlaying, restarts>>

-----------------------------------------------------------------------------
Tick ==
  /\ now < MaxTime
  /\ now' = now + 1
  /\ UNCHANGED <<mediaGate, actionGate, store, pc, card, mode, playing,
                 entered, sawPlaying, log, restarts>>

\* Playback starts and ends on the target, with the calls and without.
PlayerChanges ==
  /\ playing' = ~playing
  /\ UNCHANGED <<now, mediaGate, actionGate, store, pc, card, mode, entered,
                 sawPlaying, log, restarts>>

\* The service dies, at any point of a scan, and systemd starts it again:
\* the gates are new, the operator state is as it was.
Restart ==
  /\ restarts < MaxRestarts
  /\ restarts' = restarts + 1
  /\ mediaGate' = EmptyGate
  /\ actionGate' = EmptyGate
  /\ pc' = "idle"
  /\ card' = "unreadable"
  /\ mode' = "replace"
  /\ entered' = 0
  /\ sawPlaying' = FALSE
  /\ log' = <<>>
  /\ UNCHANGED <<now, store, playing>>

Process ==
  Reject \/ Suppress \/ AcceptCard \/ LoadMode \/ ProbePlayer \/ Play \/ Act

Next ==
  \/ \E c \in Deck : Scan(c)
  \/ Process
  \/ Tick
  \/ PlayerChanges
  \/ Restart

Spec == Init /\ [][Next]_vars

-----------------------------------------------------------------------------
IsMedia(i) == log[i].card \in Media

Succeeded(i) == log[i].outcome \in {"dispatched", "enqueued"}

Attempted(i) == log[i].outcome \in {"dispatched", "enqueued", "failed", "done", "action_failed"}

(***************************************************************************)
(* A card left on the reader, or waved twice, plays once: between a        *)
(* successful playback call and the next call for the same payload there   *)
(* is more than the window, however long the calls took, or the successful *)
(* call of another media payload.  Action cards in between do not help.    *)
(***************************************************************************)
NoAccidentalReplay ==
  \A i, j \in DOMAIN log :
    (/\ i < j
     /\ log[i].card = log[j].card
     /\ IsMedia(i) /\ Succeeded(i) /\ Attempted(j)
     /\ \A k \in i+1..j-1 : ~(IsMedia(k) /\ Succeeded(k)))
    => log[j].from - log[i].to > Window

(***************************************************************************)
(* "Do not update the duplicate gate after a failed dispatch so the same   *)
(* scan can be retried immediately" (EPIC-1-technical.md): a media card is *)
(* suppressed only if its own latest call succeeded, within the window.    *)
(***************************************************************************)
FailedCardMayRetry ==
  \A j \in DOMAIN log :
    (IsMedia(j) /\ log[j].outcome = "suppressed")
    => \E i \in 1..j-1 :
         /\ log[i].card = log[j].card
         /\ Succeeded(i)
         /\ log[j].to - log[i].to <= Window
         /\ \A k \in i+1..j-1 : ~(log[k].card = log[j].card /\ Attempted(k))

(***************************************************************************)
(* An operator-facing action runs once for a card scanned twice, whether   *)
(* it succeeded or failed: within the debounce window it runs again only   *)
(* when another action ran in between.  Media cards do not help.           *)
(***************************************************************************)
ActionRunsOnce ==
  \A i, j \in DOMAIN log :
    (/\ i < j
     /\ log[i].card = log[j].card
     /\ ~IsMedia(i) /\ Attempted(i) /\ Attempted(j)
     /\ \A k \in i+1..j-1 : IsMedia(k) \/ ~Attempted(k))
    => log[j].from - log[i].to > Debounce

(***************************************************************************)
(* EPIC-4-technical.md: only a track is ever enqueued, only when this scan *)
(* saw the target playing, and only when queue mode was the last choice of *)
(* the mode cards, counting from the restart if there was one since.       *)
(***************************************************************************)
QueuesOnlyWhenAsked ==
  \A j \in DOMAIN log :
    log[j].outcome = "enqueued"
    => /\ KindOf[log[j].card] = "track"
       /\ log[j].sawPlaying
       /\ \A i \in 1..j-1 :
            (log[i].card = "mode.replace" /\ log[i].outcome = "done")
            => \E k \in i+1..j-1 : log[k].card = "mode.queue" /\ log[k].outcome = "done"

=============================================================================
