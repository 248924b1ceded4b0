------------------------- MODULE Controller_proofs -------------------------
(***************************************************************************)
(* Proofs about Controller: its type, and the four properties of the log   *)
(* of scans, for every deck of cards, window and debounce time.            *)
(*                                                                         *)
(* Each gate stands for one entry of the log: the latest successful media  *)
(* call, and the latest action that ran (MediaGateTold, ActionGateTold).   *)
(* What a gate let through is still let through when its call returns      *)
(* (InFlight), since the controller does one scan at a time.               *)
(***************************************************************************)
EXTENDS Controller, TLAPS

MediaMark(i) == IsMedia(i) /\ Succeeded(i)

ActionMark(i) == ~IsMedia(i) /\ Attempted(i)

MediaGateTold ==
  /\ mediaGate = EmptyGate => \A k \in DOMAIN log : ~MediaMark(k)
  /\ \A r \in mediaGate : \E i \in DOMAIN log :
       /\ MediaMark(i) /\ log[i].card = r.payload /\ log[i].to = r.at
       /\ \A k \in DOMAIN log : k > i => ~MediaMark(k)

ActionGateTold ==
  /\ actionGate = EmptyGate => \A k \in DOMAIN log : ~ActionMark(k)
  /\ \A r \in actionGate : \E i \in DOMAIN log :
       /\ ActionMark(i) /\ log[i].card = r.payload /\ log[i].to = r.at
       /\ \A k \in DOMAIN log : k > i => ~ActionMark(k)

CardFits ==
  /\ pc \in {"mode", "probe", "dispatch", "enqueue"} => card \in Media
  /\ pc = "act" => card \in ActionIds

InFlight ==
  /\ pc \in {"mode", "probe", "dispatch", "enqueue"}
       => \A r \in mediaGate : r.payload = card => entered - r.at > Window
  /\ pc = "act"
       => \A r \in actionGate : r.payload = card => entered - r.at > Debounce

Past == entered <= now /\ \A k \in DOMAIN log : log[k].from <= now

\* Is "mode.replace" the last mode card of the log that ran?
ReplaceChosen(i) ==
  /\ log[i].card = "mode.replace" /\ log[i].outcome = "done"
  /\ \A k \in DOMAIN log : k > i => ~(log[k].card = "mode.queue" /\ log[k].outcome = "done")

ChoiceTold == \A i \in DOMAIN log : ReplaceChosen(i) => store.mode = "replace"

QueueHeld ==
  /\ pc \in {"probe", "enqueue"} => store.mode = "queue_tracks" /\ KindOf[card] = "track"
  /\ pc = "enqueue" => sawPlaying

-----------------------------------------------------------------------------
(***************************************************************************)
(* Type correctness.                                                       *)
(***************************************************************************)
LEMMA FinishType ==
  ASSUME TypeOK, NEW outcome \in Outcomes, NEW from \in Nat, Finish(outcome, from)
  PROVE  /\ log' \in Seq(Entries)
         /\ pc' = "idle"
PROOF
  <1>1. [card |-> card, outcome |-> outcome, mode |-> mode,
         from |-> from, to |-> now, sawPlaying |-> sawPlaying] \in Entries
    BY BoundsAssumption DEF TypeOK, Entries
  <1>2. QED
    BY <1>1 DEF Finish, TypeOK

LEMMA RouterType ==
  ASSUME NEW a \in ActionIds, NEW s \in OperatorState, NEW r \in RouterResults(a, s)
  PROVE  /\ r.outcome \in {"done", "action_failed"}
         /\ r.store \in OperatorState
         /\ a = "mode.replace" => r.store.mode = "replace"
         /\ a \notin {"mode.replace", "mode.queue"} => r.store.mode = s.mode
         /\ a = "mode.queue" => r.outcome = "done"
PROOF
  <1> DEFINE M == MarkSetupRequested(s, TRUE, "setup_ap")
             R == MarkReauthRequested(s, TRUE)
  <1>1. M \in OperatorState /\ M.mode = s.mode
    BY DEF MarkSetupRequested, OperatorState, WifiModes
  <1>2. R \in OperatorState /\ R.mode = s.mode
    BY DEF MarkReauthRequested, OperatorState
  <1>3. CASE a = "mode.replace"
    BY <1>3 DEF RouterResults, SetPlaybackMode, OperatorState, PlaybackModes, Done
  <1>4. CASE a = "mode.queue"
    BY <1>4 DEF RouterResults, SetPlaybackMode, OperatorState, PlaybackModes, Done
  <1>5. CASE a \notin {"mode.replace", "mode.queue"}
    <2>1. r \in {ActionFailed(s), Done(s), Done(M), Done(R)}
      <3> HIDE DEF M, R
      <3>1. CASE a = "setup.wifi-reset"
        BY <3>1 DEF RouterResults, M
      <3>2. CASE a = "setup.receiver-reauth"
        BY <3>2 DEF RouterResults, R
      <3>3. CASE a = "other.action"
        BY <3>3 DEF RouterResults
      <3>4. CASE a \notin {"setup.wifi-reset", "setup.receiver-reauth", "other.action"}
        BY <1>5, <3>4 DEF RouterResults
      <3>5. QED
        BY <3>1, <3>2, <3>3, <3>4
    <2> HIDE DEF M, R
    <2>2. /\ r.outcome \in {"done", "action_failed"}
          /\ r.store \in {s, M, R}
      BY <2>1 DEF Done, ActionFailed
    <2>3. QED
      BY <1>1, <1>2, <1>5, <2>2
  <1>6. QED
    BY <1>3, <1>4, <1>5

LEMMA TypeInit == Init => TypeOK /\ CardFits
PROOF
  <1> SUFFICES ASSUME Init
               PROVE  TypeOK /\ CardFits
    OBVIOUS
  <1>1. store \in OperatorState
    BY DEF Init, SetPlaybackMode, Defaults, OperatorState, PlaybackModes, WifiModes
  <1>2. IsGate(mediaGate, Media) /\ IsGate(actionGate, ActionIds) /\ log \in Seq(Entries)
    BY DEF Init, IsGate
  <1>3. now \in 0..MaxTime /\ entered \in 0..MaxTime /\ restarts \in 0..MaxRestarts
    BY BoundsAssumption DEF Init
  <1>4. card \in Cards /\ mode \in PlaybackModes
    BY DEF Init, Cards, PlaybackModes
  <1>5. playing \in BOOLEAN /\ sawPlaying \in BOOLEAN
    BY DEF Init
  <1>6. pc = "idle"
    BY DEF Init
  <1>7. QED
    BY <1>1, <1>2, <1>3, <1>4, <1>5, <1>6 DEF TypeOK, CardFits

LEMMA TypeNext == TypeOK /\ CardFits /\ [Next]_vars => TypeOK' /\ CardFits'
PROOF
  <1> SUFFICES ASSUME TypeOK, CardFits, [Next]_vars
               PROVE  TypeOK' /\ CardFits'
    OBVIOUS
  <1> USE BoundsAssumption
  <1>n. now \in Nat
    BY DEF TypeOK
  <1>1. ASSUME NEW c \in Deck, Scan(c)
        PROVE  TypeOK' /\ CardFits'
    BY <1>1, DeckAssumption DEF TypeOK, CardFits, Scan, PlaybackModes
  <1>2. CASE Reject
    <2>1. Finish("invalid", now)
      BY <1>2 DEF Reject
    <2>2. log' \in Seq(Entries) /\ pc' = "idle"
      BY <1>n, <2>1, FinishType DEF Outcomes
    <2>3. QED
      BY <1>2, <2>2 DEF TypeOK, CardFits, Reject
  <1>3. CASE Suppress
    <2>1. Finish("suppressed", now)
      BY <1>3 DEF Suppress
    <2>2. log' \in Seq(Entries) /\ pc' = "idle"
      BY <1>n, <2>1, FinishType DEF Outcomes
    <2>3. QED
      BY <1>3, <2>2 DEF TypeOK, CardFits, Suppress
  <1>4. CASE AcceptCard
    BY <1>4 DEF TypeOK, CardFits, AcceptCard
  <1>5. CASE LoadMode
    BY <1>5 DEF TypeOK, CardFits, LoadMode, OperatorState
  <1>6. CASE ProbePlayer
    BY <1>6 DEF TypeOK, CardFits, ProbePlayer
  <1>7. CASE Play
    <2>1. entered \in Nat /\ card \in Media
      BY <1>7 DEF TypeOK, CardFits, Play
    <2>2. IsGate(RecordSuccess(card, now), Media)
      BY <2>1 DEF TypeOK, IsGate
    <2>3. PICK o \in Outcomes : Finish(o, entered)
      BY <1>7 DEF Play, Outcomes
    <2>4. log' \in Seq(Entries) /\ pc' = "idle"
      BY <2>1, <2>3, FinishType
    <2>5. IsGate(mediaGate, Media)'
      BY <1>7, <2>2 DEF Play, TypeOK, IsGate
    <2>6. QED
      BY <1>7, <2>4, <2>5 DEF TypeOK, CardFits, Play
  <1>8. CASE Act
    <2>1. entered \in Nat /\ card \in ActionIds
      BY <1>8 DEF TypeOK, CardFits, Act
    <2>2. IsGate(RecordSuccess(card, now), ActionIds)
      BY <2>1 DEF TypeOK, IsGate
    <2>3. PICK r \in RouterResults(card, store) : store' = r.store /\ Finish(r.outcome, entered)
      BY <1>8 DEF Act
    <2>4. r.outcome \in Outcomes /\ r.store \in OperatorState
      BY <2>1, RouterType DEF TypeOK, Outcomes
    <2>5. log' \in Seq(Entries) /\ pc' = "idle"
      BY <2>1, <2>3, <2>4, FinishType
    <2>6. IsGate(actionGate, ActionIds)' /\ store' \in OperatorState
      BY <1>8, <2>2, <2>3, <2>4 DEF Act, IsGate
    <2>7. QED
      BY <1>8, <2>5, <2>6 DEF TypeOK, CardFits, Act
  <1>9. CASE Tick
    BY <1>9 DEF TypeOK, CardFits, Tick
  <1>10. CASE PlayerChanges
    BY <1>10 DEF TypeOK, CardFits, PlayerChanges
  <1>11. CASE Restart
    <2>1. /\ IsGate(mediaGate, Media)' /\ IsGate(actionGate, ActionIds)'
          /\ log' \in Seq(Entries)
      BY <1>11 DEF Restart, IsGate
    <2>2. now' \in 0..MaxTime /\ entered' \in 0..MaxTime /\ restarts' \in 0..MaxRestarts
      BY <1>11 DEF Restart, TypeOK
    <2>3. card' \in Cards /\ mode' \in PlaybackModes
      BY <1>11 DEF Restart, Cards, PlaybackModes
    <2>4. playing' \in BOOLEAN /\ sawPlaying' \in BOOLEAN
      BY <1>11 DEF Restart, TypeOK
    <2>5. pc' = "idle" /\ store' \in OperatorState
      BY <1>11 DEF Restart, TypeOK
    <2>6. QED
      BY <2>1, <2>2, <2>3, <2>4, <2>5 DEF TypeOK, CardFits
  <1>12. CASE UNCHANGED vars
    BY <1>12 DEF TypeOK, CardFits, vars
  <1>13. QED
    BY <1>1, <1>2, <1>3, <1>4, <1>5, <1>6, <1>7, <1>8, <1>9, <1>10, <1>11, <1>12
       DEF Next, Process

(***************************************************************************)
(* The variables of process_line and what it remembers have their types,   *)
(* for any deck of cards and any window.                                   *)
(***************************************************************************)
THEOREM TypeCorrect == Spec => []TypeOK
PROOF
  <1>1. Init => TypeOK /\ CardFits
    BY TypeInit
  <1>2. TypeOK /\ CardFits /\ [Next]_vars => (TypeOK /\ CardFits)'
    BY TypeNext
  <1>3. QED
    BY <1>1, <1>2, PTL DEF Spec

-----------------------------------------------------------------------------
(***************************************************************************)
(* The end of a scan adds one entry to the log and keeps the others.       *)
(***************************************************************************)
LEMMA Appended ==
  ASSUME TypeOK, NEW outcome, NEW from, Finish(outcome, from),
         NEW last, last = Len(log) + 1
  PROVE  /\ Len(log) \in Nat /\ last \in Nat
         /\ DOMAIN log = 1..Len(log)
         /\ DOMAIN log' = 1..last
         /\ \A i \in 1..Len(log) : log'[i] = log[i]
         /\ log'[last].card = card
         /\ log'[last].outcome = outcome
         /\ log'[last].from = from
         /\ log'[last].to = now
         /\ log'[last].sawPlaying = sawPlaying
PROOF BY DEF TypeOK, Finish

LEMMA Kept ==
  ASSUME TypeOK, NEW outcome, NEW from, Finish(outcome, from)
  PROVE  \A i \in 1..Len(log) :
           /\ IsMedia(i)' <=> IsMedia(i)
           /\ Succeeded(i)' <=> Succeeded(i)
           /\ Attempted(i)' <=> Attempted(i)
           /\ MediaMark(i)' <=> MediaMark(i)
           /\ ActionMark(i)' <=> ActionMark(i)
PROOF
  <1>1. PICK last : last = Len(log) + 1
    OBVIOUS
  <1>2. QED
    BY <1>1, Appended DEF IsMedia, Succeeded, Attempted, MediaMark, ActionMark

\* What the types of the log's entries say.
LEMMA EntryTypes ==
  ASSUME TypeOK
  PROVE  \A i \in DOMAIN log : /\ i \in Nat /\ log[i].card \in Cards
                             /\ log[i].from \in Nat /\ log[i].to \in Nat
                             /\ log[i].outcome \in Outcomes
PROOF
  <1>1. \A i \in DOMAIN log : i \in Nat /\ log[i] \in Entries
    BY DEF TypeOK
  <1>2. QED
    BY <1>1 DEF Entries

(***************************************************************************)
(* The gates and the log.                                                  *)
(***************************************************************************)
LEMMA MediaGateStays ==
  ASSUME TypeOK, MediaGateTold, NEW outcome, NEW from, Finish(outcome, from),
         mediaGate' = mediaGate,
         card \notin Media \/ outcome \notin {"dispatched", "enqueued"}
  PROVE  MediaGateTold'
PROOF
  <1> PICK last : last = Len(log) + 1
    OBVIOUS
  <1>1. ~MediaMark(last)'
    BY Appended DEF MediaMark, IsMedia, Succeeded
  <1>2. \A k \in DOMAIN log' : MediaMark(k)' => k \in DOMAIN log /\ MediaMark(k)
    BY <1>1, Appended, Kept 
  <1>3. \A k \in DOMAIN log : /\ k \in DOMAIN log' /\ MediaMark(k)' <=> MediaMark(k)
                            /\ log'[k] = log[k]
    BY Appended, Kept 
  <1>4. QED
    BY <1>2, <1>3 DEF MediaGateTold

LEMMA MediaGateMoves ==
  ASSUME TypeOK, NEW outcome \in {"dispatched", "enqueued"}, NEW from, Finish(outcome, from),
         card \in Media, mediaGate' = RecordSuccess(card, now)
  PROVE  MediaGateTold'
PROOF
  <1> PICK last : last = Len(log) + 1
    OBVIOUS
  <1>1. MediaMark(last)' /\ last \in DOMAIN log'
    BY Appended DEF MediaMark, IsMedia, Succeeded
  <1>2. \A k \in DOMAIN log' : ~(k > last)
    BY Appended 
  <1>3. log'[last].card = card /\ log'[last].to = now
    BY Appended
  <1>4. mediaGate' # EmptyGate /\ \A r \in mediaGate' : r.payload = card /\ r.at = now
    BY DEF RecordSuccess, EmptyGate
  <1>5. QED
    BY <1>1, <1>2, <1>3, <1>4 DEF MediaGateTold

LEMMA ActionGateStays ==
  ASSUME TypeOK, ActionGateTold, NEW outcome, NEW from, Finish(outcome, from),
         actionGate' = actionGate,
         card \in Media \/ outcome \in {"invalid", "suppressed"}
  PROVE  ActionGateTold'
PROOF
  <1> PICK last : last = Len(log) + 1
    OBVIOUS
  <1>1. ~ActionMark(last)'
    BY Appended DEF ActionMark, IsMedia, Attempted
  <1>2. \A k \in DOMAIN log' : ActionMark(k)' => k \in DOMAIN log /\ ActionMark(k)
    BY <1>1, Appended, Kept 
  <1>3. \A k \in DOMAIN log : /\ k \in DOMAIN log' /\ ActionMark(k)' <=> ActionMark(k)
                            /\ log'[k] = log[k]
    BY Appended, Kept 
  <1>4. QED
    BY <1>2, <1>3 DEF ActionGateTold

LEMMA ActionGateMoves ==
  ASSUME TypeOK, NEW outcome \in {"done", "action_failed"}, NEW from, Finish(outcome, from),
         card \notin Media, actionGate' = RecordSuccess(card, now)
  PROVE  ActionGateTold'
PROOF
  <1> PICK last : last = Len(log) + 1
    OBVIOUS
  <1>1. ActionMark(last)' /\ last \in DOMAIN log'
    BY Appended DEF ActionMark, IsMedia, Attempted
  <1>2. \A k \in DOMAIN log' : ~(k > last)
    BY Appended 
  <1>3. log'[last].card = card /\ log'[last].to = now
    BY Appended
  <1>4. actionGate' # EmptyGate /\ \A r \in actionGate' : r.payload = card /\ r.at = now
    BY DEF RecordSuccess, EmptyGate
  <1>5. QED
    BY <1>1, <1>2, <1>3, <1>4 DEF ActionGateTold

-----------------------------------------------------------------------------
(***************************************************************************)
(* The properties, when a scan ends with an entry of the log.              *)
(***************************************************************************)
LEMMA ReplayKept ==
  ASSUME TypeOK, MediaGateTold, NoAccidentalReplay,
         NEW outcome \in Outcomes, NEW from \in Nat, Finish(outcome, from),
         card \in Media /\ outcome \notin {"invalid", "suppressed"}
           => \A r \in mediaGate : r.payload = card => from - r.at > Window
  PROVE  NoAccidentalReplay'
PROOF
  <1> PICK last : last = Len(log) + 1
    OBVIOUS
  <1> SUFFICES ASSUME NEW i \in DOMAIN log', NEW j \in DOMAIN log',
                      i < j, log'[i].card = log'[j].card,
                      IsMedia(i)', Succeeded(i)', Attempted(j)',
                      \A k \in i+1..j-1 : ~(IsMedia(k)' /\ Succeeded(k)')
               PROVE  log'[j].from - log'[i].to > Window
    BY DEF NoAccidentalReplay
  <1>1. i \in 1..Len(log) /\ j \in 1..last /\ last \in Nat /\ Len(log) \in Nat
    BY Appended
  <1>2. log'[i] = log[i] /\ IsMedia(i) /\ Succeeded(i) /\ i \in DOMAIN log
    BY <1>1, Appended, Kept
  <1>3. \A k \in i+1..j-1 : k \in 1..Len(log) /\ ~(IsMedia(k) /\ Succeeded(k))
    <2>1. \A k \in i+1..j-1 : k \in 1..Len(log)
      BY <1>1
    <2>2. QED
      BY <2>1, Kept
  <1>4. CASE j \in 1..Len(log)
    <2>1. log'[j] = log[j] /\ Attempted(j) /\ j \in DOMAIN log
      BY <1>4, Appended, Kept
    <2>2. QED
      BY <1>2, <1>3, <2>1 DEF NoAccidentalReplay
  <1>5. CASE j = last
    <2>1. PICK r \in mediaGate : TRUE
      BY <1>2 DEF MediaGateTold, MediaMark, EmptyGate
    <2>2. PICK l \in DOMAIN log :
            /\ MediaMark(l) /\ log[l].card = r.payload /\ log[l].to = r.at
            /\ \A k \in DOMAIN log : k > l => ~MediaMark(k)
      BY DEF MediaGateTold
    <2>3. DOMAIN log = 1..Len(log)
      BY Appended
    <2>4. ~(i > l)
      BY <1>2, <2>2 DEF MediaMark
    <2>5. ~(l > i)
      BY <1>1, <1>3, <1>5, <2>2, <2>3 DEF MediaMark
    <2>6. l = i
      BY <1>1, <2>2, <2>3, <2>4, <2>5
    <2>7. log'[j].card = card /\ log'[j].from = from /\ log'[j].outcome = outcome
      BY <1>5, Appended
    <2>8. card \in Media /\ outcome \notin {"invalid", "suppressed"}
      BY <1>2, <2>7 DEF IsMedia, Attempted
    <2>9. QED
      BY <1>2, <2>2, <2>6, <2>7, <2>8
  <1>6. QED
    BY <1>1, <1>4, <1>5

LEMMA ActionsKept ==
  ASSUME TypeOK, ActionGateTold, ActionRunsOnce,
         NEW outcome \in Outcomes, NEW from \in Nat, Finish(outcome, from),
         card \notin Media /\ outcome \notin {"invalid", "suppressed"}
           => \A r \in actionGate : r.payload = card => from - r.at > Debounce
  PROVE  ActionRunsOnce'
PROOF
  <1> PICK last : last = Len(log) + 1
    OBVIOUS
  <1> SUFFICES ASSUME NEW i \in DOMAIN log', NEW j \in DOMAIN log',
                      i < j, log'[i].card = log'[j].card,
                      ~IsMedia(i)', Attempted(i)', Attempted(j)',
                      \A k \in i+1..j-1 : IsMedia(k)' \/ ~Attempted(k)'
               PROVE  log'[j].from - log'[i].to > Debounce
    BY DEF ActionRunsOnce
  <1>1. i \in 1..Len(log) /\ j \in 1..last /\ last \in Nat /\ Len(log) \in Nat
    BY Appended
  <1>2. log'[i] = log[i] /\ ~IsMedia(i) /\ Attempted(i) /\ i \in DOMAIN log
    BY <1>1, Appended, Kept
  <1>3. \A k \in i+1..j-1 : k \in 1..Len(log) /\ (IsMedia(k) \/ ~Attempted(k))
    <2>1. \A k \in i+1..j-1 : k \in 1..Len(log)
      BY <1>1
    <2>2. QED
      BY <2>1, Kept
  <1>4. CASE j \in 1..Len(log)
    <2>1. log'[j] = log[j] /\ Attempted(j) /\ j \in DOMAIN log
      BY <1>4, Appended, Kept
    <2>2. QED
      BY <1>2, <1>3, <2>1 DEF ActionRunsOnce
  <1>5. CASE j = last
    <2>1. PICK r \in actionGate : TRUE
      BY <1>2 DEF ActionGateTold, ActionMark, EmptyGate
    <2>2. PICK l \in DOMAIN log :
            /\ ActionMark(l) /\ log[l].card = r.payload /\ log[l].to = r.at
            /\ \A k \in DOMAIN log : k > l => ~ActionMark(k)
      BY DEF ActionGateTold
    <2>3. DOMAIN log = 1..Len(log)
      BY Appended
    <2>4. ~(i > l)
      BY <1>2, <2>2 DEF ActionMark
    <2>5. ~(l > i)
      BY <1>1, <1>3, <1>5, <2>2, <2>3 DEF ActionMark
    <2>6. l = i
      BY <1>1, <2>2, <2>3, <2>4, <2>5
    <2>7. log'[j].card = card /\ log'[j].from = from /\ log'[j].outcome = outcome
      BY <1>5, Appended
    <2>8. card \notin Media /\ outcome \notin {"invalid", "suppressed"}
      BY <1>2, <2>7 DEF IsMedia, Attempted
    <2>9. QED
      BY <1>2, <2>2, <2>6, <2>7, <2>8
  <1>6. QED
    BY <1>1, <1>4, <1>5

LEMMA RetryKept ==
  ASSUME TypeOK, Past, MediaGateTold, NoAccidentalReplay, FailedCardMayRetry,
         NEW outcome \in Outcomes, NEW from \in Nat, Finish(outcome, from),
         card \in Media /\ outcome = "suppressed"
           => \E r \in mediaGate : r.payload = card /\ now - r.at <= Window
  PROVE  FailedCardMayRetry'
PROOF
  <1> PICK last : last = Len(log) + 1
    OBVIOUS
  <1> SUFFICES ASSUME NEW j \in DOMAIN log', IsMedia(j)', log'[j].outcome = "suppressed"
               PROVE  \E i \in 1..j-1 :
                        /\ log'[i].card = log'[j].card
                        /\ Succeeded(i)'
                        /\ log'[j].to - log'[i].to <= Window
                        /\ \A k \in i+1..j-1 : ~(log'[k].card = log'[j].card /\ Attempted(k)')
    BY DEF FailedCardMayRetry
  <1>1. /\ j \in 1..last /\ last \in Nat /\ Len(log) \in Nat
        /\ DOMAIN log = 1..Len(log) /\ \A k \in 1..j-1 : k \in 1..Len(log)
    BY Appended
  <1>2. \A k \in 1..j-1 : log'[k] = log[k] /\ (Succeeded(k)' <=> Succeeded(k))
                                         /\ (Attempted(k)' <=> Attempted(k))
    BY <1>1, Appended, Kept
  <1>3. CASE j \in 1..Len(log)
    <2>1. log'[j] = log[j] /\ IsMedia(j)
      BY <1>3, Appended, Kept
    <2>2. PICK i \in 1..j-1 :
            /\ log[i].card = log[j].card
            /\ Succeeded(i)
            /\ log[j].to - log[i].to <= Window
            /\ \A k \in i+1..j-1 : ~(log[k].card = log[j].card /\ Attempted(k))
      BY <1>1, <1>3, <2>1 DEF FailedCardMayRetry
    <2>3. \A k \in i+1..j-1 : k \in 1..j-1
      BY <1>1, <1>3
    <2>4. QED
      BY <1>2, <2>1, <2>2, <2>3
  <1>4. CASE j = last
    <2>1. log'[j].card = card /\ log'[j].to = now /\ card \in Media /\ outcome = "suppressed"
      BY <1>4, Appended DEF IsMedia
    <2>2. PICK r \in mediaGate : r.payload = card /\ now - r.at <= Window
      BY <2>1
    <2>3. PICK i \in DOMAIN log :
            /\ MediaMark(i) /\ log[i].card = r.payload /\ log[i].to = r.at
            /\ \A k \in DOMAIN log : k > i => ~MediaMark(k)
      BY DEF MediaGateTold
    <2>4. i \in 1..j-1
      BY <1>1, <1>4, <2>3
    <2>5. ASSUME NEW k \in i+1..j-1, log[k].card = card, Attempted(k)
          PROVE  FALSE
      <3>1. k \in DOMAIN log /\ i < k
        BY <1>1, <2>4
      <3>2. \A h \in i+1..k-1 : ~(IsMedia(h) /\ Succeeded(h))
        <4>1. \A h \in i+1..k-1 : h \in DOMAIN log /\ h > i
          BY <1>1, <2>4, <3>1
        <4>2. QED
          BY <2>3, <4>1 DEF MediaMark
      <3>3. log[k].from - log[i].to > Window
        BY <2>2, <2>3, <2>5, <3>1, <3>2 DEF NoAccidentalReplay, MediaMark
      <3>4. log[k].from <= now /\ log[k].from \in Nat /\ now \in Nat /\ log[i].to \in Nat
        BY <3>1, EntryTypes, BoundsAssumption DEF Past, TypeOK
      <3>5. QED
        BY <2>2, <2>3, <3>3, <3>4, BoundsAssumption
    <2>6. \A k \in i+1..j-1 : k \in 1..j-1
      BY <1>1, <1>4, <2>4
    <2>7. \A k \in i+1..j-1 : ~(log'[k].card = log'[j].card /\ Attempted(k)')
      BY <1>2, <2>1, <2>5, <2>6
    <2>8. /\ log'[i].card = log'[j].card /\ Succeeded(i)'
          /\ log'[j].to - log'[i].to <= Window
      BY <1>2, <2>1, <2>2, <2>3, <2>4 DEF MediaMark
    <2>9. QED
      BY <2>4, <2>7, <2>8
  <1>5. QED
    BY <1>1, <1>3, <1>4

LEMMA QueuesKept ==
  ASSUME TypeOK, ChoiceTold, QueuesOnlyWhenAsked,
         NEW outcome \in Outcomes, NEW from \in Nat, Finish(outcome, from),
         outcome = "enqueued"
           => KindOf[card] = "track" /\ sawPlaying /\ store.mode = "queue_tracks"
  PROVE  QueuesOnlyWhenAsked'
PROOF
  <1> PICK last : last = Len(log) + 1
    OBVIOUS
  <1> SUFFICES ASSUME NEW j \in DOMAIN log', log'[j].outcome = "enqueued"
               PROVE  /\ KindOf[log'[j].card] = "track"
                      /\ log'[j].sawPlaying
                      /\ \A i \in 1..j-1 :
                           (log'[i].card = "mode.replace" /\ log'[i].outcome = "done")
                           => \E k \in i+1..j-1 :
                                log'[k].card = "mode.queue" /\ log'[k].outcome = "done"
    BY DEF QueuesOnlyWhenAsked
  <1>1. /\ j \in 1..last /\ last \in Nat /\ Len(log) \in Nat
        /\ DOMAIN log = 1..Len(log) /\ \A k \in 1..j-1 : k \in 1..Len(log)
    BY Appended
  <1>2. \A k \in 1..j-1 : log'[k] = log[k]
    BY <1>1, Appended
  <1>3. CASE j \in 1..Len(log)
    <2>1. log'[j] = log[j]
      BY <1>3, Appended
    <2>2. ASSUME NEW i \in 1..j-1, log'[i].card = "mode.replace", log'[i].outcome = "done"
          PROVE  \E k \in i+1..j-1 : log'[k].card = "mode.queue" /\ log'[k].outcome = "done"
      <3>1. PICK k \in i+1..j-1 : log[k].card = "mode.queue" /\ log[k].outcome = "done"
        BY <1>1, <1>2, <1>3, <2>1, <2>2 DEF QueuesOnlyWhenAsked
      <3>2. k \in 1..j-1
        BY <1>1
      <3>3. QED
        BY <1>2, <3>1, <3>2
    <2>3. QED
      BY <1>1, <1>3, <2>1, <2>2 DEF QueuesOnlyWhenAsked
  <1>4. CASE j = last
    <2>1. /\ log'[j].card = card /\ log'[j].outcome = outcome
          /\ log'[j].sawPlaying = sawPlaying
      BY <1>4, Appended
    <2>2. ASSUME NEW i \in 1..j-1, log'[i].card = "mode.replace", log'[i].outcome = "done"
          PROVE  \E k \in i+1..j-1 : log'[k].card = "mode.queue" /\ log'[k].outcome = "done"
      <3>1. PICK k \in DOMAIN log :
              k > i /\ log[k].card = "mode.queue" /\ log[k].outcome = "done"
        BY <1>1, <1>2, <2>1, <2>2 DEF ChoiceTold, ReplaceChosen
      <3>2. k \in i+1..j-1 /\ k \in 1..j-1
        BY <1>1, <1>4, <3>1
      <3>3. QED
        BY <1>2, <3>1, <3>2
    <2>3. QED
      BY <2>1, <2>2
  <1>5. QED
    BY <1>1, <1>3, <1>4

LEMMA ChoiceKept ==
  ASSUME TypeOK, ChoiceTold, NEW outcome, NEW from, Finish(outcome, from),
         \/ store'.mode = "replace"
         \/ store'.mode = store.mode /\ ~(card = "mode.replace" /\ outcome = "done")
         \/ card = "mode.queue" /\ outcome = "done"
  PROVE  ChoiceTold'
PROOF
  <1> PICK last : last = Len(log) + 1
    OBVIOUS
  <1> SUFFICES ASSUME NEW i \in DOMAIN log', ReplaceChosen(i)'
               PROVE  store'.mode = "replace"
    BY DEF ChoiceTold
  <1>1. /\ i \in 1..last /\ last \in Nat /\ Len(log) \in Nat
        /\ DOMAIN log = 1..Len(log) /\ DOMAIN log' = 1..last
    BY Appended
  <1>2. \A k \in DOMAIN log : log'[k] = log[k]
    BY <1>1, Appended
  <1>3. log'[last].card = card /\ log'[last].outcome = outcome
    BY Appended
  <1>4. ~(card = "mode.queue" /\ outcome = "done")
    BY <1>1, <1>3 DEF ReplaceChosen
  <1>5. CASE i = last
    BY <1>3, <1>4, <1>5 DEF ReplaceChosen
  <1>6. CASE i \in 1..Len(log)
    <2>1. \A k \in DOMAIN log : k \in DOMAIN log'
      BY <1>1
    <2>2. ReplaceChosen(i)
      BY <1>1, <1>2, <1>6, <2>1 DEF ReplaceChosen
    <2>3. QED
      BY <1>1, <1>4, <1>6, <2>2 DEF ChoiceTold
  <1>7. QED
    BY <1>1, <1>5, <1>6

-----------------------------------------------------------------------------
(***************************************************************************)
(* The inductive invariant.                                                *)
(***************************************************************************)
LogOK == NoAccidentalReplay /\ FailedCardMayRetry /\ ActionRunsOnce /\ QueuesOnlyWhenAsked

IInv ==
  /\ TypeOK /\ CardFits
  /\ MediaGateTold /\ ActionGateTold /\ InFlight
  /\ Past /\ ChoiceTold /\ QueueHeld
  /\ LogOK

\* What an entry of the log does to Past.
LEMMA PastKept ==
  ASSUME TypeOK, Past, NEW outcome \in Outcomes, NEW from \in Nat, Finish(outcome, from),
         from <= now, now' = now, entered' = entered
  PROVE  Past'
PROOF
  <1> PICK last : last = Len(log) + 1
    OBVIOUS
  <1>1. \A k \in DOMAIN log' : k \in DOMAIN log \/ k = last
    BY Appended
  <1>2. \A k \in DOMAIN log : log'[k] = log[k]
    BY Appended
  <1>3. log'[last].from = from
    BY Appended
  <1>4. QED
    BY <1>1, <1>2, <1>3 DEF Past

LEMMA InitIInv == Init => IInv
PROOF
  <1> SUFFICES ASSUME Init
               PROVE  IInv
    OBVIOUS
  <1>1. TypeOK /\ CardFits
    BY TypeInit
  <1>2. pc = "idle" /\ log = <<>> /\ DOMAIN log = {} /\ mediaGate = {} /\ actionGate = {}
    BY DEF Init, EmptyGate
  <1>3. Past
    BY <1>2 DEF Past, Init
  <1>4. MediaGateTold /\ ActionGateTold
    BY <1>2 DEF MediaGateTold, ActionGateTold, EmptyGate
  <1>5. InFlight /\ ChoiceTold /\ QueueHeld
    BY <1>2 DEF InFlight, ChoiceTold, QueueHeld
  <1>6. LogOK
    BY <1>2 DEF LogOK, NoAccidentalReplay, FailedCardMayRetry, ActionRunsOnce,
                QueuesOnlyWhenAsked
  <1>7. QED
    BY <1>1, <1>3, <1>4, <1>5, <1>6 DEF IInv

\* Steps that leave the log and the gates alone.
LEMMA LogUntouched ==
  ASSUME UNCHANGED <<log, mediaGate, actionGate>>, MediaGateTold, ActionGateTold, LogOK
  PROVE  MediaGateTold' /\ ActionGateTold' /\ LogOK'
PROOF BY DEF MediaGateTold, ActionGateTold, MediaMark, ActionMark, LogOK,
  NoAccidentalReplay, FailedCardMayRetry, ActionRunsOnce, QueuesOnlyWhenAsked,
  IsMedia, Succeeded, Attempted

LEMMA ChoiceUntouched ==
  ASSUME UNCHANGED <<log, store>>, ChoiceTold
  PROVE  ChoiceTold'
PROOF BY DEF ChoiceTold, ReplaceChosen

\* The end of a scan as far as every property but the gates' is concerned.
LEMMA Ended ==
  ASSUME IInv, NEW outcome \in Outcomes, NEW from \in Nat, Finish(outcome, from), from <= now,
         now' = now, entered' = entered,
         MediaGateTold', ActionGateTold', ChoiceTold', TypeOK', CardFits',
         card \in Media /\ outcome \notin {"invalid", "suppressed"}
           => \A r \in mediaGate : r.payload = card => from - r.at > Window,
         card \notin Media /\ outcome \notin {"invalid", "suppressed"}
           => \A r \in actionGate : r.payload = card => from - r.at > Debounce,
         card \in Media /\ outcome = "suppressed"
           => \E r \in mediaGate : r.payload = card /\ now - r.at <= Window,
         outcome = "enqueued"
           => KindOf[card] = "track" /\ sawPlaying /\ store.mode = "queue_tracks"
  PROVE  IInv'
PROOF
  <1>1. pc' = "idle"
    BY DEF Finish
  <1>2. NoAccidentalReplay'
    BY ReplayKept DEF IInv, LogOK
  <1>3. FailedCardMayRetry'
    BY RetryKept DEF IInv, LogOK
  <1>4. ActionRunsOnce'
    BY ActionsKept DEF IInv, LogOK
  <1>5. QueuesOnlyWhenAsked'
    BY QueuesKept DEF IInv, LogOK
  <1>6. Past'
    BY PastKept DEF IInv
  <1>7. InFlight' /\ QueueHeld'
    BY <1>1 DEF InFlight, QueueHeld
  <1>8. QED
    BY <1>2, <1>3, <1>4, <1>5, <1>6, <1>7 DEF IInv, LogOK

LEMMA NextIInv == IInv /\ [Next]_vars => IInv'
PROOF
  <1> SUFFICES ASSUME IInv, [Next]_vars
               PROVE  IInv'
    OBVIOUS
  <1>a. TypeOK /\ CardFits /\ TypeOK' /\ CardFits'
    BY TypeNext DEF IInv
  <1>b. now \in Nat /\ entered \in Nat /\ entered <= now /\ Window \in Nat /\ Debounce \in Nat
    BY <1>a, BoundsAssumption DEF TypeOK, IInv, Past
  <1>c. \A r \in mediaGate \cup actionGate : r.at \in Nat
    BY <1>a, BoundsAssumption DEF TypeOK, IsGate, EmptyGate, RecordSuccess
  <1>d. card \in Media => card \notin ActionIds \cup {"unreadable"}
    BY MediaAssumption
  <1>1. ASSUME NEW c \in Deck, Scan(c)
        PROVE  IInv'
    <2>1. MediaGateTold' /\ ActionGateTold' /\ LogOK' /\ ChoiceTold'
      BY <1>1, LogUntouched, ChoiceUntouched DEF Scan, IInv
    <2>2. InFlight' /\ QueueHeld' /\ Past'
      BY <1>1 DEF Scan, IInv, InFlight, QueueHeld, Past
    <2>3. QED
      BY <1>a, <2>1, <2>2 DEF IInv
  <1>2. CASE Reject
    <2>1. Finish("invalid", now) /\ card \notin Media
      BY <1>2, <1>d DEF Reject
    <2>2. MediaGateTold' /\ ActionGateTold' /\ ChoiceTold'
      BY <1>2, <2>1, MediaGateStays, ActionGateStays, ChoiceKept DEF Reject, IInv
    <2>3. QED
      BY <1>2, <1>a, <1>b, <2>1, <2>2, Ended DEF Reject, Outcomes
  <1>3. CASE Suppress
    <2>1. Finish("suppressed", now)
      BY <1>3 DEF Suppress
    <2>2. MediaGateTold' /\ ActionGateTold'
      BY <1>3, <2>1, MediaGateStays, ActionGateStays DEF Suppress, IInv
    <2>3. ChoiceTold'
      BY <1>3, <2>1, ChoiceKept DEF Suppress, IInv
    <2>4. card \in Media => \E r \in mediaGate : r.payload = card /\ now - r.at <= Window
      BY <1>3, <1>d DEF Suppress, IsDuplicate
    <2>5. QED
      BY <1>3, <1>a, <1>b, <2>1, <2>2, <2>3, <2>4, Ended DEF Suppress, Outcomes
  <1>4. CASE AcceptCard
    <2>1. MediaGateTold' /\ ActionGateTold' /\ LogOK' /\ ChoiceTold'
      BY <1>4, LogUntouched, ChoiceUntouched DEF AcceptCard, IInv
    <2>2. InFlight'
      BY <1>4, <1>b, <1>c, <1>d DEF AcceptCard, InFlight, IsDuplicate
    <2>3. QueueHeld' /\ Past'
      BY <1>4, <1>b DEF AcceptCard, IInv, QueueHeld, Past
    <2>4. QED
      BY <1>a, <2>1, <2>2, <2>3 DEF IInv
  <1>5. CASE LoadMode
    <2>1. MediaGateTold' /\ ActionGateTold' /\ LogOK' /\ ChoiceTold'
      BY <1>5, LogUntouched, ChoiceUntouched DEF LoadMode, IInv
    <2>2. InFlight' /\ QueueHeld' /\ Past'
      BY <1>5 DEF LoadMode, IInv, InFlight, QueueHeld, Past
    <2>3. QED
      BY <1>a, <2>1, <2>2 DEF IInv
  <1>6. CASE ProbePlayer
    <2>1. MediaGateTold' /\ ActionGateTold' /\ LogOK' /\ ChoiceTold'
      BY <1>6, LogUntouched, ChoiceUntouched DEF ProbePlayer, IInv
    <2>2. InFlight' /\ QueueHeld' /\ Past'
      BY <1>6 DEF ProbePlayer, IInv, InFlight, QueueHeld, Past
    <2>3. QED
      BY <1>a, <2>1, <2>2 DEF IInv
  <1>7. CASE Play
    <2>1. /\ card \in Media /\ card \notin ActionIds /\ card # "mode.replace"
          /\ \A r \in mediaGate : r.payload = card => entered - r.at > Window
      BY <1>7, <1>a, <1>d DEF Play, CardFits, IInv, InFlight, ActionIds
    <2>2. ASSUME NEW o \in {"dispatched", "enqueued"}, Finish(o, entered),
                 mediaGate' = RecordSuccess(card, now),
                 o = "enqueued" => pc = "enqueue"
          PROVE  IInv'
      <3>1. MediaGateTold'
        BY <1>a, <2>1, <2>2, MediaGateMoves
      <3>2. ActionGateTold' /\ ChoiceTold'
        BY <1>7, <1>a, <2>1, <2>2, ActionGateStays, ChoiceKept DEF Play, IInv
      <3>3. o = "enqueued" => KindOf[card] = "track" /\ sawPlaying /\ store.mode = "queue_tracks"
        BY <2>2 DEF IInv, QueueHeld
      <3>4. QED
        BY <1>7, <1>a, <1>b, <2>1, <2>2, <3>1, <3>2, <3>3, Ended DEF Play, Outcomes
    <2>3. ASSUME Finish("failed", entered), mediaGate' = mediaGate
          PROVE  IInv'
      <3>1. MediaGateTold'
        BY <1>a, <2>1, <2>3, MediaGateStays DEF IInv
      <3>2. ActionGateTold' /\ ChoiceTold'
        BY <1>7, <1>a, <2>1, <2>3, ActionGateStays, ChoiceKept DEF Play, IInv
      <3>3. QED
        BY <1>7, <1>a, <1>b, <2>1, <2>3, <3>1, <3>2, Ended DEF Play, Outcomes
    <2>4. QED
      BY <1>7, <2>2, <2>3 DEF Play
  <1>8. CASE Act
    <2>1. /\ card \in ActionIds /\ card \notin Media
          /\ \A r \in actionGate : r.payload = card => entered - r.at > Debounce
      BY <1>8, <1>a, <1>d DEF Act, CardFits, IInv, InFlight
    <2>2. PICK r \in RouterResults(card, store) : store' = r.store /\ Finish(r.outcome, entered)
      BY <1>8 DEF Act
    <2>3. /\ r.outcome \in {"done", "action_failed"}
          /\ card = "mode.replace" => store'.mode = "replace"
          /\ card \notin {"mode.replace", "mode.queue"} => store'.mode = store.mode
          /\ card = "mode.queue" => r.outcome = "done"
      BY <1>a, <2>1, <2>2, RouterType DEF TypeOK
    <2>4. ActionGateTold'
      BY <1>8, <1>a, <2>1, <2>2, <2>3, ActionGateMoves DEF Act
    <2>5. MediaGateTold'
      BY <1>8, <1>a, <2>1, <2>2, MediaGateStays DEF Act, IInv
    <2>6. ChoiceTold'
      BY <1>a, <2>2, <2>3, ChoiceKept DEF IInv
    <2>7. QED
      BY <1>8, <1>a, <1>b, <2>1, <2>2, <2>3, <2>4, <2>5, <2>6, Ended DEF Act, Outcomes
  <1>9. CASE Tick
    <2>1. MediaGateTold' /\ ActionGateTold' /\ LogOK' /\ ChoiceTold'
      BY <1>9, LogUntouched, ChoiceUntouched DEF Tick, IInv
    <2>2. Past'
      <3>1. \A k \in DOMAIN log : log[k].from \in Nat
        BY <1>a, EntryTypes
      <3>2. QED
        BY <1>9, <1>b, <3>1 DEF Tick, IInv, Past
    <2>3. InFlight' /\ QueueHeld'
      BY <1>9 DEF Tick, IInv, InFlight, QueueHeld
    <2>4. QED
      BY <1>a, <2>1, <2>2, <2>3 DEF IInv
  <1>10. CASE PlayerChanges
    <2>1. MediaGateTold' /\ ActionGateTold' /\ LogOK' /\ ChoiceTold'
      BY <1>10, LogUntouched, ChoiceUntouched DEF PlayerChanges, IInv
    <2>2. InFlight' /\ QueueHeld' /\ Past'
      BY <1>10 DEF PlayerChanges, IInv, InFlight, QueueHeld, Past
    <2>3. QED
      BY <1>a, <2>1, <2>2 DEF IInv
  <1>11. CASE Restart
    <2>1. /\ pc' = "idle" /\ log' = <<>> /\ DOMAIN log' = {}
          /\ mediaGate' = {} /\ actionGate' = {} /\ entered' = 0 /\ now' = now
      BY <1>11 DEF Restart, EmptyGate
    <2>2. MediaGateTold' /\ ActionGateTold'
      BY <2>1 DEF MediaGateTold, ActionGateTold, EmptyGate
    <2>3. InFlight' /\ ChoiceTold' /\ QueueHeld' /\ Past'
      BY <1>b, <2>1 DEF InFlight, ChoiceTold, QueueHeld, Past
    <2>4. LogOK'
      BY <2>1 DEF LogOK, NoAccidentalReplay, FailedCardMayRetry, ActionRunsOnce,
                  QueuesOnlyWhenAsked
    <2>5. QED
      BY <1>a, <2>2, <2>3, <2>4 DEF IInv
  <1>12. CASE UNCHANGED vars
    <2>1. MediaGateTold' /\ ActionGateTold' /\ LogOK' /\ ChoiceTold'
      BY <1>12, LogUntouched, ChoiceUntouched DEF vars, IInv
    <2>2. InFlight' /\ QueueHeld' /\ Past'
      BY <1>12 DEF vars, IInv, InFlight, QueueHeld, Past
    <2>3. QED
      BY <1>a, <2>1, <2>2 DEF IInv
  <1>13. QED
    BY <1>1, <1>2, <1>3, <1>4, <1>5, <1>6, <1>7, <1>8, <1>9, <1>10, <1>11, <1>12
       DEF Next, Process

LEMMA Invariance == Spec => []IInv
PROOF BY InitIInv, NextIInv, PTL DEF Spec

(***************************************************************************)
(* DuplicateGate does its work: no payload is played again within the      *)
(* window of its success, unless another was played in between.            *)
(***************************************************************************)
THEOREM ReplaySafety == Spec => []NoAccidentalReplay
PROOF
  <1>1. IInv => NoAccidentalReplay
    BY DEF IInv, LogOK
  <1>2. QED
    BY <1>1, Invariance, PTL

(***************************************************************************)
(* A card whose dispatch failed is never suppressed for that failure: its  *)
(* next scan reaches the player again, at once.                            *)
(***************************************************************************)
THEOREM RetrySafety == Spec => []FailedCardMayRetry
PROOF
  <1>1. IInv => FailedCardMayRetry
    BY DEF IInv, LogOK
  <1>2. QED
    BY <1>1, Invariance, PTL

\* An action runs at most once per debounce window, failed or not.
THEOREM ActionSafety == Spec => []ActionRunsOnce
PROOF
  <1>1. IInv => ActionRunsOnce
    BY DEF IInv, LogOK
  <1>2. QED
    BY <1>1, Invariance, PTL

\* Only a track is queued, when the player was seen playing and queue mode
\* was chosen.
THEOREM QueueSafety == Spec => []QueuesOnlyWhenAsked
PROOF
  <1>1. IInv => QueuesOnlyWhenAsked
    BY DEF IInv, LogOK
  <1>2. QED
    BY <1>1, Invariance, PTL

=============================================================================
