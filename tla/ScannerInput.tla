---------------------------- MODULE ScannerInput ----------------------------
(***************************************************************************)
(* adapters/input_evdev.py: the scanner as a keyboard that comes and goes, *)
(* the reader (the main thread in readline()) that puts its keystrokes     *)
(* together to lines, and the threads that call status().                  *)
(*                                                                         *)
(* Whatever is done under the adapter's lock is one step; the key that     *)
(* next() returns is handled in the same step, for nobody else touches the *)
(* buffer while there is a stream.  _default_event_stream_factory is a     *)
(* generator function: to call it opens nothing, the first next() does.    *)
(* The kernel's side of the device (the queue of a reader that opened it,  *)
(* which overflows when nobody reads) is modelled from that use.           *)
(***************************************************************************)
EXTENDS Naturals, Sequences

CONSTANTS
  Keystrokes,   \* the keys of one scan, as KeyKinds
  Capacity,     \* the events the kernel queues for a reader
  MaxSessions,  \* how often the scanner is plugged in: a bound
  MaxScans      \* the scans there are: a bound

\* Keys that the tables read as meant, with shift ("CHAR") or without; keys of
\* a digit that are meant as the "SIGN" above it; and all that no table has.
KeyKinds == {"shift", "release", "CHAR", "char", "SIGN", "other", "enter"}

ASSUME KeystrokesAssumption ==
  /\ Keystrokes \in Seq(KeyKinds)
  /\ Len(Keystrokes) > 0

\* Is shift down after the first p keys of a scan?
ShiftAfter(p) ==
  \E q \in 1..p : Keystrokes[q] = "shift" /\ \A r \in q+1..p : Keystrokes[r] # "release"

\* What a keyboard does to enter a line: it ends with the only enter, and
\* holds shift for the characters that are meant with it and for no other
\* (what it holds for the keys that no table has makes no difference).
ASSUME ScanAssumption ==
  /\ \A p \in 1..Len(Keystrokes) :
       /\ Keystrokes[p] = "enter" <=> p = Len(Keystrokes)
       /\ Keystrokes[p] \in {"CHAR", "SIGN"} => ShiftAfter(p)
       /\ Keystrokes[p] = "char" => ~ShiftAfter(p)
  /\ ~ShiftAfter(Len(Keystrokes))
ASSUME CapacityAssumption == Capacity \in Nat \ {0}
ASSUME MaxAssumption == MaxSessions \in Nat /\ MaxScans \in Nat

VARIABLES
  plugged,     \* the number of the session the scanner is plugged in for, or 0
  sessions,    \* the sessions so far
  scans,       \* the scans begun so far
  typed,       \* the keys of the current scan typed so far, 0 between scans
  events,      \* self._events: no stream, a generator not begun, or one open
  session,     \* the session whose device the stream has opened
  queue,       \* the keystrokes of the open device that are not read yet
  buffer,      \* self._buffer
  shift,       \* self._shift_pressed
  ready,       \* self._status.ready
  reader,      \* where the main thread is
  asking,      \* is a status() call between its two locks?
  reported,    \* what the latest status() call returned
  line,        \* the line readline() returned last
  firstWhole,  \* history: the first scan to begin after the device was opened
  dropped      \* history: has the kernel ever dropped a keystroke?

deviceVars == <<plugged, sessions, scans, typed>>
vars == <<deviceVars, events, session, queue, buffer, shift, ready, reader,
          asking, reported, line, firstWhole, dropped>>

-----------------------------------------------------------------------------
Keys == [session : 1..MaxSessions, scan : 0..MaxScans, pos : 1..Len(Keystrokes)]

Characters ==
  [session : 1..MaxSessions, scan : 0..MaxScans, pos : 1..Len(Keystrokes),
   shifted : BOOLEAN]

TypeOK ==
  /\ plugged \in 0..MaxSessions
  /\ sessions \in 0..MaxSessions
  /\ scans \in 0..MaxScans
  /\ typed \in 0..Len(Keystrokes)-1
  /\ events \in {"none", "fresh", "open"}
  /\ session \in 0..MaxSessions
  /\ queue \in Seq(Keys)
  /\ buffer \in Seq(Characters)
  /\ shift \in BOOLEAN
  /\ ready \in BOOLEAN
  /\ reader \in {"ensure", "next", "sleep", "busy"}
  /\ asking \in BOOLEAN
  /\ reported \in {"none", "ready", "unavailable"}
  /\ line \in [text : Seq(Characters), firstWhole : Nat]
  /\ firstWhole \in Nat
  /\ dropped \in BOOLEAN

Init ==
  /\ plugged \in {n \in {0, 1} : n <= MaxSessions}
  /\ sessions = plugged
  /\ scans = 0
  /\ typed = 0
  /\ events = "none"
  /\ session = 0
  /\ queue = <<>>
  /\ buffer = <<>>
  /\ shift = FALSE
  /\ ready = FALSE
  /\ reader = "ensure"
  /\ asking = FALSE
  /\ reported = "none"
  /\ line = [text |-> <<>>, firstWhole |-> 0]
  /\ firstWhole = 0
  /\ dropped = FALSE

-----------------------------------------------------------------------------
(***************************************************************************)
(* The scanner and the kernel.                                             *)
(***************************************************************************)
PlugIn ==
  /\ plugged = 0
  /\ sessions < MaxSessions
  /\ sessions' = sessions + 1
  /\ plugged' = sessions + 1
  /\ typed' = 0
  /\ UNCHANGED <<scans, events, session, queue, buffer, shift, ready, reader,
                 asking, reported, line, firstWhole, dropped>>

\* What the reader's process has read in one go stays, the rest is lost.
Unplug ==
  /\ plugged # 0
  /\ plugged' = 0
  /\ typed' = 0
  /\ \E n \in 0..Len(queue) : queue' = SubSeq(queue, 1, n)
  /\ UNCHANGED <<sessions, scans, events, session, buffer, shift, ready, reader,
                 asking, reported, line, firstWhole, dropped>>

\* One key of a scan.  Only a reader that has the device open gets it; when
\* its queue is full the kernel drops what it holds for it and starts over.
Type ==
  /\ plugged # 0
  /\ typed > 0 \/ scans < MaxScans
  /\ scans' = IF typed = 0 THEN scans + 1 ELSE scans
  /\ typed' = (typed + 1) % Len(Keystrokes)
  /\ LET key == [session |-> plugged, scan |-> scans', pos |-> typed + 1] IN
       \/ /\ events = "open" /\ session = plugged /\ Len(queue) < Capacity
          /\ queue' = Append(queue, key)
          /\ UNCHANGED dropped
       \/ /\ events = "open" /\ session = plugged /\ Len(queue) >= Capacity
          /\ \E n \in 0..Len(queue)-1 : queue' = Append(SubSeq(queue, 1, n), key)
          /\ dropped' = TRUE
       \/ /\ ~(events = "open" /\ session = plugged)
          /\ UNCHANGED <<queue, dropped>>
  /\ UNCHANGED <<plugged, sessions, events, session, buffer, shift, ready,
                 reader, asking, reported, line, firstWhole>>

-----------------------------------------------------------------------------
\* Mutant of Reset: the partial scan survives the connection.
ResetShiftOnly == UNCHANGED buffer /\ shift' = FALSE

Reset == buffer' = <<>> /\ shift' = FALSE

\* Mutant of EnsureEventStream: every call makes a new stream.
EnsureNewStream == events' = "fresh" /\ Reset /\ ready' = TRUE

\* _ensure_event_stream: a new stream is ready before it is open.
EnsureEventStream ==
  IF events # "none"
    THEN UNCHANGED <<events, buffer, shift, ready>>
    ELSE events' = "fresh" /\ Reset /\ ready' = TRUE

\* Mutant of MarkUnavailable: the stream that failed is kept.
MarkUnavailableKeepsStream ==
  /\ UNCHANGED <<events, queue>>
  /\ Reset
  /\ ready' = FALSE

\* _mark_unavailable: the stream goes, and with it the open device.
MarkUnavailable ==
  /\ events' = "none"
  /\ queue' = <<>>
  /\ Reset
  /\ ready' = FALSE

(***************************************************************************)
(* readline().                                                             *)
(***************************************************************************)
Ensure ==
  /\ reader = "ensure"
  /\ EnsureEventStream
  /\ reader' = "next"
  /\ UNCHANGED <<deviceVars, session, queue, asking, reported, line, firstWhole, dropped>>

\* The first next(): InputDevice(scanner_device).
Open ==
  /\ reader = "next" /\ events = "fresh"
  /\ plugged # 0
  /\ events' = "open"
  /\ session' = plugged
  /\ queue' = <<>>
  /\ firstWhole' = scans + 1
  /\ UNCHANGED <<deviceVars, buffer, shift, ready, reader, asking, reported, line, dropped>>

\* Mutant of Fail: the error is the end of the input.
FailEndsInput ==
  /\ reader = "next"
  /\ \/ events = "fresh" /\ plugged = 0
     \/ events = "open" /\ queue = <<>> /\ session # plugged
  /\ MarkUnavailable
  /\ reader' = "ended"
  /\ UNCHANGED <<deviceVars, session, asking, reported, line, firstWhole, dropped>>

\* OSError, from the open or, once all it read is used up, from the read.
Fail ==
  /\ reader = "next"
  /\ \/ events = "fresh" /\ plugged = 0
     \/ events = "open" /\ queue = <<>> /\ session # plugged
  /\ MarkUnavailable
  /\ reader' = "sleep"
  /\ UNCHANGED <<deviceVars, session, asking, reported, line, firstWhole, dropped>>

WakeUp ==
  /\ reader = "sleep"
  /\ reader' = "ensure"
  /\ UNCHANGED <<deviceVars, events, session, queue, buffer, shift, ready,
                 asking, reported, line, firstWhole, dropped>>

\* What each kind of key does to the buffer, the shift state and the line.
PressShift(kind) ==
  /\ kind \in {"shift", "release"}
  /\ shift' = (kind = "shift")
  /\ reader' = "ensure"
  /\ UNCHANGED <<buffer, line>>

\* The keys that both tables have.
InTables == {"char", "CHAR", "SIGN"}

\* _map_keycode_to_char: the shifted table reads a digit's key as the digit.
MapKeycode(kind, pressed) == pressed /\ kind # "SIGN"

\* Mutant of PressCharacter: every key is looked up without shift.
PressUnshifted(key, kind) ==
  /\ \/ /\ kind \in InTables
        /\ buffer' = Append(buffer, [session |-> key.session, scan |-> key.scan,
                                     pos |-> key.pos, shifted |-> FALSE])
     \/ /\ kind = "other"
        /\ UNCHANGED buffer
  /\ reader' = "ensure"
  /\ UNCHANGED <<shift, line>>

\* A key that is in no table is passed over.
PressCharacter(key, kind) ==
  /\ \/ /\ kind \in InTables
        /\ buffer' = Append(buffer, [session |-> key.session, scan |-> key.scan,
                                     pos |-> key.pos, shifted |-> MapKeycode(kind, shift)])
     \/ /\ kind = "other"
        /\ UNCHANGED buffer
  /\ reader' = "ensure"
  /\ UNCHANGED <<shift, line>>

\* An empty line is not returned.
PressEnter(kind) ==
  /\ kind = "enter"
  /\ IF buffer = <<>>
       THEN reader' = "ensure" /\ UNCHANGED <<buffer, line>>
       ELSE /\ line' = [text |-> buffer, firstWhole |-> firstWhole]
            /\ buffer' = <<>>
            /\ reader' = "busy"
  /\ UNCHANGED shift

ReadKey ==
  /\ reader = "next" /\ events = "open" /\ queue # <<>>
  /\ queue' = Tail(queue)
  /\ LET key == Head(queue)
         kind == Keystrokes[key.pos]
     IN  PressShift(kind) \/ PressCharacter(key, kind) \/ PressEnter(kind)
  /\ UNCHANGED <<deviceVars, events, session, ready, asking, reported,
                 firstWhole, dropped>>

\* Controller.process_line is through, and the loop of main asks for a line.
ReadOn ==
  /\ reader = "busy"
  /\ reader' = "ensure"
  /\ UNCHANGED <<deviceVars, events, session, queue, buffer, shift, ready,
                 asking, reported, line, firstWhole, dropped>>

(***************************************************************************)
(* status(), from the health monitor or an HTTP handler: it takes the lock *)
(* to have a stream, and again to read the status.                         *)
(***************************************************************************)
Ask ==
  /\ ~asking
  /\ EnsureEventStream
  /\ asking' = TRUE
  /\ UNCHANGED <<deviceVars, session, queue, reader, reported, line, firstWhole, dropped>>

Answer ==
  /\ asking
  /\ reported' = IF ready THEN "ready" ELSE "unavailable"
  /\ asking' = FALSE
  /\ UNCHANGED <<deviceVars, events, session, queue, buffer, shift, ready,
                 reader, line, firstWhole, dropped>>

Reader == Ensure \/ Open \/ Fail \/ WakeUp \/ ReadKey \/ ReadOn

Next == PlugIn \/ Unplug \/ Type \/ Reader \/ Ask \/ Answer

Spec == Init /\ [][Next]_vars

\* The main thread goes on: InputDevice answers, sleeps end, and so does the
\* controller's work on a line.  Nobody needs to ask, type or plug.
FairSpec == Spec /\ WF_vars(Reader)

-----------------------------------------------------------------------------
(***************************************************************************)
(* EPIC-3-technical.md fears "edge cases around partial buffered scans"    *)
(* after a disconnect: a line is never put together from keystrokes of two *)
(* connections, not even when the kernel dropped some.                     *)
(***************************************************************************)
OneConnection ==
  \A i, j \in DOMAIN line.text : line.text[i].session = line.text[j].session

\* The characters of a scan whose keys are of these kinds, with shift or not.
TextOf(text, kinds, shifted) ==
  /\ \A i \in DOMAIN text : text[i].shifted = (Keystrokes[text[i].pos] \in shifted)
  /\ {text[i].pos : i \in DOMAIN text}
       = {p \in DOMAIN Keystrokes : Keystrokes[p] \in kinds}

(***************************************************************************)
(* A line is one scan, past any unplugging: all the characters that the    *)
(* key tables have for its keys, none of them lost, merged with the next   *)
(* scan's or read with another shift than was held.  Three cases are       *)
(* excepted: keys that the tables do not have (ScansAsPrinted), the scan   *)
(* during which the device was opened, and what follows when the kernel    *)
(* drops keystrokes, which the adapter does not notice (it skips           *)
(* SYN_DROPPED with all that is not EV_KEY).                               *)
(***************************************************************************)
WholeLines ==
  (~dropped /\ line.text # <<>>) =>
    /\ \A i, j \in DOMAIN line.text :
         /\ line.text[i].scan = line.text[j].scan
         /\ i < j => line.text[i].pos < line.text[j].pos
    /\ line.text[1].scan >= line.firstWhole => TextOf(line.text, InTables, {"CHAR"})

(***************************************************************************)
(* A card that is scanned is read as it is printed: every key of it that   *)
(* stands for a character gives that character.  The cards of              *)
(* pi-validation.md:22-23 have a hyphen, which is in neither key table, so *)
(* the line is another than the card's.                                    *)
(***************************************************************************)
ScansAsPrinted ==
  (~dropped /\ line.text # <<>> /\ line.text[1].scan >= line.firstWhole) =>
    TextOf(line.text, {"char", "CHAR", "SIGN", "other"}, {"CHAR", "SIGN"})

(***************************************************************************)
(* The scanner is opened again after it was plugged in, however often and  *)
(* whenever status() was asked in between.                                 *)
(***************************************************************************)
PluggedIsOpened ==
  \A n \in 1..MaxSessions :
    plugged = n ~> (plugged # n \/ (events = "open" /\ session = n))

(***************************************************************************)
(* A scan of which the last key has arrived becomes a line, unless the     *)
(* scanner is unplugged or the kernel drops a key before it is read.  (A   *)
(* scan with no character of the tables has no line: the run has one.)     *)
(***************************************************************************)
Arrived(n) ==
  /\ events = "open" /\ session = plugged /\ n >= firstWhole
  /\ \E i \in DOMAIN queue : queue[i].scan = n /\ Keystrokes[queue[i].pos] = "enter"

ScanBecomesLine ==
  \A n \in 1..MaxScans :
    Arrived(n) ~> (\/ line.text # <<>> /\ line.text[1].scan = n
                   \/ dropped
                   \/ session # plugged)

=============================================================================
