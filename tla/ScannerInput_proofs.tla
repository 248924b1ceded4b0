------------------------ MODULE ScannerInput_proofs ------------------------
(***************************************************************************)
(* Proofs about ScannerInput, for scans of any keystrokes and a kernel     *)
(* queue of any size.  A line is of one connection because everything that *)
(* is on its way to it is: the queue and the buffer hold keystrokes of the *)
(* session whose device is open, and nothing while none is (OfSession).    *)
(***************************************************************************)
EXTENDS ScannerInput, TLAPS

OfSession ==
  /\ events # "open" => queue = <<>> /\ buffer = <<>>
  /\ \A i \in DOMAIN queue : queue[i].session = session
  /\ \A i \in DOMAIN buffer : buffer[i].session = session

IInv == TypeOK /\ OfSession /\ OneConnection

-----------------------------------------------------------------------------
(***************************************************************************)
(* Sequences whose elements are all of one session.                        *)
(***************************************************************************)
AllOf(s, n) == \A i \in DOMAIN s : s[i].session = n

LEMMA EmptyFact ==
  ASSUME NEW S, NEW n
  PROVE  <<>> \in Seq(S) /\ AllOf(<<>>, n)
PROOF BY DEF AllOf

LEMMA AppendFact ==
  ASSUME NEW S, NEW s \in Seq(S), NEW e \in S, NEW n, AllOf(s, n), e.session = n
  PROVE  AllOf(Append(s, e), n)
PROOF
  <1>1. /\ DOMAIN Append(s, e) = 1..Len(s)+1
        /\ \A i \in 1..Len(s) : Append(s, e)[i] = s[i] /\ i \in DOMAIN s
        /\ Append(s, e)[Len(s)+1] = e
    OBVIOUS
  <1>2. \A i \in 1..Len(s)+1 : i \in 1..Len(s) \/ i = Len(s)+1
    OBVIOUS
  <1>3. QED
    BY <1>1, <1>2 DEF AllOf

LEMMA PrefixFact ==
  ASSUME NEW S, NEW s \in Seq(S), NEW k \in 0..Len(s), NEW n, AllOf(s, n)
  PROVE  SubSeq(s, 1, k) \in Seq(S) /\ AllOf(SubSeq(s, 1, k), n)
PROOF
  <1>1. /\ SubSeq(s, 1, k) \in Seq(S)
        /\ DOMAIN SubSeq(s, 1, k) = 1..k
        /\ \A i \in 1..k : SubSeq(s, 1, k)[i] = s[i] /\ i \in DOMAIN s
    OBVIOUS
  <1>2. QED
    BY <1>1 DEF AllOf

LEMMA TailFact ==
  ASSUME NEW S, NEW s \in Seq(S), s # <<>>, NEW n, AllOf(s, n)
  PROVE  /\ Tail(s) \in Seq(S) /\ AllOf(Tail(s), n)
         /\ Head(s) \in S /\ Head(s).session = n
PROOF
  <1>1. /\ Tail(s) \in Seq(S)
        /\ \A i \in DOMAIN Tail(s) : Tail(s)[i] = s[i+1] /\ i+1 \in DOMAIN s
        /\ Head(s) \in S /\ Head(s) = s[1] /\ 1 \in DOMAIN s
    OBVIOUS
  <1>2. QED
    BY <1>1 DEF AllOf

\* OfSession, in these terms.
Quiet == /\ events # "open" => queue = <<>> /\ buffer = <<>>
         /\ AllOf(queue, session) /\ AllOf(buffer, session)

LEMMA QuietFact == (OfSession <=> Quiet) /\ (OfSession' <=> Quiet')
PROOF BY DEF OfSession, Quiet, AllOf

-----------------------------------------------------------------------------
LEMMA InitIInv == Init => IInv
PROOF
  <1> SUFFICES ASSUME Init
               PROVE  IInv
    OBVIOUS
  <1>1. queue \in Seq(Keys) /\ buffer \in Seq(Characters)
    BY DEF Init
  <1>2. line \in [text : Seq(Characters), firstWhole : Nat] /\ line.text = <<>>
    BY DEF Init
  <1>3. /\ plugged \in 0..MaxSessions /\ sessions \in 0..MaxSessions /\ scans \in 0..MaxScans
        /\ typed \in 0..Len(Keystrokes)-1 /\ session \in 0..MaxSessions /\ firstWhole \in Nat
    BY MaxAssumption, KeystrokesAssumption DEF Init
  <1>4. shift \in BOOLEAN /\ ready \in BOOLEAN /\ asking \in BOOLEAN /\ dropped \in BOOLEAN
    BY DEF Init
  <1>5. TypeOK
    BY <1>1, <1>2, <1>3, <1>4 DEF Init, TypeOK
  <1>6. OfSession
    BY QuietFact, EmptyFact DEF Init, Quiet
  <1>7. OneConnection
    BY <1>2 DEF OneConnection
  <1>8. QED
    BY <1>5, <1>6, <1>7 DEF IInv

\* What _ensure_event_stream leaves.
LEMMA EnsureFact ==
  ASSUME TypeOK, Quiet, EnsureEventStream, queue' = queue, session' = session
  PROVE  /\ events' \in {"none", "fresh", "open"} /\ buffer' \in Seq(Characters)
         /\ shift' \in BOOLEAN /\ ready' \in BOOLEAN
         /\ Quiet'
PROOF
  <1>1. CASE events # "none"
    BY <1>1 DEF EnsureEventStream, TypeOK, Quiet
  <1>2. CASE events = "none"
    <2>1. /\ events' = "fresh" /\ buffer' = <<>> /\ shift' = FALSE /\ ready' = TRUE
          /\ queue = <<>>
      BY <1>2 DEF EnsureEventStream, Reset, Quiet
    <2>2. shift' \in BOOLEAN /\ ready' \in BOOLEAN
      BY <2>1
    <2>3. buffer' \in Seq(Characters) /\ Quiet'
      BY <2>1, EmptyFact DEF Quiet
    <2>4. QED
      BY <2>1, <2>2, <2>3
  <1>3. QED
    BY <1>1, <1>2

LEMMA NextIInv == IInv /\ [Next]_vars => IInv'
PROOF
  <1> SUFFICES ASSUME TypeOK, OneConnection, Quiet, [Next]_vars
               PROVE  TypeOK' /\ OneConnection' /\ Quiet'
    BY QuietFact DEF IInv
  <1> USE MaxAssumption, KeystrokesAssumption, CapacityAssumption
  <1>1. CASE PlugIn
    BY <1>1 DEF PlugIn, TypeOK, OneConnection, Quiet
  <1>2. CASE Unplug
    <2>1. PICK n \in 0..Len(queue) : queue' = SubSeq(queue, 1, n)
      BY <1>2 DEF Unplug
    <2>2. queue' \in Seq(Keys) /\ AllOf(queue', session)
      BY <2>1, PrefixFact DEF TypeOK, Quiet
    <2>3. events # "open" => queue' = <<>>
      BY <2>1 DEF Quiet
    <2>4. QED
      BY <1>2, <2>2, <2>3 DEF Unplug, TypeOK, OneConnection, Quiet
  <1>3. CASE Type
    <2> DEFINE key == [session |-> plugged, scan |-> scans', pos |-> typed + 1]
    <2>1. scans' \in 0..MaxScans
      BY <1>3 DEF Type, TypeOK
    <2>5. typed + 1 \in 1..Len(Keystrokes) /\ typed' \in 0..Len(Keystrokes)-1
      BY <1>3 DEF Type, TypeOK
    <2>2. key \in Keys /\ key.session = plugged
      BY <1>3, <2>1, <2>5 DEF Type, TypeOK, Keys
    <2> HIDE DEF key
    <2>3. /\ queue' \in Seq(Keys) /\ AllOf(queue', session) /\ dropped' \in BOOLEAN
          /\ events # "open" => queue' = <<>>
      <3>1. CASE events = "open" /\ session = plugged /\ queue' = Append(queue, key)
                   /\ UNCHANGED dropped
        BY <2>2, <3>1, AppendFact DEF TypeOK, Quiet
      <3>2. ASSUME events = "open", session = plugged, dropped' = TRUE,
                   NEW n \in 0..Len(queue)-1, queue' = Append(SubSeq(queue, 1, n), key)
            PROVE  /\ queue' \in Seq(Keys) /\ AllOf(queue', session) /\ dropped' \in BOOLEAN
                   /\ events # "open" => queue' = <<>>
        <4>1. queue \in Seq(Keys) /\ AllOf(queue, session)
          BY DEF TypeOK, Quiet
        <4>6. n \in 0..Len(queue)
          BY <3>2, <4>1
        <4> DEFINE front == SubSeq(queue, 1, n)
        <4>2. front \in Seq(Keys) /\ AllOf(front, session)
          BY <4>1, <4>6, PrefixFact
        <4>7. queue' = Append(front, key) /\ key.session = session
          BY <2>2, <3>2
        <4> HIDE DEF front
        <4>8. Append(front, key) \in Seq(Keys)
          BY <2>2, <4>2
        <4>9. AllOf(Append(front, key), session)
          BY <2>2, <4>2, <4>7, AppendFact
        <4>3. queue' \in Seq(Keys) /\ AllOf(queue', session)
          BY <4>7, <4>8, <4>9
        <4>4. dropped' \in BOOLEAN
          BY <3>2
        <4>5. QED
          BY <3>2, <4>3, <4>4
      <3>3. CASE UNCHANGED <<queue, dropped>>
        BY <3>3 DEF TypeOK, Quiet
      <3>4. QED
        BY <1>3, <3>1, <3>2, <3>3 DEF Type, key
    <2>4. QED
      BY <1>3, <2>1, <2>5, <2>3 DEF Type, TypeOK, OneConnection, Quiet
  <1>4. CASE Ensure
    <2>1. /\ events' \in {"none", "fresh", "open"} /\ buffer' \in Seq(Characters)
          /\ shift' \in BOOLEAN /\ ready' \in BOOLEAN /\ Quiet'
      BY <1>4, EnsureFact DEF Ensure
    <2>2. QED
      BY <1>4, <2>1 DEF Ensure, deviceVars, TypeOK, OneConnection
  <1>5. CASE Open
    <2>1. queue' = <<>> /\ queue' \in Seq(Keys) /\ buffer' = <<>> /\ events' = "open"
      BY <1>5 DEF Open, Quiet
    <2>2. Quiet'
      BY <2>1, EmptyFact DEF Quiet
    <2>3. QED
      BY <1>5, <2>1, <2>2 DEF Open, deviceVars, TypeOK, OneConnection
  <1>6. CASE Fail
    <2>1. /\ events' = "none" /\ queue' = <<>> /\ buffer' = <<>> /\ shift' = FALSE
          /\ ready' = FALSE
      BY <1>6 DEF Fail, MarkUnavailable, Reset
    <2>2. shift' \in BOOLEAN /\ ready' \in BOOLEAN
      BY <2>1
    <2>3. queue' \in Seq(Keys) /\ buffer' \in Seq(Characters) /\ Quiet'
      BY <2>1, EmptyFact DEF Quiet
    <2>4. QED
      BY <1>6, <2>1, <2>2, <2>3 DEF Fail, deviceVars, TypeOK, OneConnection
  <1>7. CASE WakeUp
    BY <1>7 DEF WakeUp, deviceVars, TypeOK, OneConnection, Quiet
  <1>8. CASE ReadKey
    <2> DEFINE key == Head(queue)
               kind == Keystrokes[key.pos]
               char == [session |-> key.session, scan |-> key.scan,
                        pos |-> key.pos, shifted |-> MapKeycode(kind, shift)]
    <2>1. queue # <<>> /\ events = "open" /\ queue' = Tail(queue)
      BY <1>8 DEF ReadKey
    <2>2. /\ queue' \in Seq(Keys) /\ AllOf(queue', session)
          /\ key \in Keys /\ key.session = session
      BY <2>1, TailFact DEF TypeOK, Quiet
    <2> HIDE DEF key
    <2>3. PressShift(kind) \/ PressCharacter(key, kind) \/ PressEnter(kind)
      BY <1>8 DEF ReadKey, key
    <2> HIDE DEF kind
    <2>4. /\ buffer' \in Seq(Characters) /\ AllOf(buffer', session)
          /\ shift' \in BOOLEAN /\ reader' \in {"ensure", "busy"}
          /\ line' \in [text : Seq(Characters), firstWhole : Nat]
          /\ OneConnection'
      <3>1. CASE PressShift(kind)
        BY <3>1 DEF PressShift, TypeOK, Quiet, OneConnection
      <3>2. CASE PressCharacter(key, kind) /\ kind = "other"
        BY <3>2 DEF PressCharacter, InTables, TypeOK, Quiet, OneConnection
      <3>6. CASE PressCharacter(key, kind) /\ kind # "other"
        <4>1. char \in Characters /\ char.session = session
          BY <2>2 DEF TypeOK, Keys, Characters, MapKeycode
        <4> HIDE DEF char
        <4>2. buffer' = Append(buffer, char)
          BY <3>6 DEF PressCharacter, char
        <4>3. buffer \in Seq(Characters) /\ AllOf(buffer, session)
          BY DEF TypeOK, Quiet
        <4>4. buffer' \in Seq(Characters)
          BY <4>1, <4>2, <4>3
        <4>5. AllOf(buffer', session)
          BY <4>1, <4>2, <4>3, AppendFact
        <4>6. QED
          BY <3>6, <4>4, <4>5 DEF PressCharacter, TypeOK, OneConnection
      <3>3. CASE PressEnter(kind) /\ buffer = <<>>
        BY <3>3 DEF PressEnter, TypeOK, Quiet, OneConnection
      <3>4. CASE PressEnter(kind) /\ buffer # <<>>
        <4>1. /\ line' = [text |-> buffer, firstWhole |-> firstWhole]
              /\ buffer' = <<>> /\ reader' = "busy" /\ shift' = shift
          BY <3>4 DEF PressEnter
        <4>2. line' \in [text : Seq(Characters), firstWhole : Nat] /\ line'.text = buffer
          BY <4>1 DEF TypeOK
        <4>3. OneConnection'
          BY <4>2 DEF OneConnection, Quiet, AllOf
        <4>4. buffer' \in Seq(Characters) /\ AllOf(buffer', session)
          BY <4>1, EmptyFact
        <4>5. QED
          BY <4>1, <4>2, <4>3, <4>4 DEF TypeOK
      <3>5. QED
        BY <2>3, <3>1, <3>2, <3>3, <3>4, <3>6
    <2>5. QED
      BY <1>8, <2>1, <2>2, <2>4 DEF ReadKey, deviceVars, TypeOK, Quiet
  <1>9. CASE ReadOn
    BY <1>9 DEF ReadOn, deviceVars, TypeOK, OneConnection, Quiet
  <1>10. CASE Ask
    <2>1. /\ events' \in {"none", "fresh", "open"} /\ buffer' \in Seq(Characters)
          /\ shift' \in BOOLEAN /\ ready' \in BOOLEAN /\ Quiet'
      BY <1>10, EnsureFact DEF Ask
    <2>2. asking' \in BOOLEAN
      BY <1>10 DEF Ask
    <2>3. QED
      BY <1>10, <2>1, <2>2 DEF Ask, deviceVars, TypeOK, OneConnection
  <1>11. CASE Answer
    <2>1. asking' \in BOOLEAN /\ reported' \in {"none", "ready", "unavailable"}
      BY <1>11 DEF Answer
    <2>2. QED
      BY <1>11, <2>1 DEF Answer, deviceVars, TypeOK, OneConnection, Quiet
  <1>12. CASE UNCHANGED vars
    BY <1>12 DEF vars, deviceVars, TypeOK, OneConnection, Quiet
  <1>13. QED
    BY <1>1, <1>2, <1>3, <1>4, <1>5, <1>6, <1>7, <1>8, <1>9, <1>10, <1>11, <1>12
       DEF Next, Reader

LEMMA Invariance == Spec => []IInv
PROOF BY InitIInv, NextIInv, PTL DEF Spec

(***************************************************************************)
(* TypeOK holds in every reachable state of readline() and status(), with  *)
(* a device that comes, goes and is typed on at any time.                  *)
(***************************************************************************)
THEOREM TypeCorrect == Spec => []TypeOK
PROOF
  <1>1. IInv => TypeOK
    BY DEF IInv
  <1>2. QED
    BY Invariance, <1>1, PTL

(***************************************************************************)
(* OneConnection: whatever readline() returns was typed on one connection, *)
(* because _ensure_event_stream and _mark_unavailable both reset the       *)
(* buffer (input_evdev.py) and no keystroke outlives its stream.           *)
(***************************************************************************)
THEOREM ConnectionSafety == Spec => []OneConnection
PROOF
  <1>1. IInv => OneConnection
    BY DEF IInv
  <1>2. QED
    BY Invariance, <1>1, PTL

-----------------------------------------------------------------------------
(***************************************************************************)
(* WholeLines.  As long as the kernel drops nothing, the keys still to be  *)
(* read follow one another without a gap (Unbroken), and the buffer holds  *)
(* what was typed of the current scan before the next of them (Reading):   *)
(* all of it, with the right shift, if the scan began after the device was *)
(* opened.                                                                 *)
(***************************************************************************)
IsCharacter(p) == Keystrokes[p] \in InTables

\* m is typed right after k.
Follows(k, m) ==
  \/ m.scan = k.scan /\ m.pos = k.pos + 1 /\ k.pos < Len(Keystrokes)
  \/ m.scan = k.scan + 1 /\ m.pos = 1 /\ k.pos = Len(Keystrokes)

\* The key that will be typed next, and the one that will be read next.
Coming == [scan |-> IF typed = 0 THEN scans + 1 ELSE scans, pos |-> typed + 1]
Front == IF queue # <<>> THEN queue[1] ELSE Coming

Unbroken ==
  /\ \A i \in 1..Len(queue)-1 : Follows(queue[i], queue[i+1])
  /\ (session = plugged /\ queue # <<>>) => Follows(queue[Len(queue)], Coming)

Rising(text) == \A i, j \in DOMAIN text : i < j => text[i].pos < text[j].pos

Meant(text) == \A i \in DOMAIN text : text[i].shifted = (Keystrokes[text[i].pos] = "CHAR")

Covers(text, n) == \A p \in 1..n : IsCharacter(p) => \E i \in DOMAIN text : text[i].pos = p

Before(text, k) ==
  \A i \in DOMAIN text :
    text[i].scan = k.scan /\ text[i].pos < k.pos /\ IsCharacter(text[i].pos)

\* The state of the reader when k is the next key, of a whole scan or not.
Reading(text, pressed, k, whole) ==
  /\ Before(text, k) /\ Rising(text)
  /\ pressed => ShiftAfter(k.pos - 1)
  /\ k.scan >= whole =>
       (ShiftAfter(k.pos - 1) => pressed) /\ Meant(text) /\ Covers(text, k.pos - 1)

Live == events = "open" /\ (queue # <<>> \/ session = plugged)

Sound ==
  /\ session <= sessions /\ plugged <= sessions
  /\ events = "open" => session # 0
  /\ events # "open" => shift = FALSE
  /\ (~dropped /\ events = "open") => Unbroken
  /\ (~dropped /\ Live) => Reading(buffer, shift, Front, firstWhole)

WInv == Sound /\ WholeLines

LEMMA ShiftStep ==
  ASSUME NEW p \in 1..Len(Keystrokes)
  PROVE  /\ Keystrokes[p] = "shift" => ShiftAfter(p)
         /\ Keystrokes[p] = "release" => ~ShiftAfter(p)
         /\ Keystrokes[p] \notin {"shift", "release"} => (ShiftAfter(p) <=> ShiftAfter(p - 1))
PROOF
  <1> USE KeystrokesAssumption
  <1>1. ASSUME Keystrokes[p] = "shift"
        PROVE  ShiftAfter(p)
    <2>1. p \in 1..p /\ p+1..p = {}
      OBVIOUS
    <2>2. QED
      BY <1>1, <2>1 DEF ShiftAfter
  <1>2. ASSUME Keystrokes[p] = "release", ShiftAfter(p)
        PROVE  FALSE
    <2>1. PICK q \in 1..p : Keystrokes[q] = "shift" /\ \A r \in q+1..p : Keystrokes[r] # "release"
      BY <1>2 DEF ShiftAfter
    <2>2. q # p
      BY <1>2, <2>1
    <2>3. p \in q+1..p
      BY <2>2
    <2>4. QED
      BY <1>2, <2>1, <2>3
  <1>3. ASSUME Keystrokes[p] \notin {"shift", "release"}, ShiftAfter(p)
        PROVE  ShiftAfter(p - 1)
    <2>1. PICK q \in 1..p : Keystrokes[q] = "shift" /\ \A r \in q+1..p : Keystrokes[r] # "release"
      BY <1>3 DEF ShiftAfter
    <2>2. q # p
      BY <1>3, <2>1
    <2>3. q \in 1..p-1 /\ \A r \in q+1..p-1 : r \in q+1..p
      BY <2>2
    <2>4. QED
      BY <2>1, <2>3 DEF ShiftAfter
  <1>4. ASSUME Keystrokes[p] \notin {"shift", "release"}, ShiftAfter(p - 1)
        PROVE  ShiftAfter(p)
    <2>1. PICK q \in 1..p-1 :
            Keystrokes[q] = "shift" /\ \A r \in q+1..p-1 : Keystrokes[r] # "release"
      BY <1>4 DEF ShiftAfter
    <2>2. q \in 1..p /\ \A r \in q+1..p : r \in q+1..p-1 \/ r = p
      OBVIOUS
    <2>3. QED
      BY <1>4, <2>1, <2>2 DEF ShiftAfter
  <1>5. QED
    BY <1>1, <1>2, <1>3, <1>4

LEMMA NoShiftAtFirst == ~ShiftAfter(0)
PROOF BY DEF ShiftAfter

\* Only the enter ends a scan.
LEMMA FollowsFact ==
  ASSUME NEW k \in Keys, NEW m, Follows(k, m)
  PROVE  /\ k.pos \in 1..Len(Keystrokes) /\ k.scan \in Nat
         /\ Keystrokes[k.pos] # "enter" => m.scan = k.scan /\ m.pos = k.pos + 1
         /\ Keystrokes[k.pos] = "enter" => m.scan = k.scan + 1 /\ m.pos = 1
PROOF
  <1>1. k.pos \in 1..Len(Keystrokes) /\ k.scan \in Nat
    BY MaxAssumption DEF Keys
  <1>2. Keystrokes[k.pos] = "enter" <=> k.pos = Len(Keystrokes)
    BY <1>1, ScanAssumption
  <1>3. QED
    BY <1>1, <1>2, KeystrokesAssumption DEF Follows

LEMMA PositionFact ==
  ASSUME NEW text \in Seq(Characters), NEW i \in DOMAIN text
  PROVE  text[i].pos \in 1..Len(Keystrokes) /\ text[i].pos \in Nat
PROOF
  <1>1. text[i] \in Characters
    OBVIOUS
  <1>2. QED
    BY <1>1, KeystrokesAssumption DEF Characters

\* A key that leaves the buffer as it is: a shift, or one that no table has.
LEMMA ReadNoCharacter ==
  ASSUME NEW k \in Keys, NEW m, Follows(k, m), NEW text \in Seq(Characters),
         NEW pressed \in BOOLEAN, NEW whole \in Nat, Reading(text, pressed, k, whole),
         NEW after \in BOOLEAN,
         \/ Keystrokes[k.pos] \in {"shift", "release"} /\ after = (Keystrokes[k.pos] = "shift")
         \/ Keystrokes[k.pos] = "other" /\ after = pressed
  PROVE  Reading(text, after, m, whole)
PROOF
  <1>1. /\ k.pos \in 1..Len(Keystrokes) /\ k.scan \in Nat
        /\ m.scan = k.scan /\ m.pos = k.pos + 1
    BY FollowsFact
  <1>2. Before(text, m)
    <2>1. \A i \in DOMAIN text : text[i].pos \in Nat
      BY PositionFact
    <2>2. QED
      BY <1>1, <2>1 DEF Reading, Before
  <1>3. m.pos - 1 = k.pos
    BY <1>1
  <1>4. /\ after => ShiftAfter(m.pos - 1)
        /\ m.scan >= whole => (ShiftAfter(m.pos - 1) => after)
    <2>1. CASE Keystrokes[k.pos] \in {"shift", "release"}
      BY <1>1, <1>3, <2>1, ShiftStep
    <2>2. CASE Keystrokes[k.pos] = "other"
      <3>1. ShiftAfter(m.pos - 1) <=> ShiftAfter(k.pos - 1)
        BY <1>1, <1>3, <2>2, ShiftStep
      <3>2. QED
        BY <1>1, <2>2, <3>1 DEF Reading
    <2>3. QED
      BY <2>1, <2>2
  <1>5. ASSUME m.scan >= whole
        PROVE  Meant(text) /\ Covers(text, m.pos - 1)
    <2>1. Meant(text) /\ Covers(text, k.pos - 1)
      BY <1>1, <1>5 DEF Reading
    <2>2. \A p \in 1..k.pos : p \in 1..k.pos-1 \/ p = k.pos
      BY <1>1
    <2>3. QED
      BY <1>3, <2>1, <2>2 DEF Covers, IsCharacter, InTables
  <1>6. QED
    BY <1>2, <1>4, <1>5 DEF Reading

LEMMA ReadCharacter ==
  ASSUME NEW k \in Keys, NEW m, Follows(k, m), NEW text \in Seq(Characters),
         NEW pressed \in BOOLEAN, NEW whole \in Nat, Reading(text, pressed, k, whole),
         IsCharacter(k.pos),
         NEW c \in Characters, c.scan = k.scan, c.pos = k.pos,
         c.shifted = MapKeycode(Keystrokes[k.pos], pressed)
  PROVE  Reading(Append(text, c), pressed, m, whole)
PROOF
  <1> DEFINE longer == Append(text, c)
             n == Len(text)
  <1>1. /\ k.pos \in 1..Len(Keystrokes) /\ k.scan \in Nat
        /\ m.scan = k.scan /\ m.pos = k.pos + 1 /\ m.pos - 1 = k.pos
    BY FollowsFact DEF IsCharacter, InTables
  <1>2. /\ n \in Nat /\ DOMAIN text = 1..n /\ DOMAIN longer = 1..n+1
        /\ \A i \in 1..n : longer[i] = text[i] /\ i \in 1..n+1
        /\ longer[n+1] = c /\ n+1 \in 1..n+1
        /\ \A i \in 1..n+1 : i \in 1..n \/ i = n+1
    OBVIOUS
  <1>8. \A i \in 1..n : text[i].pos \in Nat
    BY <1>2, PositionFact
  <1> HIDE DEF longer, n
  <1>3. Before(longer, m)
    BY <1>1, <1>2, <1>8 DEF Reading, Before
  <1>4. Rising(longer)
    <2>1. ASSUME NEW i \in 1..n+1, NEW j \in 1..n+1, i < j
          PROVE  longer[i].pos < longer[j].pos
      <3>1. i \in 1..n
        BY <1>2, <2>1
      <3>2. CASE j \in 1..n
        BY <1>2, <2>1, <3>1, <3>2 DEF Reading, Rising
      <3>3. CASE j = n+1
        BY <1>2, <1>8, <3>1, <3>3 DEF Reading, Before
      <3>4. QED
        BY <1>2, <3>2, <3>3
    <2>2. QED
      BY <1>2, <2>1 DEF Rising
  <1>5. /\ ShiftAfter(m.pos - 1) <=> ShiftAfter(k.pos - 1)
        /\ Keystrokes[k.pos] = "CHAR" <=> MapKeycode(Keystrokes[k.pos], ShiftAfter(m.pos - 1))
    BY <1>1, ShiftStep, ScanAssumption DEF IsCharacter, InTables, MapKeycode
  <1>6. ASSUME m.scan >= whole
        PROVE  /\ ShiftAfter(m.pos - 1) => pressed
               /\ Meant(longer) /\ Covers(longer, m.pos - 1)
    <2>1. /\ ShiftAfter(k.pos - 1) <=> pressed
          /\ Meant(text) /\ Covers(text, k.pos - 1)
      BY <1>1, <1>6 DEF Reading
    <2>2. Meant(longer)
      <3>1. c.shifted = (Keystrokes[c.pos] = "CHAR")
        BY <1>5, <2>1 DEF MapKeycode, Characters
      <3>2. QED
        BY <1>2, <2>1, <3>1 DEF Meant
    <2>3. \A p \in 1..k.pos : p \in 1..k.pos-1 \/ p = k.pos
      BY <1>1
    <2>4. Covers(longer, k.pos)
      BY <1>2, <2>1, <2>3 DEF Covers
    <2>5. QED
      BY <1>1, <1>5, <2>1, <2>2, <2>4
  <1>7. QED
    BY <1>3, <1>4, <1>5, <1>6 DEF Reading, longer

\* The enter: the scan is over with shift released, whatever was seen of it,
\* and if it was seen as a whole, the buffer holds it.
LEMMA ReadEnter ==
  ASSUME NEW k \in Keys, NEW m, Follows(k, m), NEW text \in Seq(Characters),
         NEW pressed \in BOOLEAN, NEW whole \in Nat, Reading(text, pressed, k, whole),
         Keystrokes[k.pos] = "enter"
  PROVE  /\ Reading(<<>>, pressed, m, whole)
         /\ \A i \in DOMAIN text : text[i].scan = k.scan
         /\ Rising(text)
         /\ k.scan >= whole => TextOf(text, InTables, {"CHAR"})
PROOF
  <1>1. /\ k.pos \in 1..Len(Keystrokes) /\ m.scan = k.scan + 1 /\ m.pos = 1
        /\ m.pos - 1 = 0
    BY FollowsFact
  <1>2. k.pos = Len(Keystrokes)
    BY <1>1, ScanAssumption
  <1>3. pressed = FALSE
    BY <1>1, <1>2, ShiftStep, ScanAssumption DEF Reading
  <1>4. Reading(<<>>, pressed, m, whole)
    <2>1. Before(<<>>, m) /\ Rising(<<>>) /\ Meant(<<>>) /\ Covers(<<>>, 0)
      BY DEF Before, Rising, Meant, Covers
    <2>2. QED
      BY <1>1, <1>3, <2>1, NoShiftAtFirst DEF Reading
  <1>5. ASSUME k.scan >= whole
        PROVE  TextOf(text, InTables, {"CHAR"})
    <2>1. /\ Meant(text) /\ Covers(text, k.pos - 1)
          /\ \A i \in DOMAIN text : IsCharacter(text[i].pos) /\ text[i].pos \in DOMAIN Keystrokes
      BY <1>5, PositionFact, KeystrokesAssumption DEF Reading, Before
    <2>2. \A p \in DOMAIN Keystrokes : IsCharacter(p) => p \in 1..k.pos-1
      BY <1>1, <1>2, KeystrokesAssumption DEF IsCharacter, InTables
    <2>3. {text[i].pos : i \in DOMAIN text} = {p \in DOMAIN Keystrokes : IsCharacter(p)}
      BY <2>1, <2>2 DEF Covers
    <2>4. QED
      BY <2>1, <2>3 DEF TextOf, Meant, IsCharacter, InTables
  <1>6. QED
    BY <1>4, <1>5 DEF Reading, Before

-----------------------------------------------------------------------------
(***************************************************************************)
(* A step that leaves alone what the reader has, and at most takes the     *)
(* scanner out or puts it in as another session.                           *)
(***************************************************************************)
LEMMA StillSound ==
  ASSUME TypeOK, Sound,
         UNCHANGED <<events, session, queue, buffer, shift, firstWhole, dropped>>,
         \/ UNCHANGED deviceVars
         \/ /\ session # plugged' \/ events # "open"
            /\ session <= sessions' /\ plugged' <= sessions'
  PROVE  Sound'
PROOF
  <1> USE DEF deviceVars
  <1>1. Unbroken => Unbroken' \/ events # "open"
    BY DEF Unbroken, Coming
  <1>2. Live' => Live /\ Front' = Front
    BY DEF Live, Front, Coming
  <1>3. ASSUME ~dropped, Live'
        PROVE  Reading(buffer, shift, Front, firstWhole)'
    <2>1. Reading(buffer, shift, Front, firstWhole) /\ Front' = Front
      BY <1>2, <1>3 DEF Sound
    <2>2. QED
      BY <2>1 DEF Reading, Before, Rising, Meant, Covers, ShiftAfter, IsCharacter, InTables
  <1>4. QED
    BY <1>1, <1>3 DEF Sound

LEMMA EnsureSound ==
  ASSUME TypeOK, Sound, EnsureEventStream,
         UNCHANGED <<deviceVars, session, queue, firstWhole, dropped>>
  PROVE  Sound'
PROOF
  <1>1. CASE events # "none"
    BY <1>1, StillSound DEF EnsureEventStream
  <1>2. CASE events = "none"
    <2>1. events' = "fresh" /\ shift' = FALSE
      BY <1>2 DEF EnsureEventStream, Reset
    <2>2. QED
      BY <2>1 DEF Sound, Live, deviceVars
  <1>3. QED
    BY <1>1, <1>2

LEMMA UnplugSound ==
  ASSUME TypeOK, Sound, Unplug
  PROVE  Sound'
PROOF
  <1>1. PICK n \in 0..Len(queue) : queue' = SubSeq(queue, 1, n)
    BY DEF Unplug
  <1>2. /\ queue \in Seq(Keys) /\ Len(queue) \in Nat
        /\ Len(queue') = n /\ \A i \in 1..n : queue'[i] = queue[i]
        /\ queue' # <<>> => n # 0 /\ queue # <<>>
    BY <1>1 DEF TypeOK
  <1>3. plugged' = 0 /\ UNCHANGED <<sessions, events, session, buffer, shift, firstWhole, dropped>>
    BY DEF Unplug
  <1>4. events = "open" => session # plugged'
    BY <1>3 DEF Sound
  <1>5. (~dropped /\ events = "open") => Unbroken'
    <2>1. SUFFICES ASSUME ~dropped, events = "open"
                   PROVE  Unbroken'
      OBVIOUS
    <2>2. \A i \in 1..n-1 : i \in 1..Len(queue)-1 /\ i \in 1..n /\ i+1 \in 1..n
      BY <1>2
    <2>3. \A i \in 1..n-1 : Follows(queue[i], queue[i+1])
      BY <2>1, <2>2 DEF Sound, Unbroken
    <2>4. \A i \in 1..n-1 : Follows(queue'[i], queue'[i+1])
      BY <1>2, <2>2, <2>3
    <2>5. QED
      BY <1>2, <1>3, <1>4, <2>1, <2>4 DEF Unbroken, Follows
  <1>6. Live' => Live /\ Front' = Front
    <2>1. ASSUME Live'
          PROVE  Live /\ Front' = Front
      <3>1. queue' # <<>>
        BY <1>3, <1>4, <2>1 DEF Live
      <3>2. queue # <<>> /\ queue'[1] = queue[1]
        BY <1>2, <3>1
      <3>3. QED
        BY <1>3, <2>1, <3>1, <3>2 DEF Live, Front
    <2>2. QED
      BY <2>1
  <1>7. ASSUME ~dropped, Live'
        PROVE  Reading(buffer, shift, Front, firstWhole)'
    <2>1. Reading(buffer, shift, Front, firstWhole) /\ Front' = Front
      BY <1>6, <1>7 DEF Sound
    <2>2. QED
      BY <1>3, <2>1 DEF Reading, Before, Rising, Meant, Covers, ShiftAfter, IsCharacter, InTables
  <1>8. QED
    BY <1>3, <1>5, <1>7 DEF Sound, TypeOK

LEMMA OpenSound ==
  ASSUME TypeOK, Quiet, Sound, Open
  PROVE  Sound'
PROOF
  <1>1. /\ events' = "open" /\ session' = plugged /\ plugged # 0 /\ queue' = <<>>
        /\ buffer' = <<>> /\ shift' = FALSE /\ firstWhole' = scans + 1
        /\ UNCHANGED <<deviceVars, dropped>>
    BY DEF Open, Quiet, Sound
  <1>2. Unbroken'
    BY <1>1 DEF Unbroken
  <1>3. Front' = Coming
    BY <1>1 DEF Front, Coming, deviceVars
  <1>4. Coming.scan >= scans + 1 => Coming.pos - 1 = 0
    BY DEF Coming, TypeOK
  <1>5. Before(<<>>, Coming) /\ Rising(<<>>) /\ Meant(<<>>) /\ Covers(<<>>, 0)
    BY DEF Before, Rising, Meant, Covers
  <1>6. Reading(<<>>, FALSE, Coming, scans + 1)
    BY <1>4, <1>5, NoShiftAtFirst DEF Reading
  <1>7. Reading(buffer, shift, Front, firstWhole)'
    BY <1>1, <1>3, <1>6 DEF Reading, Before, Rising, Meant, Covers, ShiftAfter, IsCharacter, InTables
  <1>8. QED
    BY <1>1, <1>2, <1>7 DEF Sound, deviceVars, TypeOK

LEMMA EmptyShape ==
  ASSUME NEW S, NEW s \in Seq(S)
  PROVE  Len(s) \in Nat /\ (s = <<>> <=> Len(s) = 0)
PROOF OBVIOUS

LEMMA AppendShape ==
  ASSUME NEW S, NEW s \in Seq(S), NEW e
  PROVE  /\ Len(s) \in Nat /\ (s = <<>> <=> Len(s) = 0)
         /\ Append(s, e) # <<>> /\ Len(Append(s, e)) = Len(s) + 1
         /\ Append(s, e)[Len(s) + 1] = e
         /\ \A i \in 1..Len(s) : Append(s, e)[i] = s[i]
PROOF
  <1>1. Len(s) \in Nat /\ (s = <<>> <=> Len(s) = 0)
    OBVIOUS
  <1>2. s \in Seq(S \cup {e}) /\ e \in S \cup {e}
    OBVIOUS
  <1>3. /\ Len(Append(s, e)) = Len(s) + 1
        /\ Append(s, e)[Len(s) + 1] = e
        /\ \A i \in 1..Len(s) : Append(s, e)[i] = s[i]
    BY <1>1, <1>2
  <1>4. Append(s, e) # <<>>
    BY <1>1, <1>3
  <1>5. QED
    BY <1>1, <1>3, <1>4

LEMMA TailShape ==
  ASSUME NEW S, NEW s \in Seq(S), s # <<>>
  PROVE  /\ Len(s) \in Nat \ {0} /\ Tail(s) \in Seq(S) /\ Len(Tail(s)) = Len(s) - 1
         /\ \A i \in 1..Len(s)-1 : Tail(s)[i] = s[i+1]
         /\ Tail(s) = <<>> <=> Len(s) = 1
         /\ Head(s) \in S /\ Head(s) = s[1]
PROOF
  <1>1. Len(s) \in Nat \ {0} /\ Tail(s) \in Seq(S) /\ Len(Tail(s)) = Len(s) - 1
    OBVIOUS
  <1>2. \A i \in 1..Len(s)-1 : Tail(s)[i] = s[i+1]
    OBVIOUS
  <1>3. Tail(s) = <<>> <=> Len(s) = 1
    <2> DEFINE t == Tail(s)
    <2>1. t \in Seq(S) /\ Len(t) = Len(s) - 1
      BY <1>1
    <2> HIDE DEF t
    <2>2. t = <<>> <=> Len(t) = 0
      BY <2>1, EmptyShape
    <2>3. QED
      BY <1>1, <2>1, <2>2 DEF t
  <1>4. Head(s) \in S /\ Head(s) = s[1]
    OBVIOUS
  <1>5. QED
    BY <1>1, <1>2, <1>3, <1>4

\* The key after the one that is typed now.
LEMMA TypedFact ==
  ASSUME TypeOK, Type
  PROVE  /\ Coming \in [scan : Nat, pos : 1..Len(Keystrokes)]
         /\ scans' = Coming.scan
         /\ Follows(Coming, Coming')
PROOF
  <1> USE KeystrokesAssumption, MaxAssumption
  <1>1. /\ typed \in 0..Len(Keystrokes)-1 /\ scans \in Nat /\ Len(Keystrokes) \in Nat
        /\ scans' = IF typed = 0 THEN scans + 1 ELSE scans
        /\ typed' = (typed + 1) % Len(Keystrokes)
    BY DEF Type, TypeOK
  <1>2. CASE typed + 1 = Len(Keystrokes)
    <2>1. typed' = 0
      BY <1>1, <1>2
    <2>2. QED
      BY <1>1, <1>2, <2>1 DEF Coming, Follows
  <1>3. CASE typed + 1 < Len(Keystrokes)
    <2>1. typed' = typed + 1
      BY <1>1, <1>3
    <2>2. QED
      BY <1>1, <1>3, <2>1 DEF Coming, Follows
  <1>4. QED
    BY <1>1, <1>2, <1>3

LEMMA TypeSound ==
  ASSUME TypeOK, Sound, Type
  PROVE  Sound'
PROOF
  <1>1. UNCHANGED <<plugged, sessions, events, session, buffer, shift, firstWhole>>
    BY DEF Type
  <1>2. ASSUME events = "open", session = plugged, ~dropped'
        PROVE  Unbroken' /\ Reading(buffer, shift, Front, firstWhole)'
    <2> DEFINE key == [session |-> plugged, scan |-> scans', pos |-> typed + 1]
               n == Len(queue)
    <2>1. queue' = Append(queue, key) /\ ~dropped
      BY <1>2 DEF Type
    <2>2. key.scan = Coming.scan /\ key.pos = Coming.pos
      BY TypedFact DEF Coming
    <2> HIDE DEF key
    <2>3. /\ n \in Nat /\ queue' # <<>> /\ Len(queue') = n+1 /\ queue'[n+1] = key
          /\ \A i \in 1..n : queue'[i] = queue[i]
          /\ queue = <<>> <=> n = 0
      BY <2>1, AppendShape DEF TypeOK
    <2>4. Follows(key, Coming')
      BY <2>2, TypedFact DEF Follows
    <2>5. Unbroken
      BY <1>2, <2>1 DEF Sound
    <2>6. \A i \in 1..n : Follows(queue'[i], queue'[i+1])
      <3>1. ASSUME NEW i \in 1..n
            PROVE  Follows(queue'[i], queue'[i+1])
        <4>1. CASE i = n
          <5>1. Follows(queue[n], Coming)
            BY <1>2, <2>3, <2>5, <4>1 DEF Unbroken
          <5>2. QED
            BY <2>2, <2>3, <4>1, <5>1 DEF Follows
        <4>2. CASE i # n
          <5>1. i \in 1..n-1 /\ i+1 \in 1..n
            BY <2>3, <4>2
          <5>2. QED
            BY <2>3, <2>5, <5>1 DEF Unbroken
        <4>3. QED
          BY <4>1, <4>2
      <3>2. QED
        BY <3>1
    <2>7. Unbroken'
      BY <1>1, <2>3, <2>4, <2>6 DEF Unbroken, Follows
    <2>8. Front'.scan = Front.scan /\ Front'.pos = Front.pos
      BY <2>2, <2>3 DEF Front
    <2>9. Reading(buffer, shift, Front, firstWhole)
      BY <1>2, <2>1 DEF Sound, Live
    <2>10. Reading(buffer, shift, Front', firstWhole)
      BY <2>8, <2>9 DEF Reading, Before
    <2>11. QED
      BY <1>1, <2>7, <2>10 DEF Reading, Before, Rising, Meant, Covers, ShiftAfter, IsCharacter, InTables
  <1>3. CASE events = "open" /\ session = plugged
    BY <1>1, <1>2, <1>3 DEF Sound, Live
  <1>4. CASE ~(events = "open" /\ session = plugged)
    <2>1. UNCHANGED <<queue, dropped>>
      BY <1>4 DEF Type
    <2>2. QED
      BY <1>1, <1>4, <2>1, StillSound DEF Sound
  <1>5. QED
    BY <1>3, <1>4

\* What remains to be read follows the key that is read.
LEMMA NextFront ==
  ASSUME TypeOK, Sound, ~dropped, events = "open", queue # <<>>, queue' = Tail(queue),
         UNCHANGED <<deviceVars, events, session>>
  PROVE  /\ Unbroken'
         /\ Head(queue) \in Keys /\ Front = Head(queue)
         /\ Live' => Follows(Head(queue), Front')
PROOF
  <1> DEFINE n == Len(queue)
  <1>1. /\ queue \in Seq(Keys) /\ n \in Nat \ {0} /\ Len(queue') = n-1
        /\ \A i \in 1..n-1 : queue'[i] = queue[i+1]
        /\ queue' # <<>> => n - 1 # 0
        /\ queue' = <<>> => n = 1
        /\ Head(queue) \in Keys /\ Head(queue) = queue[1]
    BY TailShape DEF TypeOK
  <1>2. Unbroken /\ Coming' = Coming /\ plugged' = plugged
    BY DEF Sound, Coming, deviceVars
  <1>3. \A i \in 1..n-2 : Follows(queue'[i], queue'[i+1])
    <2>1. \A i \in 1..n-2 : i \in 1..n-1 /\ i+1 \in 1..n-1
      BY <1>1
    <2>2. QED
      BY <1>1, <1>2, <2>1 DEF Unbroken
  <1>4. (session = plugged /\ queue' # <<>>) => Follows(queue'[Len(queue')], Coming)
    <2>1. queue' # <<>> => n-1 \in 1..n-1
      BY <1>1
    <2>2. QED
      BY <1>1, <1>2, <2>1 DEF Unbroken
  <1>5. Unbroken'
    BY <1>1, <1>2, <1>3, <1>4 DEF Unbroken, Follows
  <1>6. ASSUME Live'
        PROVE  Follows(Head(queue), Front')
    <2>1. CASE queue' # <<>>
      <3>1. 1 \in 1..n-1
        BY <1>1, <2>1
      <3>2. Front' = queue[2] /\ Follows(queue[1], queue[2])
        BY <1>1, <1>2, <2>1, <3>1 DEF Front, Unbroken
      <3>3. QED
        BY <1>1, <3>2
    <2>2. CASE queue' = <<>>
      <3>1. n = 1 /\ session = plugged /\ Front' = Coming
        BY <1>1, <1>2, <1>6, <2>2 DEF Live, Front
      <3>2. QED
        BY <1>1, <1>2, <3>1 DEF Unbroken
    <2>3. QED
      BY <2>1, <2>2
  <1>7. QED
    BY <1>1, <1>5, <1>6 DEF Front

\* A step that returns no line.
LEMMA SameLine ==
  ASSUME WholeLines, line' = line, dropped => dropped'
  PROVE  WholeLines'
PROOF BY DEF WholeLines, TextOf

LEMMA ReadSound ==
  ASSUME TypeOK, Quiet, Sound, WholeLines, ReadKey
  PROVE  Sound' /\ WholeLines'
PROOF
  <1> DEFINE key == Head(queue)
             kind == Keystrokes[key.pos]
             char == [session |-> key.session, scan |-> key.scan,
                      pos |-> key.pos, shifted |-> MapKeycode(kind, shift)]
  <1>1. /\ events = "open" /\ queue # <<>> /\ queue' = Tail(queue)
        /\ UNCHANGED <<deviceVars, events, session, firstWhole, dropped>>
    BY DEF ReadKey
  <1>2. PressShift(kind) \/ PressCharacter(key, kind) \/ PressEnter(kind)
    BY DEF ReadKey
  <1>3. CASE dropped
    BY <1>1, <1>3 DEF Sound, WholeLines, deviceVars
  <1>4. ASSUME ~dropped
        PROVE  Sound' /\ WholeLines'
    <2>1. /\ Unbroken' /\ key \in Keys /\ Front = key
          /\ Live' => Follows(key, Front')
      BY <1>1, <1>4, NextFront
    <2> HIDE DEF key
    <2>2. Reading(buffer, shift, key, firstWhole)
      BY <1>1, <1>4, <2>1 DEF Sound, Live
    <2>3. buffer \in Seq(Characters) /\ shift \in BOOLEAN /\ firstWhole \in Nat
      BY DEF TypeOK
    <2> DEFINE Read == Live' => Reading(buffer', shift', Front', firstWhole)
    <2>4. ASSUME PressShift(kind)
          PROVE  Read /\ WholeLines'
      <3>1. /\ kind \in {"shift", "release"} /\ shift' = (kind = "shift")
            /\ UNCHANGED <<buffer, line>>
        BY <2>4 DEF PressShift
      <3>2. /\ shift' \in BOOLEAN
            /\ Keystrokes[key.pos] \in {"shift", "release"}
            /\ shift' = (Keystrokes[key.pos] = "shift")
        BY <3>1
      <3>4. Read
        BY <2>1, <2>2, <2>3, <3>1, <3>2, ReadNoCharacter
      <3>3. QED
        BY <1>1, <3>1, <3>4, SameLine
    <2>5. ASSUME PressCharacter(key, kind), kind = "other"
          PROVE  Read /\ WholeLines'
      <3>1. UNCHANGED <<buffer, shift, line>>
        BY <2>5 DEF PressCharacter, InTables
      <3>2. Read
        BY <2>1, <2>2, <2>3, <2>5, <3>1, ReadNoCharacter
      <3>3. QED
        BY <1>1, <3>1, <3>2, SameLine
    <2>10. ASSUME PressCharacter(key, kind), kind # "other"
          PROVE  Read /\ WholeLines'
      <3>1. /\ IsCharacter(key.pos) /\ buffer' = Append(buffer, char)
            /\ UNCHANGED <<shift, line>>
        BY <2>10 DEF PressCharacter, IsCharacter
      <3>2. /\ char \in Characters /\ char.scan = key.scan /\ char.pos = key.pos
            /\ char.shifted = MapKeycode(Keystrokes[key.pos], shift)
        BY <2>1, <2>3 DEF Keys, Characters, MapKeycode
      <3> HIDE DEF char
      <3>3. Read
        BY <2>1, <2>2, <2>3, <3>1, <3>2, ReadCharacter
      <3>4. QED
        BY <1>1, <3>1, <3>3, SameLine
    <2>6. ASSUME PressEnter(kind)
          PROVE  Read /\ WholeLines'
      <3>1. /\ kind = "enter" /\ buffer' = <<>> /\ shift' = shift
            /\ \/ line' = line
               \/ line' = [text |-> buffer, firstWhole |-> firstWhole]
        BY <2>6 DEF PressEnter
      <3>2. Read
        BY <2>1, <2>2, <2>3, <3>1, ReadEnter
      <3>3. CASE line' = line
        BY <1>1, <3>2, <3>3, SameLine
      <3>4. CASE line' = [text |-> buffer, firstWhole |-> firstWhole]
        <4> DEFINE after == [scan |-> key.scan + 1, pos |-> 1]
        <4>1. key.pos = Len(Keystrokes)
          BY <2>1, <3>1, ScanAssumption DEF Keys
        <4>2. Follows(key, after)
          BY <4>1 DEF Follows
        <4> HIDE DEF after
        <4>3. /\ \A i \in DOMAIN buffer : buffer[i].scan = key.scan
              /\ Rising(buffer)
              /\ key.scan >= firstWhole => TextOf(buffer, InTables, {"CHAR"})
          BY <2>1, <2>2, <2>3, <3>1, <4>2, ReadEnter
        <4>4. line'.text = buffer /\ line'.firstWhole = firstWhole
          BY <3>4
        <4>5. buffer # <<>> => 1 \in DOMAIN buffer
          BY <2>3
        <4>6. WholeLines'
          BY <4>3, <4>4, <4>5 DEF WholeLines, Rising, TextOf
        <4>7. QED
          BY <3>2, <4>6
      <3>5. QED
        BY <3>1, <3>3, <3>4
    <2>7. Read /\ WholeLines'
      BY <1>2, <2>4, <2>5, <2>6, <2>10
    <2>8. Reading(buffer, shift, Front, firstWhole)' \/ ~Live'
      BY <1>1, <2>7 DEF Reading, Before, Rising, Meant, Covers, ShiftAfter, IsCharacter, InTables
    <2>9. QED
      BY <1>1, <2>1, <2>7, <2>8 DEF Sound, deviceVars
  <1>5. QED
    BY <1>3, <1>4

LEMMA InitWInv == Init => WInv
PROOF
  <1>1. Init => /\ plugged <= sessions /\ session <= sessions
                /\ events = "none" /\ shift = FALSE /\ line.text = <<>>
    BY MaxAssumption DEF Init
  <1>2. QED
    BY <1>1 DEF WInv, Sound, Live, WholeLines

LEMMA NextWInv == IInv /\ WInv /\ [Next]_vars => WInv'
PROOF
  <1> SUFFICES ASSUME TypeOK, Quiet, Sound, WholeLines, [Next]_vars
               PROVE  Sound' /\ WholeLines'
    BY QuietFact DEF IInv, WInv
  <1>1. CASE PlugIn
    <2>1. /\ UNCHANGED <<events, session, queue, buffer, shift, firstWhole, dropped, line>>
          /\ plugged' = sessions + 1 /\ sessions' = sessions + 1
      BY <1>1 DEF PlugIn
    <2>2. session # plugged' /\ session <= sessions' /\ plugged' <= sessions'
      BY <2>1 DEF Sound, TypeOK
    <2>3. QED
      BY <2>1, <2>2, StillSound, SameLine
  <1>2. CASE Unplug
    BY <1>2, UnplugSound, SameLine DEF Unplug
  <1>3. CASE Type
    <2>1. line' = line /\ (dropped => dropped')
      BY <1>3 DEF Type
    <2>2. QED
      BY <1>3, <2>1, TypeSound, SameLine
  <1>4. CASE Ensure
    BY <1>4, EnsureSound, SameLine DEF Ensure
  <1>5. CASE Open
    BY <1>5, OpenSound, SameLine DEF Open
  <1>6. CASE Fail
    <2>1. /\ events' = "none" /\ shift' = FALSE
          /\ UNCHANGED <<deviceVars, session, line, dropped>>
      BY <1>6 DEF Fail, MarkUnavailable, Reset
    <2>2. QED
      BY <2>1, SameLine DEF Sound, Live, deviceVars
  <1>7. CASE WakeUp
    BY <1>7, StillSound, SameLine DEF WakeUp
  <1>8. CASE ReadKey
    BY <1>8, ReadSound
  <1>9. CASE ReadOn
    BY <1>9, StillSound, SameLine DEF ReadOn
  <1>10. CASE Ask
    BY <1>10, EnsureSound, SameLine DEF Ask
  <1>11. CASE Answer
    BY <1>11, StillSound, SameLine DEF Answer
  <1>12. CASE UNCHANGED vars
    BY <1>12, StillSound, SameLine DEF vars
  <1>13. QED
    BY <1>1, <1>2, <1>3, <1>4, <1>5, <1>6, <1>7, <1>8, <1>9, <1>10, <1>11, <1>12
       DEF Next, Reader

(***************************************************************************)
(* WholeLines: while the kernel drops nothing, a line readline() returns   *)
(* (input_evdev.py) has all the characters that _map_keycode_to_char has   *)
(* for the keys of one scan, in order and with the shift they were typed   *)
(* with, or the end of the scan the device was opened in: for every scan a *)
(* keyboard can type and however the device comes and goes.  The keys that *)
(* no table has are not in the line.                                       *)
(***************************************************************************)
THEOREM LineSafety == Spec => []WholeLines
PROOF
  <1>1. WInv => WholeLines
    BY DEF WInv
  <1>2. QED
    BY Invariance, InitWInv, NextWInv, <1>1, PTL DEF Spec

=============================================================================
