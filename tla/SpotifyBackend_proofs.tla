------------------------ MODULE SpotifyBackend_proofs ------------------------
(***************************************************************************)
(* Proofs about SpotifyBackend, for all times that its constants may give, *)
(* the margin included.  What Spotify still leaves of a token and how long *)
(* it has been in use are weighed against what the stored expiry promised, *)
(* and the same for the token a call carries.  How long a call may take is *)
(* counted down, and the two together say when a margin is enough.         *)
(***************************************************************************)
EXTENDS SpotifyBackend, TLAPS

\* The time that n more device lookups of the probe take, each after a sleep.
Span(n) == n * (MaxWait + ProbeInterval)

\* The token that thread t carries, and the time it has carried it, are more than
\* the backend leaves of a token for a call.
Covered(t) ==
  held[t] # Revoked /\ pc[t] \in Requests \cup Sleeps \cup {"assign"} =>
    \E r \in Reports : held[t] + age[t] > Slack(r)

\* What thread t is in the middle of.
Sound(t) ==
  /\ pc[t] \in Requests \cup {"token", "assign"} => wait[t] <= MaxWait
  /\ pc[t] = "pause" =>
       wait[t] <= ProbeInterval /\ call[t] = "probe" /\ tries[t] < ProbeRetries
  /\ pc[t] = "nap" => wait[t] <= ConfirmInterval /\ left[t] + wait[t] > ConfirmInterval
  /\ pc[t] \in {"play", "transfer", "replay", "confirm", "nap"} => call[t] = "dispatch"
  /\ pc[t] = "command" => call[t] \in Commands
  /\ pc[t] = "look" => call[t] = "look"
  /\ pc[t] = "devices" => call[t] \in {"probe", "dispatch"} \cup Commands
  /\ pc[t] \in {"rest", "dead"} <=> call[t] = "none"
  /\ tries[t] <= Retries(call[t])
  /\ pc[t] \in {"rest", "dead", "token"} => held[t] <= 0

\* The cached token against its stored time.
TokenInv ==
  /\ ttl > 0 =>
       \E r \in Reports :
         /\ ttl <= Usable(r)
         /\ token # Revoked => token + took >= ttl + Slack(r)
  /\ \A t \in Threads : pc[t] = "assign" /\ token # Revoked => token + took >= Lifetime

BackendInv == TypeOK /\ TokenInv /\ \A t \in Threads : Sound(t) /\ Covered(t)

\* What thread t has heard, it has heard since Spotify accepted its request, and
\* its call has no answer yet.
HeardInv ==
  \A t \in Threads :
    /\ call[t] # "none" => answer[t] = "none"
    /\ pc[t] \in {"confirm", "nap"} => accepted[t]
    /\ heard[t] => real[t] /\ pc[t] \in {"confirm", "nap"}

-----------------------------------------------------------------------------
LEMMA Constants ==
  /\ Lifetime \in Nat /\ Margin \in Nat /\ MaxWait \in Nat /\ ConfirmTimeout \in Nat
  /\ ConfirmInterval \in Nat /\ ProbeRetries \in Nat /\ ProbeInterval \in Nat
  /\ MaxWait > 0 /\ ConfirmTimeout > 0 /\ ConfirmInterval > 0 /\ ProbeInterval > 0
  /\ ConfirmInterval <= ConfirmTimeout
BY TimesAssumption

\* However an answer is taken, a token is used for a while, and what is left of its
\* life then is less than its life.
LEMMA Usables ==
  ASSUME NEW r \in Reports
  PROVE  /\ Usable(r) \in Nat /\ Usable(r) > 0
         /\ Slack(r) \in Int /\ Slack(r) = Lifetime - Usable(r)
<1>1. Usable(r) \in Nat /\ Usable(r) > 0
  BY TimesAssumption DEF Usable
<1>. QED  BY <1>1, Constants DEF Slack

\* Each lookup that the probe does not repeat is taken off the span.
LEMMA Spans ==
  /\ Span(0) = 0
  /\ \A n \in Nat : Span(n) \in Nat
  /\ \A n \in Nat : n > 0 => Span(n) = Span(n - 1) + MaxWait + ProbeInterval
<1>. MaxWait \in Nat /\ ProbeInterval \in Nat /\ ProbeRetries \in Nat
  BY TimesAssumption
<1>1. Span(0) = 0
  BY DEF Span
<1>2. ASSUME NEW n \in Nat PROVE Span(n) \in Nat
  BY DEF Span
<1>3. ASSUME NEW n \in Nat, n > 0
      PROVE  Span(n) = Span(n - 1) + MaxWait + ProbeInterval
  BY <1>3 DEF Span
<1>. QED  BY <1>1, <1>2, <1>3

\* Every failure of a request has a reason, every reason a status.
LEMMA ReasonTypes ==
  ASSUME NEW request \in DOMAIN ReasonCodeFor, NEW failure \in Failures
  PROVE  Reason(request, failure) \in Reasons
BY DEF Reason, Failures, ReasonCodeFor, Reasons

LEMMA StatusTypes == \A a \in Reasons \cup {"ok"} : StatusOf[a] \in Codes
BY DEF StatusOf, Reasons, Codes

-----------------------------------------------------------------------------
\* A thread whose call does not go on stays sound and covered.
LEMMA OthersStay ==
  ASSUME NEW u \in Threads, Sound(u), Covered(u),
         pc'[u] = pc[u], wait'[u] = wait[u], held'[u] = held[u], age'[u] = age[u],
         call'[u] = call[u], tries'[u] = tries[u], left'[u] = left[u]
  PROVE  Sound(u)' /\ Covered(u)'
BY DEF Sound, Covered, Retries

\* What the types of the history variables say.
HistoryOK ==
  /\ accepted \in [Threads -> BOOLEAN]
  /\ real \in [Threads -> BOOLEAN]

\* A call that ends carries no token, and leaves the cached one alone.
LEMMA EndKeeps ==
  ASSUME BackendInv, NEW t \in Threads, NEW step \in {"rest", "dead"},
         GoTo(t, step),
         call' = [call EXCEPT ![t] = "none"],
         held' = [held EXCEPT ![t] = 0], age' = [age EXCEPT ![t] = 0], left' = [left EXCEPT ![t] = 0],
         heard' = [heard EXCEPT ![t] = FALSE], tries' = [tries EXCEPT ![t] = 0],
         answer' \in [Threads -> Reasons \cup {"none", "ok"}], status' \in Codes,
         UNCHANGED cached, HistoryOK'
  PROVE  BackendInv'
<1>. USE Constants DEF cached, GoTo
<1>1. TypeOK'
  <2>. USE DEF BackendInv, TypeOK
  <2>1. (token \in Lives /\ ttl \in Nat /\ took \in 0..MaxWait)'
    OBVIOUS
  <2>2. (pc \in [Threads -> Waits \cup {"rest", "assign", "dead"}])'
    OBVIOUS
  <2>3. (wait \in [Threads -> 0..(MaxWait + ProbeInterval + ConfirmInterval)])'
    OBVIOUS
  <2>4. (held \in [Threads -> Lives] /\ age \in [Threads -> Nat])'
    BY DEF Lives, Revoked
  <2>5. (call \in [Threads -> {"none", "probe", "dispatch", "look"} \cup Commands])'
    OBVIOUS
  <2>6. (tries \in [Threads -> 0..(ProbeRetries + 1)] /\ left \in [Threads -> 0..ConfirmTimeout])'
    OBVIOUS
  <2>7. (heard \in [Threads -> BOOLEAN])'
    OBVIOUS
  <2>. QED  BY <2>1, <2>2, <2>3, <2>4, <2>5, <2>6, <2>7 DEF HistoryOK
<1>2. TokenInv'
  BY DEF BackendInv, TypeOK, TokenInv
<1>3. ASSUME NEW u \in Threads PROVE Sound(u)' /\ Covered(u)'
  <2>1. CASE u = t
    BY <2>1 DEF BackendInv, TypeOK, Sound, Covered, Retries, Requests, Sleeps, Commands
  <2>2. CASE u # t
    BY <2>2, OthersStay DEF BackendInv, TypeOK
  <2>. QED  BY <2>1, <2>2
<1>. QED  BY <1>1, <1>2, <1>3 DEF BackendInv

LEMMA FinishKeeps ==
  ASSUME BackendInv, NEW t \in Threads, NEW a \in Reasons \cup {"ok"}, Finish(t, a),
         UNCHANGED cached, HistoryOK'
  PROVE  BackendInv'
<1>1. status' \in Codes
  BY StatusTypes DEF Finish
<1>2. answer' \in [Threads -> Reasons \cup {"none", "ok"}]
  BY DEF BackendInv, TypeOK, Finish
<1>3. PICK step \in {"rest", "dead"} : GoTo(t, step)
  BY DEF Finish
<1>. QED  BY <1>1, <1>2, <1>3, EndKeeps DEF Finish

\* The same for a call that goes on.
LEMMA GoesOnKeeps ==
  ASSUME BackendInv, NEW t \in Threads, NEW step \in Waits, GoTo(t, step),
         TypeOK', UNCHANGED cached, Sound(t)', Covered(t)',
         \A u \in Threads \ {t} :
           /\ held'[u] = held[u] /\ age'[u] = age[u] /\ call'[u] = call[u]
           /\ tries'[u] = tries[u] /\ left'[u] = left[u]
  PROVE  BackendInv'
<1>1. TokenInv'
  BY DEF BackendInv, TypeOK, TokenInv, cached, GoTo, Waits, Requests, Sleeps
<1>2. ASSUME NEW u \in Threads PROVE Sound(u)' /\ Covered(u)'
  <2>1. CASE u = t
    BY <2>1
  <2>2. CASE u # t
    BY <2>2, OthersStay DEF BackendInv, TypeOK, GoTo
  <2>. QED  BY <2>1, <2>2
<1>. QED  BY <1>1, <1>2 DEF BackendInv

\* A call that carries on with its token: it stays covered.
LEMMA CarriesOn ==
  ASSUME BackendInv, NEW t \in Threads, pc[t] \in Requests \cup Sleeps \cup {"assign"},
         UNCHANGED carried
  PROVE  Covered(t)'
BY DEF BackendInv, Covered, carried, Slack

LEMMA GoToTypes ==
  ASSUME TypeOK, NEW t \in Threads, NEW step \in Waits, GoTo(t, step)
  PROVE  /\ pc' \in [Threads -> Waits \cup {"rest", "assign", "dead"}]
         /\ wait' \in [Threads -> 0..(MaxWait + ProbeInterval + ConfirmInterval)]
BY Constants DEF TypeOK, GoTo

-----------------------------------------------------------------------------
(***************************************************************************)
(* The steps of a call.                                                    *)
(***************************************************************************)
LEMMA BeginKeeps ==
  ASSUME BackendInv, NEW t \in Threads, NEW kind \in Kinds[t], Begin(t, kind)
  PROVE  BackendInv'
<1>. USE Constants DEF Begin, cached, carried, GoTo
<1>1. kind \in {"dispatch", "look"} \cup Commands
  BY DEF Kinds, Threads
<1>2. TypeOK'
  BY <1>1 DEF BackendInv, TypeOK, Retries, Waits, Requests, Commands
<1>3. PICK step \in {"token", "look", "devices"} : GoTo(t, step)
  BY DEF BackendInv, TypeOK
<1>4. Sound(t)'
  BY <1>1, <1>3 DEF BackendInv, TypeOK, Sound, Requests, Retries, Commands
<1>5. Covered(t)'
  <2>1. CASE ttl > 0
    <3>1. PICK r \in Reports : token # Revoked => token + took >= ttl + Slack(r)
      BY <2>1 DEF BackendInv, TokenInv
    <3>2. held'[t] = token /\ age'[t] = took
      BY <2>1 DEF BackendInv, TypeOK
    <3>3. token \in Int /\ ttl \in Int /\ took \in Int /\ Slack(r) \in Int
      BY Usables DEF BackendInv, TypeOK, Lives, Revoked
    <3>4. held'[t] # Revoked => held'[t] + age'[t] > Slack(r)
      BY <2>1, <3>1, <3>2, <3>3
    <3>. QED  BY <3>4 DEF Covered
  <2>2. CASE ttl = 0
    BY <2>2 DEF BackendInv, TypeOK, Covered, Requests, Sleeps
  <2>. QED  BY <2>1, <2>2 DEF BackendInv, TypeOK
<1>. QED
  BY <1>2, <1>3, <1>4, <1>5, GoesOnKeeps DEF BackendInv, TypeOK, Waits, Requests

LEMMA TokenArrivesKeeps ==
  ASSUME BackendInv, NEW t \in Threads, TokenArrives(t)
  PROVE  BackendInv'
<1>. USE Constants DEF TokenArrives, local, history
<1>1. wait[t] \in Nat /\ wait[t] <= MaxWait
  BY DEF BackendInv, TypeOK, Sound
<1>2. /\ token' \in 0..Lifetime /\ token' + took' >= Lifetime
      /\ took' = wait[t] /\ age' = [age EXCEPT ![t] = wait[t]]
  BY <1>1
<1>3. token' \in Lives
  BY <1>2 DEF Lives, Revoked
<1>4. TypeOK'
  BY <1>1, <1>2, <1>3 DEF BackendInv, TypeOK
<1>5. TokenInv'
  <2>1. \A r \in Reports : ttl' <= Usable(r) => token' + took' >= ttl' + Slack(r)
    BY <1>1, <1>2, Usables DEF BackendInv, TypeOK
  <2>. QED  BY <1>2, <2>1 DEF BackendInv, TokenInv
<1>6. ASSUME NEW u \in Threads PROVE Sound(u)' /\ Covered(u)'
  <2>1. CASE u = t
    <3>1. Sound(t)'
      BY <1>1 DEF BackendInv, TypeOK, Sound, Retries, Requests
    <3>2. PICK r \in Reports : TRUE
      BY TimesAssumption
    <3>3. held'[t] = token' /\ age'[t] = took'
      BY <1>2 DEF BackendInv, TypeOK
    <3>4. held'[t] + age'[t] > Slack(r)
      BY <1>1, <1>2, <3>3, Usables
    <3>. QED  BY <2>1, <3>1, <3>4 DEF Covered, Slack
  <2>2. CASE u # t
    BY <1>2, <2>2, OthersStay DEF BackendInv, TypeOK
  <2>. QED  BY <2>1, <2>2
<1>. QED  BY <1>4, <1>5, <1>6 DEF BackendInv

LEMMA AssignExpiryKeeps ==
  ASSUME BackendInv, NEW t \in Threads, NEW r \in Reports, AssignExpiry(t, r)
  PROVE  BackendInv'
<1>. USE Constants, Usables DEF AssignExpiry, local, history, carried
<1>1. wait[t] \in Nat /\ wait[t] <= MaxWait /\ pc[t] = "assign"
  BY DEF BackendInv, TypeOK, Sound
<1>2. ttl' \in Nat /\ ttl' <= Usable(r)
  BY <1>1
<1>3. PICK step \in {"look", "devices"} : GoTo(t, step)
  BY DEF FirstRequest
<1>4. TypeOK'
  BY <1>2, <1>3, GoToTypes DEF BackendInv, TypeOK, Waits, Requests
<1>5. TokenInv'
  <2>1. token # Revoked => token + took >= Lifetime
    BY <1>1 DEF BackendInv, TokenInv
  <2>2. token \in Int /\ took \in Int
    BY DEF BackendInv, TypeOK, Lives, Revoked
  <2>3. token # Revoked => token + took >= ttl' + Slack(r)
    BY <1>2, <2>1, <2>2
  <2>4. \A u \in Threads : pc'[u] = "assign" => pc[u] = "assign"
    BY <1>3 DEF BackendInv, TypeOK, GoTo
  <2>. QED  BY <1>2, <2>3, <2>4 DEF BackendInv, TokenInv
<1>6. ASSUME NEW u \in Threads PROVE Sound(u)' /\ Covered(u)'
  <2>1. CASE u = t
    <3>1. Sound(t)'
      BY DEF BackendInv, TypeOK, Sound, Requests, Retries, Commands, GoTo, FirstRequest
    <3>. QED  BY <1>1, <2>1, <3>1, CarriesOn
  <2>2. CASE u # t
    BY <2>2, OthersStay DEF BackendInv, TypeOK, GoTo
  <2>. QED  BY <2>1, <2>2
<1>. QED  BY <1>4, <1>5, <1>6 DEF BackendInv

LEMMA DevicesKeep ==
  ASSUME BackendInv, NEW t \in Threads, DeviceListed(t) \/ DeviceNotListed(t)
  PROVE  BackendInv'
<1>. USE Constants DEF carried
<1>1. pc[t] = "devices" /\ held[t] \in Int /\ held[t] > 0 /\ call[t] # "none"
  BY DEF DeviceListed, DeviceNotListed, Honoured, BackendInv, TypeOK, Lives, Revoked, Sound
<1>2. wait[t] \in Nat /\ wait[t] <= MaxWait /\ tries[t] \in Nat
  BY <1>1 DEF BackendInv, TypeOK, Sound, Requests
<1>3. CASE DeviceListed(t) /\ call[t] = "probe"
  BY <1>3, FinishKeeps DEF DeviceListed, HistoryOK, BackendInv, TypeOK
<1>4. CASE DeviceListed(t) /\ call[t] # "probe"
  <2>. USE <1>4 DEF DeviceListed, local, GoTo
  <2>0. PICK step \in {"play", "command"} : GoTo(t, step)
    OBVIOUS
  <2>1. TypeOK'
    BY <2>0, GoToTypes DEF BackendInv, TypeOK, cached, Waits, Requests
  <2>2. Sound(t)'
    BY <1>1 DEF BackendInv, TypeOK, Sound, Requests, Commands
  <2>3. Covered(t)'
    BY <1>1, CarriesOn DEF Requests
  <2>. QED
    BY <2>1, <2>2, <2>3, GoesOnKeeps DEF BackendInv, TypeOK, Waits, Requests
<1>5. CASE DeviceNotListed(t) /\ tries[t] > 0
  <2>. USE <1>5 DEF DeviceNotListed, history, GoTo
  <2>0. UNCHANGED <<status, carried, call, left, heard, answer>>
        /\ tries' = [tries EXCEPT ![t] = @ - 1]
        /\ GoTo(t, IF call[t] = "probe" THEN "pause" ELSE "devices")
    BY <1>2, <1>5
  <2>a. tries' \in [Threads -> 0..(ProbeRetries + 1)]
    BY <1>2, <2>0 DEF BackendInv, TypeOK
  <2>b. PICK step \in {"pause", "devices"} : GoTo(t, step)
    BY <2>0
  <2>1. TypeOK'
    BY <2>0, <2>a, <2>b, GoToTypes DEF BackendInv, TypeOK, cached, Waits, Requests, Sleeps
  <2>2. tries[t] <= Retries(call[t]) /\ tries'[t] = tries[t] - 1
    BY <2>0 DEF BackendInv, TypeOK, Sound
  <2>3. Sound(t)'
    BY <1>1, <1>2, <2>0, <2>2 DEF BackendInv, TypeOK, Sound, Requests, Retries, Commands
  <2>4. Covered(t)'
    BY <1>1, <2>0, CarriesOn DEF Requests
  <2>. QED
    BY <2>0, <2>1, <2>3, <2>4, GoesOnKeeps DEF BackendInv, TypeOK, Waits, Requests, Sleeps
<1>6. CASE DeviceNotListed(t) /\ tries[t] = 0
  BY <1>6, FinishKeeps DEF DeviceNotListed, HistoryOK, history, BackendInv, TypeOK, Reasons
<1>. QED  BY <1>2, <1>3, <1>4, <1>5, <1>6

LEMMA PlaysKeep ==
  ASSUME BackendInv, NEW t \in Threads,
         PlayAccepted(t) \/ PlayRefused(t) \/ TransferAccepted(t)
  PROVE  BackendInv'
<1>. USE Constants DEF carried
<1>1. pc[t] \in {"play", "replay", "transfer"} /\ call[t] = "dispatch"
      /\ wait[t] \in Nat /\ wait[t] <= MaxWait /\ held[t] \in Int
  BY DEF PlayAccepted, PlayRefused, TransferAccepted, Honoured, BackendInv, TypeOK, Sound,
         Requests, Lives, Revoked
<1>2. PICK step \in {"confirm", "transfer", "replay"} : GoTo(t, step)
  BY DEF PlayAccepted, PlayRefused, TransferAccepted
<1>3. left' \in [Threads -> 0..ConfirmTimeout] /\ heard' \in [Threads -> BOOLEAN]
      /\ HistoryOK'
  <2>. USE DEF BackendInv, TypeOK, HistoryOK
  <2>1. CASE PlayAccepted(t)
    BY <2>1 DEF PlayAccepted
  <2>2. CASE UNCHANGED <<left, heard, history>>
    BY <2>2 DEF history
  <2>. QED  BY <2>1, <2>2 DEF PlayRefused, TransferAccepted, local
<1>4. UNCHANGED <<cached, status, carried, call, tries, answer>>
  BY DEF PlayAccepted, PlayRefused, TransferAccepted, local
<1>5. TypeOK'
  BY <1>2, <1>3, <1>4, GoToTypes
  DEF BackendInv, TypeOK, HistoryOK, cached, Waits, Requests
<1>6. Sound(t)'
  BY <1>1, <1>2, <1>4 DEF BackendInv, TypeOK, Sound, Requests, GoTo
<1>7. Covered(t)'
  BY <1>1, <1>4, CarriesOn DEF Requests
<1>8. \A u \in Threads \ {t} : left'[u] = left[u]
  BY DEF PlayAccepted, PlayRefused, TransferAccepted, local, BackendInv, TypeOK
<1>. QED
  BY <1>2, <1>4, <1>5, <1>6, <1>7, <1>8, GoesOnKeeps DEF Waits, Requests

LEMMA ConfirmKeeps ==
  ASSUME BackendInv, NEW t \in Threads, NEW shown \in PlayerStates, Confirm(t, shown)
  PROVE  BackendInv'
<1>. USE Constants DEF carried
<1>1. pc[t] = "confirm" /\ call[t] = "dispatch" /\ held[t] \in Int /\ left[t] \in Nat
  BY DEF Confirm, Honoured, BackendInv, TypeOK, Sound, Lives, Revoked
<1>2. HistoryOK'
  BY DEF Confirm, HistoryOK, BackendInv, TypeOK
<1>3. CASE \E a \in Reasons \cup {"ok"} : Finish(t, a)
  BY <1>2, <1>3, FinishKeeps DEF Confirm
<1>4. CASE /\ left[t] > ConfirmInterval
           /\ heard' = [heard EXCEPT ![t] = heard[t] \/ shown = "target"]
           /\ GoTo(t, "nap")
           /\ UNCHANGED <<status, carried, call, tries, left, answer>>
  <2>1. UNCHANGED cached
    BY DEF Confirm
  <2>2. heard' \in [Threads -> BOOLEAN]
    BY <1>4 DEF BackendInv, TypeOK
  <2>3. TypeOK'
    BY <1>2, <1>4, <2>1, <2>2, GoToTypes
    DEF BackendInv, TypeOK, HistoryOK, cached, Waits, Sleeps
  <2>4. Sound(t)'
    BY <1>1, <1>4 DEF BackendInv, TypeOK, Sound, Requests, GoTo
  <2>5. Covered(t)'
    BY <1>1, <1>4, CarriesOn DEF Requests
  <2>. QED
    BY <1>4, <2>1, <2>3, <2>4, <2>5, GoesOnKeeps DEF Waits, Sleeps
<1>. QED  BY <1>3, <1>4 DEF Confirm, Reasons

LEMMA WakeKeeps ==
  ASSUME BackendInv, NEW t \in Threads, Wake(t)
  PROVE  BackendInv'
<1>. USE Constants DEF Wake, local, history, carried
<1>1. PICK step \in {"devices", "confirm"} : GoTo(t, step)
  OBVIOUS
<1>2. TypeOK'
  BY <1>1, GoToTypes DEF BackendInv, TypeOK, cached, Waits, Requests
<1>3. held[t] \in Int /\ wait[t] \in Nat /\ left[t] \in Nat
  BY DEF BackendInv, TypeOK, Lives, Revoked
<1>4. CASE pc[t] = "pause" /\ wait[t] >= ProbeInterval /\ GoTo(t, "devices")
  <2>1. Sound(t)'
    BY <1>4 DEF BackendInv, TypeOK, Sound, Requests, GoTo
  <2>2. Covered(t)'
    BY <1>4, CarriesOn DEF Sleeps
  <2>. QED
    BY <1>2, <1>4, <2>1, <2>2, GoesOnKeeps DEF Waits, Requests
<1>5. CASE pc[t] = "nap" /\ wait[t] >= ConfirmInterval /\ GoTo(t, "confirm")
  <2>1. Sound(t)'
    BY <1>5 DEF BackendInv, TypeOK, Sound, Requests, GoTo
  <2>2. Covered(t)'
    BY <1>5, CarriesOn DEF Sleeps
  <2>. QED
    BY <1>2, <1>5, <2>1, <2>2, GoesOnKeeps DEF Waits, Requests
<1>. QED  BY <1>4, <1>5

LEMMA EndsKeep ==
  ASSUME BackendInv, NEW t \in Threads,
         \/ CommandAccepted(t)
         \/ \E shown \in PlayerStates : LookAnswered(t, shown)
  PROVE  BackendInv'
<1>1. HistoryOK'
  <2>1. CASE CommandAccepted(t)
    BY <2>1 DEF CommandAccepted, history, HistoryOK, BackendInv, TypeOK
  <2>2. CASE \E shown \in PlayerStates : LookAnswered(t, shown)
    BY <2>2 DEF LookAnswered, HistoryOK, BackendInv, TypeOK
  <2>. QED  BY <2>1, <2>2
<1>. QED
  BY <1>1, FinishKeeps DEF CommandAccepted, LookAnswered

LEMMA OperationTypes ==
  ASSUME BackendInv, NEW t \in Threads, pc[t] \in Requests \cup {"token"}
  PROVE  Operation(t) \in DOMAIN ReasonCodeFor
BY DEF BackendInv, Sound, Operation, ReasonCodeFor, Requests, Commands

LEMMA RequestFailsKeeps ==
  ASSUME BackendInv, NEW t \in Threads, NEW failure \in Failures, RequestFails(t, failure)
  PROVE  BackendInv'
<1>1. Reason(Operation(t), failure) \in Reasons
  BY OperationTypes, ReasonTypes DEF RequestFails
<1>2. HistoryOK'
  BY DEF RequestFails, history, HistoryOK, BackendInv, TypeOK
<1>. QED  BY <1>1, <1>2, FinishKeeps DEF RequestFails

LEMMA RequestRaisesKeeps ==
  ASSUME BackendInv, NEW t \in Threads, RequestRaises(t)
  PROVE  BackendInv'
<1>1. HistoryOK' /\ status' \in Codes
      /\ answer' \in [Threads -> Reasons \cup {"none", "ok"}]
  BY DEF RequestRaises, history, HistoryOK, BackendInv, TypeOK
<1>. QED  BY <1>1, EndKeeps DEF RequestRaises

-----------------------------------------------------------------------------
(***************************************************************************)
(* The steps of the others.                                                *)
(***************************************************************************)
LEMMA InitBackend == Init => BackendInv
<1>. SUFFICES ASSUME Init PROVE BackendInv
  OBVIOUS
<1>. USE Constants DEF Init
<1>1. TypeOK
  BY DEF TypeOK, Lives, Revoked, Codes, Waits
<1>2. TokenInv
  BY DEF TokenInv
<1>3. ASSUME NEW t \in Threads PROVE Sound(t) /\ Covered(t)
  BY DEF Sound, Covered, Requests, Sleeps, Retries, Commands
<1>. QED  BY <1>1, <1>2, <1>3 DEF BackendInv

LEMMA RestartKeeps == ASSUME BackendInv, Restart PROVE BackendInv'
<1>. USE Constants DEF Restart
<1>1. TypeOK'
  BY DEF TypeOK, Lives, Revoked, Codes, Waits
<1>2. TokenInv'
  BY DEF TokenInv
<1>3. ASSUME NEW t \in Threads PROVE Sound(t)' /\ Covered(t)'
  BY DEF Sound, Covered, Requests, Sleeps, Retries, Commands
<1>. QED  BY <1>1, <1>2, <1>3 DEF BackendInv

\* A token that is withdrawn is no longer spoken of.
LEMMA RevokeKeeps == ASSUME BackendInv, Revoke PROVE BackendInv'
<1>. USE Constants DEF Revoke, Withdraw, local, history
<1>1. TypeOK'
  BY DEF BackendInv, TypeOK, Lives, Revoked
<1>2. token' = Revoked \/ token' = token
  OBVIOUS
<1>3. TokenInv'
  BY <1>2 DEF BackendInv, TokenInv
<1>4. ASSUME NEW t \in Threads PROVE Sound(t)' /\ Covered(t)'
  <2>1. CASE held'[t] = Revoked
    BY <2>1 DEF BackendInv, Sound, Covered, Retries, Revoked
  <2>2. CASE held'[t] = held[t] /\ age'[t] = age[t]
    BY <2>2, OthersStay DEF BackendInv
  <2>. QED  BY <2>1, <2>2
<1>. QED  BY <1>1, <1>3, <1>4 DEF BackendInv

LEMMA TickKeeps == ASSUME BackendInv, Tick PROVE BackendInv'
<1>. USE Constants DEF Tick, Less, history
<1>1. ASSUME NEW t \in Threads
      PROVE  /\ pc[t] # "assign"
             /\ pc[t] \in Requests \cup {"token"} => wait[t] < MaxWait
             /\ pc[t] = "pause" => wait[t] < ProbeInterval
             /\ pc[t] = "nap" => wait[t] < ConfirmInterval
  BY DEF MayWait, Requests, Sleeps
<1>2. TypeOK'
  <2>1. token' \in Lives /\ ttl' \in Nat /\ held' \in [Threads -> Lives]
    BY DEF BackendInv, TypeOK, Lives, Revoked
  <2>a. age' \in [Threads -> Nat]
    BY DEF BackendInv, TypeOK
  <2>2. left' \in [Threads -> 0..ConfirmTimeout]
    BY DEF BackendInv, TypeOK
  <2>3. wait' \in [Threads -> 0..(MaxWait + ProbeInterval + ConfirmInterval)]
    BY <1>1 DEF BackendInv, TypeOK, Waits, Sleeps
  <2>. QED  BY <2>1, <2>2, <2>3, <2>a DEF BackendInv, TypeOK
<1>3. TokenInv'
  <2>1. \A u \in Threads : pc'[u] # "assign"
    BY <1>1
  <2>2. token \in Int /\ ttl \in Nat /\ took \in Nat /\ took' = took
    BY DEF BackendInv, TypeOK, Lives, Revoked
  <2>3. ASSUME ttl' > 0
        PROVE  \E r \in Reports :
                 /\ ttl' <= Usable(r)
                 /\ token' # Revoked => token' + took' >= ttl' + Slack(r)
    <3>1. ttl > 0 /\ ttl' = ttl - 1
      BY <2>2, <2>3
    <3>2. PICK r \in Reports :
            ttl <= Usable(r) /\ (token # Revoked => token + took >= ttl + Slack(r))
      BY <3>1 DEF BackendInv, TokenInv
    <3>3. Usable(r) \in Nat /\ Slack(r) \in Int
      BY Usables
    <3>4. token' # Revoked => token # Revoked /\ token' >= token - 1 /\ token' \in Int
      BY <2>2 DEF Revoked
    <3>. QED  BY <2>2, <3>1, <3>2, <3>3, <3>4
  <2>. QED  BY <2>1, <2>3 DEF TokenInv
<1>4. ASSUME NEW t \in Threads PROVE Sound(t)' /\ Covered(t)'
  <2>1. held[t] \in Int /\ left[t] \in Nat /\ wait[t] \in Nat /\ age[t] \in Nat
    BY DEF BackendInv, TypeOK, Lives, Revoked
  <2>2. held'[t] = Less(held[t]) /\ left'[t] = Less(left[t])
        /\ wait'[t] = (IF pc[t] \in Waits THEN wait[t] + 1 ELSE wait[t])
        /\ age'[t] = (IF held[t] > 0 THEN age[t] + 1 ELSE age[t])
        /\ pc'[t] = pc[t] /\ call'[t] = call[t] /\ tries'[t] = tries[t]
    OBVIOUS
  <2>3. Sound(t)'
    BY <1>1, <2>1, <2>2 DEF BackendInv, Sound, Waits, Requests, Sleeps, Retries
  <2>4. held'[t] + age'[t] = held[t] + age[t] /\ (held'[t] # Revoked => held[t] # Revoked)
    BY <2>1, <2>2 DEF Revoked
  <2>5. Covered(t)'
    BY <2>2, <2>4 DEF BackendInv, Covered, Slack
  <2>. QED  BY <2>3, <2>5
<1>. QED  BY <1>2, <1>3, <1>4 DEF BackendInv

-----------------------------------------------------------------------------
(***************************************************************************)
(* The theorems.                                                           *)
(***************************************************************************)
LEMMA StepKeeps ==
  ASSUME BackendInv, NEW t \in Threads, Step(t)
  PROVE  BackendInv'
<1>1. CASE TokenArrives(t)
  BY <1>1, TokenArrivesKeeps
<1>2. CASE \E r \in Reports : AssignExpiry(t, r)
  BY <1>2, AssignExpiryKeeps
<1>3. CASE DeviceListed(t) \/ DeviceNotListed(t)
  BY <1>3, DevicesKeep
<1>4. CASE PlayAccepted(t) \/ PlayRefused(t) \/ TransferAccepted(t)
  BY <1>4, PlaysKeep
<1>5. CASE Wake(t)
  BY <1>5, WakeKeeps
<1>6. CASE CommandAccepted(t) \/ \E shown \in PlayerStates : LookAnswered(t, shown)
  BY <1>6, EndsKeep
<1>7. CASE \E shown \in PlayerStates : Confirm(t, shown)
  BY <1>7, ConfirmKeeps
<1>8. CASE \E failure \in Failures : RequestFails(t, failure)
  BY <1>8, RequestFailsKeeps
<1>9. CASE RequestRaises(t)
  BY <1>9, RequestRaisesKeeps
<1>. QED
  BY <1>1, <1>2, <1>3, <1>4, <1>5, <1>6, <1>7, <1>8, <1>9 DEF Step

LEMMA StutterKeeps == ASSUME BackendInv, UNCHANGED vars PROVE BackendInv'
<1>. USE DEF vars, cached, carried, local, history
<1>1. TypeOK' /\ TokenInv'
  BY DEF BackendInv, TypeOK, TokenInv
<1>2. ASSUME NEW t \in Threads PROVE Sound(t)' /\ Covered(t)'
  BY OthersStay DEF BackendInv
<1>. QED  BY <1>1, <1>2 DEF BackendInv

\* The budget holds throughout.
LEMMA BackendSafety == Spec => []BackendInv
<1>1. Init => BackendInv
  BY InitBackend
<1>2. BackendInv /\ [Next]_vars => BackendInv'
  BY StepKeeps, BeginKeeps, RestartKeeps, RevokeKeeps, TickKeeps, StutterKeeps DEF Next
<1>. QED  BY <1>1, <1>2, PTL DEF Spec

\* The backend's state is well formed, for every lifetime, margin and timeout.
THEOREM TypeCorrect == Spec => []TypeOK
<1>1. BackendInv => TypeOK
  BY DEF BackendInv
<1>. QED  BY <1>1, BackendSafety, PTL

\* RequestsCarryLiveToken: a token runs out in a call's hands only after the call
\* has carried it for longer than what the backend leaves of it, however the
\* margin, the reported and the real lifetime and the length of a call compare,
\* and although two threads refresh the token side by side.
THEOREM LiveTokenSafety == Spec => []RequestsCarryLiveToken
<1>1. BackendInv => RequestsCarryLiveToken
  <2>. SUFFICES ASSUME BackendInv, NEW t \in Threads, pc[t] \in Requests \cup Sleeps,
                       held[t] = 0
                PROVE  \E r \in Reports : age[t] > Slack(r)
    BY DEF RequestsCarryLiveToken
  <2>1. PICK r \in Reports : held[t] + age[t] > Slack(r)
    BY DEF BackendInv, Covered, Revoked
  <2>2. age[t] \in Nat
    BY DEF BackendInv, TypeOK
  <2>. QED  BY <2>1, <2>2
<1>. QED  BY <1>1, BackendSafety, PTL

-----------------------------------------------------------------------------
(***************************************************************************)
(* What a dispatch has heard when it succeeds.                             *)
(***************************************************************************)
\* A step of one thread leaves what the other thread is in the middle of.
LEMMA StepIsOwn ==
  ASSUME TypeOK, NEW u \in Threads, Step(u), NEW t \in Threads \ {u}
  PROVE  /\ pc'[t] = pc[t] /\ call'[t] = call[t] /\ answer'[t] = answer[t]
         /\ heard'[t] = heard[t] /\ accepted'[t] = accepted[t] /\ real'[t] = real[t]
BY DEF TypeOK, Step, TokenArrives, AssignExpiry, DeviceListed, DeviceNotListed, PlayAccepted,
       PlayRefused, TransferAccepted, Confirm, Wake, CommandAccepted, LookAnswered,
       RequestFails, RequestRaises, Finish, GoTo, local, history

\* A call that ends has nothing heard, and one that has heard goes on as it must.
LEMMA HeardOwn ==
  ASSUME TypeOK, HeardInv, NEW t \in Threads, Step(t)
  PROVE  /\ call'[t] # "none" => answer'[t] = "none"
         /\ pc'[t] \in {"confirm", "nap"} => accepted'[t]
         /\ heard'[t] => real'[t] /\ pc'[t] \in {"confirm", "nap"}
<1>. USE DEF TypeOK, HeardInv, GoTo, local, history
<1>1. CASE TokenArrives(t) \/ (\E r \in Reports : AssignExpiry(t, r)) \/ PlayRefused(t) \/ TransferAccepted(t)
  BY <1>1 DEF TokenArrives, AssignExpiry, PlayRefused, TransferAccepted, FirstRequest, Honoured
<1>2. CASE PlayAccepted(t)
  BY <1>2 DEF PlayAccepted
<1>3. CASE \E shown \in PlayerStates : Confirm(t, shown)
  BY <1>3 DEF Confirm, Finish, Honoured
<1>4. CASE DeviceListed(t) \/ DeviceNotListed(t)
  BY <1>4 DEF DeviceListed, DeviceNotListed, Finish, Honoured
<1>5. CASE Wake(t)
  BY <1>5 DEF Wake
<1>6. CASE CommandAccepted(t) \/ \E shown \in PlayerStates : LookAnswered(t, shown)
  BY <1>6 DEF CommandAccepted, LookAnswered, Finish
<1>7. CASE RequestRaises(t) \/ \E failure \in Failures : RequestFails(t, failure)
  BY <1>7 DEF RequestRaises, RequestFails, Finish
<1>. QED  BY <1>1, <1>2, <1>3, <1>4, <1>5, <1>6, <1>7 DEF Step

LEMMA HeardKeeps == ASSUME TypeOK, HeardInv, [Next]_vars PROVE HeardInv'
<1>1. CASE \E t \in Threads : Step(t)
  <2>1. PICK t \in Threads : Step(t)
    BY <1>1
  <2>. QED  BY <2>1, HeardOwn, StepIsOwn DEF HeardInv
<1>2. CASE \E t \in Threads : \E kind \in Kinds[t] : Begin(t, kind)
  BY <1>2 DEF Begin, GoTo, HeardInv, TypeOK
<1>3. CASE Restart
  BY <1>3 DEF Restart, HeardInv
<1>4. CASE Revoke \/ Tick \/ UNCHANGED vars
  BY <1>4 DEF Revoke, Tick, vars, local, history, HeardInv
<1>. QED  BY <1>1, <1>2, <1>3, <1>4 DEF Next

\* Only the confirmation ends a dispatch in success.
LEMMA SuccessStep ==
  ASSUME BackendInv, HeardInv, [Next]_vars, NEW t \in Threads,
         call[t] = "dispatch", Answers(t, "ok")
  PROVE  accepted'[t] /\ real'[t]
<1>. USE DEF Answers, Ends
<1>1. TypeOK /\ Sound(t)
  BY DEF BackendInv
<1>2. CASE \E u \in Threads \ {t} : Step(u)
  BY <1>1, <1>2, StepIsOwn
<1>3. CASE Step(t)
  <2>1. CASE \E shown \in PlayerStates : Confirm(t, shown)
    BY <1>1, <2>1 DEF Confirm, Finish, GoTo, Honoured, HeardInv, TypeOK
  <2>2. CASE DeviceListed(t) \/ DeviceNotListed(t)
    BY <1>1, <2>2 DEF DeviceListed, DeviceNotListed, Finish, local, TypeOK
  <2>3. CASE CommandAccepted(t) \/ \E shown \in PlayerStates : LookAnswered(t, shown)
    BY <1>1, <2>3 DEF CommandAccepted, LookAnswered, Honoured, Sound, Commands
  <2>4. CASE \E failure \in Failures : RequestFails(t, failure)
    <3>1. PICK failure \in Failures : RequestFails(t, failure)
      BY <2>4
    <3>2. Reason(Operation(t), failure) \in Reasons
      BY <3>1, OperationTypes, ReasonTypes DEF RequestFails
    <3>3. answer'[t] = Reason(Operation(t), failure)
      BY <1>1, <3>1 DEF RequestFails, Finish, TypeOK
    <3>. QED  BY <3>2, <3>3 DEF Reasons
  <2>5. CASE RequestRaises(t)
    BY <2>5 DEF RequestRaises, HeardInv
  <2>6. CASE call'[t] = call[t]
    BY <2>6
  <2>. QED
    BY <1>1, <1>3, <2>1, <2>2, <2>3, <2>4, <2>5, <2>6
    DEF Step, TokenArrives, AssignExpiry, PlayAccepted, PlayRefused, TransferAccepted, Wake,
        local
<1>4. CASE \E u \in Threads : \E kind \in Kinds[u] : Begin(u, kind)
  BY <1>1, <1>4 DEF Begin, Kinds, Commands, TypeOK
<1>5. CASE Restart
  BY <1>5 DEF Restart
<1>6. CASE Revoke \/ Tick \/ UNCHANGED vars
  BY <1>6 DEF Revoke, Tick, vars, local
<1>. QED  BY <1>2, <1>3, <1>4, <1>5, <1>6 DEF Next

\* A dispatch that succeeds was accepted by Spotify and has been heard on the
\* target since, whatever two threads do side by side.
THEOREM RealSuccessSafety == Spec => SuccessIsReal
<1>1. Init => HeardInv
  BY DEF Init, HeardInv
<1>2. BackendInv /\ HeardInv /\ [Next]_vars => HeardInv'
  BY HeardKeeps DEF BackendInv
<1>3. BackendInv /\ HeardInv /\ [Next]_vars =>
        [\A t \in Threads :
           call[t] = "dispatch" /\ Answers(t, "ok") => accepted'[t] /\ real'[t]]_vars
  BY SuccessStep
<1>. QED  BY <1>1, <1>2, <1>3, BackendSafety, PTL DEF Spec, SuccessIsReal

-----------------------------------------------------------------------------
(***************************************************************************)
(* The backend implements its contract.                                    *)
(***************************************************************************)
LEMMA FinishMaps ==
  ASSUME TypeOK, NEW t \in Threads, call[t] # "none", NEW a \in AnswersTo[call[t]],
         Finish(t, a)
  PROVE  Contract!Finish(t)
BY DEF TypeOK, Finish, Contract!Finish

\* The only reasons a failure of a request has are answers to its call.
LEMMA FailureAnswers ==
  ASSUME BackendInv, NEW t \in Threads, pc[t] \in Requests \cup {"token"},
         NEW failure \in Failures, ~(pc[t] = "play" /\ failure = "refused")
  PROVE  Reason(Operation(t), failure) \in AnswersTo[call[t]]
<1>1. Sound(t) /\ call[t] \in {"none", "probe", "dispatch", "look"} \cup Commands
  BY DEF BackendInv, TypeOK
<1>. USE DEF Operation, Reason, ReasonCodeFor, AnswersTo, Usual, Failures, Commands
<1>2. CASE pc[t] \in {"token", "look"}
  BY <1>1, <1>2 DEF Sound, Requests
<1>3. CASE pc[t] = "devices"
  BY <1>1, <1>3 DEF Sound
<1>4. CASE pc[t] \in {"play", "transfer", "replay", "confirm"}
  BY <1>1, <1>4 DEF Sound
<1>5. CASE pc[t] = "command"
  BY <1>1, <1>5 DEF Sound
<1>. QED  BY <1>2, <1>3, <1>4, <1>5 DEF Requests

LEMMA StepMaps ==
  ASSUME BackendInv, NEW t \in Threads, Step(t)
  PROVE  Contract!Next \/ UNCHANGED Contract!vars
<1>. USE DEF Contract!vars, Contract!Next
<1>1. TypeOK /\ Sound(t)
  BY DEF BackendInv
<1>2. CASE \E a \in AnswersTo[call[t]] : call[t] # "none" /\ Finish(t, a)
  BY <1>1, <1>2, FinishMaps
<1>3. CASE UNCHANGED <<call, answer, status>>
  BY <1>3
<1>4. CASE DeviceListed(t) \/ DeviceNotListed(t)
  <2>1. call[t] \in {"probe", "dispatch"} \cup Commands
    BY <1>1, <1>4 DEF DeviceListed, DeviceNotListed, Honoured, Sound
  <2>2. "ok" \in AnswersTo[call[t]] /\ "device_not_listed" \in AnswersTo[call[t]]
        /\ call[t] # "none"
    BY <2>1 DEF AnswersTo, Usual, Commands
  <2>. QED  BY <1>2, <1>3, <1>4, <2>2 DEF DeviceListed, DeviceNotListed, local
<1>5. CASE \E shown \in PlayerStates : Confirm(t, shown)
  <2>1. call[t] = "dispatch"
    BY <1>1, <1>5 DEF Confirm, Honoured, Sound
  <2>2. "ok" \in AnswersTo[call[t]] /\ "spotify_start_not_confirmed" \in AnswersTo[call[t]]
    BY <2>1 DEF AnswersTo, Usual
  <2>. QED  BY <1>2, <1>3, <1>5, <2>1, <2>2 DEF Confirm
<1>6. CASE CommandAccepted(t) \/ \E shown \in PlayerStates : LookAnswered(t, shown)
  <2>1. call[t] \in {"look"} \cup Commands
    BY <1>1, <1>6 DEF CommandAccepted, LookAnswered, Honoured, Sound
  <2>2. "ok" \in AnswersTo[call[t]] /\ call[t] # "none"
    BY <2>1 DEF AnswersTo, Usual, Commands
  <2>. QED  BY <1>2, <1>6, <2>2 DEF CommandAccepted, LookAnswered
<1>7. CASE \E failure \in Failures : RequestFails(t, failure)
  <2>1. PICK failure \in Failures : RequestFails(t, failure)
    BY <1>7
  <2>2. Reason(Operation(t), failure) \in AnswersTo[call[t]]
    BY <2>1, FailureAnswers DEF RequestFails
  <2>3. call[t] # "none"
    BY <1>1, <2>1 DEF RequestFails, Sound, Requests
  <2>. QED  BY <1>2, <2>1, <2>2, <2>3 DEF RequestFails
<1>8. CASE RequestRaises(t)
  <2>1. call[t] # "none"
    BY <1>1, <1>8 DEF RequestRaises, Sound, Requests
  <2>2. Contract!Abort(t)
    BY <1>8, <2>1 DEF RequestRaises, Contract!Abort
  <2>. QED  BY <2>2
<1>. QED
  BY <1>3, <1>4, <1>5, <1>6, <1>7, <1>8
  DEF Step, TokenArrives, AssignExpiry, PlayAccepted, PlayRefused, TransferAccepted, Wake, local

LEMMA BeginMaps ==
  ASSUME BackendInv, NEW t \in Threads, NEW kind \in Kinds[t], Begin(t, kind)
  PROVE  Contract!Begin(t)
<1>1. call[t] = "none"
  BY DEF Begin, BackendInv, Sound
<1>. QED  BY <1>1 DEF Begin, Contract!Begin

\* Whatever Spotify answers and however the threads interleave, each step of the
\* backend is a step of the contract or one it does not see.
THEOREM ContractSafety == Spec => ImplementsContract
<1>1. Init => Contract!Init
  BY DEF Init, Contract!Init
<1>2. BackendInv /\ [Next]_vars => [Contract!Next]_(Contract!vars)
  <2>. SUFFICES ASSUME BackendInv, [Next]_vars
                PROVE  Contract!Next \/ UNCHANGED Contract!vars
    OBVIOUS
  <2>1. CASE \E t \in Threads : Step(t)
    BY <2>1, StepMaps
  <2>2. CASE \E t \in Threads : \E kind \in Kinds[t] : Begin(t, kind)
    BY <2>2, BeginMaps DEF Contract!Next
  <2>3. CASE Restart
    BY <2>3 DEF Restart, Contract!Restart, Contract!Next
  <2>4. CASE Revoke \/ Tick \/ UNCHANGED vars
    BY <2>4 DEF Revoke, Tick, vars, local, Contract!vars
  <2>. QED  BY <2>1, <2>2, <2>3, <2>4 DEF Next
<1>. QED
  BY <1>1, <1>2, BackendSafety, PTL DEF Spec, ImplementsContract, Contract!Spec

-----------------------------------------------------------------------------
(***************************************************************************)
(* How long a call may take.  Its time and the steps it may take before    *)
(* time must pass are counted down, the second within the first.           *)
(***************************************************************************)
\* The time the call of thread t takes from its first request with the token.
FromFirst(t) ==
  CASE call[t] = "look" -> MaxWait
    [] call[t] = "dispatch" ->
         5 * MaxWait + ConfirmTimeout + (IF tries[t] > 0 THEN MaxWait ELSE 0)
    [] call[t] = "probe" -> MaxWait + Span(tries[t])
    [] OTHER -> 2 * MaxWait

\* The time it takes from now on, at most.
TimeLeft(t) ==
  LET rest == MaxWait - wait[t]
  IN CASE pc[t] = "token" -> rest + FromFirst(t)
       [] pc[t] = "assign" -> FromFirst(t)
       [] pc[t] = "devices" -> FromFirst(t) - wait[t]
       [] pc[t] = "pause" -> ProbeInterval - wait[t] + MaxWait + Span(tries[t])
       [] pc[t] = "play" -> rest + 3 * MaxWait + ConfirmTimeout
       [] pc[t] = "transfer" -> rest + 2 * MaxWait + ConfirmTimeout
       [] pc[t] = "replay" -> rest + MaxWait + ConfirmTimeout
       [] pc[t] = "confirm" -> IF left[t] > 0 THEN left[t] + MaxWait ELSE rest
       [] pc[t] = "nap" -> left[t] + MaxWait
       [] pc[t] \in {"command", "look"} -> rest
       [] OTHER -> 0

\* The steps it may take before time has to pass.
Stage(t) ==
  CASE pc[t] = "token" -> 9 + 2 * tries[t]
    [] pc[t] = "assign" -> 8 + 2 * tries[t]
    [] pc[t] = "pause" -> 6 + 2 * tries[t]
    [] pc[t] = "devices" -> 5 + 2 * tries[t]
    [] pc[t] = "play" -> 4
    [] pc[t] = "transfer" -> 3
    [] pc[t] = "replay" -> 2
    [] pc[t] = "nap" -> IF wait[t] = 0 THEN 0 ELSE 2
    [] pc[t] \in {"confirm", "command", "look"} -> 1
    [] OTHER -> 0

\* The longest calls from the first request with the token: a dispatch that looks
\* twice, plays, transfers, plays again and confirms to the end; a probe that never
\* finds the device.
LongestDispatch == 6 * MaxWait + ConfirmTimeout
LongestProbe == (ProbeRetries + 1) * MaxWait + ProbeRetries * ProbeInterval

LongestCall(kind) ==
  CASE kind = "dispatch" -> LongestDispatch
    [] kind = "probe" -> LongestProbe
    [] OTHER -> 2 * MaxWait

\* No call has more before it than the request for the token and the longest call.
CallsFit ==
  \A t \in Threads :
    call[t] # "none" => TimeLeft(t) \in 0..(MaxWait + LongestCall(call[t]))

\* A call comes nearer to its end: by every step of its thread and every tick.
Advances(t) ==
  \/ TimeLeft(t)' < TimeLeft(t)
  \/ TimeLeft(t)' = TimeLeft(t) /\ Stage(t)' < Stage(t)

\* Time and steps bring every call nearer to its end, and what the other thread or
\* Spotify does leaves it where it is: no wait or retry of the backend starts over.
CallsAdvance ==
  [][\A t \in Threads :
       call[t] # "none" /\ call'[t] # "none" =>
         /\ Tick => TimeLeft(t)' < TimeLeft(t)
         /\ Step(t) => Advances(t)
         /\ ~Tick /\ ~Step(t) => TimeLeft(t)' = TimeLeft(t)]_vars

\* What is counted is counted in natural numbers.
LEMMA OwnTypes ==
  ASSUME BackendInv, NEW t \in Threads
  PROVE  /\ wait[t] \in Nat /\ left[t] \in Nat /\ tries[t] \in Nat /\ Span(tries[t]) \in Nat
         /\ left[t] <= ConfirmTimeout
         /\ Sound(t)
         /\ call[t] \in {"none", "probe", "dispatch", "look"} \cup Commands
         /\ pc[t] \in Waits \cup {"rest", "assign", "dead"}
BY Constants, Spans DEF BackendInv, TypeOK

LEMMA FromFirstFact ==
  ASSUME BackendInv, NEW t \in Threads, call[t] # "none"
  PROVE  /\ FromFirst(t) \in Nat
         /\ FromFirst(t) >= MaxWait
         /\ FromFirst(t) <= LongestCall(call[t])
<1>. USE Constants DEF FromFirst, LongestCall
<1>1. /\ tries[t] \in Nat /\ Span(tries[t]) \in Nat /\ tries[t] <= Retries(call[t])
      /\ call[t] \in {"probe", "dispatch", "look"} \cup Commands
  BY OwnTypes DEF Sound
<1>2. CASE call[t] = "probe"
  <2>1. tries[t] <= ProbeRetries
    BY <1>1, <1>2 DEF Retries
  <2>2. \A m, n \in Nat : m <= n => m * (MaxWait + ProbeInterval) <= n * (MaxWait + ProbeInterval)
    OBVIOUS
  <2>3. Span(tries[t]) <= Span(ProbeRetries)
    BY <1>1, <2>1, <2>2 DEF Span
  <2>4. LongestProbe = Span(ProbeRetries) + MaxWait /\ Span(ProbeRetries) \in Nat
    BY Spans DEF LongestProbe, Span
  <2>. QED  BY <1>1, <1>2, <2>3, <2>4
<1>3. CASE call[t] = "dispatch"
  BY <1>3 DEF LongestDispatch
<1>4. CASE call[t] \in {"look"} \cup Commands
  BY <1>4 DEF Commands
<1>. QED  BY <1>1, <1>2, <1>3, <1>4

LEMMA FitFact == ASSUME BackendInv PROVE CallsFit
<1>. SUFFICES ASSUME NEW t \in Threads, call[t] # "none"
              PROVE  TimeLeft(t) \in 0..(MaxWait + LongestCall(call[t]))
  BY DEF CallsFit
<1>0. Sound(t) /\ wait[t] \in Nat /\ left[t] \in Nat /\ left[t] <= ConfirmTimeout
      /\ tries[t] \in Nat /\ pc[t] \in Waits \cup {"assign"}
  BY OwnTypes DEF Sound
<1>1. LongestCall(call[t]) \in Nat
  <2>1. LongestProbe = Span(ProbeRetries) + MaxWait
    BY Constants DEF LongestProbe, Span
  <2>2. LongestProbe \in Nat /\ LongestDispatch \in Nat /\ 2 * MaxWait \in Nat
    BY <2>1, Constants, Spans DEF LongestDispatch
  <2>. QED  BY <2>2 DEF LongestCall
<1>2. FromFirst(t) \in Nat /\ FromFirst(t) >= MaxWait /\ FromFirst(t) <= LongestCall(call[t])
  BY FromFirstFact
<1>3. pc[t] # "pause" /\ pc[t] # "nap" => wait[t] <= MaxWait
  BY <1>0 DEF Sound, Waits, Sleeps
<1>4. CASE pc[t] = "token"
  BY <1>0, <1>1, <1>2, <1>3, <1>4, Constants DEF TimeLeft
<1>5. CASE pc[t] \in {"assign", "devices"}
  <2>1. TimeLeft(t) = FromFirst(t) \/ TimeLeft(t) = FromFirst(t) - wait[t]
    BY <1>5 DEF TimeLeft
  <2>. QED  BY <1>0, <1>1, <1>2, <1>3, <1>5, <2>1, Constants
<1>6. CASE pc[t] = "pause"
  <2>1. call[t] = "probe" /\ tries[t] + 1 <= ProbeRetries /\ wait[t] <= ProbeInterval
    BY <1>0, <1>6, Constants DEF Sound
  <2>2. FromFirst(t) = MaxWait + Span(tries[t]) /\ Span(tries[t]) \in Nat
    BY <1>0, <2>1, Spans DEF FromFirst
  <2>3. TimeLeft(t) = ProbeInterval - wait[t] + MaxWait + Span(tries[t])
    BY <1>6 DEF TimeLeft
  <2>4. ProbeInterval + MaxWait + Span(tries[t]) <= Span(ProbeRetries)
    <3>1. Span(tries[t] + 1) = ProbeInterval + MaxWait + Span(tries[t])
      BY <1>0, Constants DEF Span
    <3>2. \A m, n \in Nat : m <= n => m * (MaxWait + ProbeInterval) <= n * (MaxWait + ProbeInterval)
      BY Constants
    <3>. QED  BY <1>0, <2>1, <3>1, <3>2, Constants DEF Span
  <2>5. LongestCall(call[t]) = Span(ProbeRetries) + MaxWait /\ Span(ProbeRetries) \in Nat
    BY <2>1, Constants, Spans DEF LongestCall, LongestProbe, Span
  <2>. QED  BY <1>0, <2>1, <2>2, <2>3, <2>4, <2>5, Constants
<1>7. CASE pc[t] \in {"play", "transfer", "replay", "confirm", "nap"}
  <2>1. LongestCall(call[t]) = 6 * MaxWait + ConfirmTimeout
    BY <1>0, <1>7 DEF LongestCall, LongestDispatch, Sound
  <2>2. \/ \E n \in 1..3 : TimeLeft(t) = (MaxWait - wait[t]) + n * MaxWait + ConfirmTimeout
              /\ wait[t] <= MaxWait
        \/ TimeLeft(t) = left[t] + MaxWait
        \/ TimeLeft(t) = MaxWait - wait[t] /\ wait[t] <= MaxWait
    <3>1. 1 \in 1..3 /\ 2 \in 1..3 /\ 3 \in 1..3 /\ 1 * MaxWait = MaxWait
      BY Constants
    <3>. QED  BY <1>3, <1>7, <3>1 DEF TimeLeft
  <2>3. TimeLeft(t) \in 0..(4 * MaxWait + ConfirmTimeout)
    BY <1>0, <2>2, Constants
  <2>. QED  BY <2>1, <2>3, Constants
<1>8. CASE pc[t] \in {"command", "look"}
  <2>1. TimeLeft(t) = MaxWait - wait[t]
    BY <1>8 DEF TimeLeft
  <2>. QED  BY <1>0, <1>1, <1>3, <1>8, <2>1, Constants
<1>. QED  BY <1>0, <1>4, <1>5, <1>6, <1>7, <1>8 DEF Waits, Requests, Sleeps

LEMMA StepAdvances ==
  ASSUME BackendInv, NEW t \in Threads, Step(t), call'[t] # "none"
  PROVE  Advances(t)
<1>. USE Constants, OwnTypes DEF Advances
<1>0. TypeOK /\ Sound(t)
  BY DEF BackendInv
<1>a. \A a \in Reasons \cup {"ok"} : ~Finish(t, a)
  BY <1>0 DEF TypeOK, Finish
<1>1. CASE TokenArrives(t)
  <2>1. pc[t] = "token" /\ pc'[t] = "assign" /\ wait[t] <= MaxWait
        /\ call'[t] = call[t] /\ tries'[t] = tries[t] /\ FromFirst(t)' = FromFirst(t)
    BY <1>0, <1>1 DEF TokenArrives, TypeOK, local, Sound, FromFirst, Span
  <2>2. FromFirst(t) \in Nat
    BY <2>1, FromFirstFact
  <2>. QED  BY <2>1, <2>2 DEF TimeLeft, Stage
<1>2. CASE \E r \in Reports : AssignExpiry(t, r)
  <2>1. /\ pc[t] = "assign" /\ wait'[t] = 0
        /\ call'[t] = call[t] /\ tries'[t] = tries[t] /\ FromFirst(t)' = FromFirst(t)
        /\ pc'[t] = IF call[t] = "look" THEN "look" ELSE "devices"
    BY <1>0, <1>2 DEF AssignExpiry, TypeOK, local, GoTo, FirstRequest, FromFirst, Span
  <2>2. FromFirst(t) \in Nat /\ (call[t] = "look" => FromFirst(t) = MaxWait)
    BY <2>1, FromFirstFact DEF FromFirst
  <2>. QED  BY <2>1, <2>2 DEF TimeLeft, Stage
<1>3. CASE DeviceListed(t)
  <2>1. /\ pc[t] = "devices" /\ call[t] # "probe" /\ wait'[t] = 0 /\ call'[t] = call[t]
        /\ pc'[t] = (IF call[t] = "dispatch" THEN "play" ELSE "command")
    BY <1>0, <1>3, <1>a DEF DeviceListed, Honoured, GoTo, TypeOK, local
  <2>2. wait[t] <= MaxWait /\ call[t] \in {"dispatch"} \cup Commands
    BY <1>0, <2>1 DEF Sound, Requests
  <2>3. FromFirst(t) \in Nat /\ (call[t] = "dispatch" => FromFirst(t) >= 5 * MaxWait + ConfirmTimeout)
        /\ (call[t] # "dispatch" => FromFirst(t) = 2 * MaxWait)
    BY <2>2 DEF FromFirst, Commands
  <2>4. TimeLeft(t) = FromFirst(t) - wait[t] /\ Stage(t) = 5 + 2 * tries[t]
    BY <2>1 DEF TimeLeft, Stage
  <2>5. call[t] = "dispatch" =>
          TimeLeft(t)' = MaxWait + 3 * MaxWait + ConfirmTimeout /\ Stage(t)' = 4
    BY <2>1 DEF TimeLeft, Stage
  <2>6. call[t] # "dispatch" => TimeLeft(t)' = MaxWait /\ Stage(t)' = 1
    BY <2>1 DEF TimeLeft, Stage
  <2>. QED  BY <2>2, <2>3, <2>4, <2>5, <2>6
<1>4. CASE DeviceNotListed(t)
  <2>1. /\ pc[t] = "devices" /\ wait'[t] = 0 /\ call'[t] = call[t]
        /\ tries[t] > 0 /\ tries'[t] = tries[t] - 1
        /\ pc'[t] = (IF call[t] = "probe" THEN "pause" ELSE "devices")
    BY <1>0, <1>4, <1>a DEF DeviceNotListed, Honoured, GoTo, TypeOK, Reasons
  <2>2. wait[t] <= MaxWait /\ tries[t] <= Retries(call[t])
    BY <1>0, <2>1 DEF Sound, Requests
  <2>3. CASE call[t] = "probe"
    <3>1. Span(tries[t]) = Span(tries'[t]) + MaxWait + ProbeInterval /\ Span(tries'[t]) \in Nat
      BY <2>1, Spans
    <3>2. FromFirst(t) = MaxWait + Span(tries[t])
      BY <2>3 DEF FromFirst
    <3>3. TimeLeft(t)' = ProbeInterval + MaxWait + Span(tries'[t])
      BY <2>1, <2>3 DEF TimeLeft, Span
    <3>. QED  BY <2>1, <2>2, <2>3, <3>1, <3>2, <3>3 DEF TimeLeft, Stage
  <2>4. CASE call[t] # "probe"
    <3>1. call[t] = "dispatch" /\ tries[t] = 1
      BY <1>0, <2>1, <2>2, <2>4 DEF Retries
    <3>2. FromFirst(t) = 6 * MaxWait + ConfirmTimeout
      BY <3>1 DEF FromFirst
    <3>3. FromFirst(t)' = 5 * MaxWait + ConfirmTimeout
      BY <2>1, <3>1 DEF FromFirst
    <3>. QED  BY <2>1, <2>2, <3>1, <3>2, <3>3 DEF TimeLeft, Stage
  <2>. QED  BY <2>3, <2>4
<1>5. CASE PlayAccepted(t) \/ PlayRefused(t) \/ TransferAccepted(t)
  <2>1. pc[t] \in {"play", "replay", "transfer"} /\ wait[t] <= MaxWait
    BY <1>0, <1>5 DEF PlayAccepted, PlayRefused, TransferAccepted, Honoured, Sound, Requests
  <2>2. CASE PlayAccepted(t)
    <3>1. pc'[t] = "confirm" /\ wait'[t] = 0 /\ left'[t] = ConfirmTimeout
          /\ pc[t] \in {"play", "replay"}
      BY <1>0, <2>2 DEF PlayAccepted, Honoured, GoTo, TypeOK
    <3>. QED  BY <2>1, <3>1 DEF TimeLeft, Stage
  <2>3. CASE PlayRefused(t)
    <3>1. pc[t] = "play" /\ pc'[t] = "transfer" /\ wait'[t] = 0
      BY <1>0, <2>3 DEF PlayRefused, GoTo, TypeOK
    <3>. QED  BY <2>1, <3>1 DEF TimeLeft, Stage
  <2>4. CASE TransferAccepted(t)
    <3>1. pc[t] = "transfer" /\ pc'[t] = "replay" /\ wait'[t] = 0
      BY <1>0, <2>4 DEF TransferAccepted, Honoured, GoTo, TypeOK
    <3>. QED  BY <2>1, <3>1 DEF TimeLeft, Stage
  <2>. QED  BY <1>5, <2>2, <2>3, <2>4
<1>6. CASE \E shown \in PlayerStates : Confirm(t, shown)
  <2>1. pc[t] = "confirm" /\ pc'[t] = "nap" /\ wait'[t] = 0 /\ left'[t] = left[t]
        /\ left[t] > 0
    BY <1>0, <1>6, <1>a DEF Confirm, Honoured, GoTo, TypeOK, Reasons
  <2>. QED  BY <2>1 DEF TimeLeft, Stage
<1>7. CASE Wake(t)
  <2>1. wait'[t] = 0 /\ left'[t] = left[t] /\ tries'[t] = tries[t] /\ call'[t] = call[t]
    BY <1>0, <1>7 DEF Wake, GoTo, TypeOK, local
  <2>2. CASE pc[t] = "pause" /\ pc'[t] = "devices"
    <3>1. wait[t] <= ProbeInterval /\ call[t] = "probe"
      BY <1>0, <2>2 DEF Sound
    <3>2. FromFirst(t)' = MaxWait + Span(tries[t])
      BY <2>1, <3>1 DEF FromFirst, Span
    <3>. QED  BY <2>1, <2>2, <3>1, <3>2 DEF TimeLeft, Stage
  <2>3. CASE pc[t] = "nap" /\ pc'[t] = "confirm" /\ wait[t] >= ConfirmInterval
    <3>1. left[t] > 0
      BY <1>0, <2>3 DEF Sound
    <3>. QED  BY <2>1, <2>3, <3>1 DEF TimeLeft, Stage
  <2>. QED  BY <1>0, <1>7, <2>2, <2>3 DEF Wake, GoTo, TypeOK
<1>8. CASE CommandAccepted(t) \/ \E shown \in PlayerStates : LookAnswered(t, shown)
  BY <1>8, <1>a DEF CommandAccepted, LookAnswered
<1>9. CASE RequestRaises(t)
  BY <1>0, <1>9 DEF RequestRaises, TypeOK
<1>10. CASE \E failure \in Failures : RequestFails(t, failure)
  BY <1>10, <1>a, OperationTypes, ReasonTypes DEF RequestFails
<1>. QED
  BY <1>1, <1>2, <1>3, <1>4, <1>5, <1>6, <1>7, <1>8, <1>9, <1>10 DEF Step

LEMMA TickAdvances ==
  ASSUME BackendInv, Tick, NEW t \in Threads, call[t] # "none"
  PROVE  TimeLeft(t)' < TimeLeft(t)
<1>. USE Constants, OwnTypes
<1>1. /\ pc'[t] = pc[t] /\ call'[t] = call[t] /\ tries'[t] = tries[t]
      /\ left'[t] = (IF left[t] > 0 THEN left[t] - 1 ELSE left[t])
      /\ pc[t] # "assign" /\ pc[t] \notin {"rest", "dead"}
  BY DEF Tick, MayWait, Less, Sound, Requests
<1>2. pc[t] \in Waits /\ wait'[t] = wait[t] + 1
  BY <1>1 DEF Tick
<1>3. /\ pc[t] \in Requests \cup {"token"} => wait[t] < MaxWait
      /\ pc[t] = "nap" => left[t] > 0
  BY DEF Tick, MayWait, Sound, Requests, Sleeps
<1>4. FromFirst(t)' = FromFirst(t) /\ Span(tries[t])' = Span(tries[t])
  BY <1>1 DEF FromFirst, Span
<1>5. FromFirst(t) \in Nat
  BY FromFirstFact
<1>6. CASE pc[t] \in {"token", "devices"}
  BY <1>1, <1>2, <1>4, <1>5, <1>6 DEF TimeLeft
<1>7. CASE pc[t] = "pause"
  BY <1>1, <1>2, <1>4, <1>7 DEF TimeLeft
<1>8. CASE pc[t] \in {"play", "transfer", "replay", "command", "look"}
  BY <1>1, <1>2, <1>8 DEF TimeLeft
<1>9. CASE pc[t] \in {"confirm", "nap"}
  BY <1>1, <1>2, <1>3, <1>9 DEF TimeLeft, Requests
<1>. QED  BY <1>2, <1>6, <1>7, <1>8, <1>9 DEF Waits, Requests, Sleeps

\* What the others do takes nothing from a call and gives it nothing.
LEMMA OthersTakeNothing ==
  ASSUME BackendInv, NEW t \in Threads, call[t] # "none", [Next]_vars, ~Step(t), ~Tick,
         call'[t] # "none"
  PROVE  TimeLeft(t)' = TimeLeft(t)
<1>0. TypeOK /\ Sound(t)
  BY DEF BackendInv
<1>1. /\ pc'[t] = pc[t] /\ call'[t] = call[t] /\ tries'[t] = tries[t]
      /\ left'[t] = left[t] /\ wait'[t] = wait[t]
  <2>1. CASE \E u \in Threads \ {t} : Step(u)
    BY <1>0, <2>1
    DEF TypeOK, Step, TokenArrives, AssignExpiry, DeviceListed, DeviceNotListed, PlayAccepted,
        PlayRefused, TransferAccepted, Confirm, Wake, CommandAccepted, LookAnswered,
        RequestFails, RequestRaises, Finish, GoTo, local, history
  <2>2. CASE \E u \in Threads : \E kind \in Kinds[u] : Begin(u, kind)
    BY <1>0, <2>2 DEF TypeOK, Begin, GoTo, Sound, local
  <2>3. CASE Restart
    BY <1>0, <2>3 DEF Restart, Sound, Threads
  <2>4. CASE Revoke \/ UNCHANGED vars
    BY <2>4 DEF Revoke, vars, local
  <2>. QED  BY <2>1, <2>2, <2>3, <2>4 DEF Next
<1>. QED  BY <1>1 DEF TimeLeft, FromFirst, Span

\* CallsAdvance: each call has a time that its requests, retries and sleeps may
\* take, which every tick uses up and no step of any thread adds to, and between
\* two ticks its own steps are counted down.  What CallsEnd adds is that time
\* passes and the thread goes on.
THEOREM CallsAdvanceSafety == Spec => CallsAdvance
<1>1. BackendInv /\ [Next]_vars =>
        [\A t \in Threads :
           call[t] # "none" /\ call'[t] # "none" =>
             /\ Tick => TimeLeft(t)' < TimeLeft(t)
             /\ Step(t) => Advances(t)
             /\ ~Tick /\ ~Step(t) => TimeLeft(t)' = TimeLeft(t)]_vars
  BY TickAdvances, StepAdvances, OthersTakeNothing
<1>. QED  BY <1>1, BackendSafety, PTL DEF Spec, CallsAdvance

\* CallsFit: no call has more time before it than a request for the token and
\* the longest call of its kind.
THEOREM CallsFitSafety == Spec => []CallsFit
<1>1. BackendInv => CallsFit
  BY FitFact
<1>. QED  BY <1>1, BackendSafety, PTL

-----------------------------------------------------------------------------
(***************************************************************************)
(* When a margin is enough.                                                *)
(***************************************************************************)
\* A call that waits for a token has none, and one that carries one has not
\* carried it for so long that its longest way yet would add up to more.
AgesFit ==
  \A t \in Threads :
    /\ call[t] = "none" \/ pc[t] = "token" => age[t] = 0
    /\ call[t] # "none" => age[t] + TimeLeft(t) <= MaxWait + LongestCall(call[t])

\* What is left of a token in its last moment is enough for the request that brought
\* it and the longest call of any kind.  The defaults have it if a request takes no
\* longer than its timeout, 60 s against 45 s; nothing in config.py sees to it, and
\* the timeout is one of each read, so that it is a condition here.
MarginCovers ==
  \A expires_in \in Reports :
    \A kind \in {"probe", "dispatch", "look"} \cup Commands :
      Slack(expires_in) >= MaxWait + LongestCall(kind)

\* No request carries a token that has run out.
NoExpiredToken == \A t \in Threads : pc[t] \in Requests \cup Sleeps => held[t] # 0

LEMMA LongestTypes == ASSUME NEW kind PROVE LongestCall(kind) \in Nat
<1>1. LongestProbe = Span(ProbeRetries) + MaxWait
  BY Constants DEF LongestProbe, Span
<1>2. LongestProbe \in Nat /\ LongestDispatch \in Nat /\ 2 * MaxWait \in Nat
  BY <1>1, Constants, Spans DEF LongestDispatch
<1>. QED  BY <1>2 DEF LongestCall

\* A call that finds a token has its longest way before it, and the token the time
\* behind it that its request took.
LEMMA BeginFits ==
  ASSUME BackendInv, CallsFit', AgesFit, NEW t \in Threads, NEW kind \in Kinds[t],
         Begin(t, kind)
  PROVE  AgesFit'
<1>. USE Constants
<1>0. kind \in {"dispatch", "look"} \cup Commands
  BY DEF Kinds, Threads
<1>1. /\ call'[t] = kind /\ kind # "none" /\ wait'[t] = 0 /\ tries'[t] = Retries(kind)
      /\ call[t] = "none"
  BY <1>0 DEF Begin, GoTo, BackendInv, TypeOK, Sound, Commands
<1>2. TimeLeft(t)' \in Int /\ TimeLeft(t)' <= MaxWait + LongestCall(kind)
  <2>1. LongestCall(kind) \in Nat
    BY LongestTypes
  <2>. QED  BY <1>1, <2>1 DEF CallsFit
<1>3. age'[t] + TimeLeft(t)' <= MaxWait + LongestCall(kind)
      /\ (pc'[t] = "token" => age'[t] = 0)
  <2>1. CASE ttl > 0
    <3>1. age'[t] = took /\ took \in Nat /\ took <= MaxWait
      BY <2>1 DEF Begin, BackendInv, TypeOK
    <3>2. pc'[t] = (IF kind = "look" THEN "look" ELSE "devices")
      BY <2>1 DEF Begin, GoTo, BackendInv, TypeOK
    <3>3. FromFirst(t)' = (IF kind = "look" THEN MaxWait
                           ELSE IF kind = "dispatch" THEN 6 * MaxWait + ConfirmTimeout
                           ELSE 2 * MaxWait)
      BY <1>0, <1>1 DEF FromFirst, Retries, Commands
    <3>4. TimeLeft(t)' = (IF kind = "look" THEN MaxWait ELSE FromFirst(t)')
      BY <1>1, <3>2, <3>3 DEF TimeLeft
    <3>5. LongestCall(kind) = (IF kind = "dispatch" THEN 6 * MaxWait + ConfirmTimeout
                               ELSE 2 * MaxWait)
      BY <1>0 DEF LongestCall, LongestDispatch, Commands
    <3>. QED  BY <3>1, <3>2, <3>3, <3>4, <3>5
  <2>2. CASE ttl = 0
    <3>1. age'[t] = 0
      BY <1>1, <2>2 DEF Begin, carried, AgesFit
    <3>. QED  BY <1>2, <3>1
  <2>. QED  BY <2>1, <2>2 DEF BackendInv, TypeOK
<1>4. ASSUME NEW u \in Threads \ {t}
      PROVE  /\ pc'[u] = pc[u] /\ call'[u] = call[u] /\ tries'[u] = tries[u]
             /\ left'[u] = left[u] /\ wait'[u] = wait[u] /\ age'[u] = age[u]
  BY DEF Begin, GoTo, BackendInv, TypeOK, carried
<1>5. ASSUME NEW u \in Threads \ {t} PROVE TimeLeft(u)' = TimeLeft(u)
  BY <1>4 DEF TimeLeft, FromFirst, Span
<1>. QED  BY <1>1, <1>3, <1>4, <1>5 DEF AgesFit

\* A step of a call takes none of its time, and none of its age but for a new token.
LEMMA StepFits ==
  ASSUME BackendInv, CallsFit, CallsFit', AgesFit, NEW t \in Threads, Step(t)
  PROVE  /\ call'[t] = "none" \/ pc'[t] = "token" => age'[t] = 0
         /\ call'[t] # "none" =>
              call'[t] = call[t] /\ age'[t] + TimeLeft(t)' <= MaxWait + LongestCall(call[t])
<1>. USE Constants
<1>0. TypeOK /\ Sound(t)
  BY DEF BackendInv
<1>1. CASE call'[t] = "none"
  <2>1. call[t] # "none"
    BY <1>0
    DEF Sound, Requests, Step, TokenArrives, AssignExpiry, DeviceListed, DeviceNotListed,
        PlayAccepted, PlayRefused, TransferAccepted, Wake, CommandAccepted, Confirm,
        LookAnswered, RequestFails, RequestRaises, Honoured
  <2>2. CASE \E a \in Reasons \cup {"ok"} : Finish(t, a)
    BY <1>0, <1>1, <2>2 DEF Finish, TypeOK
  <2>3. CASE RequestRaises(t)
    BY <1>0, <1>1, <2>3 DEF RequestRaises, TypeOK
  <2>4. CASE UNCHANGED call
    BY <1>1, <2>1, <2>4
  <2>5. CASE \E failure \in Failures : RequestFails(t, failure)
    BY <2>2, <2>5, OperationTypes, ReasonTypes DEF RequestFails
  <2>. QED
    BY <2>2, <2>3, <2>4, <2>5
    DEF Step, TokenArrives, AssignExpiry, DeviceListed, DeviceNotListed, PlayAccepted,
        PlayRefused, TransferAccepted, Wake, CommandAccepted, Confirm, LookAnswered,
        local, Reasons
<1>2. CASE call'[t] # "none" /\ TokenArrives(t)
  <2>1. /\ call'[t] = call[t] /\ pc'[t] = "assign" /\ age'[t] = wait[t]
        /\ wait[t] \in Nat /\ wait[t] <= MaxWait /\ tries'[t] = tries[t]
    BY <1>0, <1>2 DEF TokenArrives, TypeOK, Sound, local
  <2>2. TimeLeft(t)' = FromFirst(t)
    BY <2>1 DEF TimeLeft, FromFirst, Span
  <2>3. FromFirst(t) \in Nat /\ FromFirst(t) <= LongestCall(call[t])
    BY <1>2, <2>1, FromFirstFact
  <2>4. LongestCall(call[t]) \in Int
    BY LongestTypes
  <2>. QED  BY <1>2, <2>1, <2>2, <2>3, <2>4
<1>3. CASE call'[t] # "none" /\ ~TokenArrives(t)
  <2>0. \A a \in Reasons \cup {"ok"} : ~Finish(t, a)
    BY <1>0, <1>3 DEF TypeOK, Finish
  <2>1. /\ call'[t] = call[t] /\ age'[t] = age[t] /\ pc'[t] # "token" /\ pc[t] # "token"
    BY <1>0, <1>3, <2>0, OperationTypes, ReasonTypes
    DEF TypeOK, Step, AssignExpiry, DeviceListed, DeviceNotListed, PlayAccepted,
        PlayRefused, TransferAccepted, Wake, CommandAccepted, Confirm, LookAnswered,
        RequestFails, RequestRaises, GoTo, FirstRequest, Honoured, local, carried, Reasons
  <2>2. TimeLeft(t)' <= TimeLeft(t)
    <3>1. Advances(t)
      BY <1>3, StepAdvances
    <3>2. TimeLeft(t) \in Int /\ TimeLeft(t)' \in Int
      BY <1>3, <2>1 DEF CallsFit
    <3>. QED  BY <3>1, <3>2 DEF Advances
  <2>3. age[t] + TimeLeft(t) <= MaxWait + LongestCall(call[t])
    BY <1>3, <2>1 DEF AgesFit
  <2>4. LongestCall(call[t]) \in Int /\ age[t] \in Nat
        /\ TimeLeft(t) \in Int /\ TimeLeft(t)' \in Int
    <3>1. LongestCall(call[t]) \in Int
      BY LongestTypes
    <3>. QED  BY <1>0, <1>3, <2>1, <3>1 DEF CallsFit, TypeOK
  <2>. QED  BY <1>3, <2>1, <2>2, <2>3, <2>4
<1>. QED  BY <1>1, <1>2, <1>3

LEMMA TickFits ==
  ASSUME BackendInv, CallsFit, CallsFit', AgesFit, Tick
  PROVE  AgesFit'
<1>. USE Constants
<1>. SUFFICES ASSUME NEW t \in Threads
              PROVE  /\ call'[t] = "none" \/ pc'[t] = "token" => age'[t] = 0
                     /\ call'[t] # "none" =>
                          age'[t] + TimeLeft(t)' <= MaxWait + LongestCall(call'[t])
  BY DEF AgesFit
<1>1. /\ call'[t] = call[t] /\ pc'[t] = pc[t] /\ age[t] \in Nat
      /\ age'[t] = (IF held[t] > 0 THEN age[t] + 1 ELSE age[t])
  BY DEF Tick, BackendInv, TypeOK
<1>2. held[t] \in Int /\ (call[t] = "none" \/ pc[t] = "token" => held[t] <= 0)
  BY DEF BackendInv, TypeOK, Sound, Lives, Revoked
<1>3. CASE call[t] # "none"
  <2>1. TimeLeft(t)' < TimeLeft(t)
    BY <1>3, TickAdvances
  <2>2. TimeLeft(t) \in Int /\ TimeLeft(t)' \in Int
    BY <1>1, <1>3 DEF CallsFit
  <2>3. LongestCall(call[t]) \in Int
    BY LongestTypes
  <2>. QED  BY <1>1, <1>2, <1>3, <2>1, <2>2, <2>3 DEF AgesFit
<1>4. CASE call[t] = "none"
  BY <1>1, <1>2, <1>4 DEF AgesFit
<1>. QED  BY <1>3, <1>4

LEMMA AgesKeep ==
  ASSUME BackendInv, CallsFit, CallsFit', AgesFit, [Next]_vars
  PROVE  AgesFit'
<1>1. CASE \E t \in Threads : Step(t)
  <2>1. PICK t \in Threads : Step(t)
    BY <1>1
  <2>2. ASSUME NEW u \in Threads \ {t}
        PROVE  /\ pc'[u] = pc[u] /\ call'[u] = call[u] /\ tries'[u] = tries[u]
               /\ left'[u] = left[u] /\ wait'[u] = wait[u] /\ age'[u] = age[u]
    BY <2>1
    DEF BackendInv, TypeOK, Step, TokenArrives, AssignExpiry, DeviceListed, DeviceNotListed,
        PlayAccepted, PlayRefused, TransferAccepted, Confirm, Wake, CommandAccepted,
        LookAnswered, RequestFails, RequestRaises, Finish, GoTo, local, carried
  <2>3. ASSUME NEW u \in Threads \ {t} PROVE TimeLeft(u)' = TimeLeft(u)
    BY <2>2 DEF TimeLeft, FromFirst, Span
  <2>. QED  BY <2>1, <2>2, <2>3, StepFits DEF AgesFit
<1>2. CASE \E t \in Threads : \E kind \in Kinds[t] : Begin(t, kind)
  BY <1>2, BeginFits
<1>3. CASE Restart
  <2>1. ASSUME NEW t \in Threads PROVE age'[t] = 0
    BY <1>3 DEF Restart
  <2>2. ASSUME NEW t \in Threads, call'[t] # "none"
        PROVE  TimeLeft(t)' \in Int /\ TimeLeft(t)' <= MaxWait + LongestCall(call'[t])
    <3>1. LongestCall(call'[t]) \in Nat /\ MaxWait \in Nat
      BY LongestTypes, Constants
    <3>. QED  BY <2>2, <3>1 DEF CallsFit
  <2>. QED  BY <2>1, <2>2 DEF AgesFit
<1>4. CASE Tick
  BY <1>4, TickFits
<1>5. CASE Revoke
  <2>1. ASSUME NEW t \in Threads
        PROVE  /\ age'[t] \in Nat /\ age'[t] <= age[t]
               /\ call'[t] = call[t] /\ pc'[t] = pc[t] /\ age[t] \in Nat
    BY <1>5 DEF Revoke, BackendInv, TypeOK, local
  <2>2. ASSUME NEW t \in Threads PROVE TimeLeft(t)' = TimeLeft(t)
    BY <1>5 DEF Revoke, local, TimeLeft, FromFirst, Span
  <2>3. ASSUME NEW t \in Threads, call[t] # "none"
        PROVE  /\ TimeLeft(t) \in Int /\ LongestCall(call[t]) \in Int /\ MaxWait \in Int
    BY <2>3, LongestTypes, Constants DEF CallsFit
  <2>. QED  BY <2>1, <2>2, <2>3 DEF AgesFit
<1>6. CASE UNCHANGED vars
  BY <1>6 DEF vars, carried, local, AgesFit, TimeLeft, FromFirst, Span
<1>. QED  BY <1>1, <1>2, <1>3, <1>4, <1>5, <1>6 DEF Next

LEMMA InitFits == ASSUME Init, CallsFit PROVE AgesFit
<1>1. ASSUME NEW t \in Threads, call[t] # "none"
      PROVE  TimeLeft(t) \in Int /\ TimeLeft(t) <= MaxWait + LongestCall(call[t])
  <2>1. LongestCall(call[t]) \in Nat /\ MaxWait \in Nat
    BY LongestTypes, Constants
  <2>. QED  BY <1>1, <2>1 DEF CallsFit
<1>. QED  BY <1>1 DEF Init, AgesFit

\* If what is left of a token in its last moment covers a request for it and the
\* longest call, no request ever carries a token that has run out: one look at the
\* token for a whole call is enough then, with its retries, its transfer and its
\* confirmation, and although two threads refresh the token side by side.
THEOREM MarginSuffices == Spec => [](MarginCovers => NoExpiredToken)
<1>1. Init /\ CallsFit => AgesFit
  BY InitFits
<1>2. BackendInv /\ CallsFit /\ CallsFit' /\ AgesFit /\ [Next]_vars => AgesFit'
  BY AgesKeep
<1>3. BackendInv /\ CallsFit /\ AgesFit => (MarginCovers => NoExpiredToken)
  <2>. SUFFICES ASSUME BackendInv, CallsFit, AgesFit, MarginCovers,
                       NEW t \in Threads, pc[t] \in Requests \cup Sleeps, held[t] = 0
                PROVE  FALSE
    BY DEF NoExpiredToken
  <2>1. PICK r \in Reports : held[t] + age[t] > Slack(r)
    BY DEF BackendInv, Covered, Revoked
  <2>2. call[t] \in {"probe", "dispatch", "look"} \cup Commands
    BY DEF BackendInv, TypeOK, Sound, Requests, Sleeps
  <2>3. Slack(r) >= MaxWait + LongestCall(call[t])
    BY <2>2 DEF MarginCovers
  <2>4. call[t] # "none"
    BY <2>2 DEF Commands
  <2>5. age[t] + TimeLeft(t) <= MaxWait + LongestCall(call[t]) /\ TimeLeft(t) >= 0
        /\ TimeLeft(t) \in Int
    BY <2>4 DEF AgesFit, CallsFit
  <2>6. LongestCall(call[t]) \in Int /\ MaxWait \in Int /\ Slack(r) \in Int /\ age[t] \in Int
    BY Constants, LongestTypes, Usables DEF BackendInv, TypeOK
  <2>. QED  BY <2>1, <2>3, <2>5, <2>6
<1>. QED  BY <1>1, <1>2, <1>3, BackendSafety, CallsFitSafety, PTL DEF Spec

=============================================================================
