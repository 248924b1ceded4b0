--------------------------- MODULE SpotifyBackend ---------------------------
(***************************************************************************)
(* adapters/playback_spotify.py: SpotifyPlaybackBackend, which two threads *)
(* call with no lock: the main thread, which probes, dispatches and gives  *)
(* commands, and the idle monitor's, which looks at the player.            *)
(*                                                                         *)
(* A call is cut at its HTTP requests and sleeps; what it does between two *)
(* of them takes no time.  It carries the access token it found or asked   *)
(* for from its first request to its last.  A token is told by the time    *)
(* Spotify still honours it, the backend's idea of that by the time until  *)
(* _access_token_expires_at.  The token and that time are written one      *)
(* after the other, and the other thread may come between.                 *)
(*                                                                         *)
(* Spotify answers as it will.  Messages, device names and Retry-After are *)
(* left out, and so is _cached_player_active, which nobody reads.  enqueue *)
(* is called for tracks only and set_volume_percent for the configured     *)
(* presets: their local refusals cannot happen here.                       *)
(***************************************************************************)
EXTENDS Integers

CONSTANTS
  Lifetime,         \* how long Spotify honours a new access token
  Reports,          \* what the backend may take for that time: expires_in of the
                    \* answer, or 3600 s where the answer gives no integer
  Margin,           \* how much earlier the backend means to forget it: 60 s
  MaxWait,          \* how long a request takes at most, whatever comes of it
  ConfirmTimeout,   \* confirmation_timeout_seconds
  ConfirmInterval,  \* confirmation_poll_interval_seconds
  ProbeRetries,     \* device_probe_retry_count
  ProbeInterval     \* device_probe_retry_interval_seconds

\* The times there are: config.py wants each positive, and the poll interval no
\* longer than the timeout.  Nothing is known of expires_in, nor how the margin
\* compares with it or with the length of a call.
ASSUME TimesAssumption ==
  /\ {Lifetime, Margin, MaxWait, ConfirmTimeout, ConfirmInterval, ProbeRetries,
      ProbeInterval} \subseteq Nat \ {0}
  /\ ConfirmInterval <= ConfirmTimeout
  /\ Reports \subseteq Int /\ Reports # {}

\* max(expires_in - 60, 1): how long the backend uses a token, and what is left of
\* it then for the call that looks at it in its last moment.
Usable(expires_in) == IF expires_in > Margin THEN expires_in - Margin ELSE 1
Slack(expires_in) == Lifetime - Usable(expires_in)

Threads == {"main", "idle"}
Commands == {"enqueue", "stop", "next", "volume"}
Kinds == [t \in Threads |->
            IF t = "main" THEN {"dispatch", "look"} \cup Commands ELSE {"look"}]

VARIABLES
  token,     \* how long Spotify honours self._access_token yet
  ttl,       \* the time until self._access_token_expires_at; 0: none or over
  took,      \* history: how long the request that brought that token took
  status,    \* self._cached_status
  call,      \* call[t]: the method thread t is in
  pc,        \* pc[t]: the request it waits for, the sleep it is in
  held,      \* held[t]: how long Spotify honours the token it carries yet
  age,       \* history, age[t]: how long its call has carried that token while it
             \* was honoured, and how long the request that brought it had taken
  wait,      \* wait[t]: how long it has waited for the answer or slept
  tries,     \* tries[t]: the device lookups it may still repeat
  left,      \* left[t]: the time until the deadline of _confirm_playback
  heard,     \* heard[t]: target_device_started_playing
  answer,    \* answer[t]: reason_code of its latest result, "ok" for none
  accepted,  \* history: has Spotify accepted a play request of this call?
  real       \* history: was the target seen playing after that?

cached == <<token, ttl, took>>
carried == <<held, age>>
history == <<accepted, real>>
local == <<call, tries, left, heard, answer>>
vars == <<cached, carried, status, pc, wait, local, history>>

\* A token that is no longer honoured although its time is not over.
Revoked == -1
Lives == Revoked..Lifetime

Codes == {"ready", "network_unavailable", "controller_auth_unavailable",
          "receiver_unavailable", "spotify_rate_limited"}

Reasons == {"spotify_api_auth_error", "spotify_rate_limited", "network_discovery_failed",
            "device_not_listed", "connect_transfer_failed", "spotify_start_failed",
            "spotify_start_not_confirmed", "no_active_playback",
            "volume_control_unavailable", "spotify_queue_failed"}

\* The requests that carry the token, and the two sleeps.
Requests == {"devices", "play", "transfer", "replay", "confirm", "command", "look"}
Sleeps == {"pause", "nap"}
Waits == Requests \cup Sleeps \cup {"token"}

TypeOK ==
  /\ token \in Lives
  /\ ttl \in Nat
  /\ took \in 0..MaxWait
  /\ status \in Codes
  /\ call \in [Threads -> {"none", "probe", "dispatch", "look"} \cup Commands]
  /\ pc \in [Threads -> Waits \cup {"rest", "assign", "dead"}]
  /\ held \in [Threads -> Lives]
  /\ age \in [Threads -> Nat]
  /\ wait \in [Threads -> 0..(MaxWait + ProbeInterval + ConfirmInterval)]
  /\ tries \in [Threads -> 0..(ProbeRetries + 1)]
  /\ left \in [Threads -> 0..ConfirmTimeout]
  /\ heard \in [Threads -> BOOLEAN]
  /\ answer \in [Threads -> Reasons \cup {"none", "ok"}]
  /\ accepted \in [Threads -> BOOLEAN]
  /\ real \in [Threads -> BOOLEAN]

Retries(kind) == CASE kind = "probe" -> ProbeRetries
                   [] kind = "dispatch" -> 1
                   [] OTHER -> 0

\* A new backend, whose probe build_runtime calls: it needs a token.
Init ==
  /\ token = 0 /\ ttl = 0 /\ took = 0
  /\ status = "network_unavailable"
  /\ call = [t \in Threads |-> IF t = "main" THEN "probe" ELSE "none"]
  /\ pc = [t \in Threads |-> IF t = "main" THEN "token" ELSE "rest"]
  /\ tries = [t \in Threads |-> IF t = "main" THEN ProbeRetries ELSE 0]
  /\ answer = [t \in Threads |-> "none"]
  /\ held = [t \in Threads |-> 0]
  /\ age = [t \in Threads |-> 0]
  /\ wait = [t \in Threads |-> 0]
  /\ left = [t \in Threads |-> 0]
  /\ heard = [t \in Threads |-> FALSE]
  /\ accepted = [t \in Threads |-> FALSE]
  /\ real = [t \in Threads |-> FALSE]

-----------------------------------------------------------------------------
(***************************************************************************)
(* How a failure is reported: _map_http_error, _reason_code_for_operation, *)
(* _rate_limited_result, _network_error and _status_from_result.           *)
(***************************************************************************)
\* "denied": 401, 403; "limited": 429; "refused": another HTTP error, or a body
\* that is not what it should be; "unreachable": URLError.
Failures == {"denied", "limited", "refused", "unreachable"}

ReasonCodeFor ==
  [token |-> "spotify_api_auth_error",
   devices |-> "network_discovery_failed", confirm |-> "network_discovery_failed",
   look |-> "network_discovery_failed",
   play |-> "spotify_start_failed", replay |-> "spotify_start_failed",
   transfer |-> "connect_transfer_failed",
   enqueue |-> "spotify_queue_failed", stop |-> "no_active_playback",
   next |-> "no_active_playback", volume |-> "volume_control_unavailable"]

Reason(request, failure) ==
  CASE failure = "denied" -> "spotify_api_auth_error"
    [] failure = "limited" -> "spotify_rate_limited"
    [] failure = "unreachable" -> "network_discovery_failed"
    [] failure = "refused" -> ReasonCodeFor[request]

StatusOf ==
  [a \in Reasons \cup {"ok"} |->
     CASE a = "ok" -> "ready"
       [] a = "spotify_api_auth_error" -> "controller_auth_unavailable"
       [] a = "device_not_listed" -> "receiver_unavailable"
       [] a = "spotify_rate_limited" -> "spotify_rate_limited"
       [] OTHER -> "network_unavailable"]

\* What a call of each kind may answer.
Usual == {"ok", "spotify_api_auth_error", "spotify_rate_limited", "network_discovery_failed"}
AnswersTo ==
  [probe |-> Usual \cup {"device_not_listed"},
   dispatch |-> Usual \cup {"device_not_listed", "connect_transfer_failed",
                            "spotify_start_failed", "spotify_start_not_confirmed"},
   look |-> Usual,
   enqueue |-> Usual \cup {"device_not_listed", "spotify_queue_failed"},
   stop |-> Usual \cup {"device_not_listed", "no_active_playback"},
   next |-> Usual \cup {"device_not_listed", "no_active_playback"},
   volume |-> Usual \cup {"device_not_listed", "volume_control_unavailable"}]
-----------------------------------------------------------------------------
(***************************************************************************)
(* The life of a call.                                                     *)
(***************************************************************************)
\* The next request goes out, or the sleep begins.
GoTo(t, step) ==
  /\ pc' = [pc EXCEPT ![t] = step]
  /\ wait' = [wait EXCEPT ![t] = 0]

\* The method returns: _cache_ready or _cache_from_result, and the result.
\* build_runtime takes a probe without authorization for a StartupError.
Finish(t, a) ==
  /\ GoTo(t, IF call[t] = "probe" /\ a = "spotify_api_auth_error" THEN "dead" ELSE "rest")
  /\ call' = [call EXCEPT ![t] = "none"]
  /\ answer' = [answer EXCEPT ![t] = a]
  /\ status' = StatusOf[a]
  /\ held' = [held EXCEPT ![t] = 0]
  /\ age' = [age EXCEPT ![t] = 0]
  /\ left' = [left EXCEPT ![t] = 0]
  /\ heard' = [heard EXCEPT ![t] = FALSE]
  /\ tries' = [tries EXCEPT ![t] = 0]

\* The request that follows the token.
FirstRequest(t) == IF call[t] = "look" THEN "look" ELSE "devices"

\* Mutant of Begin: every use of the token puts off its expiry.
BeginExtends(t, kind) ==
  /\ pc[t] = "rest"
  /\ t = "idle" => call["main"] # "probe" /\ pc["main"] # "dead"
  /\ kind \in Kinds[t]
  /\ call' = [call EXCEPT ![t] = kind]
  /\ tries' = [tries EXCEPT ![t] = Retries(kind)]
  /\ answer' = [answer EXCEPT ![t] = "none"]
  /\ accepted' = [accepted EXCEPT ![t] = FALSE]
  /\ real' = [real EXCEPT ![t] = FALSE]
  /\ held' = [held EXCEPT ![t] = IF ttl > 0 THEN token ELSE @]
  /\ age' = [age EXCEPT ![t] = IF ttl > 0 THEN took ELSE @]
  /\ ttl' \in IF ttl > 0 THEN Reports \cap Nat ELSE {0}
  /\ GoTo(t, IF ttl = 0 THEN "token" ELSE IF kind = "look" THEN "look" ELSE "devices")
  /\ UNCHANGED <<token, took, status, left, heard>>

\* A method is called: _refresh_access_token finds a token that it takes for
\* good, or asks for one.  The idle monitor is started after the probe.
Begin(t, kind) ==
  /\ pc[t] = "rest"
  /\ t = "idle" => call["main"] # "probe" /\ pc["main"] # "dead"
  /\ kind \in Kinds[t]
  /\ call' = [call EXCEPT ![t] = kind]
  /\ tries' = [tries EXCEPT ![t] = Retries(kind)]
  /\ answer' = [answer EXCEPT ![t] = "none"]
  /\ accepted' = [accepted EXCEPT ![t] = FALSE]
  /\ real' = [real EXCEPT ![t] = FALSE]
  /\ \/ /\ ttl > 0
        /\ held' = [held EXCEPT ![t] = token]
        /\ age' = [age EXCEPT ![t] = took]
        /\ GoTo(t, IF kind = "look" THEN "look" ELSE "devices")
     \/ /\ ttl = 0
        /\ UNCHANGED carried
        /\ GoTo(t, "token")
  /\ UNCHANGED <<cached, status, left, heard>>

\* The new token was issued at some moment of the request, and is stored.
TokenArrives(t) ==
  /\ pc[t] = "token"
  /\ token' \in {life \in 0..Lifetime : life >= Lifetime - wait[t]}
  /\ took' = wait[t]
  /\ held' = [held EXCEPT ![t] = token']
  /\ age' = [age EXCEPT ![t] = wait[t]]
  /\ pc' = [pc EXCEPT ![t] = "assign"]
  /\ UNCHANGED <<ttl, status, wait, local, history>>

\* Mutant of AssignExpiry: the token is used to its last moment.
AssignWholeExpiry(t, expires_in) ==
  /\ pc[t] = "assign"
  /\ ttl' = IF wait[t] < expires_in THEN expires_in - wait[t] ELSE 0
  /\ GoTo(t, FirstRequest(t))
  /\ UNCHANGED <<token, took, carried, status, local, history>>

\* Its time is stored after it, counted from before the request.
AssignExpiry(t, expires_in) ==
  /\ pc[t] = "assign"
  /\ ttl' = IF wait[t] < Usable(expires_in) THEN Usable(expires_in) - wait[t] ELSE 0
  /\ GoTo(t, FirstRequest(t))
  /\ UNCHANGED <<token, took, carried, status, local, history>>

\* Spotify does what is asked only of who holds a token it honours.
Honoured(t, request) == pc[t] = request /\ held[t] > 0

\* _resolve_target_device finds the target in the list.
DeviceListed(t) ==
  /\ Honoured(t, "devices")
  /\ \/ /\ call[t] = "probe"
        /\ Finish(t, "ok")
     \/ /\ call[t] # "probe"
        /\ GoTo(t, IF call[t] = "dispatch" THEN "play" ELSE "command")
        /\ UNCHANGED <<status, carried, local>>
  /\ UNCHANGED <<cached, accepted, real>>

\* Mutant of DeviceNotListed: one retry too many.
DeviceNotListedAgain(t) ==
  /\ Honoured(t, "devices")
  /\ tries' = [tries EXCEPT ![t] = @ - 1]
  /\ GoTo(t, IF call[t] = "probe" THEN "pause" ELSE "devices")
  /\ UNCHANGED <<cached, status, carried, call, left, heard, answer, history>>

\* Mutant of DeviceNotListed: the retried lookup returns without caching.
DeviceNotListedUncached(t) ==
  /\ Honoured(t, "devices")
  /\ tries[t] = 0
  /\ GoTo(t, "rest")
  /\ call' = [call EXCEPT ![t] = "none"]
  /\ answer' = [answer EXCEPT ![t] = "device_not_listed"]
  /\ held' = [held EXCEPT ![t] = 0]
  /\ age' = [age EXCEPT ![t] = 0]
  /\ UNCHANGED <<cached, status, tries, left, heard, history>>

\* It does not: a dispatch asks again at once, the probe after a sleep.
DeviceNotListed(t) ==
  /\ Honoured(t, "devices")
  /\ \/ /\ tries[t] > 0
        /\ tries' = [tries EXCEPT ![t] = @ - 1]
        /\ GoTo(t, IF call[t] = "probe" THEN "pause" ELSE "devices")
        /\ UNCHANGED <<status, carried, call, left, heard, answer>>
     \/ /\ tries[t] = 0
        /\ Finish(t, "device_not_listed")
  /\ UNCHANGED <<cached, history>>

\* _start_playback succeeds, and _confirm_playback sets its deadline.
PlayAccepted(t) ==
  /\ Honoured(t, "play") \/ Honoured(t, "replay")
  /\ accepted' = [accepted EXCEPT ![t] = TRUE]
  /\ left' = [left EXCEPT ![t] = ConfirmTimeout]
  /\ heard' = [heard EXCEPT ![t] = FALSE]
  /\ GoTo(t, "confirm")
  /\ UNCHANGED <<cached, status, carried, call, tries, answer, real>>

\* The first play is refused for a reason that a transfer may cure.
PlayRefused(t) ==
  /\ pc[t] = "play"
  /\ GoTo(t, "transfer")
  /\ UNCHANGED <<cached, status, carried, local, history>>

TransferAccepted(t) ==
  /\ Honoured(t, "transfer")
  /\ GoTo(t, "replay")
  /\ UNCHANGED <<cached, status, carried, local, history>>

\* What GET /v1/me/player may show: the target with the requested item, the
\* target with another, anything else that plays or not, nothing (204).
PlayerStates == {"requested", "target", "elsewhere", "nothing"}

\* Mutant of Confirm: whatever plays counts, on any device.
ConfirmAnyDevice(t, shown) ==
  /\ Honoured(t, "confirm")
  /\ IF shown # "nothing"
     THEN Finish(t, "ok")
     ELSE /\ left[t] <= ConfirmInterval
          /\ Finish(t, "spotify_start_not_confirmed")
  /\ real' = [real EXCEPT ![t] = @ \/ shown \in {"requested", "target"}]
  /\ UNCHANGED <<cached, accepted>>

\* One turn of the loop of _confirm_playback.
Confirm(t, shown) ==
  /\ Honoured(t, "confirm")
  /\ LET started == heard[t] \/ shown = "target"
     IN \/ /\ shown = "requested"
           /\ Finish(t, "ok")
        \/ /\ shown # "requested"
           /\ left[t] <= ConfirmInterval
           /\ Finish(t, IF started THEN "ok" ELSE "spotify_start_not_confirmed")
        \/ /\ shown # "requested"
           /\ left[t] > ConfirmInterval
           /\ heard' = [heard EXCEPT ![t] = started]
           /\ GoTo(t, "nap")
           /\ UNCHANGED <<status, carried, call, tries, left, answer>>
  /\ real' = [real EXCEPT ![t] = @ \/ shown \in {"requested", "target"}]
  /\ UNCHANGED <<cached, accepted>>

\* A sleep is over.
Wake(t) ==
  /\ \/ pc[t] = "pause" /\ wait[t] >= ProbeInterval /\ GoTo(t, "devices")
     \/ pc[t] = "nap" /\ wait[t] >= ConfirmInterval /\ GoTo(t, "confirm")
  /\ UNCHANGED <<cached, status, carried, local, history>>

\* _device_command succeeds.
CommandAccepted(t) ==
  /\ Honoured(t, "command")
  /\ Finish(t, "ok")
  /\ UNCHANGED <<cached, history>>

\* current_player_active, whatever it sees.
LookAnswered(t, shown) ==
  /\ Honoured(t, "look")
  /\ Finish(t, "ok")
  /\ UNCHANGED <<cached, accepted, real>>

\* What the request asks for, in the words of _map_http_error.
Operation(t) == IF pc[t] = "command" THEN call[t] ELSE pc[t]

\* Mutant of RequestFails: a request that is rate limited is made again.
RequestFailsOrRetries(t, failure) ==
  /\ pc[t] \in Requests \cup {"token"}
  /\ ~(pc[t] = "play" /\ failure = "refused")
  /\ IF failure = "limited"
     THEN GoTo(t, pc[t]) /\ UNCHANGED <<status, carried, local>>
     ELSE Finish(t, Reason(Operation(t), failure))
  /\ UNCHANGED <<cached, history>>

\* A request fails, and with it the call, but for a first play that is refused.
RequestFails(t, failure) ==
  /\ pc[t] \in Requests \cup {"token"}
  /\ ~(pc[t] = "play" /\ failure = "refused")
  /\ Finish(t, Reason(Operation(t), failure))
  /\ UNCHANGED <<cached, history>>

\* A read that times out raises neither HTTPError nor URLError, and nobody
\* catches it: the idle monitor's thread ends, or the service does.
RequestRaises(t) ==
  /\ pc[t] \in Requests \cup {"token"}
  /\ GoTo(t, "dead")
  /\ call' = [call EXCEPT ![t] = "none"]
  /\ held' = [held EXCEPT ![t] = 0]
  /\ age' = [age EXCEPT ![t] = 0]
  /\ left' = [left EXCEPT ![t] = 0]
  /\ heard' = [heard EXCEPT ![t] = FALSE]
  /\ tries' = [tries EXCEPT ![t] = 0]
  /\ UNCHANGED <<cached, status, answer, history>>

-----------------------------------------------------------------------------
\* systemd restarts the service.
Restart ==
  /\ pc["main"] = "dead"
  /\ token' = 0 /\ ttl' = 0 /\ took' = 0
  /\ status' = "network_unavailable"
  /\ call' = [t \in Threads |-> IF t = "main" THEN "probe" ELSE "none"]
  /\ pc' = [t \in Threads |-> IF t = "main" THEN "token" ELSE "rest"]
  /\ tries' = [t \in Threads |-> IF t = "main" THEN ProbeRetries ELSE 0]
  /\ answer' = [t \in Threads |-> "none"]
  /\ held' = [t \in Threads |-> 0]
  /\ age' = [t \in Threads |-> 0]
  /\ wait' = [t \in Threads |-> 0]
  /\ left' = [t \in Threads |-> 0]
  /\ heard' = [t \in Threads |-> FALSE]
  /\ accepted' = [t \in Threads |-> FALSE]
  /\ real' = [t \in Threads |-> FALSE]

\* Spotify withdraws every token it has issued.
Withdraw(life) == IF life > 0 THEN Revoked ELSE life

Revoke ==
  /\ \E life \in {token} \cup {held[t] : t \in Threads} : life > 0
  /\ token' = Withdraw(token)
  /\ held' = [t \in Threads |-> Withdraw(held[t])]
  /\ age' = [t \in Threads |-> IF held[t] > 0 THEN 0 ELSE age[t]]
  /\ UNCHANGED <<ttl, took, status, pc, wait, local, history>>

\* May thread t wait, or sleep, for one tick more?
MayWait(t) ==
  CASE pc[t] \in Requests \cup {"token"} -> wait[t] < MaxWait
    [] pc[t] = "pause" -> wait[t] < ProbeInterval
    [] pc[t] = "nap" -> wait[t] < ConfirmInterval
    [] OTHER -> pc[t] # "assign"

Less(time) == IF time > 0 THEN time - 1 ELSE time

\* Time passes: for the tokens, the deadlines and those who wait.
Tick ==
  /\ \A t \in Threads : MayWait(t)
  /\ token' = Less(token)
  /\ ttl' = Less(ttl)
  /\ held' = [t \in Threads |-> Less(held[t])]
  /\ age' = [t \in Threads |-> IF held[t] > 0 THEN age[t] + 1 ELSE age[t]]
  /\ left' = [t \in Threads |-> Less(left[t])]
  /\ wait' = [t \in Threads |-> IF pc[t] \in Waits THEN wait[t] + 1 ELSE wait[t]]
  /\ UNCHANGED <<took, status, call, pc, tries, heard, answer, history>>

Step(t) ==
  \/ TokenArrives(t)
  \/ \E expires_in \in Reports : AssignExpiry(t, expires_in)
  \/ DeviceListed(t) \/ DeviceNotListed(t)
  \/ PlayAccepted(t) \/ PlayRefused(t) \/ TransferAccepted(t)
  \/ Wake(t)
  \/ CommandAccepted(t)
  \/ \E shown \in PlayerStates : Confirm(t, shown) \/ LookAnswered(t, shown)
  \/ \E failure \in Failures : RequestFails(t, failure)
  \/ RequestRaises(t)

Next ==
  \/ \E t \in Threads : Step(t)
  \/ \E t \in Threads : \E kind \in Kinds[t] : Begin(t, kind)
  \/ Restart
  \/ Revoke
  \/ Tick

Spec == Init /\ [][Next]_vars

\* A thread that may go on does, each request being answered in some way; time
\* goes on.  Nothing is assumed of the answers, the calls and the restarts.
FairSpec ==
  /\ Spec
  /\ \A t \in Threads : WF_vars(Step(t))
  /\ SF_vars(Tick)

-----------------------------------------------------------------------------
\* A token that runs out in a call's hands does so only after the call has carried
\* it for longer than the backend leaves of it, the time its request took counted
\* in: the 60 s of _refresh_access_token where Spotify tells them right and they
\* are more than that.  It holds too if another thread's refresh comes between the
\* token and its expiry.  A token that was withdrawn is another matter.
RequestsCarryLiveToken ==
  \A t \in Threads :
    pc[t] \in Requests \cup Sleeps /\ held[t] = 0 =>
      \E expires_in \in Reports : age[t] > Slack(expires_in)

\* Does thread t's call end in this step with answer a?
Ends(t) == call[t] # "none" /\ call'[t] = "none"
Answers(t, a) == Ends(t) /\ answer'[t] = a

\* EPIC-4-technical.md:274-276: a dispatch succeeds only after Spotify accepted
\* its play request, and has shown the target playing since: playback elsewhere,
\* and what was seen during an earlier call, are no success.
SuccessIsReal ==
  [][\A t \in Threads :
       call[t] = "dispatch" /\ Answers(t, "ok") => accepted'[t] /\ real'[t]]_vars

\* Whatever becomes of the requests and whichever thread is quicker, the cached
\* status is that of the call that ended last.
Contract == INSTANCE PlaybackContract
ImplementsContract == Contract!Spec

\* Every call ends: retries run out, and the confirmation meets its deadline.
\* A call whose thread dies of a read that times out counts as ended.
CallsEnd == \A t \in Threads : call[t] # "none" ~> call[t] = "none"

\* A withdrawn token is not used for ever, however often it is: a 401 does not
\* clear it, but its time runs out.
WithdrawnTokenForgotten == token = Revoked ~> token # Revoked \/ ttl = 0

=============================================================================
