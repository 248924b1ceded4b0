------------------------------- MODULE Config -------------------------------
(***************************************************************************)
(* config.py: from_env, which reads each variable by its kind and refuses  *)
(* the whole configuration if one of them, or their combination, is wrong. *)
(*                                                                         *)
(* The text of a variable is told as far as the readers tell it apart: a   *)
(* number, in quarters of its unit (the default poll interval is 0.25 s),  *)
(* or a word.  The words are "absent" for a variable that is not set,      *)
(* "blank" for one that is empty but for blanks, the two numbers that      *)
(* float() knows beside the others, "short" for a text of less than eight  *)
(* characters, the words of the choices, and any other text.  Upper and    *)
(* lower case and the messages are left out.                               *)
(***************************************************************************)
EXTENDS Integers

Word(word) == [form |-> word, quarters |-> 0]
Number(quarters) == [form |-> "number", quarters |-> quarters]
Whole(n) == Number(4 * n)

Absent == Word("absent")
Blank == Word("blank")
None == Word("none")
Invalid == Word("invalid")   \* what the reader raises a ConfigError for

Allowed ==
  [log_level |-> {"CRITICAL", "ERROR", "WARNING", "INFO", "DEBUG", "NOTSET"},
   log_format |-> {"console", "json"},
   playback_backend |-> {"stub", "spotify"},
   input_backend |-> {"stdin", "evdev"},
   playback_mode_default |-> {"replace", "queue_tracks"}]

DefaultSettings ==
  [environment |-> Word("development"), log_level |-> Word("INFO"),
   log_format |-> Word("console"), playback_backend |-> Word("stub"),
   duplicate_window_seconds |-> Whole(2), input_backend |-> Word("stdin"),
   scanner_device |-> None,
   spotify_client_id |-> None, spotify_client_secret |-> None,
   spotify_refresh_token |-> None, spotify_device_id |-> None,
   spotify_target_device_name |-> None,
   spotify_confirm_timeout_seconds |-> Whole(5),
   spotify_confirm_poll_interval_seconds |-> Number(1),
   spotify_device_probe_retry_count |-> Whole(5),
   spotify_device_probe_retry_interval_seconds |-> Whole(2),
   health_poll_interval_seconds |-> Whole(15),
   operator_http_bind |-> Word("127.0.0.1"), operator_http_port |-> Whole(8080),
   operator_state_path |-> Word("state.json"),
   control_debounce_seconds |-> Whole(1), playback_mode_default |-> Word("replace"),
   volume_preset_low_percent |-> Whole(35), volume_preset_medium_percent |-> Whole(55),
   volume_preset_high_percent |-> Whole(75),
   idle_shutdown_seconds |-> None, setup_ap_ssid |-> None, setup_ap_passphrase |-> None,
   setup_fallback_grace_seconds |-> Whole(120), wifi_rollback_timeout_seconds |-> Whole(120),
   wifi_helper_command |-> Word("wifi-helper"),
   spotifyd_auth_helper_command |-> Word("auth-helper"),
   shutdown_helper_command |-> Word("shutdown-helper")]

Keys == DOMAIN DefaultSettings

-----------------------------------------------------------------------------
(***************************************************************************)
(* The readers, by the kind of the variable.                               *)
(***************************************************************************)
Choices == DOMAIN Allowed
Percentages == {"volume_preset_low_percent", "volume_preset_medium_percent",
                "volume_preset_high_percent"}
Optionals == {key \in Keys : DefaultSettings[key] = None}
PositiveNumbers ==
  {"duplicate_window_seconds", "spotify_confirm_timeout_seconds",
   "spotify_confirm_poll_interval_seconds", "spotify_device_probe_retry_interval_seconds",
   "health_poll_interval_seconds", "control_debounce_seconds", "idle_shutdown_seconds",
   "setup_fallback_grace_seconds", "wifi_rollback_timeout_seconds"}
NonEmptyStrings ==
  {"environment", "operator_http_bind", "operator_state_path", "wifi_helper_command",
   "spotifyd_auth_helper_command", "shutdown_helper_command"}

\* No comparison refuses NaN: it passes for a positive number.
Positive(raw) == raw.quarters > 0 \/ raw.form \in {"nan", "infinite"}
IsInteger(raw) == raw.form = "number" /\ raw.quarters % 4 = 0
Between(raw, low, high) == IsInteger(raw) /\ raw.quarters \in (4 * low)..(4 * high)

Accepts(key, raw) ==
  CASE key \in Choices -> raw.form \in Allowed[key]
    [] key \in NonEmptyStrings -> raw # Blank
    [] key \in PositiveNumbers -> Positive(raw)
    [] key = "spotify_device_probe_retry_count" -> IsInteger(raw) /\ Positive(raw)
    [] key = "operator_http_port" -> Between(raw, 1, 65535)
    [] key \in Percentages -> Between(raw, 0, 100)
    [] OTHER -> TRUE

Read(key, raw) ==
  CASE raw = Absent -> DefaultSettings[key]
    [] raw = Blank /\ key \in Optionals -> None
    [] Accepts(key, raw) -> raw
    [] OTHER -> Invalid

\* The settings before they are checked against each other.
FromEnv(env) == [key \in Keys |-> Read(key, env[key])]

-----------------------------------------------------------------------------
(***************************************************************************)
(* _validate_backend_settings.                                             *)
(***************************************************************************)
\* Is one time longer than another, as Python compares them?
Exceeds(a, b) ==
  \/ a.form = "infinite" /\ b.form = "number"
  \/ a.form = "number" /\ b.form = "number" /\ a.quarters > b.quarters

\* Mutant of Consistent: the scanner's device is not asked for.
ConsistentWithoutScanner(s) ==
  /\ ~Exceeds(s.spotify_confirm_poll_interval_seconds, s.spotify_confirm_timeout_seconds)
  /\ s.setup_ap_passphrase # Word("short")
  /\ s.playback_backend = Word("spotify") =>
       /\ None \notin {s.spotify_client_id, s.spotify_client_secret, s.spotify_refresh_token}
       /\ {s.spotify_device_id, s.spotify_target_device_name} # {None}

Consistent(s) ==
  /\ ~Exceeds(s.spotify_confirm_poll_interval_seconds, s.spotify_confirm_timeout_seconds)
  /\ s.input_backend = Word("evdev") => s.scanner_device # None
  /\ s.setup_ap_passphrase # Word("short")
  /\ s.playback_backend = Word("spotify") =>
       /\ None \notin {s.spotify_client_id, s.spotify_client_secret, s.spotify_refresh_token}
       /\ {s.spotify_device_id, s.spotify_target_device_name} # {None}

Accepted(s) == Consistent(s) /\ \A key \in Keys : s[key] # Invalid

=============================================================================
