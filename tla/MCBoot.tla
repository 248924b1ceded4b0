------------------------------- MODULE MCBoot -------------------------------
(***************************************************************************)
(* The boots of a development machine and of a box, and of a box with one  *)
(* variable of jukebox.env changed to each of the values its reader tells  *)
(* apart.  The grace period of both is two seconds.                        *)
(***************************************************************************)
EXTENDS Boot

Development == [key \in Keys |-> IF key = "setup_fallback_grace_seconds" THEN Whole(2) ELSE Absent]

Box ==
  [Development EXCEPT
    !.environment = Word("production"), !.playback_backend = Word("spotify"),
    !.input_backend = Word("evdev"), !.scanner_device = Word("text"),
    !.spotify_client_id = Word("text"), !.spotify_client_secret = Word("text"),
    !.spotify_refresh_token = Word("text"), !.spotify_target_device_name = Word("text")]

\* The values that are tried for a variable.  The readers take a word only for a
\* text; "short" is told apart in a passphrase.
Numbers == {Number(-4), Whole(0), Number(2), Whole(1), Whole(101), Whole(65536),
            Word("nan"), Word("infinite"), Word("text"), Blank}

Values(key) ==
  CASE key \in Choices -> {Word(word) : word \in Allowed[key]} \cup {Word("text"), Blank, Absent}
    [] key = "setup_fallback_grace_seconds" ->
         {Number(-4), Whole(0), Number(2), Word("nan"), Word("infinite"), Word("text"), Blank}
    [] key = "setup_ap_passphrase" -> {Absent, Blank, Word("short"), Word("text")}
    [] key \in Optionals \ PositiveNumbers -> {Absent, Blank}
    [] key \in NonEmptyStrings -> {Absent, Blank, Word("text")}
    [] OTHER -> Numbers \cup {Absent}

Changed == UNION {{[Box EXCEPT ![key] = raw] : raw \in Values(key)} : key \in Keys}

MCEnvironments == {Development, Box} \cup Changed

=============================================================================
