--------------------------- MODULE OperatorState ---------------------------
(***************************************************************************)
(* The persisted operator state: the record OperatorStateStore keeps in    *)
(* its JSON file, and what each of the store's methods does to it.         *)
(*                                                                         *)
(* enabled_actions and schema_version are left out: no method of the store *)
(* changes them, they are copied from the loaded record into the next one. *)
(***************************************************************************)
EXTENDS Naturals

PlaybackModes == {"replace", "queue_tracks"}

\* None, "client" and "setup_ap" in the source.
WifiModes == {"none", "client", "setup_ap"}

OperatorState ==
  [mode : PlaybackModes, setup : BOOLEAN, reauth : BOOLEAN,
   started : BOOLEAN, wifi : WifiModes]

\* The dataclass defaults: what a missing or unreadable file decodes to.
Defaults ==
  [mode |-> "replace", setup |-> FALSE, reauth |-> FALSE,
   started |-> FALSE, wifi |-> "none"]

SetPlaybackMode(s, m) == [s EXCEPT !.mode = m]

MarkSetupRequested(s, requested, w) ==
  [s EXCEPT !.setup = requested, !.wifi = w]

\* Mutant of MarkReauthRequested: the started flag survives the clear.
MarkReauthKeepsStarted(s, requested) == [s EXCEPT !.reauth = requested]

\* A second request keeps the started flag of the first; a request after a
\* clear, and the clear itself, reset it.
MarkReauthRequested(s, requested) ==
  [s EXCEPT !.reauth = requested,
            !.started = requested /\ s.reauth /\ s.started]

MarkReauthStarted(s) == [s EXCEPT !.reauth = TRUE, !.started = TRUE]

(***************************************************************************)
(* The calls the program makes on the store, as records, and the state     *)
(* each of them returns when it finds state s.                             *)
(***************************************************************************)
StoreCalls ==
  [op : {"load", "mark_started"}]
    \cup [op : {"set_mode"}, mode : PlaybackModes]
    \cup [op : {"mark_setup"}, requested : BOOLEAN, wifi : WifiModes]
    \cup [op : {"mark_reauth"}, requested : BOOLEAN]

Updated(c, s) ==
  CASE c.op = "load"         -> s
    [] c.op = "set_mode"     -> SetPlaybackMode(s, c.mode)
    [] c.op = "mark_setup"   -> MarkSetupRequested(s, c.requested, c.wifi)
    [] c.op = "mark_reauth"  -> MarkReauthRequested(s, c.requested)
    [] c.op = "mark_started" -> MarkReauthStarted(s)

\* No method of the store writes a started flow that nobody requested.
StartedIsRequested(s) == s.started => s.reauth

=============================================================================
