---------------------------- MODULE MCController ----------------------------
(***************************************************************************)
(* Controller with a track and an album, and the cards of a household that *)
(* changes the mode, shuts the box down, and scans what is no card at all. *)
(***************************************************************************)
EXTENDS Controller, TLC

CONSTANTS song, record

TwoPayloads == {song, record}

Kinds == (song :> "track") @@ (record :> "album")

HouseholdDeck ==
  {song, record, "mode.replace", "mode.queue", "system.shutdown", "unreadable"}

=============================================================================
