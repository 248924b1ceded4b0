-------------------------- MODULE MCSpotifyBackend --------------------------
(***************************************************************************)
(* A small SpotifyBackend: requests of one tick, a confirmation that looks *)
(* twice and a probe that looks twice, one right report of the lifetime    *)
(* and one that is less than the margin, and a margin that the longest     *)
(* calls exceed, so that tokens run out in their hands.                    *)
(***************************************************************************)
EXTENDS SpotifyBackend

=============================================================================
