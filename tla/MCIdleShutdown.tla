--------------------------- MODULE MCIdleShutdown ---------------------------
(***************************************************************************)
(* IdleShutdown on a small instance: an interval of two ticks, so that an  *)
(* activity may fall within one, and a backend that is ready or reports    *)
(* the outage that hides neither setup nor re-auth and yet is not the      *)
(* "ready" that ends them.                                                 *)
(***************************************************************************)
EXTENDS IdleShutdown

const_PlaybackCodes == {"ready", "receiver_unavailable"}

=============================================================================
