------------------------------- MODULE MCArena -------------------------------
(* Arena for TLC: two visits, two requests, a cap of one stream. *)
EXTENDS Arena
=============================================================================
