---------------------------- MODULE MCGoldChannel ----------------------------
(* GoldChannel for TLC; the .cfg gives the callers and the capacity. *)
EXTENDS GoldChannel
=============================================================================
