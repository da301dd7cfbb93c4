------------------------------ MODULE MCSqlPool ------------------------------
(* SqlPool for TLC; the .cfg gives the clients, the limits and the bounds. *)
EXTENDS SqlPool
=============================================================================
