------------------------------ MODULE MCPipeline ------------------------------
(* Pipeline for TLC; the .cfg gives the clients and the modulus. *)
EXTENDS Pipeline
=============================================================================
