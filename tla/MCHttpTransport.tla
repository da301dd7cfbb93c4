--------------------------- MODULE MCHttpTransport ---------------------------
(* HttpTransport for TLC; the .cfg gives the requests, limits and bounds. *)
EXTENDS HttpTransport
=============================================================================
