------------------------------- MODULE MCTimers -------------------------------
(* Timers for TLC; the .cfg gives the timers, durations and bounds. *)
EXTENDS Timers

\* A clock that is negative, as from the year 2046.
Negative == -40
=============================================================================
