------------------------------- MODULE MCWatchdog -------------------------------
(* A clock that rolls over soon, and in the middle of a second. *)
EXTENDS TimeService

===============================================================================
