----------------------------- MODULE MCParamNotify -----------------------------
(* Two slots for three parameters, one of which changes, and a short clock. *)
EXTENDS ParamNotify

CONSTANTS p1, p2, p3, bad

MCSlots == 1..2
MCValues == {0, 2}

\* At most every other tick, or at least every other tick or on a change.
MCRequests ==
  {[pid |-> p, min |-> 2, max |-> 0, delta |-> 2] : p \in {p1, p3, bad}} \cup
  {[pid |-> p, min |-> 1, max |-> 2, delta |-> 2] : p \in {p1, p2}}

===============================================================================
