-------------------------------- MODULE Listing --------------------------------
(* What a transaction of many objects promises a client: it is given what it   *)
(* asked for, all of it, in order, nothing twice, and no other request is      *)
(* begun before it has got everything; only a new connection, or the reset of  *)
(* a device that has stopped, cuts it short.                                   *)
EXTENDS Sequences, Naturals

CONSTANT Objects

VARIABLES want,   \* what the client asked for
          got     \* what it was given of it

\* What a client may have been given so far of s.
Prefixes(s) == {SubSeq(s, 1, n) : n \in 0..Len(s)}

Init == want = <<>> /\ got = <<>>

Begin == /\ got = want
         /\ want' \in Seq(Objects)
         /\ got' \in Prefixes(want')

Give == /\ want' = want
        /\ got' \in Prefixes(want)
        /\ Len(got') > Len(got)

CutShort == want' = <<>> /\ got' = <<>>

Next == Begin \/ Give \/ CutShort

Spec == Init /\ [][Next]_<<want, got>>

===============================================================================
