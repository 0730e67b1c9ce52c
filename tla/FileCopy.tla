-------------------------------- MODULE FileCopy --------------------------------
(* What writing a file to the device promises: the piece of the file is put in *)
(* place from its beginning on, what is in place is not damaged again, and the *)
(* writer is told that it is done only when all of it is in place.             *)
EXTENDS Naturals

CONSTANT Length    \* bytes to write

VARIABLES copied,  \* how many, from the first one on, are in place
          status   \* what the writer knows

Init == copied = 0 /\ status = "ended"

Begin == status' = "open" /\ copied' = 0

\* More bytes are in place.
Extend == copied' \in (copied + 1)..Length /\ status' = status

Succeed == status = "open" /\ copied = Length /\ status' = "done" /\ copied' = copied

Fail == status = "open" /\ status' = "ended" /\ copied' = copied

Next == Begin \/ Extend \/ Succeed \/ Fail

Spec == Init /\ [][Next]_<<copied, status>>

===============================================================================
