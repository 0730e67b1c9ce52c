------------------------------- MODULE MCFileWrite ------------------------------
(* Eleven bytes in six messages and two windows; six bytes in one window when *)
(* writes may fail.                                                            *)
EXTENDS FileWrite

===============================================================================
