----------------------------- MODULE MCFileService -----------------------------
(* The file service under every client: any message at any time. *)
EXTENDS FileService

CONSTANTS ro, rw, no

\* One file to read and one to read and write, as in App/files.c, and an id
\* that is no file's.
MCAccess == [f \in {ro, rw, no} |-> CASE f = ro -> "READ"
                                      [] f = rw -> "READ_WRITE"
                                      [] f = no -> "UNKNOWN"]

===============================================================================
