------------------------------ MODULE MCReachStack ------------------------------
(* The stack with one file to read and one client that comes and goes, reads *)
(* the file, lists parameters, and sends what is not understood.             *)
EXTENDS ReachStack

CONSTANTS ro

MCAccess == [f \in {ro} |-> "READ"]

MCPrompts ==
  [what : {"simple", "list"}, tx : {0, 1}, body : {None}]
  \cup [what : {"cli", "unhandled", "malformed", "files"}, tx : {0}, body : {None}]
  \cup [what : {"init"}, tx : {0}, body : Files!InitRequest]
  \cup [what : {"data"}, tx : {0}, body : {d \in Files!DataMessage : d.size > 0}]
  \cup [what : {"notification"}, tx : {0, 1}, body : Files!Notification]

===============================================================================
