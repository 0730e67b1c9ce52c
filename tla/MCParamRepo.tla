------------------------------ MODULE MCParamRepo ------------------------------
(* A parameter that is stored and one that is not, requests of up to two values. *)
EXTENDS ParamRepo, TLC

CONSTANTS p1, p2, v0, v1, v2

MCParams == <<p1, p2>>
MCPersistent == {p1}
MCDefault == p1 :> v0 @@ p2 :> v0
MCValues == {v0, v1, v2}

===============================================================================
