------------------------------ MODULE MCFastPath ------------------------------
(* Instances of FastPath for TLC. *)
EXTENDS FastPath

NoFaults == {}
AllFaults == {"radio", "disk", "weak"}
===============================================================================
