------------------------------ MODULE MCPlutoRF ------------------------------
(* Instances of PlutoRF for TLC. *)
EXTENDS PlutoRF

NoFaults == {}
AllFaults == {"radio", "disk", "weak"}
==============================================================================
