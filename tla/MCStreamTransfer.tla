--------------------------- MODULE MCStreamTransfer ---------------------------
(* Instances of StreamTransfer for TLC. *)
EXTENDS StreamTransfer

NoFaults == {}
AllFaults == FaultKinds
=============================================================================
