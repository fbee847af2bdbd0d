----------------------------- MODULE MCRFSession -----------------------------
(* Instances of RFSession for TLC. *)
EXTENDS RFSession

\* 4 and 6 lie on both sides of every threshold taken from a hello score of 6:
\* 4.5 for the handshake, 4.2 for data, 3.0 for FIN.
SomeScores == {2, 3, 4, 6}
AllPrograms == {"adapter", "main", "bc"}
NoFaults == {}
AllFaults == {"radio", "disk", "fade"}
=============================================================================
