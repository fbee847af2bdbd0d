-------------------------- MODULE MCValidationCache --------------------------
(* Instances of ValidationCache for TLC. *)
EXTENDS ValidationCache

CONSTANTS s1, s2, k1, k2, g1, g2
TwoSessions == {s1, s2}
TwoKeys == {k1, k2}
TwoGains == {g1, g2}
NoSessions == {}
SecondSession == {s2}
==============================================================================
