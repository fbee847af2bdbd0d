SPECIFICATION Spec
CONSTANTS
  s1 = s1
  s2 = s2
  k1 = k1
  k2 = k2
  g1 = g1
  g2 = g2
  Sessions <- TwoSessions
  Keys <- TwoKeys
  Gains <- TwoGains
  Bypassing <- NoSessions
  MaxKills = 0
INVARIANTS SavedStays
