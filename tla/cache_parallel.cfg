SPECIFICATION Spec
CONSTANTS
  s1 = s1
  s2 = s2
  k1 = k1
  k2 = k2
  g1 = g1
  g2 = g2
  Sessions <- TwoSessions
  Keys <- TwoKeys
  Gains <- TwoGains
  Bypassing <- SecondSession
  MaxKills = 2
INVARIANTS TypeOK OnlyProven GainsVetted
PROPERTIES TornHeals
