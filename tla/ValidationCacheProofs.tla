------------------------ MODULE ValidationCacheProofs ------------------------
(***************************************************************************)
(* Proofs about ValidationCache for any sets of sessions, keys and gains   *)
(* and any number of kills.                                                *)
(***************************************************************************)
EXTENDS ValidationCache, TLAPS

\* From the gains being set to the end of a session they are proven for its
\* key; in the data phase its HELLO has been heard with them.
GainsInv ==
  \A s \in Sessions :
    /\ pc[s] \in {"save", "write", "hello", "data"} => <<key[s], gains[s]>> \in proven
    /\ pc[s] = "data" => heard[s] = gains[s]

IInv == TypeOK /\ OnlyProven /\ GainsInv

-----------------------------------------------------------------------------
(* Type correctness.                                                       *)

\* A saved entry takes the place of an older one of its key.
LEMMA EntryReplaced ==
  ASSUME TypeOK, NEW s \in Sessions, NEW g \in Gains
  PROVE  WithEntry(s, g) \subseteq Entries /\ OneEntryPerKey(WithEntry(s, g))
<1>1. data[s] \subseteq Entries /\ OneEntryPerKey(data[s]) /\ key[s] \in Keys
  BY DEF TypeOK
<1>2. <<key[s], g>> \in Entries /\ <<key[s], g>>[1] = key[s]
  BY <1>1 DEF Entries
<1>3. WithEntry(s, g) \subseteq Entries
  BY <1>1, <1>2 DEF WithEntry
<1>4. ASSUME NEW e \in WithEntry(s, g), NEW f \in WithEntry(s, g), e[1] = f[1]
      PROVE  e = f
  BY <1>1, <1>2, <1>4 DEF WithEntry, OneEntryPerKey
<1> QED BY <1>3, <1>4 DEF OneEntryPerKey

\* Types at the beginning.
LEMMA TypeInit == Init => TypeOK
BY ConstantsAssumption DEF Init, TypeOK, OneEntryPerKey

\* Every step keeps the types, and one entry for each key.
LEMMA TypeStep == ASSUME TypeOK, [Next]_vars PROVE TypeOK'
<1> USE DEF TypeOK, OneEntryPerKey, Goto, diskVars, radioVars
<1>1. ASSUME NEW s \in Sessions, Begin(s) PROVE TypeOK'
  <2>1. Loaded \in SUBSET Entries /\ OneEntryPerKey(Loaded)
    BY DEF Loaded
  <2> QED BY <1>1, <2>1 DEF Begin, Entries
<1>2. ASSUME NEW s \in Sessions, Hit(s) PROVE TypeOK'
  BY <1>2 DEF Hit, CachedGains, Entries
<1>3. ASSUME NEW s \in Sessions, Calibrate(s) PROVE TypeOK'
  <2>1. PICK g \in Gains : /\ gains' = [gains EXCEPT ![s] = g]
                           /\ proven' = proven \cup {<<key[s], g>>}
                           /\ data' = [data EXCEPT ![s] = WithEntry(s, g)]
    BY <1>3 DEF Calibrate
  <2>2. WithEntry(s, g) \subseteq Entries /\ OneEntryPerKey(WithEntry(s, g))
    BY EntryReplaced
  <2>3. /\ data' \in [Sessions -> SUBSET Entries]
        /\ \A t \in Sessions : OneEntryPerKey(data'[t])
    BY <2>1, <2>2
  <2>4. proven' \subseteq Entries
    BY <2>1 DEF Entries
  <2> QED BY <1>3, <2>1, <2>3, <2>4 DEF Calibrate, Entries
<1>4. ASSUME NEW s \in Sessions, CalibrationFails(s) \/ End(s) PROVE TypeOK'
  BY <1>4 DEF CalibrationFails, End, Leave, Entries
<1>5. ASSUME NEW s \in Sessions, Open(s) PROVE TypeOK'
  BY <1>5 DEF Open, Entries
<1>6. ASSUME NEW s \in Sessions, Write(s) PROVE TypeOK'
  BY <1>6 DEF Write, Entries
<1>7. ASSUME NEW s \in Sessions, Handshake(s) PROVE TypeOK'
  BY <1>7 DEF Handshake, Leave, Entries
<1>8. ASSUME NEW s \in Sessions, Kill(s) PROVE TypeOK'
  BY <1>8, ConstantsAssumption DEF Kill, Leave, Entries
<1>9. CASE UNCHANGED vars
  BY <1>9 DEF vars, Entries
<1> QED BY <1>1, <1>2, <1>3, <1>4, <1>5, <1>6, <1>7, <1>8, <1>9 DEF Next, Session

-----------------------------------------------------------------------------
(* What entries and gains are worth.                                       *)

\* Every step keeps entries and gains within what calibrations have passed.
LEMMA ProvenStep == ASSUME TypeOK, OnlyProven, GainsInv, [Next]_vars PROVE OnlyProven' /\ GainsInv'
<1> USE DEF TypeOK, OnlyProven, GainsInv, Goto, diskVars, radioVars
<1>1. ASSUME NEW s \in Sessions, Begin(s) PROVE OnlyProven' /\ GainsInv'
  BY <1>1 DEF Begin, Loaded
<1>2. ASSUME NEW s \in Sessions, Hit(s) PROVE OnlyProven' /\ GainsInv'
  <2>1. PICK g \in CachedGains(s) : gains' = [gains EXCEPT ![s] = g]
    BY <1>2 DEF Hit
  <2>2. <<key[s], g>> \in proven
    BY <2>1 DEF CachedGains
  <2> QED BY <1>2, <2>1, <2>2 DEF Hit
<1>3. ASSUME NEW s \in Sessions, Calibrate(s) PROVE OnlyProven' /\ GainsInv'
  <2>1. PICK g \in Gains : /\ gains' = [gains EXCEPT ![s] = g]
                           /\ proven' = proven \cup {<<key[s], g>>}
                           /\ data' = [data EXCEPT ![s] = WithEntry(s, g)]
    BY <1>3 DEF Calibrate
  <2>2. WithEntry(s, g) \subseteq proven'
    BY <2>1 DEF WithEntry
  <2>3. OnlyProven'
    BY <1>3, <2>1, <2>2 DEF Calibrate
  <2>4. GainsInv'
    BY <1>3, <2>1 DEF Calibrate
  <2> QED BY <2>3, <2>4
<1>4. ASSUME NEW s \in Sessions, CalibrationFails(s) \/ End(s) \/ Kill(s)
      PROVE  OnlyProven' /\ GainsInv'
  BY <1>4 DEF CalibrationFails, End, Kill, Leave
<1>5. ASSUME NEW s \in Sessions, Open(s) PROVE OnlyProven' /\ GainsInv'
  BY <1>5 DEF Open
<1>6. ASSUME NEW s \in Sessions, Write(s) PROVE OnlyProven' /\ GainsInv'
  BY <1>6 DEF Write
<1>7. ASSUME NEW s \in Sessions, Handshake(s) PROVE OnlyProven' /\ GainsInv'
  BY <1>7 DEF Handshake, Leave
<1>8. CASE UNCHANGED vars
  BY <1>8 DEF vars
<1> QED BY <1>1, <1>2, <1>3, <1>4, <1>5, <1>6, <1>7, <1>8 DEF Next, Session

\* The invariant holds in every reachable state.
LEMMA Invariance == Spec => []IInv
<1>1. Init => IInv
  BY TypeInit DEF Init, IInv, OnlyProven, GainsInv
<1>2. IInv /\ [Next]_vars => IInv'
  BY TypeStep, ProvenStep DEF IInv
<1> QED BY <1>1, <1>2, PTL DEF Spec

-----------------------------------------------------------------------------
(* The properties.                                                         *)

\* Every variable keeps its type: a file that parses, and every session's copy
\* of one, has at most one entry per key.
THEOREM TypeCorrect == Spec => []TypeOK
<1>1. IInv => TypeOK
  BY DEF IInv
<1> QED BY <1>1, Invariance, PTL

\* However many sessions write the cache file at once and are killed, it never
\* holds gains no calibration of that key has passed with.
THEOREM CacheHoldsProvenGains == Spec => []OnlyProven
<1>1. IInv => OnlyProven
  BY DEF IInv
<1> QED BY <1>1, Invariance, PTL

\* No data goes out with gains that were not calibrated for the key or that
\* this session's HELLO was not heard with, however stale the entry.
THEOREM DataOnlyWithVettedGains == Spec => []GainsVetted
<1>1. IInv => GainsVetted
  BY DEF IInv, GainsInv, GainsVetted
<1> QED BY <1>1, Invariance, PTL
=============================================================================
