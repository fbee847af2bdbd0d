--------------------------- MODULE ValidationCache ---------------------------
(***************************************************************************)
(* The JSON file of ValidationCache (optimized_transfer/fastpath_rf.py),   *)
(* shared by sessions of SingleDeviceFastPathAdapter.send_file in several  *)
(* processes, and the gains a session takes from it: load before the radio *)
(* is connected, gains from the entry or from a calibration that is saved, *)
(* and a HELLO that must be heard before any data.  A session has one key  *)
(* (device, scenario, modulation), which does not say the gains: these are *)
(* the scenario's in the configuration of the day the entry was made.      *)
(*                                                                         *)
(* An entry is a pair of key and gains, the file the set of its entries if *)
(* it is valid JSON.  Module FastPath has the rest of a session.           *)
(***************************************************************************)
EXTENDS Naturals, FiniteSets

CONSTANTS
  Sessions,    \* the processes
  Keys,        \* cache keys
  Gains,       \* pairs of TX and RX gain a scenario may be configured with
  Bypassing,   \* sessions with enable_validation_cache off
  MaxKills     \* bound: processes killed from outside

ASSUME ConstantsAssumption == MaxKills \in Nat /\ Bypassing \subseteq Sessions

VARIABLES
  pc,      \* where each session stands
  key,     \* its cache_key
  data,    \* entries of its cache_data
  gains,   \* the gains it has set
  heard,   \* history: the gains its HELLO was heard with
  file,    \* entries of the file on disk
  text,    \* "json" (or no file yet), "cut": truncated, "mixed": two texts
  saved,   \* keys a save has completed for
  proven,  \* history: entries that have passed a calibration
  kills

diskVars == <<file, text, saved>>
radioVars == <<gains, heard>>
vars == <<pc, key, data, radioVars, diskVars, proven, kills>>

Entries == Keys \X Gains
NoGains == "none"

Init ==
  /\ pc = [s \in Sessions |-> "idle"] /\ key \in [Sessions -> Keys]
  /\ data = [s \in Sessions |-> {}]
  /\ gains = [s \in Sessions |-> NoGains] /\ heard = [s \in Sessions |-> NoGains]
  /\ file = {} /\ text = "json"
  /\ saved = {} /\ proven = {} /\ kills = 0

Goto(s, place) == pc' = [pc EXCEPT ![s] = place]

\* send_file returns or raises, and its locals are gone.
Leave(s) ==
  /\ Goto(s, "idle")
  /\ data' = [data EXCEPT ![s] = {}]
  /\ gains' = [gains EXCEPT ![s] = NoGains] /\ heard' = [heard EXCEPT ![s] = NoGains]

\* What is left of the text of a torn file, read as if it were entries.
ContentOfTorn == IF text = "json" THEN file ELSE Entries              \* mutant
\* load() returns {} for a file that is missing or does not parse.
Loaded == IF text = "json" THEN file ELSE {}

\* mutant
LoadRaises(s) ==
  /\ pc[s] = "idle"
  /\ \E k \in Keys : key' = [key EXCEPT ![s] = k]
  /\ data' = [data EXCEPT ![s] = Loaded]
  /\ Goto(s, IF text = "json" THEN "connect" ELSE "data")
  /\ UNCHANGED <<radioVars, diskVars, proven, kills>>
Begin(s) ==
  /\ pc[s] = "idle"
  /\ \E k \in Keys : key' = [key EXCEPT ![s] = k]
  /\ data' = [data EXCEPT ![s] = Loaded]
  /\ Goto(s, "connect")
  /\ UNCHANGED <<radioVars, diskVars, proven, kills>>

CachedGains(s) == {g \in Gains : <<key[s], g>> \in data[s] /\ s \notin Bypassing}

\* mutant
HitWithoutHello(s) ==
  /\ pc[s] = "connect"
  /\ \E g \in CachedGains(s) : gains' = [gains EXCEPT ![s] = g]
  /\ Goto(s, "data")
  /\ UNCHANGED <<key, data, heard, diskVars, proven, kills>>
\* An entry for the key, however old: its gains are set, and nothing is saved.
Hit(s) ==
  /\ pc[s] = "connect"
  /\ \E g \in CachedGains(s) : gains' = [gains EXCEPT ![s] = g]
  /\ Goto(s, "hello")
  /\ UNCHANGED <<key, data, heard, diskVars, proven, kills>>

WithEntry(s, g) == {e \in data[s] : e[1] # key[s]} \cup {<<key[s], g>>}

\* auto_calibrate with the gains configured now, then the entry in cache_data.
Calibrate(s) ==
  /\ pc[s] = "connect" /\ CachedGains(s) = {}
  /\ \E g \in Gains :
       /\ gains' = [gains EXCEPT ![s] = g]
       /\ proven' = proven \cup {<<key[s], g>>}
       /\ data' = [data EXCEPT ![s] = WithEntry(s, g)]
  /\ Goto(s, "save")
  /\ UNCHANGED <<key, heard, diskVars, kills>>

\* mutant
SaveUncalibrated(s) ==
  /\ pc[s] = "connect" /\ CachedGains(s) = {}
  /\ \E g \in Gains : data' = [data EXCEPT ![s] = WithEntry(s, g)]
  /\ Goto(s, "save")
  /\ UNCHANGED <<key, radioVars, diskVars, proven, kills>>
CalibrationFails(s) ==
  /\ pc[s] = "connect" /\ CachedGains(s) = {}
  /\ Leave(s)
  /\ UNCHANGED <<key, diskVars, proven, kills>>

\* write_text truncates the file, and an empty file is not valid JSON.
Open(s) ==
  /\ pc[s] = "save"
  /\ file' = {} /\ text' = "cut"
  /\ Goto(s, "write")
  /\ UNCHANGED <<key, data, radioVars, saved, proven, kills>>

\* The text goes over what another session has written since the truncation;
\* the end of a longer text stays behind it.
Write(s) ==
  /\ pc[s] = "write"
  /\ \/ file' = data[s] /\ text' = "json"
     \/ /\ \/ text = "json" /\ Cardinality(file) >= Cardinality(data[s])
           \/ text = "mixed"
        /\ file' = {} /\ text' = "mixed"
  /\ saved' = saved \cup {key[s]}
  /\ Goto(s, "hello")
  /\ UNCHANGED <<key, data, radioVars, proven, kills>>

\* The link decides; an entry the HELLO is not heard with stays in the file.
Handshake(s) ==
  /\ pc[s] = "hello"
  /\ \/ heard' = [heard EXCEPT ![s] = gains[s]] /\ Goto(s, "data") /\ UNCHANGED <<data, gains>>
     \/ Leave(s)
  /\ UNCHANGED <<key, diskVars, proven, kills>>

\* Windows and the rest do not touch the cache, whatever comes out.
End(s) ==
  /\ pc[s] = "data"
  /\ Leave(s)
  /\ UNCHANGED <<key, diskVars, proven, kills>>

\* The process is killed, or (in "write") the disk refuses the text.
Kill(s) ==
  /\ kills < MaxKills /\ pc[s] # "idle"
  /\ kills' = kills + 1
  /\ Leave(s)
  /\ UNCHANGED <<key, diskVars, proven>>

Session(s) == Begin(s) \/ Hit(s) \/ Calibrate(s) \/ CalibrationFails(s)
              \/ Open(s) \/ Write(s) \/ Handshake(s) \/ End(s)
Next == \E s \in Sessions : Session(s) \/ Kill(s)

\* A session that has begun goes on, and users keep starting sessions; a link
\* does not fail every calibration.
Spec == /\ Init /\ [][Next]_vars
        /\ \A s \in Sessions : WF_vars(Session(s)) /\ SF_vars(Begin(s)) /\ SF_vars(Calibrate(s))

-----------------------------------------------------------------------------
OneEntryPerKey(S) == \A e, f \in S : e[1] = f[1] => e = f

TypeOK ==
  /\ pc \in [Sessions -> {"idle", "connect", "save", "write", "hello", "data"}]
  /\ key \in [Sessions -> Keys]
  /\ data \in [Sessions -> SUBSET Entries] /\ file \in SUBSET Entries
  /\ OneEntryPerKey(file) /\ \A s \in Sessions : OneEntryPerKey(data[s])
  /\ gains \in [Sessions -> Gains \cup {NoGains}] /\ heard \in [Sessions -> Gains \cup {NoGains}]
  /\ saved \subseteq Keys /\ proven \subseteq Entries
  /\ text \in {"json", "cut", "mixed"} /\ kills \in 0 .. MaxKills

\* The cache stores gains "proven valid": no entry, whatever others write at
\* the same time and whoever is killed, has gains for a key that no calibration
\* of that key has passed with.
OnlyProven == file \subseteq proven /\ \A s \in Sessions : data[s] \subseteq proven

\* An entry may be of any age and from any process, and the link may have
\* changed since.  Still no data goes out with gains that no calibration of
\* this key has passed with, or with which the receiver has not heard the HELLO
\* of this very session.
GainsVetted ==
  \A s \in Sessions : pc[s] = "data" => heard[s] = gains[s] /\ <<key[s], gains[s]>> \in proven

AllIdle == \A s \in Sessions : pc[s] = "idle"

\* "Used across sessions": while no session is under way, the file has an
\* entry for every key a save has completed for.
SavedStays == AllIdle => text = "json" /\ saved \subseteq {e[1] : e \in file}

\* A file torn by a killed process does not stay torn: a later session takes
\* it for empty, calibrates and writes it anew.
TornHeals == (text # "json") ~> (text = "json")
==============================================================================
