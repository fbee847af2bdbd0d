------------------------------ MODULE AckSets ------------------------------
(***************************************************************************)
(* The bookkeeping of acknowledgements as StreamTransfer uses it, with     *)
(* sets of frame indices: what the receiver holds, the last report under   *)
(* way, and what the sender has made of the reports.                       *)
(***************************************************************************)
EXTENDS Naturals

CONSTANT Indices

VARIABLES held, report, known, absent

setVars == <<held, report, known, absent>>

SInit == /\ held = {} /\ known = {} /\ absent = {}
         /\ report = [type |-> "ACK", bits |-> {}]

SMark ==
  /\ \E i \in Indices \ held : held' = held \cup {i}
  /\ UNCHANGED <<report, known, absent>>

SReport ==
  /\ \/ report' = [type |-> "ACK", bits |-> held]
     \/ report' = [type |-> "NACK", bits |-> Indices \ held]
  /\ UNCHANGED <<held, known, absent>>

SLearn ==
  /\ report.type = "ACK"
  /\ known' = known \cup report.bits
  /\ absent' = Indices \ known'
  /\ UNCHANGED <<held, report>>

SMiss ==
  /\ report.type = "NACK"
  /\ absent' = report.bits
  /\ UNCHANGED <<held, report, known>>

SSpec == SInit /\ [][SMark \/ SReport \/ SLearn \/ SMiss]_setVars
=============================================================================
