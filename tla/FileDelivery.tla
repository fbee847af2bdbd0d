---------------------------- MODULE FileDelivery ----------------------------
(***************************************************************************)
(* What one call of send_file promises, without queues, threads or frames: *)
(* the receiver holds a growing set of parts, the sender learns of some of *)
(* them, the file is replaced only after the sender has learnt of all, and *)
(* a verdict is final: "ok" only over the whole payload.                   *)
(***************************************************************************)
EXTENDS Naturals

CONSTANT Parts

VARIABLES held, confirmed, file, verdict

deliveryVars == <<held, confirmed, file, verdict>>

DInit ==
  /\ held = {} /\ confirmed = {}
  /\ file \in {"absent", "other", "payload"}
  /\ verdict = "none"

Hold ==
  /\ \E p \in Parts \ held : held' = held \cup {p}
  /\ UNCHANGED <<confirmed, file, verdict>>

Confirm ==
  /\ \E S \in SUBSET held : confirmed' = confirmed \cup S
  /\ UNCHANGED <<held, file, verdict>>

ReplaceFile ==
  /\ verdict = "none"
  /\ held = Parts /\ confirmed = Parts
  /\ file' \in {"partial", "payload"}
  /\ UNCHANGED <<held, confirmed, verdict>>

Conclude ==
  /\ verdict = "none"
  /\ \/ verdict' = "ok" /\ file = "payload"
     \/ verdict' = "failed"
  /\ UNCHANGED <<held, confirmed, file>>

DNext == Hold \/ Confirm \/ ReplaceFile \/ Conclude

Safe == DInit /\ [][DNext]_deliveryVars
=============================================================================
