----------------------------- MODULE AttemptLoop -----------------------------
(***************************************************************************)
(* What the three ways to send a file over a radio promise of their        *)
(* attempts (RFSession, FastPath and PlutoRF implement it): the radio is   *)
(* opened once per attempt and released before the next one and before the *)
(* caller gets a verdict, the output is touched only in an attempt that    *)
(* has everything counted, and success is announced only over a file       *)
(* written in full by the attempt that announces it.                       *)
(***************************************************************************)
EXTENDS Naturals

CONSTANTS
  MaxAttempts,
  Empty         \* there is nothing to send

VARIABLES
  attempt,
  radio,        \* "closed" or "open"
  complete,     \* every packet of the file has been counted
  written,      \* this attempt has written the whole file, and not failed since
  output,       \* content of the output file
  verdict       \* "none", "ok", "failed"

attemptVars == <<attempt, radio, complete, written, output, verdict>>

AInit ==
  /\ attempt = 1 /\ radio = "closed"
  /\ complete \in BOOLEAN /\ written = FALSE
  /\ output \in {"absent", "other", "payload"} /\ verdict = "none"

\* Nothing counted in an earlier attempt counts in this one.
Begin ==
  /\ radio = "closed"
  /\ radio' \in {"closed", "open"}
  /\ complete' = Empty
  /\ UNCHANGED <<attempt, written, output, verdict>>

Work ==
  /\ radio = "open"
  /\ complete' \in BOOLEAN /\ (complete => complete')
  /\ written' \in BOOLEAN /\ (written' => written)
  /\ UNCHANGED <<attempt, radio, output, verdict>>

WriteFile ==
  /\ radio = "open" /\ complete
  /\ written' \in BOOLEAN /\ (written' => output' = "payload")
  /\ UNCHANGED <<attempt, radio, complete, verdict>>

Release == radio' = "closed" /\ written' = FALSE

TryAgain ==
  /\ Release
  /\ attempt < MaxAttempts /\ attempt' = attempt + 1
  /\ UNCHANGED <<complete, output, verdict>>

GiveUp ==
  /\ Release
  /\ attempt = MaxAttempts /\ verdict' = "failed"
  /\ UNCHANGED <<attempt, complete, output>>

Succeed ==
  /\ Release
  /\ written /\ verdict' = "ok"
  /\ UNCHANGED <<attempt, complete, output>>

AStep == verdict = "none" /\ (Begin \/ Work \/ WriteFile \/ TryAgain \/ GiveUp \/ Succeed)

Safe == AInit /\ [][AStep]_attemptVars
=============================================================================
