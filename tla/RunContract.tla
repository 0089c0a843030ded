---------------------------- MODULE RunContract ----------------------------
(***************************************************************************)
(* What a load run promises to the job that launched it, whatever driver   *)
(* it uses and however many clients it has: failures are faults while the  *)
(* run is live and cut-offs once it has ended, a fault fails the exit      *)
(* status and nothing else does when the driver observes what it returns,  *)
(* an unbounded run is refused, and a verdict is always reached.  Driver   *)
(* implements this.                                                        *)
(***************************************************************************)
EXTENDS Naturals

VARIABLES
  silent,   \* the driver may return an error it never observed
  bounded,  \* the run was given -duration or -iterations
  ended,    \* the bound was reached, or the run was told to stop
  faults,   \* failures the summary counts as errors
  cutoffs,  \* failures the summary counts as cancelled
  verdict   \* "none" until the process exits, then "pass" or "fail"

vars == <<silent, bounded, ended, faults, cutoffs, verdict>>

Init ==
  /\ silent \in BOOLEAN
  /\ bounded \in BOOLEAN
  /\ ended = FALSE
  /\ faults = 0
  /\ cutoffs = 0
  /\ verdict = "none"

(* Both bounds left unset: nothing runs and the status is a failure. *)
Refuse ==
  /\ ~bounded
  /\ verdict = "none"
  /\ verdict' = "fail"
  /\ UNCHANGED <<silent, bounded, ended, faults, cutoffs>>

End ==
  /\ bounded /\ verdict = "none" /\ ~ended
  /\ ended' = TRUE
  /\ UNCHANGED <<silent, bounded, faults, cutoffs, verdict>>

Fault ==
  /\ bounded /\ verdict = "none" /\ ~ended
  /\ faults' = faults + 1
  /\ UNCHANGED <<silent, bounded, ended, cutoffs, verdict>>

CutOff ==
  /\ bounded /\ verdict = "none" /\ ended
  /\ cutoffs' = cutoffs + 1
  /\ UNCHANGED <<silent, bounded, ended, faults, verdict>>

(* The gate: an error in the summary fails the run, and without one only    *)
(* an error that was returned and never observed does.                      *)
Judge ==
  /\ bounded /\ verdict = "none"
  /\ \/ verdict' = "fail" /\ (faults > 0 \/ silent)
     \/ verdict' = "pass" /\ faults = 0
  /\ UNCHANGED <<silent, bounded, ended, faults, cutoffs>>

Next == Refuse \/ End \/ Fault \/ CutOff \/ Judge

Spec == Init /\ [][Next]_vars /\ WF_vars(Refuse \/ Judge)
=============================================================================
