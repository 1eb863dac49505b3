---------------------------- MODULE PrefillLedger ----------------------------
(* The state that a prefill keeps of its own progress: the plan of the       *)
(* request and the ledger kept against it.  PrefillProgress drives it by     *)
(* arbitrary calls, SubmissionWindow by the runner that executes the plan.   *)
EXTENDS PrefillPlan

VARIABLES
  plan,      \* the immutable topology, fixed when the request starts
  progress   \* PrefillExecutionProgress
=============================================================================
