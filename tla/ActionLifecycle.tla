---- MODULE ActionLifecycle ----
(* The states of one external action and the pure part of the handlers that  *)
(* settle it (services/coworker/action_repository.py).  Everything here is   *)
(* state-free, so that ActionExecution (processes racing on the row) and     *)
(* TransactionBinding (a business transaction bound to the row) share it.    *)

\* "none" is the row before `prepare` inserts it.
ActionStates ==
  {"none", "awaiting_approval", "queued", "executing", "succeeded", "failed",
   "cancelled", "expired", "outcome_unknown"}

\* The code's TERMINAL set; "outcome_unknown" may still become "succeeded".
Terminal == {"succeeded", "failed", "cancelled", "expired", "outcome_unknown"}

\* Not yet claimed for execution: what cancel, disconnect and expiry may stop.
Unclaimed == {"awaiting_approval", "queued"}

\* States an execution leaves behind without any provider mutation.
NotExecuted == {"failed", "cancelled", "expired"}

\* The states that may replace a state, whichever handler writes it.
Successors(s) ==
  CASE s = "none" -> {"awaiting_approval"}
    [] s = "awaiting_approval" -> {"queued", "cancelled", "expired"}
    [] s = "queued" -> {"executing", "failed", "cancelled", "expired"}
    [] s = "executing" -> {"succeeded", "failed", "outcome_unknown"}
    [] s = "outcome_unknown" -> {"succeeded"}
    [] OTHER -> {}

\* Results a caller may report to `finish`.
Results == {"succeeded", "failed", "outcome_unknown"}

\* A plausible slip: a late unknown or failed result overwrites a settled row.
FinishStateOverwrites(current, result, unstarted) ==
  IF unstarted /\ current # "queued" THEN current ELSE result

\* The state `finish` leaves the row in.  Reports on a settled row, reports of
\* an attempt that never started once the row was claimed by another one, and
\* anything but a confirmation of an uncertain row are dropped; an interrupted
\* row that nobody claimed failed without a provider mutation.
FinishState(current, result, unstarted) ==
  IF \/ current \notin {"queued", "executing", "outcome_unknown"}
     \/ unstarted /\ current # "queued"
     \/ current = "outcome_unknown" /\ result # "succeeded"
  THEN current
  ELSE IF current = "queued" /\ result = "outcome_unknown" THEN "failed"
  ELSE result
====
