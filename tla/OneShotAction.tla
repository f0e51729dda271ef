---- MODULE OneShotAction ----
(* What the service promises about one approved external action, and about   *)
(* one click of the owner in a supervised browser session: a human           *)
(* authorizes it before anything happens, the outside world is changed at    *)
(* most once, a withdrawn or rejected action never changed it and never      *)
(* will, and a confirmed one did.  When the service cannot tell, it says so, *)
(* and only a later confirmation ends the doubt.                             *)

VARIABLES outcome,   \* what the service says about the action
          applied    \* whether the outside world was changed

vars == <<outcome, applied>>

Outcomes == {"proposed", "authorized", "withdrawn", "committed", "rejected",
             "uncertain", "confirmed"}

Init == outcome = "proposed" /\ applied = FALSE

Authorize == outcome = "proposed" /\ outcome' = "authorized" /\ UNCHANGED applied

Withdraw ==
  /\ outcome \in {"proposed", "authorized"}
  /\ outcome' = "withdrawn"
  /\ UNCHANGED applied

Commit == outcome = "authorized" /\ outcome' = "committed" /\ UNCHANGED applied

\* The one change of the outside world; a request already under way may still
\* land after the service has declared the outcome uncertain.
Apply ==
  /\ outcome \in {"committed", "uncertain"}
  /\ ~applied
  /\ applied' = TRUE
  /\ UNCHANGED outcome

Reject ==
  /\ outcome = "committed"
  /\ ~applied
  /\ outcome' = "rejected"
  /\ UNCHANGED applied

Doubt == outcome = "committed" /\ outcome' = "uncertain" /\ UNCHANGED applied

Confirm ==
  /\ outcome \in {"committed", "uncertain"}
  /\ applied
  /\ outcome' = "confirmed"
  /\ UNCHANGED applied

Next == Authorize \/ Withdraw \/ Commit \/ Apply \/ Reject \/ Doubt \/ Confirm

Spec == Init /\ [][Next]_vars
====
