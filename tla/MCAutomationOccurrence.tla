---- MODULE MCAutomationOccurrence ----
(* Small instances of AutomationOccurrence.                                  *)
EXTENDS AutomationOccurrence, TLC

CONSTANT First

OthersAlike == Permutations(Occurrences \ {First}) \union Permutations(Callers)

\* An event automation admitted the first occurrence before the others fall
\* due: a state of Spec that takes four steps to reach.
InitRunning ==
  /\ automation = [revision |-> 1, state |-> "active", profile |-> "event",
                   overlap |-> "buffer_one"]
  /\ enabled = TRUE
  /\ lock = None
  /\ due = [o \in Occurrences |-> IF o = First THEN [revision |-> 1, event |-> FALSE] ELSE NotDue]
  /\ row = [o \in Occurrences |-> IF o = First
              THEN [state |-> "accepted", kind |-> "goal", linked |-> TRUE] ELSE NoRow]
  /\ run = [o \in Occurrences |-> IF o = First THEN "active" ELSE "none"]
  /\ created = [o \in Occurrences |-> IF o = First THEN 1 ELSE 0]
  /\ notices = created
  /\ call = [c \in Callers |-> Idle]
  /\ troubles = 0
SpecRunning == InitRunning /\ [][Next]_vars

\* The third revision is for an automation that was paused and resumed, and the
\* overlap policy only tells plans and events apart.
WorthExploring ==
  /\ automation.revision = 3 =>
       automation.state = "active" /\ automation.profile = "event"
  /\ automation.overlap = "skip" =>
       automation.revision = 2 /\ automation.profile = "event"
====
