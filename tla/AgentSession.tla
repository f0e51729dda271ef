---- MODULE AgentSession ----
(* What the agent and the browser broker have agreed on about one browser    *)
(* session that the agent starts: the agent asks once, an answer comes only  *)
(* to what was asked, the session is settled only on an answer, and one that *)
(* was closed, in whichever way, gives no answer and is settled no more.     *)

VARIABLE stage  \* what the agent can see of the session

Live == {"open", "reading", "read"}
Stages == Live \union {"none", "settled", "closed"}

\* One side begins before the session is created, the other with it.
Init == stage \in {"none", "open"}

Create == stage = "none" /\ stage' = "open"
Ask == stage = "open" /\ stage' = "reading"
Answer == stage = "reading" /\ stage' = "read"
Settle == stage = "read" /\ stage' = "settled"
Close == stage \in Live /\ stage' = "closed"

\* A worker that still holds the command of a settled session learns later that
\* the session is out of time, and the row says so from then on.
Outlive == stage = "settled" /\ stage' = "closed"

Next == Create \/ Ask \/ Answer \/ Settle \/ Close \/ Outlive

Spec == Init /\ [][Next]_stage
====
