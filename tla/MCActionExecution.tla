---- MODULE MCActionExecution ----
(* A small instance of ActionExecution: one action on one account.           *)
EXTENDS ActionExecution

CONSTANTS a1, c1

OneAction == {a1}
OneConnection == {c1}
SharedConnection == [a \in Actions |-> c1]
====
