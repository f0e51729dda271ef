---- MODULE MCProviderCapacity ----
(* Small instances of ProviderCapacity: two accounts, calls that each have a *)
(* lease key of their own, or two that share one.                            *)
EXTENDS ProviderCapacity

CONSTANTS draft, bare, planner, acme, beta

OwnKey == [c \in Calls |-> c]
OneKey == [c \in Calls |-> bare]
SharedAccount == [k \in Keys |-> acme]
TwoAccounts == [k \in Keys |-> IF k = planner THEN beta ELSE acme]
Estimates == [k \in Keys |-> IF k = bare THEN 1 ELSE 2]
====
