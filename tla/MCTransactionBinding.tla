---- MODULE MCTransactionBinding ----
(* A small instance of TransactionBinding. *)
EXTENDS TransactionBinding

CONSTANTS r1, r2

TwoRequests == {r1, r2}
====
