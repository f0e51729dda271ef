---- MODULE MCWorkerFleet ----
(* Small instances of WorkerFleet: an old and a new revision, a publication  *)
(* for the old and two for the new, to be rolled back in that order.         *)
EXTENDS WorkerFleet

CONSTANTS oldWorker, newWorker, oldRevision, newRevision, oldPublication,
          newPublication, latestPublication, first, second

RevisionOfWorker ==
  [w \in Workers |-> IF w = oldWorker THEN oldRevision ELSE newRevision]
RevisionOfPublication ==
  [p \in Publications |-> IF p = oldPublication THEN oldRevision ELSE newRevision]
Predecessor ==
  [p \in Publications |-> IF p = latestPublication THEN newPublication
                          ELSE IF p = newPublication THEN oldPublication ELSE None]

\* Bound: batches of two are explored before anything is published, for the
\* new worker alone; otherwise the second row is left alone.
SecondRowFirst ==
  \/ (\A p \in Publications : publication[p] = "none") /\ ClaimsOf(oldWorker) = {}
  \/ second \notin leased \union delivered /\ \A c \in claims : c[2] # second
====
