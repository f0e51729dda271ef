---- MODULE MCConnectorReads ----
(* Small instances of ConnectorReads.                                        *)
EXTENDS ConnectorReads, TLC

Alike == Permutations(Resources) \union Permutations(Callers)

\* The owner has subscribed: a state of Spec that takes three steps to reach.
InitWatched ==
  /\ capability \in Capabilities
  /\ log = <<>>
  /\ provider = Nothing
  /\ grant = "active"
  /\ cursor = [value |-> None, generation |-> 1]
  /\ snapshot = Nothing
  /\ sub = [s \in Generations |->
       IF s = 1 THEN [NoSub EXCEPT !.state = "active", !.renewable = TRUE] ELSE NoSub]
  /\ event = [s \in Generations |-> [n \in Numbers |-> NoEvent]]
  /\ call = [c \in Callers |-> Idle]
  /\ troubles = 0
SpecWatched == InitWatched /\ [][Next]_vars

\* Changes, events, failures, resets, further subscriptions and the end of the
\* authority add up to a few complications.  A third subscription is for
\* renewals that overlap, which have nothing to do with the rest.
FewComplications ==
  LET odd == Len(log) + Cardinality(Stored) + troubles + (cursor.generation - 1)
             + (Cardinality(Made) - 1)
             + CASE Authorized -> 0 [] grant = "revoked" -> 2 [] grant = "expired" -> 3
  IN /\ odd <= IF Stored = {} \/ (troubles = 0 /\ cursor.generation = 1 /\ Cardinality(Made) = 1)
             THEN 4 ELSE 3
     /\ Cardinality(Made) = 3 => (log = <<>> /\ cursor.generation = 1)
====
