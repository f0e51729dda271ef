---- MODULE WorkerFleetProofs ----
(* Theorems of WorkerFleet, for any workers, rows, publications and tasks.   *)
EXTENDS WorkerFleet, TLAPS

\* The dispatcher: it works on a row of its batch, its process serves, and as
\* long as it may start something it holds the claims of its whole batch.
DispatchInv ==
  \A w \in Workers :
    /\ at[w] \in {"idle", "batch", "sweep"} => current[w] = None
    /\ at[w] \in {"started", "returned", "failed"} => current[w] \in batch[w]
    /\ at[w] = "batch" => batch[w] # {}
    /\ at[w] \in {"batch", "started", "returned"} =>
         \A r \in batch[w] : Claim(w, r) \in claims
    /\ at[w] # "idle" => process[w] = "serving"

\* The process and its row: one that may still work has an active row, and a
\* drained row belongs to a process that is gone and has completed its claims.
ProcessInv ==
  \A w \in Workers :
    /\ process[w] \in {"registered", "serving", "closing", "closed"} => row[w] \in Active
    /\ process[w] = "absent" => row[w] = "none"
    /\ w \in busy => process[w] \in {"serving", "closing"}
    /\ row[w] = "drained" => process[w] = "gone" /\ \A r \in Work : Claim(w, r) \notin claims

IInv == Typed /\ DispatchInv /\ ProcessInv /\ SelectionIsPublished

\* The invariant holds before the first process.
LEMMA InitInv == Init => IInv
BY DEF Init, IInv, Typed, DispatchInv, ProcessInv, SelectionIsPublished

\* The life of a process keeps the invariant.
LEMMA ProcessStepInv ==
  ASSUME IInv, NEW w \in Workers, ProcessStep(w)
  PROVE  IInv'
<1> USE DEF IInv, fleetVars, outboxVars, dispatchVars, skillVars, SetRow, SetProcess
<1>1. CASE Register(w)
  <2>1. Typed'
    BY <1>1 DEF Register, Typed, Active
  <2>2. DispatchInv'
    BY <1>1 DEF Register, Typed, DispatchInv, Claim
  <2>3. ProcessInv'
    BY <1>1 DEF Register, Typed, ProcessInv, Active, Claim
  <2>4. SelectionIsPublished'
    BY <1>1 DEF Register, SelectionIsPublished
  <2> QED BY <2>1, <2>2, <2>3, <2>4
<1>2. CASE Serve(w)
  BY <1>2 DEF Serve, Typed, DispatchInv, ProcessInv, SelectionIsPublished, Active, Claim
<1>3. CASE Heartbeat(w)
  BY <1>3 DEF Heartbeat, Typed, DispatchInv, ProcessInv, SelectionIsPublished, Active, Claim
<1>4. CASE GoStale(w) \/ BeginActivity(w) \/ EndActivity(w)
  BY <1>4 DEF GoStale, BeginActivity, EndActivity, Typed, DispatchInv, ProcessInv,
              SelectionIsPublished, Claim
<1>5. CASE StopServing(w) \/ Shutdown(w)
  BY <1>5 DEF StopServing, Shutdown, Typed, DispatchInv, ProcessInv,
              SelectionIsPublished, Claim
<1>6. CASE MarkDrained(w)
  <2>1. \A r \in Work : Claim(w, r) \notin claims
    BY <1>6 DEF MarkDrained, ClaimsOf, Claim
  <2>2. Typed'
    BY <1>6 DEF MarkDrained, Typed
  <2>3. DispatchInv'
    BY <1>6 DEF MarkDrained, Typed, DispatchInv, Claim
  <2>4. ProcessInv'
    BY <1>6, <2>1 DEF MarkDrained, Typed, ProcessInv, Active, Claim
  <2>5. SelectionIsPublished'
    BY <1>6 DEF MarkDrained, SelectionIsPublished
  <2> QED BY <2>2, <2>3, <2>4, <2>5
<1>7. CASE Die(w)
  <2>1. Typed'
    BY <1>7 DEF Die, Typed
  <2>2. DispatchInv'
    BY <1>7 DEF Die, Typed, DispatchInv, Claim
  <2>3. ProcessInv'
    BY <1>7 DEF Die, Typed, ProcessInv, Claim
  <2>4. SelectionIsPublished'
    BY <1>7 DEF Die, SelectionIsPublished
  <2> QED BY <2>1, <2>2, <2>3, <2>4
<1> QED BY <1>1, <1>2, <1>3, <1>4, <1>5, <1>6, <1>7 DEF ProcessStep

\* Completing one claim keeps the invariant, whichever of the rows is meant.
LEMMA FinishInv ==
  ASSUME IInv, NEW w \in Workers, NEW r \in batch[w], NEW next \in {"batch", "sweep"},
         at[w] \in {"returned", "failed", "sweep"},
         next = "batch" => at[w] = "returned",
         Finish(w, r, next)
  PROVE  IInv'
<1> USE DEF IInv, Finish, fleetVars, outboxVars, skillVars
<1>1. Typed'
  BY NoneAssumption DEF Typed
<1>2. DispatchInv'
  <2>1. \A v \in Workers : v # w =>
          at'[v] = at[v] /\ batch'[v] = batch[v] /\ current'[v] = current[v]
    BY DEF Typed
  <2>2. batch'[w] = batch[w] \ {r} /\ current'[w] = None
        /\ at'[w] = IF batch[w] = {r} THEN "idle" ELSE next
    BY DEF Typed
  <2>3. \A v \in Workers, x \in Work : (v # w \/ x # r) =>
          (Claim(v, x) \in claims' <=> Claim(v, x) \in claims)
    BY DEF Claim
  <2>4. batch[w] \subseteq Work /\ process' = process
    BY DEF Typed
  <2>5. \A v \in Workers : batch[v] \subseteq Work
    BY DEF Typed
  <2>6. SUFFICES ASSUME NEW v \in Workers
                 PROVE  /\ at'[v] \in {"idle", "batch", "sweep"} => current'[v] = None
                        /\ at'[v] \in {"started", "returned", "failed"} => current'[v] \in batch'[v]
                        /\ at'[v] = "batch" => batch'[v] # {}
                        /\ at'[v] \in {"batch", "started", "returned"} =>
                             \A x \in batch'[v] : Claim(v, x) \in claims'
                        /\ at'[v] # "idle" => process'[v] = "serving"
    BY DEF DispatchInv, Claim
  <2>7. CASE v # w
    BY <2>1, <2>3, <2>4, <2>5, <2>7 DEF DispatchInv
  <2>8. CASE v = w
    BY <2>2, <2>3, <2>4, <2>8 DEF DispatchInv
  <2> QED BY <2>7, <2>8
<1>3. ProcessInv'
  BY DEF ProcessInv, Claim
<1>4. SelectionIsPublished'
  BY DEF SelectionIsPublished
<1> QED BY <1>1, <1>2, <1>3, <1>4

\* A dispatcher's step keeps the invariant.
LEMMA DispatchStepInv ==
  ASSUME IInv, NEW w \in Workers, DispatchStep(w)
  PROVE  IInv'
<1> USE DEF IInv, fleetVars, outboxVars, skillVars
<1>1. CASE \E rows \in SUBSET Work : ClaimOutbox(w, rows)
  <2>1. PICK rows \in SUBSET Work : ClaimOutbox(w, rows)
    BY <1>1
  <2>2. Typed'
    <3>1. \A v \in Workers : current'[v] \in batch'[v] \union {None}
      BY <2>1 DEF ClaimOutbox, Typed, DispatchInv
    <3>2. claims' \subseteq Workers \X Work
      BY <2>1 DEF ClaimOutbox, Claim, Typed
    <3> QED BY <2>1, <3>1, <3>2 DEF ClaimOutbox, Typed
  <2>3. DispatchInv'
    BY <2>1 DEF ClaimOutbox, Claim, Typed, DispatchInv
  <2>4. ProcessInv'
    BY <2>1 DEF ClaimOutbox, Claim, Typed, ProcessInv
  <2>5. SelectionIsPublished'
    BY <2>1 DEF ClaimOutbox, SelectionIsPublished
  <2> QED BY <2>2, <2>3, <2>4, <2>5
<1>2. CASE \E r \in Work : StartWorkflow(w, r) \/ StartFails(w, r)
  <2>1. Typed'
    BY <1>2 DEF StartWorkflow, StartFails, Typed
  <2>2. DispatchInv'
    BY <1>2 DEF StartWorkflow, StartFails, Claim, Typed, DispatchInv
  <2>3. ProcessInv' /\ SelectionIsPublished'
    BY <1>2 DEF StartWorkflow, StartFails, Claim, ProcessInv, SelectionIsPublished
  <2> QED BY <2>1, <2>2, <2>3
<1>3. CASE \E r \in Work : Sweep(w, r)
  BY <1>3, FinishInv DEF Sweep
<1>4. CASE Deliver(w) \/ DeliverFails(w)
  <2>1. Typed'
    BY <1>4 DEF Deliver, DeliverFails, Typed, DispatchInv
  <2>2. DispatchInv'
    BY <1>4 DEF Deliver, DeliverFails, Claim, Typed, DispatchInv
  <2>3. ProcessInv' /\ SelectionIsPublished'
    BY <1>4 DEF Deliver, DeliverFails, Claim, ProcessInv, SelectionIsPublished
  <2> QED BY <2>1, <2>2, <2>3
<1>5. CASE CompleteClaim(w)
  <2>1. current[w] \in batch[w]
    BY <1>5 DEF CompleteClaim, DispatchInv
  <2> QED BY <1>5, <2>1, FinishInv DEF CompleteClaim
<1>6. CASE CompletionFails(w)
  <2>1. Typed'
    BY <1>6 DEF CompletionFails, Typed
  <2>2. DispatchInv'
    BY <1>6 DEF CompletionFails, Claim, Typed, DispatchInv
  <2>3. ProcessInv' /\ SelectionIsPublished'
    BY <1>6 DEF CompletionFails, Claim, ProcessInv, SelectionIsPublished
  <2> QED BY <2>1, <2>2, <2>3
<1>7. CASE SweepFails(w)
  <2>1. PICK r \in batch[w] : claims' \in {claims, claims \ {Claim(w, r)}}
    BY <1>7 DEF SweepFails
  <2>2. Typed'
    BY <1>7, <2>1 DEF SweepFails, Typed, DispatchInv
  <2>3. DispatchInv'
    BY <1>7, <2>1 DEF SweepFails, Claim, Typed, DispatchInv
  <2>4. ProcessInv' /\ SelectionIsPublished'
    BY <1>7, <2>1 DEF SweepFails, Claim, ProcessInv, SelectionIsPublished
  <2> QED BY <2>2, <2>3, <2>4
<1> QED BY <1>1, <1>2, <1>3, <1>4, <1>5, <1>6, <1>7 DEF DispatchStep

\* Operators and admissions keep the invariant.
LEMMA SkillStepInv ==
  ASSUME IInv, SkillStep
  PROVE  IInv'
<1> USE DEF IInv, fleetVars, outboxVars, dispatchVars
<1>1. CASE \E rev \in Revisions : RequestDrain(rev)
  BY <1>1 DEF RequestDrain, skillVars, Typed, Active, DispatchInv, ProcessInv, Claim,
              SelectionIsPublished
<1>2. CASE \E p \in Publications : Publish(p) \/ Select(p) \/ Rollback(p)
  <2>1. Typed'
    BY <1>2 DEF Publish, Select, Rollback, Typed
  <2>2. DispatchInv' /\ ProcessInv'
    BY <1>2 DEF Publish, Select, Rollback, DispatchInv, ProcessInv, Claim
  <2>3. SelectionIsPublished'
    BY <1>2, NoneAssumption DEF Publish, Select, Rollback, Selectable, Typed, SelectionIsPublished
  <2> QED BY <2>1, <2>2, <2>3
<1>3. CASE \E w \in Workers, t \in Tasks : Admit(w, t)
  BY <1>3 DEF Admit, Typed, DispatchInv, ProcessInv, Claim, SelectionIsPublished
<1> QED BY <1>1, <1>2, <1>3 DEF SkillStep

\* So does every step.
LEMMA StepInv == IInv /\ [Next]_vars => IInv'
<1> SUFFICES ASSUME IInv, [Next]_vars PROVE IInv'
  OBVIOUS
<1>1. CASE \E w \in Workers : ProcessStep(w) \/ DispatchStep(w)
  BY <1>1, ProcessStepInv, DispatchStepInv
<1>2. CASE \E r \in Work : LeaseEnds(r)
  BY <1>2 DEF LeaseEnds, fleetVars, dispatchVars, skillVars, IInv, Typed, DispatchInv,
              ProcessInv, Claim, SelectionIsPublished
<1>3. CASE SkillStep
  BY <1>3, SkillStepInv
<1>4. CASE UNCHANGED vars
  BY <1>4 DEF vars, IInv, Typed, DispatchInv, ProcessInv, Claim, SelectionIsPublished
<1> QED BY <1>1, <1>2, <1>3, <1>4 DEF Next

\* The invariant is inductive.
THEOREM Inductive == Spec => []IInv
<1> QED BY InitInv, StepInv, PTL DEF Spec

\* Every variable keeps its type, and a dispatcher holds the claims of all the
\* rows it may still start, for any workers, rows, publications and tasks.
THEOREM FleetTypeCorrect == Spec => []TypeOK
<1>1. IInv => TypeOK
  BY DEF IInv, DispatchInv, TypeOK, ClaimsCoverBatch
<1> QED BY <1>1, Inductive, PTL

\* A worker recorded as drained has no process, claim, dispatch or activity:
\* what lets an operator stop or replace it (mark_worker_drained).
THEOREM DrainedQuiet == Spec => []DrainedIsQuiet
<1>1. IInv => DrainedIsQuiet
  <2> SUFFICES ASSUME IInv, NEW w \in Workers, row[w] = "drained"
               PROVE  /\ process[w] = "gone"
                      /\ ClaimsOf(w) = {} /\ at[w] = "idle"
                      /\ w \notin busy
    BY DEF DrainedIsQuiet
  <2>1. process[w] = "gone" /\ \A r \in Work : Claim(w, r) \notin claims
    BY DEF IInv, ProcessInv
  <2>2. ClaimsOf(w) = {}
    BY <2>1 DEF ClaimsOf, Claim, IInv, Typed
  <2>3. at[w] = "idle" /\ w \notin busy
    BY <2>1 DEF IInv, DispatchInv, ProcessInv
  <2> QED BY <2>1, <2>2, <2>3
<1> QED BY <1>1, Inductive, PTL

\* No order of publications, selections and rollbacks selects a publication
\* that is not published, so registration stays open (register_worker).
THEOREM RegistrationOpen == Spec => []SelectionIsPublished
<1>1. IInv => SelectionIsPublished
  BY DEF IInv
<1> QED BY <1>1, Inductive, PTL

\* A drain request is never lost to a heartbeat, a claim or a registration, and
\* no claim follows it (heartbeat_worker, lock_running_worker).
THEOREM DrainFinal == Spec => DrainIsFinal
<1>1. IInv /\ DrainedIsQuiet' /\ [Next]_vars =>
        [/\ DrainedIsQuiet'
         /\ \A w \in Workers :
              row[w] \in {"draining", "drained"} =>
                /\ row'[w] \in {"draining", "drained"}
                /\ {c \in claims' : c[1] = w} \subseteq ClaimsOf(w)]_vars
  <2> SUFFICES ASSUME IInv, Next, NEW w \in Workers, row[w] \in {"draining", "drained"}
               PROVE  /\ row'[w] \in {"draining", "drained"}
                      /\ {c \in claims' : c[1] = w} \subseteq ClaimsOf(w)
    OBVIOUS
  <2> USE DEF fleetVars, outboxVars, dispatchVars, skillVars, ClaimsOf, Claim
  <2>1. ASSUME NEW v \in Workers, ProcessStep(v)
        PROVE  /\ row'[w] \in {"draining", "drained"}
               /\ {c \in claims' : c[1] = w} \subseteq ClaimsOf(w)
    <3>1. claims' = claims
      BY <2>1 DEF ProcessStep, Register, Serve, Heartbeat, GoStale, BeginActivity,
                  EndActivity, StopServing, Shutdown, MarkDrained, Die
    <3>2. CASE Register(v)
      <4>1. v # w
        BY <3>2 DEF Register, IInv, ProcessInv
      <4> QED BY <3>1, <3>2, <4>1 DEF Register, SetRow, IInv, Typed
    <3>3. CASE Heartbeat(v) \/ MarkDrained(v)
      <4>1. row' \in {[row EXCEPT ![v] = "drained"],
                      [row EXCEPT ![v] = IF row[v] = "draining" THEN "draining" ELSE "running"]}
        BY <3>3 DEF Heartbeat, MarkDrained, SetRow
      <4>2. CASE v # w
        BY <3>1, <4>1, <4>2 DEF IInv, Typed
      <4>3. CASE v = w
        <5>1. row[w] = "draining"
          BY <3>3, <4>3 DEF Heartbeat, MarkDrained, Active
        <5> QED BY <3>1, <4>1, <4>3, <5>1 DEF IInv, Typed
      <4> QED BY <4>2, <4>3
    <3>4. CASE ~Register(v) /\ ~Heartbeat(v) /\ ~MarkDrained(v)
      BY <2>1, <3>1, <3>4 DEF ProcessStep, Serve, GoStale, BeginActivity, EndActivity,
                              StopServing, Shutdown, Die
    <3> QED BY <3>2, <3>3, <3>4
  <2>2. ASSUME NEW v \in Workers, DispatchStep(v)
        PROVE  /\ row'[w] \in {"draining", "drained"}
               /\ {c \in claims' : c[1] = w} \subseteq ClaimsOf(w)
    <3>1. CASE \E rows \in SUBSET Work : ClaimOutbox(v, rows)
      BY <3>1 DEF ClaimOutbox
    <3>2. CASE ~\E rows \in SUBSET Work : ClaimOutbox(v, rows)
      <4>1. row' = row /\ claims' \subseteq claims
        BY <2>2, <3>2 DEF DispatchStep, StartWorkflow, StartFails, Deliver, DeliverFails,
                          CompleteClaim, CompletionFails, Sweep, SweepFails, Finish
      <4> QED BY <4>1
    <3> QED BY <3>1, <3>2
  <2>3. ASSUME NEW r \in Work, LeaseEnds(r)
        PROVE  /\ row'[w] \in {"draining", "drained"}
               /\ {c \in claims' : c[1] = w} \subseteq ClaimsOf(w)
    BY <2>3 DEF LeaseEnds
  <2>4. ASSUME SkillStep
        PROVE  /\ row'[w] \in {"draining", "drained"}
               /\ {c \in claims' : c[1] = w} \subseteq ClaimsOf(w)
    BY <2>4 DEF SkillStep, RequestDrain, Publish, Select, Rollback, Admit, Active
  <2> QED BY <2>1, <2>2, <2>3, <2>4 DEF Next
<1> QED BY <1>1, Inductive, DrainedQuiet, PTL DEF Spec, DrainIsFinal

\* What selects, rolls back or admits is one of the four transactions that
\* check the fleet, with the publication's own revision.
LEMMA ControlStep ==
  ASSUME IInv, Next, selected' # selected \/ admitted' # admitted
  PROVE  /\ claims = {}
         /\ selected' # selected =>
              \E p \in Publications :
                selected' = p /\ CompatibleFleet(PublicationRevision[p])
         /\ \A t \in Tasks : admitted'[t] # admitted[t] =>
              \E p \in Publications :
                admitted'[t] = p /\ CompatibleFleet(PublicationRevision[p])
<1> USE DEF fleetVars, outboxVars, dispatchVars, skillVars
<1>1. SkillStep
  BY DEF Next, ProcessStep, Register, Serve, Heartbeat, GoStale, BeginActivity, EndActivity,
         StopServing, Shutdown, MarkDrained, Die, DispatchStep, ClaimOutbox, StartWorkflow,
         StartFails, Deliver, DeliverFails, CompleteClaim, CompletionFails, Sweep,
         SweepFails, Finish, LeaseEnds
<1>2. CASE \E p \in Publications : Select(p) \/ Rollback(p)
  BY <1>2 DEF Select, Rollback, CompatibleFleet
<1>3. CASE \E w \in Workers, t \in Tasks : Admit(w, t)
  BY <1>3 DEF Admit, CompatibleFleet, IInv, Typed
<1>4. CASE (\E rev \in Revisions : RequestDrain(rev)) \/ \E p \in Publications : Publish(p)
  BY <1>4 DEF RequestDrain, Publish
<1> QED BY <1>1, <1>2, <1>3, <1>4 DEF SkillStep

\* A check of the worker rows is a check of the processes: whatever polls or
\* executes has an active row.
LEMMA RowsTellProcesses ==
  ASSUME IInv, NEW p \in Publications, CompatibleFleet(PublicationRevision[p])
  PROVE  Suits(p)
BY DEF Suits, Alive, CompatibleFleet, IInv, ProcessInv

\* No dispatcher is about to start work at that moment: it would hold a claim.
LEMMA NoClaimsNoDispatch ==
  ASSUME IInv, claims = {}, NEW w \in Workers
  PROVE  ~Dispatching(w)
<1> SUFFICES ASSUME Dispatching(w) PROVE FALSE
  OBVIOUS
<1>1. batch[w] # {}
  BY DEF Dispatching, IInv, DispatchInv
<1> QED BY <1>1 DEF Dispatching, IInv, DispatchInv

\* Selection and admission see a quiet fleet that suits the publication, even
\* when heartbeats, drains, shutdowns and crashes interleave with them.
THEOREM ControlSuits == Spec => ControlSuitsFleet
<1>1. IInv /\ [Next]_vars =>
        [/\ selected' # selected => Suits(selected')
         /\ \A t \in Tasks : admitted'[t] # admitted[t] => Suits(admitted'[t])
         /\ selected' # selected \/ admitted' # admitted =>
              \A w \in Workers : ~Dispatching(w)]_vars
  <2> SUFFICES ASSUME IInv, Next
               PROVE  /\ selected' # selected => Suits(selected')
                      /\ \A t \in Tasks : admitted'[t] # admitted[t] => Suits(admitted'[t])
                      /\ selected' # selected \/ admitted' # admitted =>
                           \A w \in Workers : ~Dispatching(w)
    OBVIOUS
  <2>1. CASE selected' # selected \/ admitted' # admitted
    BY <2>1, ControlStep, RowsTellProcesses, NoClaimsNoDispatch
  <2>2. CASE ~(selected' # selected \/ admitted' # admitted)
    BY <2>2
  <2> QED BY <2>1, <2>2
<1> QED BY <1>1, Inductive, PTL DEF Spec, ControlSuitsFleet
====
