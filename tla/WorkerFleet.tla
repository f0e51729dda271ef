---- MODULE WorkerFleet ----
(* The worker processes of one task queue (worker.py), their rows and their  *)
(* dispatch claims (repository.py, worker_claims.py), and the selection of a *)
(* reviewed skill, which must suit every process that is alive.              *)
(*                                                                           *)
(* Every transaction here locks the worker rows it depends on first, and     *)
(* those that look at the whole fleet hold the lock on its membership, so    *)
(* each is one action.  A process may die, and a call of the database may    *)
(* fail, between any two of them.                                            *)
(*                                                                           *)
(* Work stands for the rows of an outbox; the three outboxes differ in what  *)
(* they dispatch only.  A row without a drain request is never `draining`,   *)
(* so the state tells what drain_requested_at would.                         *)
EXTENDS Naturals

CONSTANTS
  Workers,             \* worker processes; a restarted one is another
  Work,                \* rows of an outbox
  Tasks,               \* reviewed research tasks
  Publications,        \* versions of the reviewed skill
  Revisions,           \* source revisions
  WorkerRevision,      \* what a worker was built from
  PublicationRevision, \* what a publication was reviewed for
  RollbackTarget,      \* the declared rollback target of a publication
  None

ASSUME RevisionAssumption ==
  /\ WorkerRevision \in [Workers -> Revisions]
  /\ PublicationRevision \in [Publications -> Revisions]
ASSUME TargetAssumption ==
  RollbackTarget \in [Publications -> Publications \union {None}]
ASSUME NoneAssumption == None \notin Publications \union Work

VARIABLES
  row,         \* state of each worker's row
  stale,       \* workers whose heartbeat_at is too old
  claims,      \* active dispatch claims: worker and work
  leased,      \* outbox rows under a lease
  delivered,   \* outbox rows that are acknowledged
  process,     \* where each process stands in main()
  busy,        \* workers that execute an activity
  at,          \* where the dispatcher stands in _dispatch_claim_batch
  batch,       \* resource_ids less completed
  current,     \* the resource_id under way
  publication, \* state of each publication
  selected,    \* the selected publication
  admitted     \* the publication pinned by each task

fleetVars == <<row, stale>>
outboxVars == <<leased, delivered>>
dispatchVars == <<at, batch, current>>
skillVars == <<publication, selected, admitted>>
vars == <<row, stale, claims, leased, delivered, process, busy, at, batch,
          current, publication, selected, admitted>>

Active == {"starting", "running", "draining"}
ClaimsOf(w) == {c \in claims : c[1] = w}
Claim(w, r) == <<w, r>>

Init ==
  /\ row = [w \in Workers |-> "none"]
  /\ process = [w \in Workers |-> "absent"]
  /\ at = [w \in Workers |-> "idle"]
  /\ batch = [w \in Workers |-> {}]
  /\ current = [w \in Workers |-> None]
  /\ stale = {} /\ claims = {} /\ busy = {}
  /\ leased = {} /\ delivered = {}
  /\ publication = [p \in Publications |-> "none"]
  /\ selected = None
  /\ admitted = [t \in Tasks |-> None]

SetRow(w, state) == row' = [row EXCEPT ![w] = state]
SetProcess(w, state) == process' = [process EXCEPT ![w] = state]

-----------------------------------------------------------------------------
(* The life of a process *)

\* require_selected_pilot, as to the state; the first form lets a publication
\* pass that was rolled back.
SelectableOnce(p) == publication[p] # "none"
Selectable(p) == publication[p] = "published"

\* register_worker: refused when the selection is not authoritative.
Register(w) ==
  /\ process[w] = "absent"
  /\ selected # None => Selectable(selected)
  /\ SetRow(w, "starting")
  /\ SetProcess(w, "registered")
  /\ UNCHANGED <<stale, claims, outboxVars, busy, dispatchVars, skillVars>>

\* The Temporal worker starts to poll, and the dispatcher to tick.
Serve(w) ==
  /\ process[w] = "registered"
  /\ SetProcess(w, "serving")
  /\ UNCHANGED <<fleetVars, claims, outboxVars, busy, dispatchVars, skillVars>>

\* heartbeat_worker, by the heartbeat loop or a tick.  The other form forgets
\* that a drain was requested.
HeartbeatResumes(w) ==
  /\ process[w] = "serving" /\ row[w] \in Active
  /\ SetRow(w, "running")
  /\ stale' = stale \ {w}
  /\ UNCHANGED <<claims, outboxVars, process, busy, dispatchVars, skillVars>>
Heartbeat(w) ==
  /\ process[w] = "serving" /\ row[w] \in Active
  /\ SetRow(w, IF row[w] = "draining" THEN "draining" ELSE "running")
  /\ stale' = stale \ {w}
  /\ UNCHANGED <<claims, outboxVars, process, busy, dispatchVars, skillVars>>

\* No heartbeat for WORKER_HEARTBEAT_TTL_SECONDS.
GoStale(w) ==
  /\ row[w] \in Active /\ w \notin stale
  /\ stale' = stale \union {w}
  /\ UNCHANGED <<row, claims, outboxVars, process, busy, dispatchVars, skillVars>>

\* An activity of any workflow, as long as the Temporal worker polls.
BeginActivity(w) ==
  /\ process[w] = "serving" /\ w \notin busy
  /\ busy' = busy \union {w}
  /\ UNCHANGED <<fleetVars, claims, outboxVars, process, dispatchVars, skillVars>>
EndActivity(w) ==
  /\ w \in busy
  /\ busy' = busy \ {w}
  /\ UNCHANGED <<fleetVars, claims, outboxVars, process, dispatchVars, skillVars>>

\* A signal, or the heartbeat loop when it sees the drain request, sets `stop`;
\* Dispatcher.run returns after its tick, and Worker.__aexit__ begins.
StopServing(w) ==
  /\ process[w] = "serving" /\ at[w] = "idle"
  /\ SetProcess(w, "closing")
  /\ UNCHANGED <<fleetVars, claims, outboxVars, busy, dispatchVars, skillVars>>

\* Worker.__aexit__ returns when no activity is left.
Shutdown(w) ==
  /\ process[w] = "closing" /\ w \notin busy
  /\ SetProcess(w, "closed")
  /\ UNCHANGED <<fleetVars, claims, outboxVars, busy, dispatchVars, skillVars>>

\* mark_worker_drained, the last thing a process does; refused while it has
\* active claims.
MarkDrained(w) ==
  /\ process[w] = "closed" /\ row[w] \in Active
  /\ ClaimsOf(w) = {}
  /\ SetRow(w, "drained")
  /\ stale' = stale \ {w}
  /\ SetProcess(w, "gone")
  /\ UNCHANGED <<claims, outboxVars, busy, dispatchVars, skillVars>>

\* The process ends without that: a crash, an error on the way, or the refusal.
Die(w) ==
  /\ process[w] \notin {"absent", "gone"}
  /\ SetProcess(w, "gone")
  /\ busy' = busy \ {w}
  /\ at' = [at EXCEPT ![w] = "idle"]
  /\ batch' = [batch EXCEPT ![w] = {}]
  /\ current' = [current EXCEPT ![w] = None]
  /\ UNCHANGED <<fleetVars, claims, outboxVars, skillVars>>

ProcessStep(w) ==
  \/ Register(w) \/ Serve(w) \/ Heartbeat(w) \/ GoStale(w)
  \/ BeginActivity(w) \/ EndActivity(w)
  \/ StopServing(w) \/ Shutdown(w) \/ MarkDrained(w) \/ Die(w)

-----------------------------------------------------------------------------
(* Dispatch *)

\* Thirty seconds after the claim; the lease of a delivered row has no meaning.
LeaseEnds(r) ==
  /\ r \in leased \ delivered
  /\ leased' = leased \ {r}
  /\ UNCHANGED <<fleetVars, claims, delivered, process, busy, dispatchVars,
                 skillVars>>

\* claim_outbox: lock_running_worker, then the rows that are not locked by
\* others, then a claim for each.  A worker has one active claim for a row at
\* most (uq_cw_worker_claims_active_resource), or the transaction fails.
ClaimOutbox(w, rows) ==
  /\ process[w] = "serving" /\ at[w] = "idle"
  /\ row[w] = "running" /\ w \notin stale
  /\ rows # {} /\ rows \subseteq Work \ (delivered \union leased)
  /\ \A r \in rows : Claim(w, r) \notin claims
  /\ leased' = leased \union rows
  /\ claims' = claims \union {Claim(w, r) : r \in rows}
  /\ batch' = [batch EXCEPT ![w] = rows]
  /\ at' = [at EXCEPT ![w] = "batch"]
  /\ UNCHANGED <<fleetVars, delivered, process, busy, current, skillVars>>

\* The operation on one row: the workflow is started, or exists already (what the
\* engine makes of it is modelled in ActionExecution) ...
StartWorkflow(w, r) ==
  /\ at[w] = "batch" /\ r \in batch[w]
  /\ row[w] \in {"running", "draining"} /\ Claim(w, r) \in claims
  /\ at' = [at EXCEPT ![w] = "started"]
  /\ current' = [current EXCEPT ![w] = r]
  /\ UNCHANGED <<fleetVars, claims, outboxVars, process, busy, batch, skillVars>>

\* ... or that fails, which may mean that only the answer was lost ...
StartFails(w, r) ==
  /\ at[w] = "batch" /\ r \in batch[w]
  /\ at' = [at EXCEPT ![w] = "failed"]
  /\ current' = [current EXCEPT ![w] = r]
  /\ UNCHANGED <<fleetVars, claims, outboxVars, process, busy, batch, skillVars>>

\* ... and the row is acknowledged, or that fails.
Deliver(w) ==
  /\ at[w] = "started"
  /\ delivered' = delivered \union {current[w]}
  /\ at' = [at EXCEPT ![w] = "returned"]
  /\ UNCHANGED <<fleetVars, claims, leased, process, busy, batch, current, skillVars>>
DeliverFails(w) ==
  /\ at[w] = "started"
  /\ at' = [at EXCEPT ![w] = "failed"]
  /\ UNCHANGED <<fleetVars, claims, outboxVars, process, busy, batch, current, skillVars>>

\* complete_worker_claim: a claim that is completed already is let pass.  The
\* first form drops the resource from the filter and completes every claim of
\* the worker.
FinishWorker(w, r, next) ==
  /\ claims' = claims \ ClaimsOf(w)
  /\ batch' = [batch EXCEPT ![w] = @ \ {r}]
  /\ at' = [at EXCEPT ![w] = IF batch[w] = {r} THEN "idle" ELSE next]
  /\ current' = [current EXCEPT ![w] = None]
  /\ UNCHANGED <<fleetVars, outboxVars, process, busy, skillVars>>
Finish(w, r, next) ==
  /\ claims' = claims \ {Claim(w, r)}
  /\ batch' = [batch EXCEPT ![w] = @ \ {r}]
  /\ at' = [at EXCEPT ![w] = IF batch[w] = {r} THEN "idle" ELSE next]
  /\ current' = [current EXCEPT ![w] = None]
  /\ UNCHANGED <<fleetVars, outboxVars, process, busy, skillVars>>

\* The inner `finally`: the next row follows, unless the operation failed.
CompleteClaim(w) ==
  \/ at[w] = "returned" /\ Finish(w, current[w], "batch")
  \/ at[w] = "failed" /\ Finish(w, current[w], "sweep")
CompletionFails(w) ==
  /\ at[w] \in {"returned", "failed"}
  /\ claims' \in {claims, claims \ {Claim(w, current[w])}}
  /\ at' = [at EXCEPT ![w] = "sweep"]
  /\ current' = [current EXCEPT ![w] = None]
  /\ UNCHANGED <<fleetVars, outboxVars, process, busy, batch, skillVars>>

\* The outer `finally`: the claims that are left, until one cannot be completed.
Sweep(w, r) ==
  at[w] = "sweep" /\ r \in batch[w] /\ Finish(w, r, "sweep")
SweepFails(w) ==
  /\ at[w] = "sweep"
  /\ \E r \in batch[w] : claims' \in {claims, claims \ {Claim(w, r)}}
  /\ at' = [at EXCEPT ![w] = "idle"]
  /\ batch' = [batch EXCEPT ![w] = {}]
  /\ UNCHANGED <<fleetVars, outboxVars, process, busy, current, skillVars>>

DispatchStep(w) ==
  \/ \E rows \in SUBSET Work : ClaimOutbox(w, rows)
  \/ \E r \in Work : StartWorkflow(w, r) \/ StartFails(w, r) \/ Sweep(w, r)
  \/ Deliver(w) \/ DeliverFails(w)
  \/ CompleteClaim(w) \/ CompletionFails(w) \/ SweepFails(w)

-----------------------------------------------------------------------------
(* The operator and the admission of tasks *)

\* request_worker_drain: workers of a revision whose heartbeat is fresh.
RequestDrain(rev) ==
  /\ row' = [w \in Workers |->
       IF row[w] \in Active /\ w \notin stale /\ WorkerRevision[w] = rev
       THEN "draining" ELSE row[w]]
  /\ UNCHANGED <<stale, claims, outboxVars, process, busy, dispatchVars, skillVars>>

\* _require_compatible_worker_fleet.  The first form does not look at workers
\* that drain.
FleetWithDraining(rev) ==
  /\ claims = {}
  /\ \A w \in Workers :
       row[w] \in {"starting", "running"} => WorkerRevision[w] = rev /\ w \notin stale
  /\ \E w \in Workers :
       row[w] = "running" /\ WorkerRevision[w] = rev /\ w \notin stale
CompatibleFleet(rev) ==
  /\ claims = {}
  /\ \A w \in Workers :
       row[w] \in Active => WorkerRevision[w] = rev /\ w \notin stale
  /\ \E w \in Workers :
       row[w] = "running" /\ WorkerRevision[w] = rev /\ w \notin stale

\* publish_reviewed_skill
Publish(p) ==
  /\ publication[p] = "none"
  /\ RollbackTarget[p] # None => publication[RollbackTarget[p]] = "published"
  /\ publication' = [publication EXCEPT ![p] = "published"]
  /\ UNCHANGED <<fleetVars, claims, outboxVars, process, busy, dispatchVars,
                 selected, admitted>>

\* select_reviewed_skill
Select(p) ==
  /\ CompatibleFleet(PublicationRevision[p])
  /\ Selectable(p)
  /\ selected' = p
  /\ UNCHANGED <<fleetVars, claims, outboxVars, process, busy, dispatchVars,
                 publication, admitted>>

\* rollback_reviewed_skill
Rollback(p) ==
  /\ selected \notin {None, p}
  /\ CompatibleFleet(PublicationRevision[p])
  /\ publication[selected] = "published"
  /\ RollbackTarget[selected] = p
  /\ Selectable(p)
  /\ publication' = [publication EXCEPT ![selected] = "rolled_back"]
  /\ selected' = p
  /\ UNCHANGED <<fleetVars, claims, outboxVars, process, busy, dispatchVars, admitted>>

\* _require_selected_reviewed_publication, in the create_task of an agent's
\* activity, and the pinned identity it stores.
Admit(w, t) ==
  /\ w \in busy /\ admitted[t] = None
  /\ selected # None
  /\ Selectable(selected)
  /\ PublicationRevision[selected] = WorkerRevision[w]
  /\ CompatibleFleet(WorkerRevision[w])
  /\ admitted' = [admitted EXCEPT ![t] = selected]
  /\ UNCHANGED <<fleetVars, claims, outboxVars, process, busy, dispatchVars,
                 publication, selected>>

SkillStep ==
  \/ \E rev \in Revisions : RequestDrain(rev)
  \/ \E p \in Publications : Publish(p) \/ Select(p) \/ Rollback(p)
  \/ \E w \in Workers, t \in Tasks : Admit(w, t)

Next ==
  \/ \E w \in Workers : ProcessStep(w) \/ DispatchStep(w)
  \/ \E r \in Work : LeaseEnds(r)
  \/ SkillStep

Spec == Init /\ [][Next]_vars

\* A dispatcher that lives keeps its heartbeat and its ticks; an operation that
\* it tries again and again succeeds some time; leases end.
FairSpec ==
  /\ Spec
  /\ \A w \in Workers :
       /\ SF_vars(Heartbeat(w))
       /\ SF_vars(\E rows \in SUBSET Work : ClaimOutbox(w, rows))
       /\ SF_vars(\E r \in Work : StartWorkflow(w, r))
       /\ SF_vars(Deliver(w))
       /\ SF_vars(CompleteClaim(w))
       /\ SF_vars(\E r \in Work : Sweep(w, r))
  /\ \A r \in Work : WF_vars(LeaseEnds(r))

-----------------------------------------------------------------------------
(* Properties *)

Typed ==
  /\ row \in [Workers -> {"none", "drained"} \union Active]
  /\ stale \subseteq Workers /\ busy \subseteq Workers
  /\ claims \subseteq Workers \X Work
  /\ leased \subseteq Work /\ delivered \subseteq Work
  /\ process \in [Workers -> {"absent", "registered", "serving", "closing",
                              "closed", "gone"}]
  /\ at \in [Workers -> {"idle", "batch", "started", "returned", "failed", "sweep"}]
  /\ batch \in [Workers -> SUBSET Work]
  /\ current \in [Workers -> Work \union {None}]
  /\ \A w \in Workers : current[w] \in batch[w] \union {None}
  /\ publication \in [Publications -> {"none", "published", "rolled_back"}]
  /\ selected \in Publications \union {None}
  /\ admitted \in [Tasks -> Publications \union {None}]

\* The types, and what starting work relies on: as long as a dispatcher may
\* start or acknowledge a row of its batch, it holds the claim of that row,
\* though it completes the claims of other rows meanwhile, heartbeats and drain
\* requests come between, and the leases of the rows may have ended
\* (_dispatch_claim_batch, complete_worker_claim).
ClaimsCoverBatch ==
  \A w \in Workers :
    at[w] \in {"batch", "started", "returned"} =>
      \A r \in batch[w] : Claim(w, r) \in claims
TypeOK == Typed /\ ClaimsCoverBatch

\* A worker recorded as drained has nothing left to do: its process is gone,
\* it holds no claim, dispatches nothing and executes no activity
\* (mark_worker_drained, and its place after Worker.__aexit__ in main).
DrainedIsQuiet ==
  \A w \in Workers :
    row[w] = "drained" =>
      /\ process[w] = "gone"
      /\ ClaimsOf(w) = {} /\ at[w] = "idle"
      /\ w \notin busy

\* Registration is never blocked by a selection that is not authoritative:
\* whatever operators publish, select and roll back, the selected publication
\* is published (register_worker, rollback_reviewed_skill).
SelectionIsPublished ==
  selected # None => publication[selected] = "published"

\* Heartbeats and claims race with a drain request; once it is in the row, the
\* worker never runs again and takes no further work (heartbeat_worker,
\* lock_running_worker).
DrainIsFinal ==
  [][/\ DrainedIsQuiet'
     /\ \A w \in Workers :
          row[w] \in {"draining", "drained"} =>
            /\ row'[w] \in {"draining", "drained"}
            /\ {c \in claims' : c[1] = w} \subseteq ClaimsOf(w)]_vars

\* The selection changes, and a task is admitted, only at a moment when every
\* process that polls or executes was built from the revision of the
\* publication, whatever its row looks like, and no dispatcher holds work which
\* it may be about to start, even when the lease of that work has ended
\* (_require_compatible_worker_fleet).
Alive == {w \in Workers : process[w] \in {"registered", "serving", "closing"}}
Suits(p) == \A w \in Alive : WorkerRevision[w] = PublicationRevision[p]
Dispatching(w) == at[w] \in {"batch", "started"}
ControlSuitsFleet ==
  [][/\ selected' # selected => Suits(selected')
     /\ \A t \in Tasks : admitted'[t] # admitted[t] => Suits(admitted'[t])
     /\ selected' # selected \/ admitted' # admitted =>
          \A w \in Workers : ~Dispatching(w)]_vars

\* "They become eligible for a safe retry after their ordinary lease ends"
\* (_dispatch_claim_batch): while some worker serves, every row is delivered.
RetriedAfterLease ==
  \A r \in Work :
    <>[](\E w \in Workers : process[w] = "serving" /\ row[w] = "running")
      => <>(r \in delivered)
====
