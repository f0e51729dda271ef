---- MODULE ActionExecution ----
(* Execution of approved external actions: an email, a calendar event, a     *)
(* reservation that must reach the provider at most once.                    *)
(*                                                                           *)
(* Actors, all running concurrently and each interruptible between any two   *)
(* of its steps:                                                             *)
(*   - the owner (API handlers): prepare, approve, cancel, disconnect,       *)
(*     check the result of an uncertain action;                              *)
(*   - the dispatchers of the workers: claim the outbox, start the durable   *)
(*     workflow, mark the row delivered, and run the deadline maintenance;   *)
(*   - the durable workflow engine: schedules up to MaxAttempts attempts of  *)
(*     the execute activity.  An attempt that timed out keeps running next   *)
(*     to its retry, because nothing cancels it;                             *)
(*   - the provider: applies or refuses a request, whose answer may be lost. *)
(*                                                                           *)
(* Every database transaction of the code is one action, since it holds the  *)
(* row locks; every await between two transactions is an interleaving point. *)
(* An exception the handler does not catch (a kill switch, a database error) *)
(* and the death of a worker are the step Crash.                             *)
EXTENDS ActionLifecycle, Naturals, FiniteSets

CONSTANTS
  Actions,          \* identifiers of external actions
  Connections,      \* identifiers of connected accounts
  ConnectionOf,     \* the connection an action's preview is bound to
  Reconcilable,     \* actions whose kind supports a read-only result check
  Dispatchers,      \* dispatcher loops, one per worker
  MaxAttempts,      \* maximum_attempts of the execute activity
  MaxDailyActions,  \* settings.max_daily_actions, within one day
  MaxChecks         \* result checks the owner may request

ASSUME ConnectionAssumption == ConnectionOf \in [Actions -> Connections]
ASSUME ReconcilableAssumption == Reconcilable \subseteq Actions
ASSUME AttemptsAssumption == MaxAttempts \in Nat \ {0}
ASSUME LimitsAssumption == MaxDailyActions \in Nat /\ MaxChecks \in Nat

VARIABLES
  trustBoundary, \* connector_trust_boundary_enabled, off by default
  connected,     \* connections that are active
  state,         \* state of each action row
  approved,      \* approved_at is set
  lapsed,        \* expires_at has passed
  claimant,      \* the attempt that committed started_at, NoCaller before that
  overdue,       \* started_at is more than ten minutes ago
  grant,         \* execution grant of each action and purpose
  leased,        \* lease_until is in the future
  delivered,     \* the outbox row was acknowledged
  claimed,       \* <<dispatcher, action>> pairs claimed and not finished with
  accepted,      \* claimed pairs whose workflow start the engine answered
  workflow,      \* the durable workflow of each action
  pc,            \* where each caller of the action service stands
  sent,          \* mutation requests sent to the provider
  provider,      \* what became of the request at the provider
  checks         \* result checks the owner has requested

ownerVars == <<trustBoundary, connected, approved>>
clockVars == <<lapsed, overdue>>
outboxVars == <<leased, delivered, claimed, accepted>>
providerVars == <<sent, provider>>
vars == <<trustBoundary, connected, state, approved, lapsed, claimant, overdue,
          grant, leased, delivered, claimed, accepted, workflow, pc, sent,
          provider, checks>>

\* Attempts of the execute activity, numbered as the engine schedules them;
\* caller 0 is the API process serving the owner's result check.
Owner == 0
Attempts == 1 .. MaxAttempts
Callers == Attempts \union {Owner}
NoCaller == MaxAttempts + 1

Purposes == {"execute", "reconcile"}

\* Steps of ActionService.execute and ActionService.reconcile; a call is done
\* when it has returned, raised or died.
Steps ==
  {"idle", "begin", "load", "authorize", "claim", "access", "credentials",
   "mutate", "waiting", "confirm", "reject_unstarted", "reject", "reconcile",
   "reconcile_access", "lookup", "doubt", "done"}

Init ==
  /\ trustBoundary \in BOOLEAN
  /\ connected = Connections
  /\ state = [a \in Actions |-> "none"]
  /\ approved = [a \in Actions |-> FALSE]
  /\ lapsed = [a \in Actions |-> FALSE]
  /\ claimant = [a \in Actions |-> NoCaller]
  /\ overdue = [a \in Actions |-> FALSE]
  /\ grant = [a \in Actions |-> [u \in Purposes |-> "none"]]
  /\ leased = [a \in Actions |-> FALSE]
  /\ delivered = [a \in Actions |-> FALSE]
  /\ claimed = {}
  /\ accepted = {}
  /\ workflow = [a \in Actions |-> "none"]
  /\ pc = [a \in Actions |-> [p \in Callers |-> "idle"]]
  /\ sent = [a \in Actions |-> 0]
  /\ provider = [a \in Actions |-> "untouched"]
  /\ checks = [a \in Actions |-> 0]

SetState(a, s) == state' = [state EXCEPT ![a] = s]
GoTo(a, p, step) == pc' = [pc EXCEPT ![a][p] = step]
Online(a) == ConnectionOf[a] \in connected

-----------------------------------------------------------------------------
(* The owner's API handlers *)

\* An immutable preview is stored for review.
Prepare(a) ==
  /\ state[a] = "none"
  /\ Online(a)
  /\ SetState(a, "awaiting_approval")
  /\ UNCHANGED <<ownerVars, clockVars, claimant, grant, outboxVars, workflow,
                 pc, providerVars, checks>>

\* The owner approves the exact preview.  A replayed approval returns the row
\* and changes nothing.
Approve(a) ==
  /\ state[a] = "awaiting_approval"
  /\ ~lapsed[a]
  /\ Online(a)
  /\ Cardinality({b \in Actions : approved[b]}) < MaxDailyActions
  /\ SetState(a, "queued")
  /\ approved' = [approved EXCEPT ![a] = TRUE]
  /\ UNCHANGED <<trustBoundary, connected, clockVars, claimant, grant,
                 outboxVars, workflow, pc, providerVars, checks>>

\* Stops an action nobody has claimed.
Cancel(a) ==
  /\ state[a] \in Unclaimed
  /\ SetState(a, "cancelled")
  /\ UNCHANGED <<ownerVars, clockVars, claimant, grant, outboxVars, workflow,
                 pc, providerVars, checks>>

\* What a disconnect leaves of the grants and of the rows of the connection.
CancelUnclaimed(c) ==
  [a \in Actions |->
     IF ConnectionOf[a] = c /\ state[a] \in Unclaimed THEN "cancelled" ELSE state[a]]
RevokeGrants(c) ==
  [a \in Actions |-> [u \in Purposes |->
     IF ConnectionOf[a] = c /\ grant[a][u] = "active" THEN "revoked" ELSE grant[a][u]]]

\* The owner disconnects an account, or reconnecting replaces it: live grants
\* are revoked and every unclaimed action on it is cancelled, in one
\* transaction.  A reconnected account is a new connection identifier.
Disconnect(c) ==
  /\ connected' = connected \ {c}
  /\ state' = CancelUnclaimed(c)
  /\ grant' = RevokeGrants(c)
  /\ UNCHANGED <<trustBoundary, approved, clockVars, claimant, outboxVars,
                 workflow, pc, providerVars, checks>>

\* Where a caller that must find out what happened goes next.  `Entry` for one
\* without credentials; a caller that sent the request still holds its token.
ReconcileEntry(a) ==
  IF a \notin Reconcilable THEN "doubt"
  ELSE IF trustBoundary THEN "reconcile" ELSE "reconcile_access"
ReconcileWithToken(a) == IF a \in Reconcilable THEN "lookup" ELSE "doubt"

\* reserve_reconciliation counts the checks of an action; off by one first.
ChecksLeftInclusive(a) == checks[a] <= MaxChecks
ChecksLeft(a) == checks[a] < MaxChecks

\* The owner asks for the result of an uncertain action to be checked.
OwnerReconcile(a) ==
  /\ state[a] = "outcome_unknown"
  /\ a \in Reconcilable
  /\ ChecksLeft(a)
  /\ pc[a][Owner] \in {"idle", "done"}
  /\ checks' = [checks EXCEPT ![a] = @ + 1]
  /\ GoTo(a, Owner, ReconcileEntry(a))
  /\ UNCHANGED <<ownerVars, state, clockVars, claimant, grant, outboxVars,
                 workflow, providerVars>>

-----------------------------------------------------------------------------
(* Time *)

\* The approval deadline of a live row passes.
Lapse(a) ==
  /\ state[a] \in Unclaimed \union {"executing"}
  /\ ~lapsed[a]
  /\ lapsed' = [lapsed EXCEPT ![a] = TRUE]
  /\ UNCHANGED <<ownerVars, state, overdue, claimant, grant, outboxVars,
                 workflow, pc, providerVars, checks>>

\* Ten minutes pass since the execution was claimed.
BecomeOverdue(a) ==
  /\ state[a] = "executing"
  /\ ~overdue[a]
  /\ overdue' = [overdue EXCEPT ![a] = TRUE]
  /\ UNCHANGED <<ownerVars, state, lapsed, claimant, grant, outboxVars,
                 workflow, pc, providerVars, checks>>

\* The thirty seconds of an outbox lease pass.
LeaseEnds(a) ==
  /\ leased[a]
  /\ leased' = [leased EXCEPT ![a] = FALSE]
  /\ UNCHANGED <<ownerVars, state, clockVars, claimant, grant, delivered,
                 claimed, accepted, workflow, pc, providerVars, checks>>

-----------------------------------------------------------------------------
(* The dispatchers *)

Holding(d) == {a \in Actions : <<d, a>> \in claimed}

\* What the deadline maintenance makes of a row: an unclaimed row past its
\* deadline expires, an execution claimed too long ago is uncertain.  The
\* first two forms are plausible slips: an abandoned execution is called
\* failed, or is forgotten.
MaintainedForgets(a) ==
  IF state[a] \in Unclaimed /\ lapsed[a] THEN "expired" ELSE state[a]
MaintainedFails(a) ==
  IF state[a] \in Unclaimed /\ lapsed[a] THEN "expired"
  ELSE IF state[a] = "executing" /\ overdue[a] THEN "failed"
  ELSE state[a]
Maintained(a) ==
  IF state[a] \in Unclaimed /\ lapsed[a] THEN "expired"
  ELSE IF state[a] = "executing" /\ overdue[a] THEN "outcome_unknown"
  ELSE state[a]

\* Rows the outbox query may return once the maintenance ran.
Dispatchable(a) ==
  /\ state[a] = "queued"
  /\ ~lapsed[a]
  /\ ~delivered[a]
  /\ ~leased[a]

\* One transaction of a dispatcher: maintenance of every row but the `locked`
\* ones (FOR UPDATE SKIP LOCKED), then the claim of a batch of dispatchable
\* rows.  The batch is any set of them: the query has a limit, and leaves out
\* locked rows and rows that wait for their agent run.
ClaimOutbox(d, locked, batch) ==
  /\ Holding(d) = {}
  /\ batch \subseteq {a \in Actions : Dispatchable(a)}
  /\ state' = [a \in Actions |-> IF a \in locked THEN state[a] ELSE Maintained(a)]
  /\ leased' = [a \in Actions |-> leased[a] \/ a \in batch]
  /\ claimed' = claimed \union {<<d, a>> : a \in batch}
  /\ UNCHANGED <<ownerVars, clockVars, claimant, grant, delivered, accepted,
                 workflow, pc, providerVars, checks>>

\* The dispatcher asks the engine to start the workflow; a workflow with that
\* identifier, running or closed, is left alone (REJECT_DUPLICATE).
StartWorkflow(d, a) ==
  /\ <<d, a>> \in claimed \ accepted
  /\ workflow' = [workflow EXCEPT ![a] = IF @ = "none" THEN "running" ELSE @]
  /\ accepted' = accepted \union {<<d, a>>}
  /\ UNCHANGED <<ownerVars, state, clockVars, claimant, grant, leased,
                 delivered, claimed, pc, providerVars, checks>>

\* The dispatcher acknowledges the outbox row and closes its claim on it.  The
\* first form is a plausible slip: acknowledge before the engine has answered.
AcknowledgedEarly(d, a) == <<d, a>> \in claimed
Acknowledged(d, a) == <<d, a>> \in accepted
Deliver(d, a) ==
  /\ Acknowledged(d, a)
  /\ delivered' = [delivered EXCEPT ![a] = TRUE]
  /\ claimed' = claimed \ {<<d, a>>}
  /\ accepted' = accepted \ {<<d, a>>}
  /\ UNCHANGED <<ownerVars, state, clockVars, claimant, grant, leased,
                 workflow, pc, providerVars, checks>>

\* The engine does not answer, or the worker dies: the rest of the batch is
\* let go without being acknowledged and waits for its lease to end.
AbandonBatch(d) ==
  /\ Holding(d) # {}
  /\ claimed' = {c \in claimed : c[1] # d}
  /\ accepted' = {c \in accepted : c[1] # d}
  /\ UNCHANGED <<ownerVars, state, clockVars, claimant, grant, leased,
                 delivered, workflow, pc, providerVars, checks>>

-----------------------------------------------------------------------------
(* The durable workflow engine (external, as the workflow definition uses it) *)

\* An attempt is scheduled first, or after the previous one failed or timed
\* out.  An attempt that timed out is not stopped.
StartAttempt(a, i) ==
  /\ workflow[a] = "running"
  /\ pc[a][i] = "idle"
  /\ i = 1 \/ pc[a][i - 1] # "idle"
  /\ GoTo(a, i, "begin")
  /\ UNCHANGED <<ownerVars, state, clockVars, claimant, grant, outboxVars,
                 workflow, providerVars, checks>>

\* The workflow returns: the execute activity completed, or the workflow ran
\* into its execution timeout.
CloseWorkflow(a) ==
  /\ workflow[a] = "running"
  /\ workflow' = [workflow EXCEPT ![a] = "closed"]
  /\ UNCHANGED <<ownerVars, state, clockVars, claimant, grant, outboxVars, pc,
                 providerVars, checks>>

\* The execute activity used up its attempts or its schedule-to-close time.
GiveUp(a) ==
  /\ workflow[a] = "running"
  /\ workflow' = [workflow EXCEPT ![a] = "interrupting"]
  /\ UNCHANGED <<ownerVars, state, clockVars, claimant, grant, outboxVars, pc,
                 providerVars, checks>>

\* The activity shuddho_action_interrupted_v1.  It may be retried, run late or
\* never run, so the workflow stays in this phase.
RecordInterrupted(a) ==
  /\ workflow[a] = "interrupting"
  /\ SetState(a, FinishState(state[a], "outcome_unknown", FALSE))
  /\ UNCHANGED <<ownerVars, clockVars, claimant, grant, outboxVars, workflow,
                 pc, providerVars, checks>>

-----------------------------------------------------------------------------
(* ActionService.execute, one attempt p of the activity *)

\* worker_get: the attempt reads the row, and acts on what it read until it
\* claims.
Branch(a) ==
  CASE state[a] = "queued" -> "load"
    [] state[a] \in {"executing", "outcome_unknown"} -> ReconcileEntry(a)
    [] OTHER -> "done"
ReadRow(a, p) ==
  /\ pc[a][p] = "begin"
  /\ GoTo(a, p, Branch(a))
  /\ UNCHANGED <<ownerVars, state, clockVars, claimant, grant, outboxVars,
                 workflow, providerVars, checks>>

\* The approved attachments are fetched and hashed again, or are unavailable.
LoadAttachments(a, p) ==
  /\ pc[a][p] = "load"
  /\ \E next \in {"authorize", "reject_unstarted"} : GoTo(a, p, next)
  /\ UNCHANGED <<ownerVars, state, clockVars, claimant, grant, outboxVars,
                 workflow, providerVars, checks>>

\* PermissionGateway.authorize_action for one purpose: the rows allow it, and
\* the grant of this purpose, if there is one, is still usable.  A grant to
\* execute expires with the approval; one to reconcile is renewed.
Admissible(a, purpose) ==
  /\ Online(a)
  /\ approved[a]
  /\ IF purpose = "execute"
     THEN state[a] \in {"queued", "executing"}
     ELSE state[a] \in {"executing", "outcome_unknown"}
  /\ ~(lapsed[a] /\ state[a] = "queued")
Authorizable(a, purpose) ==
  /\ Admissible(a, purpose)
  /\ grant[a][purpose] # "revoked"
  /\ ~(purpose = "execute" /\ grant[a][purpose] = "active" /\ lapsed[a])

\* validate_grant and the credential read that follows it.
GrantValid(a, purpose) ==
  /\ Admissible(a, purpose)
  /\ grant[a][purpose] = "active"
  /\ purpose = "execute" => ~lapsed[a]
CredentialsReadable(a, purpose) ==
  /\ Online(a)
  /\ grant[a][purpose] = "active"
  /\ purpose = "execute" => ~lapsed[a]

\* Where an authorized attempt goes.
OnceAuthorized == "claim"

\* With the trust boundary the attempt obtains an execution grant; without it,
\* it exchanges the stored credentials for a token before the claim.  The
\* exchange is a call to the provider and may fail.
Authorize(a, p) ==
  /\ pc[a][p] = "authorize"
  /\ \/ /\ trustBoundary
        /\ Authorizable(a, "execute")
        /\ grant' = [grant EXCEPT ![a]["execute"] = "active"]
        /\ GoTo(a, p, OnceAuthorized)
     \/ /\ trustBoundary
        /\ ~Authorizable(a, "execute")
        /\ GoTo(a, p, "reject_unstarted")
        /\ UNCHANGED grant
     \/ /\ ~trustBoundary
        /\ \E next \in {"reject_unstarted"} \union (IF Online(a) THEN {OnceAuthorized} ELSE {}) :
             GoTo(a, p, next)
        /\ UNCHANGED grant
  /\ UNCHANGED <<ownerVars, state, clockVars, claimant, outboxVars, workflow,
                 providerVars, checks>>

\* Whether claim_execution may take the row.  In a plausible slip any unsettled
\* row may be claimed.
ClaimableAgain(a) == state[a] \in {"queued", "executing"} /\ Online(a) /\ ~lapsed[a]
Claimable(a) == state[a] = "queued" /\ Online(a) /\ ~lapsed[a]

\* claim_execution commits `executing` and started_at before any mutation.
Claim(a, p) ==
  /\ pc[a][p] = "claim"
  /\ Claimable(a)
  /\ SetState(a, "executing")
  /\ claimant' = [claimant EXCEPT ![a] = p]
  /\ GoTo(a, p, IF trustBoundary THEN "access" ELSE "mutate")
  /\ UNCHANGED <<ownerVars, clockVars, grant, outboxVars, workflow,
                 providerVars, checks>>

\* claim_execution refuses: the row is no longer queued, its connection is
\* gone, the approval expired, the bound source or the feature is no longer
\* valid (cancelled), or the event has started (failed).
ClaimRefused(a, p) ==
  /\ pc[a][p] = "claim"
  /\ IF state[a] # "queued" THEN UNCHANGED state
     ELSE \E s \in IF ~Online(a) THEN {"cancelled"}
                   ELSE IF lapsed[a] THEN {"expired"}
                   ELSE {"cancelled", "failed"} : SetState(a, s)
  /\ GoTo(a, p, "done")
  /\ UNCHANGED <<ownerVars, clockVars, claimant, grant, outboxVars, workflow,
                 providerVars, checks>>

\* CredentialBroker.issue_access validates the grant in one transaction ...
ValidateGrant(a, p) ==
  /\ pc[a][p] = "access"
  /\ GoTo(a, p, IF GrantValid(a, "execute") THEN "credentials" ELSE "reject")
  /\ UNCHANGED <<ownerVars, state, clockVars, claimant, grant, outboxVars,
                 workflow, providerVars, checks>>

\* ... and reads the credentials in another one; the exchange for a token that
\* follows may fail.  The first form is a plausible slip: the second
\* transaction trusts the first.
ReadableTrusted(a) == TRUE
Readable(a) == CredentialsReadable(a, "execute")
ReadCredentials(a, p) ==
  /\ pc[a][p] = "credentials"
  /\ \E next \in {"reject"} \union (IF Readable(a) THEN {"mutate"} ELSE {}) :
       GoTo(a, p, next)
  /\ UNCHANGED <<ownerVars, state, clockVars, claimant, grant, outboxVars,
                 workflow, providerVars, checks>>

\* adapter.execute puts the mutation request on the wire.
Send(a, p) ==
  /\ pc[a][p] = "mutate"
  /\ sent' = [sent EXCEPT ![a] = @ + 1]
  /\ provider' = [provider EXCEPT ![a] = "inflight"]
  /\ GoTo(a, p, "waiting")
  /\ UNCHANGED <<ownerVars, state, clockVars, claimant, grant, outboxVars,
                 workflow, checks>>

\* What a failure of adapter.execute without a definitive answer leads to.
AfterLostAnswer(a) == ReconcileWithToken(a)

\* The answer of adapter.execute: a valid receipt; a definitive refusal; or
\* nothing conclusive (timeout, malformed receipt, unexpected error).
Answer(a, p) ==
  /\ pc[a][p] = "waiting"
  /\ \/ /\ provider[a] = "applied"
        /\ GoTo(a, p, "confirm")
        /\ UNCHANGED provider
     \/ /\ provider[a] = "inflight"
        /\ provider' = [provider EXCEPT ![a] = "refused"]
        /\ GoTo(a, p, "reject")
     \/ /\ GoTo(a, p, AfterLostAnswer(a))
        /\ UNCHANGED provider
  /\ UNCHANGED <<ownerVars, state, clockVars, claimant, grant, outboxVars,
                 workflow, sent, checks>>

\* The provider carries out a request it received (external), possibly long
\* after the caller stopped waiting.
ProviderApplies(a) ==
  /\ provider[a] = "inflight"
  /\ provider' = [provider EXCEPT ![a] = "applied"]
  /\ UNCHANGED <<ownerVars, state, clockVars, claimant, grant, outboxVars,
                 workflow, pc, sent, checks>>

-----------------------------------------------------------------------------
(* ActionService.reconcile, by an attempt or for the owner *)

\* A grant to reconcile, with the trust boundary only.
AuthorizeReconcile(a, p) ==
  /\ pc[a][p] = "reconcile"
  /\ IF Authorizable(a, "reconcile")
     THEN /\ grant' = [grant EXCEPT ![a]["reconcile"] = "active"]
          /\ GoTo(a, p, "reconcile_access")
     ELSE GoTo(a, p, "doubt") /\ UNCHANGED grant
  /\ UNCHANGED <<ownerVars, state, clockVars, claimant, outboxVars, workflow,
                 providerVars, checks>>

\* Credentials for the read-only check; the exchange may fail.  The last
\* transaction of the exchange decides, so the validation is not a step here.
ReconcileAccess(a, p) ==
  /\ pc[a][p] = "reconcile_access"
  /\ \E next \in {"doubt"} \union
          (IF Online(a) /\ (trustBoundary => grant[a]["reconcile"] = "active")
           THEN {"lookup"} ELSE {}) : GoTo(a, p, next)
  /\ UNCHANGED <<ownerVars, state, clockVars, claimant, grant, outboxVars,
                 workflow, providerVars, checks>>

\* adapter.reconcile finds the matching provider object, or cannot tell.  The
\* first form is a plausible slip: a request on its way counts as done.
FoundAny(a) == provider[a] # "untouched"
Found(a) == provider[a] = "applied"
Lookup(a, p) ==
  /\ pc[a][p] = "lookup"
  /\ \E next \in {"doubt"} \union (IF Found(a) THEN {"confirm"} ELSE {}) :
       GoTo(a, p, next)
  /\ UNCHANGED <<ownerVars, state, clockVars, claimant, grant, outboxVars,
                 workflow, providerVars, checks>>

-----------------------------------------------------------------------------
(* ActionRepository.finish *)

\* What a caller standing at a step reports.
Report(step) ==
  CASE step = "confirm" -> "succeeded"
    [] step \in {"reject", "reject_unstarted"} -> "failed"
    [] step = "doubt" -> "outcome_unknown"

Finish(a, p) ==
  /\ pc[a][p] \in {"confirm", "reject", "reject_unstarted", "doubt"}
  /\ SetState(a, FinishState(state[a], Report(pc[a][p]),
                             pc[a][p] = "reject_unstarted"))
  /\ GoTo(a, p, "done")
  /\ UNCHANGED <<ownerVars, clockVars, claimant, grant, outboxVars, workflow,
                 providerVars, checks>>

\* The process dies or the handler raises; nothing is rolled back.
Crash(a, p) ==
  /\ pc[a][p] \notin {"idle", "done"}
  /\ GoTo(a, p, "done")
  /\ UNCHANGED <<ownerVars, state, clockVars, claimant, grant, outboxVars,
                 workflow, providerVars, checks>>

-----------------------------------------------------------------------------

OwnerStep ==
  \/ \E a \in Actions : Prepare(a) \/ Approve(a) \/ Cancel(a) \/ OwnerReconcile(a)
  \/ \E c \in Connections : Disconnect(c)

TimePasses == \E a \in Actions : Lapse(a) \/ BecomeOverdue(a) \/ LeaseEnds(a)

Maintain(d, locked) == \E batch \in SUBSET Actions : ClaimOutbox(d, locked, batch)
HandleBatch(d) ==
  \/ \E a \in Actions : StartWorkflow(d, a) \/ Deliver(d, a)
  \/ AbandonBatch(d)
DispatcherStep ==
  \E d \in Dispatchers :
    (\E locked \in SUBSET Actions : Maintain(d, locked)) \/ HandleBatch(d)

EngineStep ==
  \E a \in Actions :
    \/ \E i \in Attempts : StartAttempt(a, i)
    \/ CloseWorkflow(a) \/ GiveUp(a) \/ RecordInterrupted(a)

ExecuteStep(a, p) ==
  \/ ReadRow(a, p) \/ LoadAttachments(a, p) \/ Authorize(a, p) \/ Claim(a, p)
  \/ ClaimRefused(a, p) \/ ValidateGrant(a, p) \/ ReadCredentials(a, p)
  \/ Send(a, p) \/ Answer(a, p)
ReconcileStep(a, p) ==
  AuthorizeReconcile(a, p) \/ ReconcileAccess(a, p) \/ Lookup(a, p)
ServiceStep ==
  \E a \in Actions, p \in Callers :
    ExecuteStep(a, p) \/ ReconcileStep(a, p) \/ Finish(a, p) \/ Crash(a, p)

ProviderStep == \E a \in Actions : ProviderApplies(a)

Next ==
  \/ OwnerStep \/ TimePasses \/ DispatcherStep
  \/ EngineStep \/ ServiceStep \/ ProviderStep

\* Clocks advance, and one dispatcher loop keeps ticking: it finishes with its
\* batch, and now and then a tick finds no row locked.  Nothing else is fair;
\* attempts may hang, workers die and the engine or the owner may do nothing.
Fairness ==
  /\ \A a \in Actions : WF_vars(Lapse(a)) /\ WF_vars(BecomeOverdue(a))
  /\ WF_vars(\E d \in Dispatchers : HandleBatch(d))
  /\ WF_vars(\E d \in Dispatchers : Maintain(d, {}))

Spec == Init /\ [][Next]_vars
FairSpec == Spec /\ Fairness

-----------------------------------------------------------------------------
(* Properties *)

TypeOK ==
  /\ trustBoundary \in BOOLEAN
  /\ connected \subseteq Connections
  /\ state \in [Actions -> ActionStates]
  /\ approved \in [Actions -> BOOLEAN]
  /\ lapsed \in [Actions -> BOOLEAN]
  /\ claimant \in [Actions -> Callers \union {NoCaller}]
  /\ overdue \in [Actions -> BOOLEAN]
  /\ grant \in [Actions -> [Purposes -> {"none", "active", "revoked"}]]
  /\ leased \in [Actions -> BOOLEAN]
  /\ delivered \in [Actions -> BOOLEAN]
  /\ claimed \subseteq Dispatchers \X Actions
  /\ accepted \subseteq claimed
  /\ workflow \in [Actions -> {"none", "running", "interrupting", "closed"}]
  /\ pc \in [Actions -> [Callers -> Steps]]
  /\ sent \in [Actions -> Nat]
  /\ provider \in [Actions -> {"untouched", "inflight", "applied", "refused"}]
  /\ checks \in [Actions -> 0 .. MaxChecks]

Claimed(a) == claimant[a] # NoCaller

\* No interleaving of retries, timed-out attempts, crashes, owner checks and
\* repeated dispatch sends a second mutation request for one action, and there
\* is one only for an action its owner approved and whose row a committed claim
\* had marked as started (ActionService.execute, claim_execution).
AtMostOneMutation ==
  \A a \in Actions :
    /\ sent[a] <= 1
    /\ sent[a] > 0 => approved[a] /\ Claimed(a)

\* What the owner is told is true: a failed, cancelled or expired action has no
\* effect at the provider, none under way and no caller left that could still
\* cause one, and a succeeded action was carried out by the provider.
SettledIsTrue ==
  \A a \in Actions :
    /\ state[a] \in NotExecuted =>
         /\ provider[a] \in {"untouched", "refused"}
         /\ \A p \in Callers : pc[a][p] \notin {"access", "credentials", "mutate", "waiting"}
    /\ state[a] = "succeeded" => provider[a] = "applied"

\* No live grant and no unclaimed action is left on a disconnected account,
\* whatever authorizations were in progress when it was disconnected.
NothingLiveOffline ==
  \A a \in Actions : ~Online(a) =>
    /\ state[a] \notin Unclaimed
    /\ \A u \in Purposes : grant[a][u] # "active"

\* Nor does any caller obtain credentials, neither to mutate nor to look up, once
\* the account is disconnected; one that holds a token may still use it.
NoAccessOffline ==
  [][/\ NothingLiveOffline'
     /\ \A a \in Actions, p \in Callers :
          /\ pc'[a][p] = "mutate" /\ pc[a][p] # "mutate" => Online(a)
          /\ pc[a][p] = "reconcile_access" /\ pc'[a][p] = "lookup" => Online(a)]_vars

\* An outbox row is acknowledged only after the engine has its workflow, so an
\* approved action cannot be dropped between the database and the engine.
DeliveredHasWorkflow == \A a \in Actions : delivered[a] => workflow[a] # "none"

\* Whatever handlers race on the row, it only moves along the lifecycle: no
\* approval, claim or settlement is ever undone or skipped, and only a
\* confirmation replaces an uncertain outcome.  TransactionBinding relies on it.
FollowsLifecycle ==
  [][\A a \in Actions :
       state'[a] # state[a] => state'[a] \in Successors(state[a])]_vars

\* Every approved action is eventually settled for its owner, whatever dies.
ApprovedIsSettled == \A a \in Actions : approved[a] ~> state[a] \in Terminal

\* How the detailed state reads at the level of the promise.
OutcomeOf(a) ==
  CASE state[a] \in {"none", "awaiting_approval"} -> "proposed"
    [] state[a] = "queued" -> "authorized"
    [] state[a] = "executing" -> "committed"
    [] state[a] = "succeeded" -> "confirmed"
    [] state[a] = "outcome_unknown" -> "uncertain"
    [] state[a] = "failed" /\ Claimed(a) -> "rejected"
    [] OTHER -> "withdrawn"

Promise(a) == INSTANCE OneShotAction
  WITH outcome <- OutcomeOf(a), applied <- (provider[a] = "applied")

\* The service implements the one-shot promise for every action: this is
\* \A a \in Actions : Promise(a)!Spec, in the form TLC can check.
KeepsPromise ==
  /\ \A a \in Actions : Promise(a)!Init
  /\ [][\A a \in Actions : Promise(a)!Next \/ UNCHANGED Promise(a)!vars]_vars
====
