---- MODULE TransactionBinding ----
(* A business transaction (a reservation, a purchase) and the one external   *)
(* action that carries it out.  The transaction has revisions and exact      *)
(* terms whose quote expires; the owner reviews a revision; a request turns  *)
(* the review into an action (ActionRepository.prepare) and links the two    *)
(* (TransactionRepository.bind_external_action) in two database              *)
(* transactions; approval and claim of the action look at the transaction,   *)
(* but do not write it: what the provider did reaches the transaction only   *)
(* when somebody synchronizes it.                                            *)
(*                                                                           *)
(* One transaction is modelled.  Its action has the idempotency key          *)
(* "restaurant-reservation:" <transaction>, so there is at most one.  The    *)
(* action row moves along ActionLifecycle!Successors, which ActionExecution  *)
(* is checked to respect; accounts, connections and daily limits only make   *)
(* an operation refuse, which is an operation not taken here.                *)
EXTENDS ActionLifecycle, Naturals, Sequences, FiniteSets

CONSTANTS
  Requests,     \* concurrent API requests that prepare the provider action
  MaxRevision   \* bound on the revisions the owner makes

ASSUME RevisionAssumption == MaxRevision \in Nat

VARIABLES
  tstate,    \* state of the transaction
  revision,  \* its revision, incremented by every change
  terms,     \* current_terms_revision, 0 if there are no terms
  fresh,     \* the quote of the current terms has not expired
  reviews,   \* the reviews the owner confirmed, as the event ledger has them
  row,       \* state of the external action
  binding,   \* the review the action's immutable preview is bound to
  started,   \* started_at of the action is set
  link,      \* the review the execution link carries
  held,      \* the review each request read, NoReview if it is not running
  pc,        \* where each request stands
  evidence,  \* reconciliation evidence: action states observed, at a revision
  observed   \* the events recorded beside them

ownerVars == <<terms, fresh, reviews>>
txVars == <<tstate, revision>>
actionVars == <<row, binding, started>>
requestVars == <<held, pc>>
ledgerVars == <<evidence, observed>>
vars == <<tstate, revision, terms, fresh, reviews, row, binding, started,
          link, held, pc, evidence, observed>>

TransactionStates ==
  {"draft", "terms_ready", "awaiting_review", "awaiting_approval", "approved",
   "executing", "confirmed", "cancelled", "expired", "failed",
   "outcome_unknown"}
Editable == {"draft", "terms_ready", "awaiting_review", "awaiting_approval"}

\* A review names the transaction's revision and the terms it is about.
NoReview == [revision |-> 0, terms |-> 0]
CurrentReview == [revision |-> revision, terms |-> terms]
HasTerms == terms # 0 /\ fresh

Init ==
  /\ tstate = "draft"
  /\ revision = 1
  /\ terms = 0
  /\ fresh = FALSE
  /\ reviews = {}
  /\ row = "none"
  /\ binding = NoReview
  /\ started = FALSE
  /\ link = NoReview
  /\ held = [r \in Requests |-> NoReview]
  /\ pc = [r \in Requests |-> "idle"]
  /\ evidence = <<>>
  /\ observed = <<>>

-----------------------------------------------------------------------------
(* The transaction's own operations, each under the row lock and with the    *)
(* revision its caller expects                                               *)

MoveTo(s) == tstate' = s /\ revision' = revision + 1
Unlinked == link = NoReview

\* New exact terms replace the old ones and any review.  The first form of the
\* condition is a plausible slip: terms stay editable next to an execution.
EditableWhileBound == tstate \in Editable
TermsEditable == Unlinked /\ tstate \in Editable
SetTerms ==
  /\ TermsEditable
  /\ revision < MaxRevision
  /\ MoveTo("terms_ready")
  /\ terms' = revision + 1
  /\ fresh' = TRUE
  /\ UNCHANGED <<reviews, actionVars, link, requestVars, ledgerVars>>

QuoteExpires ==
  /\ fresh
  /\ fresh' = FALSE
  /\ UNCHANGED <<txVars, terms, reviews, actionVars, link, requestVars, ledgerVars>>

\* Opens (or reopens) the review; not once an execution is linked.
StartReview ==
  /\ Unlinked
  /\ tstate \in Editable \ {"awaiting_review"}
  /\ HasTerms
  /\ revision < MaxRevision
  /\ MoveTo("awaiting_review")
  /\ UNCHANGED <<ownerVars, actionVars, link, requestVars, ledgerVars>>

ConfirmReview ==
  /\ tstate = "awaiting_review"
  /\ HasTerms
  /\ revision < MaxRevision
  /\ MoveTo("awaiting_approval")
  /\ reviews' = reviews \union {[revision |-> revision + 1, terms |-> terms]}
  /\ UNCHANGED <<terms, fresh, actionVars, link, requestVars, ledgerVars>>

\* The owner cancels the transaction, bound or not; the linked action is not
\* looked at.  The first form is a plausible slip.
CancellableUntilConfirmed == tstate # "confirmed"
Cancellable == tstate \in Editable
CancelTransaction ==
  /\ Cancellable
  /\ MoveTo("cancelled")
  /\ UNCHANGED <<ownerVars, actionVars, link, requestVars, ledgerVars>>

-----------------------------------------------------------------------------
(* RestaurantReservationService.prepare_action, one request r *)

Step(r, step) == pc' = [pc EXCEPT ![r] = step]
EndRequest(r) ==
  /\ Step(r, "idle")
  /\ held' = [held EXCEPT ![r] = NoReview]

\* The request reads the confirmed review and its fresh terms.
ReadReview(r) ==
  /\ pc[r] = "idle"
  /\ tstate = "awaiting_approval"
  /\ HasTerms
  /\ held' = [held EXCEPT ![r] = CurrentReview]
  /\ Step(r, "prepare")
  /\ UNCHANGED <<txVars, ownerVars, actionVars, link, ledgerVars>>

\* The action is inserted with the review in its preview; the key of an
\* existing action answers with that action if the review is the same.
PrepareAction(r) ==
  /\ pc[r] = "prepare"
  /\ \/ /\ row = "none"
        /\ row' = "awaiting_approval"
        /\ binding' = held[r]
        /\ Step(r, "bind") /\ UNCHANGED held
     \/ /\ row # "none"
        /\ IF binding = held[r] THEN Step(r, "bind") /\ UNCHANGED held
           ELSE EndRequest(r)
        /\ UNCHANGED <<row, binding>>
  /\ UNCHANGED <<started, txVars, ownerVars, link, ledgerVars>>

\* Whether the request may still link the action: the review it read, and the
\* one in the action's preview, are still the current one.
Bindable(r) ==
  /\ tstate = "awaiting_approval"
  /\ HasTerms
  /\ revision = held[r].revision
  /\ binding = CurrentReview

\* bind_external_action, holding both row locks.  A repeated call answers with
\* the link it finds.
Bind(r) ==
  /\ pc[r] = "bind"
  /\ EndRequest(r)
  /\ link' = IF Unlinked /\ row = "awaiting_approval" /\ Bindable(r)
             THEN binding ELSE link
  /\ UNCHANGED <<txVars, ownerVars, actionVars, ledgerVars>>

\* The request dies, or its caller is refused (a limit, a lost connection).
AbandonRequest(r) ==
  /\ pc[r] # "idle"
  /\ EndRequest(r)
  /\ UNCHANGED <<txVars, ownerVars, actionVars, link, ledgerVars>>

-----------------------------------------------------------------------------
(* The external action, which checks the transaction when it is approved and *)
(* when it is claimed                                                        *)

\* _validate_transaction_source_binding: the link is this action's, the terms
\* are the current ones, and the state and freshness allow it.
BoundTo(states) ==
  /\ ~Unlinked
  /\ link = binding
  /\ terms = binding.terms
  /\ tstate \in states
  /\ tstate = "awaiting_approval" => revision = binding.revision

Approvable == row = "awaiting_approval" /\ BoundTo({"awaiting_approval"}) /\ fresh

ApproveAction ==
  /\ Approvable
  /\ row' = "queued"
  /\ UNCHANGED <<txVars, ownerVars, binding, started, link, requestVars, ledgerVars>>

\* Cancelled by the owner, disconnected, or expired.
StopAction ==
  /\ row \in Unclaimed
  /\ row' \in {"cancelled", "expired"}
  /\ UNCHANGED <<txVars, ownerVars, binding, started, link, requestVars, ledgerVars>>

\* claim_execution looks again at the transaction and its quote, both rows
\* under lock.
ClaimableStates == {"awaiting_approval", "approved", "executing"}
ClaimValid == BoundTo(ClaimableStates) /\ fresh

ClaimAction ==
  /\ row = "queued"
  /\ IF ClaimValid THEN row' = "executing" /\ started' = TRUE
     ELSE row' = "cancelled" /\ UNCHANGED started
  /\ UNCHANGED <<txVars, ownerVars, binding, link, requestVars, ledgerVars>>

\* finish, by whoever executes or reconciles (see ActionExecution).
SettleAction ==
  /\ row \in {"queued", "executing", "outcome_unknown"}
  /\ row' \in Successors(row) \intersect Results
  /\ UNCHANGED <<txVars, ownerVars, binding, started, link, requestVars, ledgerVars>>

-----------------------------------------------------------------------------
(* sync_external_action: project the action's state onto the transaction *)

\* The first form is a plausible slip: an uncertain outcome is a failure.
ProjectedPessimistically(s) ==
  CASE s = "queued" -> "approved"
    [] s = "succeeded" -> "confirmed"
    [] s = "outcome_unknown" -> "failed"
    [] OTHER -> s
Projected(s) ==
  CASE s = "queued" -> "approved"
    [] s = "succeeded" -> "confirmed"
    [] OTHER -> s

\* The states a transaction may be moved to, from the states it may be moved
\* from.
Projections ==
  [awaiting_approval |-> {"approved", "executing", "confirmed", "failed",
                          "cancelled", "expired", "outcome_unknown"},
   approved |-> {"executing", "confirmed", "failed", "cancelled", "expired",
                 "outcome_unknown"},
   executing |-> {"confirmed", "failed", "outcome_unknown"},
   outcome_unknown |-> {"confirmed"}]
ProjectionAllowed(from, to) ==
  from = to \/ (from \in DOMAIN Projections /\ to \in Projections[from])

\* The two ledgers agree, entry by entry, and justify a final state.
HistoryVerifies ==
  /\ Len(observed) = Len(evidence)
  /\ \A i \in DOMAIN evidence :
       /\ evidence[i].revision = observed[i].revision
       /\ evidence[i].revision \in link.revision .. revision
       /\ observed[i].seen = evidence[i].seen
       /\ observed[i].state = Projected(evidence[i].seen)
  /\ tstate \in {"confirmed", "failed", "outcome_unknown"} =>
       /\ evidence # <<>>
       /\ Projected(evidence[Len(evidence)].seen) = tstate

\* A revision is made, an observation recorded, only if it says something new.
\* NeverKnown and ObservedRevisionEarly are plausible slips: the same
\* observation is recorded again, or at the revision before it.
Moves == tstate # Projected(row)
NeverKnown == FALSE
AlreadyKnown == \E i \in DOMAIN evidence : evidence[i].seen = row
ObservedRevisionEarly == revision
ObservedRevision == revision'

Sync ==
  /\ ~Unlinked
  /\ link = binding
  /\ terms = link.terms
  /\ HistoryVerifies
  /\ ProjectionAllowed(tstate, Projected(row))
  /\ IF Moves THEN MoveTo(Projected(row)) ELSE UNCHANGED txVars
  /\ IF AlreadyKnown THEN UNCHANGED ledgerVars
     ELSE /\ evidence' = Append(evidence, [seen |-> row, revision |-> ObservedRevision])
          /\ observed' = Append(observed, [seen |-> row, revision |-> revision',
                                           state |-> tstate'])
  /\ UNCHANGED <<ownerVars, actionVars, link, requestVars>>

-----------------------------------------------------------------------------

OwnerStep ==
  SetTerms \/ QuoteExpires \/ StartReview \/ ConfirmReview \/ CancelTransaction
RequestStep ==
  \E r \in Requests :
    ReadReview(r) \/ PrepareAction(r) \/ Bind(r) \/ AbandonRequest(r)
ActionStep == ApproveAction \/ StopAction \/ ClaimAction \/ SettleAction

Next == OwnerStep \/ RequestStep \/ ActionStep \/ Sync

Spec == Init /\ [][Next]_vars

-----------------------------------------------------------------------------
(* Properties *)

Reviews == [revision : Nat, terms : Nat]

TypeOK ==
  /\ tstate \in TransactionStates
  /\ revision \in Nat
  /\ terms \in Nat
  /\ fresh \in BOOLEAN
  /\ reviews \subseteq Reviews
  /\ row \in ActionStates
  /\ binding \in Reviews
  /\ started \in BOOLEAN
  /\ link \in Reviews
  /\ held \in [Requests -> Reviews]
  /\ pc \in [Requests -> {"idle", "prepare", "bind"}]
  /\ evidence \in Seq([seen : ActionStates, revision : Nat])
  /\ observed \in Seq([seen : ActionStates, revision : Nat, state : TransactionStates])
  /\ Len(evidence) <= Cardinality(ActionStates)

\* What executes is what the owner reviewed: an approved action is linked, the
\* link carries the review in the action's preview, the owner confirmed that
\* review, and its terms are still the transaction's, whatever requests raced
\* with new terms or a new review; and looking at the result does not disturb
\* an approval still to come (bind_external_action, set_terms, approve, sync).
BoundToReview ==
  /\ row \notin {"none", "awaiting_approval", "cancelled", "expired"} => ~Unlinked
  /\ ~Unlinked =>
       /\ link = binding
       /\ link \in reviews
       /\ terms = link.terms
       /\ tstate = "awaiting_approval" => revision = link.revision

\* What the action did can always be recorded: no order of synchronizations
\* and of action steps leaves a bound transaction, unless its owner cancelled
\* it, in a state that conflicts with the action's (_state_projection_allowed),
\* or with ledgers that sync_external_action itself would reject.
ObservationNeverBlocked ==
  ~Unlinked =>
    /\ HistoryVerifies
    /\ tstate # "cancelled" => ProjectionAllowed(tstate, Projected(row))

\* A transaction that reached its outcome keeps it, except that a late
\* confirmation resolves doubt; no owner operation reopens it.
Outcomes == {"confirmed", "failed", "cancelled", "expired", "outcome_unknown"}
OutcomeIsFinal ==
  [][(tstate \in Outcomes) =>
       \/ tstate' = tstate
       \/ tstate = "outcome_unknown" /\ tstate' = "confirmed"]_vars

\* A transaction says confirmed, or failed, only of an action that is so.
OutcomeIsTrue ==
  /\ tstate = "confirmed" => row = "succeeded"
  /\ tstate = "failed" => row = "failed"

\* "Cancellation/disconnect can stop unclaimed actions; once claimed, the UI
\* never promises cancellation or that nothing was sent": a cancelled
\* transaction is one whose action was never claimed.
CancelledMeansUnclaimed == tstate = "cancelled" => ~started
====
