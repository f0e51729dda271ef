---- MODULE TransactionBindingProofs ----
(* Proofs about TransactionBinding, for every number of requests and of      *)
(* revisions.                                                                *)
EXTENDS TransactionBinding, FiniteSetTheorems, SequenceTheorems, TLAPS

-----------------------------------------------------------------------------
(* The inductive invariant *)

\* The typing the proofs need: the ledgers are left to their own invariant.
TypeInv ==
  /\ tstate \in TransactionStates
  /\ revision \in Nat \ {0}
  /\ terms \in Nat
  /\ row \in ActionStates
  /\ binding \in Reviews
  /\ link \in Reviews
  /\ held \in [Requests -> Reviews]

\* A review open for approval is one the owner confirmed, at this revision.
ReviewInv == tstate = "awaiting_approval" => CurrentReview \in reviews

\* A linked transaction has its action and is past its reviews.
LinkInv ==
  ~Unlinked =>
    /\ row # "none"
    /\ tstate \notin {"draft", "terms_ready", "awaiting_review"}

BInv == TypeInv /\ ReviewInv /\ LinkInv /\ BoundToReview /\ OutcomeIsTrue

\* A synchronization never opens or repeats a review, and reaches confirmed
\* and failed only with the action.
LEMMA ProjectionFacts ==
  ASSUME TypeInv, Sync
  PROVE  /\ tstate' \in TransactionStates \ {"draft", "terms_ready", "awaiting_review"}
         /\ tstate' = "awaiting_approval" => UNCHANGED <<tstate, revision>>
         /\ tstate' = "confirmed" => row = "succeeded"
         /\ tstate' = "failed" => row = "failed"
         /\ revision' \in {revision, revision + 1}
         /\ UNCHANGED <<terms, reviews, row, binding, link, held>>
<1> USE DEF TypeInv, Sync, MoveTo, Moves, txVars, ownerVars, actionVars, requestVars
<1>1. tstate' = Projected(row)
  OBVIOUS
<1>2. tstate' # tstate => tstate \in DOMAIN Projections /\ tstate' \in Projections[tstate]
  BY <1>1 DEF ProjectionAllowed
<1>3. tstate' \in TransactionStates
  BY <1>2 DEF Projections, TransactionStates
<1>4. tstate' = "awaiting_approval" => UNCHANGED <<tstate, revision>>
  BY <1>1, <1>2 DEF Projections
<1>5. /\ tstate' \notin {"draft", "terms_ready", "awaiting_review"}
      /\ tstate' = "confirmed" => row = "succeeded"
      /\ tstate' = "failed" => row = "failed"
  BY <1>1 DEF Projected, ActionStates
<1> QED
  BY <1>3, <1>4, <1>5

(* Every step keeps the link between transaction, action and review. *)
LEMMA BoundStep == BInv /\ [Next]_vars => BInv'
<1> SUFFICES ASSUME BInv, [Next]_vars
             PROVE  BInv'
  OBVIOUS
<1> USE DEF BInv, TypeInv, ReviewInv, LinkInv, BoundToReview, OutcomeIsTrue,
            CurrentReview, Unlinked, NoReview, Reviews, MoveTo, txVars, ownerVars,
            actionVars, requestVars, ledgerVars
<1>1. CASE SetTerms
  BY <1>1 DEF SetTerms, TermsEditable, TransactionStates
<1>2. CASE QuoteExpires
  BY <1>2 DEF QuoteExpires
<1>3. CASE StartReview
  BY <1>3 DEF StartReview, TransactionStates
<1>4. CASE ConfirmReview
  BY <1>4 DEF ConfirmReview, TransactionStates
<1>5. CASE CancelTransaction
  BY <1>5 DEF CancelTransaction, Cancellable, TransactionStates
<1>6. ASSUME NEW r \in Requests, ReadReview(r) \/ AbandonRequest(r)
      PROVE  BInv'
  BY <1>6 DEF ReadReview, AbandonRequest, EndRequest
<1>7. ASSUME NEW r \in Requests, PrepareAction(r)
      PROVE  BInv'
  BY <1>7 DEF PrepareAction, EndRequest, ActionStates
<1>8. ASSUME NEW r \in Requests, Bind(r)
      PROVE  BInv'
  <2>1. CASE Unlinked /\ row = "awaiting_approval" /\ Bindable(r)
    BY <1>8, <2>1 DEF Bind, Bindable, EndRequest
  <2>2. CASE ~(Unlinked /\ row = "awaiting_approval" /\ Bindable(r))
    <3>1. UNCHANGED link
      BY <1>8, <2>2 DEF Bind
    <3> QED
      BY <1>8, <3>1 DEF Bind, EndRequest
  <2> QED
    BY <2>1, <2>2
<1>9. CASE ApproveAction
  BY <1>9 DEF ApproveAction, Approvable, BoundTo, ActionStates
<1>10. CASE StopAction
  BY <1>10 DEF StopAction, Unclaimed, ActionStates
<1>11. CASE ClaimAction
  BY <1>11 DEF ClaimAction, ActionStates
<1>12. CASE SettleAction
  BY <1>12 DEF SettleAction, Successors, Results, ActionStates
<1>13. CASE Sync
  <2>1. ~Unlinked
    BY <1>13 DEF Sync
  <2> QED
    BY <1>13, <2>1, ProjectionFacts
<1>14. CASE UNCHANGED vars
  BY <1>14 DEF vars
<1> QED
  BY <1>1, <1>2, <1>3, <1>4, <1>5, <1>6, <1>7, <1>8, <1>9, <1>10, <1>11, <1>12,
     <1>13, <1>14
  DEF Next, OwnerStep, RequestStep, ActionStep

(* A fresh transaction has nothing bound. *)
LEMMA BoundInit == Init => BInv
BY DEF Init, BInv, TypeInv, ReviewInv, LinkInv, BoundToReview, OutcomeIsTrue,
       Unlinked, NoReview, Reviews, TransactionStates, ActionStates

(* So the link holds in every reachable state. *)
LEMMA BoundAlways == Spec => []BInv
BY BoundInit, BoundStep, PTL DEF Spec

\* An action is approved and executed only for the review its owner confirmed,
\* whatever requests race with new terms, new reviews and cancellation.
THEOREM OnlyReviewedExecutes == Spec => []BoundToReview
<1>1. BInv => BoundToReview
  BY DEF BInv
<1> QED
  BY <1>1, BoundAlways, PTL

\* A transaction says confirmed, or failed, only of an action that is so.
THEOREM OutcomeTrue == Spec => []OutcomeIsTrue
<1>1. BInv => OutcomeIsTrue
  BY DEF BInv
<1> QED
  BY <1>1, BoundAlways, PTL

\* No operation of the owner, and no synchronization, reopens a transaction
\* that reached its outcome; only doubt is resolved, by a confirmation.
THEOREM OutcomeFinal == Spec => OutcomeIsFinal
<1>1. ASSUME BInv, Next, tstate \in Outcomes
      PROVE  \/ tstate' = tstate
             \/ tstate = "outcome_unknown" /\ tstate' = "confirmed"
  <2> USE <1>1 DEF Outcomes, Editable
  <2>1. CASE OwnerStep
    BY <2>1
    DEF OwnerStep, SetTerms, TermsEditable, QuoteExpires, StartReview, ConfirmReview,
        CancelTransaction, Cancellable, txVars
  <2>2. CASE RequestStep \/ ActionStep
    BY <2>2
    DEF RequestStep, ReadReview, PrepareAction, Bind, AbandonRequest, ActionStep,
        ApproveAction, StopAction, ClaimAction, SettleAction, txVars
  <2>3. CASE Sync
    BY <2>3 DEF Sync, Moves, MoveTo, txVars, ProjectionAllowed, Projections
  <2> QED
    BY <2>1, <2>2, <2>3 DEF Next
<1>2. BInv /\ [Next]_vars =>
        [(tstate \in Outcomes) =>
           \/ tstate' = tstate
           \/ tstate = "outcome_unknown" /\ tstate' = "confirmed"]_vars
  BY <1>1
<1> QED
  BY <1>2, BoundAlways, PTL DEF Spec, OutcomeIsFinal

\* The row of the action moves only along its lifecycle.
RowFollowsLifecycle == [][row' # row => row' \in Successors(row)]_vars

\* The action of a transaction moves only along the lifecycle that the service
\* keeps (FollowsLifecycle of ActionExecution): neither binding nor observing it
\* is a step of it, and it ends or is claimed only from where the service allows it
\* (cancel, claim_execution, finish).
THEOREM ActionFollows == Spec => RowFollowsLifecycle
<1>1. TypeInv /\ [Next]_vars => [row' # row => row' \in Successors(row)]_vars
  <2> SUFFICES ASSUME TypeInv, Next, row' # row
               PROVE  row' \in Successors(row)
    BY DEF vars
  <2>1. CASE ActionStep
    BY <2>1 DEF ActionStep, ApproveAction, Approvable, StopAction, ClaimAction, SettleAction,
                Unclaimed, Successors
  <2>2. ASSUME NEW r \in Requests,
               ReadReview(r) \/ PrepareAction(r) \/ Bind(r) \/ AbandonRequest(r)
        PROVE  row' \in Successors(row)
    BY <2>2 DEF ReadReview, PrepareAction, Bind, AbandonRequest, actionVars, Successors
  <2>3. CASE OwnerStep \/ Sync
    BY <2>3 DEF OwnerStep, SetTerms, QuoteExpires, StartReview, ConfirmReview,
                CancelTransaction, Sync, actionVars
  <2> QED BY <2>1, <2>2, <2>3 DEF Next, RequestStep
<1>2. BInv => TypeInv
  BY DEF BInv
<1> QED BY <1>1, <1>2, BoundAlways, PTL DEF Spec, RowFollowsLifecycle

-----------------------------------------------------------------------------
(* The two ledgers *)

\* The states an action can still reach from a state.
After(s) ==
  CASE s = "awaiting_approval" ->
         {"queued", "executing", "outcome_unknown", "succeeded", "failed",
          "cancelled", "expired"}
    [] s = "queued" ->
         {"executing", "outcome_unknown", "succeeded", "failed", "cancelled", "expired"}
    [] s = "executing" -> {"outcome_unknown", "succeeded", "failed"}
    [] s = "outcome_unknown" -> {"succeeded"}
    [] OTHER -> {}

\* The entries agree, and their revisions lie between the link's and the last.
EntriesInv ==
  /\ evidence \in Seq([seen : ActionStates, revision : Nat])
  /\ observed \in Seq([seen : ActionStates, revision : Nat, state : TransactionStates])
  /\ Len(observed) = Len(evidence)
  /\ \A i \in 1 .. Len(evidence) :
       /\ evidence[i].revision = observed[i].revision
       /\ link.revision <= evidence[i].revision
       /\ evidence[i].revision <= revision
       /\ observed[i].seen = evidence[i].seen
       /\ observed[i].state = Projected(evidence[i].seen)

\* Observations come in the order of the lifecycle, and the action has not
\* fallen back behind any of them.
OrderInv ==
  /\ \A i \in 1 .. Len(evidence) : row \in {evidence[i].seen} \union After(evidence[i].seen)
  /\ \A i \in 1 .. Len(evidence) :
       i < Len(evidence) => evidence[Len(evidence)].seen \in After(evidence[i].seen)

\* Unless its owner cancelled it, the transaction shows the last observation.
ShownInv ==
  ~Unlinked =>
    /\ link.revision <= revision
    /\ Len(evidence) = 0 => tstate \in {"awaiting_approval", "cancelled"}
    /\ Len(evidence) > 0 =>
         tstate \in {Projected(evidence[Len(evidence)].seen), "cancelled"}

HInv ==
  /\ EntriesInv
  /\ OrderInv
  /\ ShownInv
  /\ Unlinked => Len(evidence) = 0

\* An action that moves on stays after everything it was seen in.
LEMMA AfterGrows ==
  ASSUME NEW s \in ActionStates, NEW t, NEW u,
         t \in {s} \union After(s), u \in Successors(t), t # "none"
  PROVE  u \in After(s)
BY DEF After, Successors, ActionStates

\* The lifecycle has no cycles.
LEMMA NoReturn ==
  ASSUME NEW s \in ActionStates, NEW t \in ActionStates, t \in After(s)
  PROVE  s \notin {t} \union After(t)
BY DEF After, ActionStates

\* What the transaction shows of an observation may be replaced by what it
\* would show of any state the action can still reach.
LEMMA ProjectionFollows ==
  ASSUME NEW s \in ActionStates, NEW t \in {s} \union After(s)
  PROVE  ProjectionAllowed(Projected(s), Projected(t))
BY DEF After, ActionStates, ProjectionAllowed, Projected, Projections

(* An action's state, or one it can still move to, projects to a known state. *)
LEMMA EntryType ==
  ASSUME EntriesInv
  PROVE  /\ Len(evidence) \in Nat
         /\ \A i \in 1 .. Len(evidence) :
              evidence[i].seen \in ActionStates /\ evidence[i].revision \in Nat
<1>1. \A i \in 1 .. Len(evidence) : evidence[i] \in [seen : ActionStates, revision : Nat]
  BY ElementOfSeq DEF EntriesInv
<1>2. Len(evidence) \in Nat
  BY DEF EntriesInv
<1> QED
  BY <1>1, <1>2

\* Steps that record nothing and leave a linked transaction as it is, or cancel
\* it, while the action moves along its lifecycle.
LEMMA UnrecordedStep ==
  ASSUME BInv, BInv', HInv, UNCHANGED <<evidence, observed, link>>,
         revision' \in {revision, revision + 1},
         ~Unlinked => tstate' \in {tstate, "cancelled"},
         row' = row \/ row' \in Successors(row)
  PROVE  HInv'
<1> USE DEF HInv, Unlinked
<1>1. Unlinked' <=> Unlinked
  OBVIOUS
<1>2. EntriesInv'
  <2>1. \A i \in 1 .. Len(evidence) : evidence[i].revision <= revision'
    <3>1. ASSUME NEW i \in 1 .. Len(evidence)
          PROVE  evidence[i].revision \in Nat /\ evidence[i].revision <= revision
      BY EntryType DEF EntriesInv
    <3> QED
      BY <3>1 DEF BInv, TypeInv
  <2> QED
    BY <2>1 DEF EntriesInv
<1>3. OrderInv'
  <2>1. Len(evidence) > 0 => row # "none"
    BY DEF EntriesInv, BInv, LinkInv
  <2> QED
    BY <2>1, AfterGrows, EntryType DEF OrderInv
<1>4. ShownInv'
  BY <1>1 DEF ShownInv, BInv, TypeInv, Reviews
<1> QED
  BY <1>1, <1>2, <1>3, <1>4

(* A synchronisation (sync_external_action) leaves a well-formed ledger. *)
LEMMA SyncRecords ==
  ASSUME BInv, BInv', HInv, Sync
  PROVE  HInv'
<1> USE DEF HInv, ledgerVars
<1>0. /\ ~Unlinked /\ Unlinked' = Unlinked
      /\ UNCHANGED <<row, link>>
      /\ revision' \in {revision, revision + 1}
      /\ tstate' = Projected(row)
      /\ row \in ActionStates /\ revision \in Nat /\ link.revision \in Nat
  BY DEF Sync, Moves, MoveTo, txVars, actionVars, Unlinked, BInv, TypeInv, Reviews
<1>1. CASE AlreadyKnown
  <2>1. UNCHANGED <<evidence, observed>>
    BY <1>1 DEF Sync
  <2>2. PICK i \in 1 .. Len(evidence) : evidence[i].seen = row
    BY <1>1 DEF AlreadyKnown, EntriesInv
  <2>3. evidence[Len(evidence)].seen = row
    <3>1. CASE i = Len(evidence)
      BY <2>2, <3>1
    <3>2. CASE i < Len(evidence)
      <4>1. evidence[Len(evidence)].seen \in ActionStates
        BY <2>2, EntryType
      <4>2. /\ row \in {evidence[Len(evidence)].seen} \union After(evidence[Len(evidence)].seen)
            /\ evidence[Len(evidence)].seen \in After(row)
        BY <2>2, <3>2, EntryType DEF OrderInv
      <4> QED
        BY <1>0, <4>1, <4>2, NoReturn
    <3> QED
      BY <2>2, <3>1, <3>2, EntryType
  <2>4. EntriesInv'
    <3>1. ASSUME NEW j \in 1 .. Len(evidence)
          PROVE  evidence[j].revision <= revision'
      <4>1. evidence[j].revision <= revision /\ evidence[j].revision \in Nat
        BY EntryType DEF EntriesInv
      <4> QED
        BY <1>0, <4>1
    <3> QED
      BY <1>0, <2>1, <3>1 DEF EntriesInv
  <2>5. OrderInv'
    BY <1>0, <2>1 DEF OrderInv
  <2>6. ShownInv'
    BY <1>0, <2>1, <2>3 DEF ShownInv, EntriesInv
  <2> QED
    BY <1>0, <2>4, <2>5, <2>6
<1>2. CASE ~AlreadyKnown
  <2> DEFINE n == Len(evidence)
             e == [seen |-> row, revision |-> revision']
             o == [seen |-> row, revision |-> revision', state |-> Projected(row)]
  <2>1. /\ evidence' = Append(evidence, e)
        /\ observed' = Append(observed, o)
    BY <1>0, <1>2 DEF Sync, ObservedRevision
  <2>2. Projected(row) \in TransactionStates
    BY <1>0 DEF BInv, TypeInv
  <2>3. /\ n \in Nat
        /\ evidence' \in Seq([seen : ActionStates, revision : Nat])
        /\ observed' \in Seq([seen : ActionStates, revision : Nat, state : TransactionStates])
        /\ Len(evidence') = n + 1 /\ Len(observed') = n + 1
    BY <1>0, <2>1, <2>2 DEF EntriesInv
  <2>4. /\ evidence'[n + 1].seen = row
        /\ evidence'[n + 1].revision = revision'
        /\ observed'[n + 1].seen = row
        /\ observed'[n + 1].revision = revision'
        /\ observed'[n + 1].state = Projected(row)
    BY <1>0, <2>1, <2>2 DEF EntriesInv
  <2>5. \A i \in 1 .. n : evidence'[i] = evidence[i] /\ observed'[i] = observed[i]
    BY <1>0, <2>1, <2>2 DEF EntriesInv
  <2>6. \A i \in 1 .. n :
          /\ evidence[i].revision = observed[i].revision
          /\ link.revision <= evidence[i].revision
          /\ evidence[i].revision <= revision
          /\ evidence[i].revision \in Nat
          /\ observed[i].seen = evidence[i].seen
          /\ observed[i].state = Projected(evidence[i].seen)
          /\ row \in After(evidence[i].seen)
    BY <1>2, EntryType DEF EntriesInv, OrderInv, AlreadyKnown
  <2>7. link.revision <= revision'
    BY <1>0 DEF ShownInv
  <2> HIDE DEF n, e, o, HInv
  <2>8. ASSUME NEW i \in 1 .. n + 1
        PROVE  /\ evidence'[i].revision = observed'[i].revision
               /\ link'.revision <= evidence'[i].revision
               /\ evidence'[i].revision <= revision'
               /\ observed'[i].seen = evidence'[i].seen
               /\ observed'[i].state = Projected(evidence'[i].seen)
               /\ row' \in {evidence'[i].seen} \union After(evidence'[i].seen)
               /\ i < n + 1 => evidence'[n + 1].seen \in After(evidence'[i].seen)
    <3>1. CASE i \in 1 .. n
      <4>1. evidence'[i] = evidence[i] /\ observed'[i] = observed[i]
        BY <2>5, <3>1
      <4> QED
        BY <1>0, <2>4, <2>6, <3>1, <4>1
    <3>2. CASE i = n + 1
      BY <1>0, <2>4, <2>7, <3>2
    <3> QED
      BY <2>3, <3>1, <3>2
  <2>9. EntriesInv'
    BY <2>3, <2>8 DEF EntriesInv
  <2>10. OrderInv'
    BY <2>3, <2>8 DEF OrderInv
  <2>11. ShownInv'
    BY <1>0, <2>3, <2>4, <2>7 DEF ShownInv
  <2> QED
    BY <1>0, <2>9, <2>10, <2>11 DEF HInv
<1> QED
  BY <1>1, <1>2

\* Linking starts with empty ledgers at the reviewed revision.
LEMMA BindRecordsNothing ==
  ASSUME BInv, BInv', HInv, NEW r \in Requests, Bind(r)
  PROVE  HInv'
<1>1. CASE Unlinked /\ row = "awaiting_approval" /\ Bindable(r)
  <2>1. /\ UNCHANGED <<evidence, observed, row, revision, tstate>>
        /\ link' = [revision |-> revision, terms |-> terms]
        /\ tstate = "awaiting_approval"
        /\ revision \in Nat /\ Len(evidence) = 0
    BY <1>1 DEF Bind, Bindable, CurrentReview, txVars, actionVars, ledgerVars, BInv,
                TypeInv, HInv
  <2>2. EntriesInv' /\ OrderInv' /\ ShownInv'
    BY <2>1 DEF HInv, EntriesInv, OrderInv, ShownInv
  <2> QED
    BY <2>1, <2>2 DEF HInv
<1>2. CASE ~(Unlinked /\ row = "awaiting_approval" /\ Bindable(r))
  BY <1>2, UnrecordedStep DEF Bind, txVars, actionVars, ledgerVars
<1> QED
  BY <1>1, <1>2

(* Every step keeps the ledger of evidence in the order of the projections. *)
LEMMA HistoryStep == BInv /\ BInv' /\ HInv /\ [Next]_vars => HInv'
<1> SUFFICES ASSUME BInv, BInv', HInv, [Next]_vars
             PROVE  HInv'
  OBVIOUS
<1> USE DEF MoveTo, txVars, ownerVars, actionVars, requestVars, ledgerVars
<1>1. CASE OwnerStep
  <2>1. /\ UNCHANGED <<evidence, observed, link, row>>
        /\ revision' \in {revision, revision + 1}
    BY <1>1
    DEF OwnerStep, SetTerms, QuoteExpires, StartReview, ConfirmReview, CancelTransaction
  <2>2. ~Unlinked => tstate' \in {tstate, "cancelled"}
    BY <1>1
    DEF OwnerStep, SetTerms, TermsEditable, QuoteExpires, StartReview, ConfirmReview,
        CancelTransaction, BInv, LinkInv
  <2> QED
    BY <2>1, <2>2, UnrecordedStep
<1>2. ASSUME NEW r \in Requests, ReadReview(r) \/ PrepareAction(r) \/ AbandonRequest(r)
      PROVE  HInv'
  <2>1. row' = row \/ row' \in Successors(row)
    BY <1>2 DEF ReadReview, PrepareAction, AbandonRequest, Successors
  <2> QED
    BY <1>2, <2>1, UnrecordedStep DEF ReadReview, PrepareAction, AbandonRequest
<1>3. CASE ActionStep
  <2>1. row' = row \/ row' \in Successors(row)
    BY <1>3
    DEF ActionStep, ApproveAction, Approvable, StopAction, Unclaimed, ClaimAction,
        SettleAction, Successors
  <2> QED
    BY <1>3, <2>1, UnrecordedStep
    DEF ActionStep, ApproveAction, StopAction, ClaimAction, SettleAction
<1>4. CASE UNCHANGED vars
  BY <1>4, UnrecordedStep DEF vars
<1> QED
  BY <1>1, <1>2, <1>3, <1>4, BindRecordsNothing, SyncRecords DEF Next, RequestStep

(* The ledger starts empty. *)
LEMMA HistoryInit == Init => HInv
BY DEF Init, HInv, EntriesInv, OrderInv, ShownInv, Unlinked

\* What is recorded and shown never stands in the way of the next observation.
LEMMA NeverBlocked == BInv /\ HInv => ObservationNeverBlocked
<1> SUFFICES ASSUME BInv, HInv, ~Unlinked
             PROVE  /\ HistoryVerifies
                    /\ tstate # "cancelled" => ProjectionAllowed(tstate, Projected(row))
  BY DEF ObservationNeverBlocked
<1> DEFINE last == evidence[Len(evidence)].seen
<1>1. /\ Len(observed) = Len(evidence) /\ Len(evidence) \in Nat
      /\ DOMAIN evidence = 1 .. Len(evidence)
  BY DEF HInv, EntriesInv
<1>2. \A i \in 1 .. Len(evidence) :
        /\ evidence[i].revision = observed[i].revision
        /\ evidence[i].revision \in link.revision .. revision
        /\ observed[i].seen = evidence[i].seen
        /\ observed[i].state = Projected(evidence[i].seen)
  <2> TAKE i \in 1 .. Len(evidence)
  <2>1. evidence[i].revision \in Nat
    BY EntryType DEF HInv
  <2>2. revision \in Nat /\ link.revision \in Nat
    BY DEF BInv, TypeInv, Reviews
  <2> QED
    BY <2>1, <2>2 DEF HInv, EntriesInv
<1>3. CASE Len(evidence) = 0
  <2>1. tstate \in {"awaiting_approval", "cancelled"}
    BY <1>3 DEF HInv, ShownInv
  <2>2. HistoryVerifies
    BY <1>1, <1>2, <2>1 DEF HistoryVerifies
  <2>3. row \in ActionStates \ {"none"}
    BY DEF BInv, TypeInv, LinkInv
  <2>4. ProjectionAllowed("awaiting_approval", Projected(row))
    BY <2>3 DEF ProjectionAllowed, Projected, Projections, ActionStates
  <2> QED
    BY <2>1, <2>2, <2>4
<1>4. CASE Len(evidence) > 0
  <2>1. tstate \in {Projected(last), "cancelled"}
    BY <1>4 DEF HInv, ShownInv
  <2>2. last \in ActionStates /\ row \in {last} \union After(last)
    BY <1>1, <1>4, EntryType DEF HInv, OrderInv
  <2>3. evidence # <<>>
    BY <1>4
  <2>4. HistoryVerifies
    BY <1>1, <1>2, <2>1, <2>3 DEF HistoryVerifies
  <2>5. ProjectionAllowed(Projected(last), Projected(row))
    BY <2>2, ProjectionFollows
  <2> HIDE DEF last
  <2> QED
    BY <2>1, <2>4, <2>5
<1> QED
  BY <1>1, <1>3, <1>4

\* In whatever order an action runs and its result is looked at, the result can
\* be recorded, unless the owner cancelled the transaction meanwhile; the two
\* ledgers always agree with each other and with what the owner is shown.
THEOREM AlwaysObservable == Spec => []ObservationNeverBlocked
BY BoundInit, BoundStep, HistoryInit, HistoryStep, NeverBlocked, PTL DEF Spec

-----------------------------------------------------------------------------
(* Types *)

\* No state is observed twice, so the ledgers are no longer than the lifecycle.
DistinctInv ==
  \A i, j \in 1 .. Len(evidence) : evidence[i].seen = evidence[j].seen => i = j

\* What the other proofs could do without.
OwnerTypes ==
  /\ fresh \in BOOLEAN
  /\ reviews \subseteq Reviews
  /\ started \in BOOLEAN
  /\ pc \in [Requests -> {"idle", "prepare", "bind"}]

\* Every step keeps the types that only the owner and the requests change.
LEMMA OwnerTypesStep == BInv /\ OwnerTypes /\ [Next]_vars => OwnerTypes'
<1> SUFFICES ASSUME BInv, OwnerTypes, [Next]_vars
             PROVE  OwnerTypes'
  OBVIOUS
<1> USE DEF OwnerTypes, MoveTo, Step, EndRequest, txVars, ownerVars, actionVars,
            requestVars, ledgerVars
<1>1. CASE OwnerStep
  <2>1. ASSUME ConfirmReview
        PROVE  reviews' \subseteq Reviews
    <3>1. [revision |-> revision + 1, terms |-> terms] \in Reviews
      BY DEF BInv, TypeInv, Reviews
    <3> QED
      BY <2>1, <3>1 DEF ConfirmReview
  <2> QED
    BY <1>1, <2>1
    DEF OwnerStep, SetTerms, QuoteExpires, StartReview, ConfirmReview, CancelTransaction
<1>2. CASE RequestStep
  BY <1>2 DEF RequestStep, ReadReview, PrepareAction, Bind, AbandonRequest
<1>3. CASE ActionStep
  BY <1>3 DEF ActionStep, ApproveAction, StopAction, ClaimAction, SettleAction
<1>4. CASE Sync \/ UNCHANGED vars
  BY <1>4 DEF Sync, vars
<1> QED
  BY <1>1, <1>2, <1>3, <1>4 DEF Next

\* A state that has been observed is not recorded again (AlreadyKnown).
LEMMA DistinctStep == HInv /\ DistinctInv /\ [Next]_vars => DistinctInv'
<1> SUFFICES ASSUME HInv, DistinctInv, [Next]_vars
             PROVE  DistinctInv'
  OBVIOUS
<1>1. CASE evidence' = evidence
  BY <1>1 DEF DistinctInv
<1>2. ASSUME Sync, ~AlreadyKnown
      PROVE  DistinctInv'
  <2> DEFINE e == [seen |-> row, revision |-> ObservedRevision]
             n == Len(evidence)
  <2>1. evidence' = Append(evidence, e)
    BY <1>2 DEF Sync
  <2>2. evidence \in Seq([seen : ActionStates, revision : Nat]) /\ n \in Nat
    BY EntryType DEF HInv, EntriesInv
  <2>3. Len(evidence') = n + 1 /\ evidence'[n + 1].seen = row
    BY <2>1, <2>2
  <2>4. \A i \in 1 .. n : evidence'[i] = evidence[i] /\ evidence[i].seen # row
    BY <1>2, <2>1, <2>2 DEF AlreadyKnown
  <2> HIDE DEF e, n
  <2> QED
    BY SMTT(20), <2>2, <2>3, <2>4 DEF DistinctInv, n
<1>3. evidence' = evidence \/ (Sync /\ ~AlreadyKnown)
  BY DEF Next, OwnerStep, SetTerms, QuoteExpires, StartReview, ConfirmReview,
         CancelTransaction, RequestStep, ReadReview, PrepareAction, Bind, AbandonRequest,
         ActionStep, ApproveAction, StopAction, ClaimAction, SettleAction, Sync,
         ledgerVars, vars
<1> QED
  BY <1>1, <1>2, <1>3

\* The lifecycle has finitely many states.
LEMMA FiniteLifecycle == IsFiniteSet(ActionStates)
<1> DEFINE states == <<"none", "awaiting_approval", "queued", "executing", "succeeded",
                       "failed", "cancelled", "expired", "outcome_unknown">>
<1>1. states \in Surjection(1 .. 9, ActionStates)
  BY DEF Surjection, ActionStates
<1>2. ExistsSurjection(1 .. 9, ActionStates)
  BY <1>1 DEF ExistsSurjection
<1> QED
  BY <1>2, FS_NatSurjection

\* A ledger without repetitions has at most one entry for each state.
LEMMA LedgerIsShort ==
  ASSUME HInv, DistinctInv
  PROVE  Len(evidence) <= Cardinality(ActionStates)
<1> DEFINE n == Len(evidence)
           seen == [i \in 1 .. n |-> evidence[i].seen]
<1>1. n \in Nat /\ \A i \in 1 .. n : evidence[i].seen \in ActionStates
  BY EntryType DEF HInv
<1>2. seen \in Injection(1 .. n, ActionStates)
  BY <1>1 DEF DistinctInv, Injection, IsInjective
<1>3. Cardinality(1 .. n) = n
  <2> HIDE DEF n
  <2>1. n \in Int /\ 1 \in Int /\ n >= 0
    BY <1>1
  <2>2. Cardinality(1 .. n) = IF 1 > n THEN 0 ELSE n - 1 + 1
    BY <2>1, FS_Interval, Zenon
  <2> QED
    BY <2>1, <2>2
<1> HIDE DEF seen
<1>4. Cardinality(1 .. n) <= Cardinality(ActionStates)
  BY <1>2, FiniteLifecycle, FS_Injection
<1> QED
  BY <1>3, <1>4

\* Every variable keeps its type and the ledgers of observations stay as short as
\* the lifecycle, however often anybody synchronizes (sync_external_action).
THEOREM TransactionTypes == Spec => []TypeOK
<1>1. Init => OwnerTypes /\ DistinctInv
  <2>1. Init => OwnerTypes
    BY DEF Init, OwnerTypes
  <2>2. Init => Len(evidence) = 0
    BY DEF Init
  <2> QED
    BY <2>1, <2>2 DEF DistinctInv
<1>2. BInv /\ HInv /\ OwnerTypes /\ DistinctInv => TypeOK
  BY LedgerIsShort DEF TypeOK, BInv, TypeInv, HInv, EntriesInv, OwnerTypes
<1> QED
  BY <1>1, <1>2, BoundInit, BoundStep, HistoryInit, HistoryStep, OwnerTypesStep,
     DistinctStep, PTL DEF Spec
====
