---- MODULE ActionExecutionProofs ----
(* Proofs about ActionExecution, for every number of actions, connections,   *)
(* dispatchers, attempts and result checks, with and without the connector   *)
(* trust boundary.                                                           *)
(*                                                                           *)
(* None of the safety properties is inductive.  IInv adds to them who may be *)
(* past the claim (only the claimant), what a row's state says about the     *)
(* claim, and what a caller's position says about the request it sent.       *)
EXTENDS ActionExecution, TLAPS

-----------------------------------------------------------------------------
(* The inductive invariant *)

\* Positions only the attempt that claimed the row can be in.
Unsent == {"access", "credentials", "mutate"}
Working == Unsent \union {"waiting", "reject"}

\* Positions that say nothing about the request.
Harmless == Steps \ (Working \union {"confirm"})

\* The row's state tells whether it was claimed, and only approved rows are.
ClaimInv ==
  \A a \in Actions :
    /\ state[a] \in {"none", "cancelled", "expired"} \union Unclaimed => ~Claimed(a)
    /\ state[a] \in {"executing", "succeeded", "outcome_unknown"} => Claimed(a)
    /\ Claimed(a) \/ state[a] = "queued" => approved[a]

\* Only the claimant works on the row.
WorkInv ==
  \A a \in Actions, p \in Callers : pc[a][p] \in Working => claimant[a] = p

\* The provider saw exactly the requests that were sent, at most one of them.
SendInv ==
  \A a \in Actions :
    /\ sent[a] \in {0, 1}
    /\ sent[a] = 0 <=> provider[a] = "untouched"
    /\ ~Claimed(a) => sent[a] = 0

\* What a caller's position says about the request.
CallInv ==
  \A a \in Actions, p \in Callers :
    /\ pc[a][p] \in Unsent => sent[a] = 0
    /\ pc[a][p] = "waiting" => provider[a] \in {"inflight", "applied"}
    /\ pc[a][p] = "reject" => provider[a] \in {"untouched", "refused"}
    /\ pc[a][p] = "confirm" => provider[a] = "applied"

IInv == TypeOK /\ ClaimInv /\ WorkInv /\ SendInv /\ CallInv /\ SettledIsTrue
-----------------------------------------------------------------------------
(* Facts about the constants and the pure operators *)

\* NoCaller is none of the callers, so a claimant in Callers means claimed.
LEMMA NoCallerFresh == NoCaller \notin Callers
BY AttemptsAssumption DEF NoCaller, Callers, Attempts, Owner

\* A report never produces a state outside the row's states.
LEMMA FinishType ==
  ASSUME NEW s \in ActionStates, NEW r \in Results, NEW u
  PROVE  FinishState(s, r, u) \in ActionStates
BY DEF FinishState, ActionStates, Results

-----------------------------------------------------------------------------
(* Type correctness *)

\* Moving a caller to a step, and activating a grant, respect the types.
LEMMA GoToType ==
  ASSUME TypeOK, NEW a \in Actions, NEW p \in Callers, NEW step \in Steps,
         GoTo(a, p, step)
  PROVE  pc' \in [Actions -> [Callers -> Steps]]
BY DEF TypeOK, GoTo

\* Activating one grant keeps the table of grants well typed.
LEMMA GrantType ==
  ASSUME TypeOK, NEW a \in Actions, NEW u \in Purposes,
         grant' = [grant EXCEPT ![a][u] = "active"]
  PROVE  grant' \in [Actions -> [Purposes -> {"none", "active", "revoked"}]]
BY DEF TypeOK

\* Every step of every actor keeps the variables in their types, and the owner
\* never exceeds the allowed result checks (reserve_reconciliation).
LEMMA TypeStep == TypeOK /\ [Next]_vars => TypeOK'
<1> SUFFICES ASSUME TypeOK, [Next]_vars
             PROVE  TypeOK'
  OBVIOUS
<1> USE DEF TypeOK, SetState, GoTo, ownerVars, clockVars, outboxVars, providerVars
<1>1. ASSUME NEW a \in Actions, Prepare(a)
      PROVE  TypeOK'
  BY <1>1 DEF Prepare, ActionStates
<1>2. ASSUME NEW a \in Actions, Approve(a)
      PROVE  TypeOK'
  BY <1>2 DEF Approve, ActionStates
<1>3. ASSUME NEW a \in Actions, Cancel(a)
      PROVE  TypeOK'
  BY <1>3 DEF Cancel, ActionStates
<1>4. ASSUME NEW a \in Actions, OwnerReconcile(a)
      PROVE  TypeOK'
  <2>1. checks' \in [Actions -> 0 .. MaxChecks]
    BY <1>4, LimitsAssumption DEF OwnerReconcile, ChecksLeft
  <2>2. pc' \in [Actions -> [Callers -> Steps]]
    <3>1. ReconcileEntry(a) \in Steps /\ Owner \in Callers
      BY DEF ReconcileEntry, Steps, Callers
    <3> QED
      BY <1>4, <3>1, GoToType DEF OwnerReconcile
  <2> QED
    BY <1>4, <2>1, <2>2 DEF OwnerReconcile
<1>5. ASSUME NEW c \in Connections, Disconnect(c)
      PROVE  TypeOK'
  BY <1>5 DEF Disconnect, CancelUnclaimed, RevokeGrants, ActionStates
<1>6. ASSUME TimePasses
      PROVE  TypeOK'
  BY <1>6 DEF TimePasses, Lapse, BecomeOverdue, LeaseEnds
<1>7. ASSUME NEW d \in Dispatchers, NEW locked, NEW batch \in SUBSET Actions,
             ClaimOutbox(d, locked, batch)
      PROVE  TypeOK'
  BY <1>7 DEF ClaimOutbox, Maintained, ActionStates
<1>8. ASSUME NEW d \in Dispatchers, HandleBatch(d)
      PROVE  TypeOK'
  <2>1. ASSUME NEW a \in Actions, StartWorkflow(d, a)
        PROVE  TypeOK'
    <3>1. accepted' \subseteq claimed'
      BY <2>1 DEF StartWorkflow
    <3>2. workflow' \in [Actions -> {"none", "running", "interrupting", "closed"}]
      BY <2>1 DEF StartWorkflow
    <3> QED
      BY <2>1, <3>1, <3>2 DEF StartWorkflow
  <2>2. ASSUME NEW a \in Actions, Deliver(d, a)
        PROVE  TypeOK'
    BY <2>2 DEF Deliver
  <2>3. CASE AbandonBatch(d)
    BY <2>3 DEF AbandonBatch
  <2> QED
    BY <1>8, <2>1, <2>2, <2>3 DEF HandleBatch
<1>9. ASSUME NEW a \in Actions, NEW i \in Attempts, StartAttempt(a, i)
      PROVE  TypeOK'
  BY <1>9 DEF StartAttempt, Callers, Steps
<1>10. ASSUME NEW a \in Actions, CloseWorkflow(a) \/ GiveUp(a)
       PROVE  TypeOK'
  BY <1>10 DEF CloseWorkflow, GiveUp
<1>11. ASSUME NEW a \in Actions, RecordInterrupted(a)
       PROVE  TypeOK'
  BY <1>11, FinishType DEF RecordInterrupted, Results
<1>12. ASSUME NEW a \in Actions, NEW p \in Callers, ExecuteStep(a, p)
       PROVE  TypeOK'
  <2> USE <1>12
  <2>1. CASE ReadRow(a, p)
    BY <2>1 DEF ReadRow, Branch, ReconcileEntry, Steps
  <2>2. CASE LoadAttachments(a, p)
    BY <2>2 DEF LoadAttachments, Steps
  <2>3. CASE Authorize(a, p)
    <3>1. \E next \in Steps : GoTo(a, p, next)
      BY <2>3 DEF Authorize, OnceAuthorized, Steps
    <3>2. grant' \in [Actions -> [Purposes -> {"none", "active", "revoked"}]]
      BY <2>3, GrantType DEF Authorize, Purposes
    <3> QED
      BY <2>3, <3>1, <3>2, GoToType DEF Authorize
  <2>4. CASE Claim(a, p)
    BY <2>4 DEF Claim, Steps, ActionStates
  <2>5. CASE ClaimRefused(a, p)
    <3>1. GoTo(a, p, "done") /\ "done" \in Steps
      BY <2>5 DEF ClaimRefused, Steps
    <3>2. state' = state \/ \E s \in ActionStates : SetState(a, s)
      BY <2>5 DEF ClaimRefused, ActionStates
    <3>3. state' \in [Actions -> ActionStates]
      BY <3>2 DEF SetState, TypeOK
    <3>4. pc' \in [Actions -> [Callers -> Steps]]
      BY <3>1, GoToType
    <3>5. UNCHANGED <<ownerVars, clockVars, claimant, grant, outboxVars, workflow,
                      providerVars, checks>>
      BY <2>5 DEF ClaimRefused
    <3> QED BY <3>3, <3>4, <3>5
  <2>6. CASE ValidateGrant(a, p)
    BY <2>6 DEF ValidateGrant, Steps
  <2>7. CASE ReadCredentials(a, p)
    BY <2>7 DEF ReadCredentials, Steps
  <2>8. CASE Send(a, p)
    BY <2>8 DEF Send, Steps
  <2>9. CASE Answer(a, p)
    <3>1. \E next \in Steps : GoTo(a, p, next)
      BY <2>9 DEF Answer, AfterLostAnswer, ReconcileWithToken, Steps
    <3>2. provider' \in [Actions -> {"untouched", "inflight", "applied", "refused"}]
      BY <2>9 DEF Answer
    <3> QED
      BY <2>9, <3>1, <3>2, GoToType DEF Answer
  <2> QED
    BY <2>1, <2>2, <2>3, <2>4, <2>5, <2>6, <2>7, <2>8, <2>9 DEF ExecuteStep
<1>13. ASSUME NEW a \in Actions, NEW p \in Callers, ReconcileStep(a, p)
       PROVE  TypeOK'
  <2>1. CASE AuthorizeReconcile(a, p)
    <3>1. \E next \in Steps : GoTo(a, p, next)
      BY <2>1 DEF AuthorizeReconcile, Steps
    <3>2. grant' \in [Actions -> [Purposes -> {"none", "active", "revoked"}]]
      BY <2>1, GrantType DEF AuthorizeReconcile, Purposes
    <3> QED
      BY <2>1, <3>1, <3>2, GoToType DEF AuthorizeReconcile
  <2>2. CASE ReconcileAccess(a, p)
    BY <2>2 DEF ReconcileAccess, Steps
  <2>3. CASE Lookup(a, p)
    BY <2>3 DEF Lookup, Steps
  <2> QED
    BY <1>13, <2>1, <2>2, <2>3 DEF ReconcileStep
<1>14. ASSUME NEW a \in Actions, NEW p \in Callers, Finish(a, p)
       PROVE  TypeOK'
  BY <1>14, FinishType DEF Finish, Report, Results, Steps
<1>15. ASSUME NEW a \in Actions, NEW p \in Callers, Crash(a, p)
       PROVE  TypeOK'
  BY <1>15 DEF Crash, Steps
<1>16. ASSUME NEW a \in Actions, ProviderApplies(a)
       PROVE  TypeOK'
  BY <1>16 DEF ProviderApplies
<1>17. CASE UNCHANGED vars
  BY <1>17 DEF vars
<1> QED
  BY <1>1, <1>2, <1>3, <1>4, <1>5, <1>6, <1>7, <1>8, <1>9, <1>10, <1>11, <1>12,
     <1>13, <1>14, <1>15, <1>16, <1>17
  DEF Next, OwnerStep, DispatcherStep, Maintain, EngineStep, ServiceStep,
      ProviderStep

\* The variables always have their types; in particular no owner requests more
\* result checks than allowed, and every dispatcher acknowledges only what it
\* holds.
THEOREM TypeCorrect == Spec => []TypeOK
<1>1. Init => TypeOK
  BY LimitsAssumption, AttemptsAssumption
  DEF Init, TypeOK, ActionStates, NoCaller, Steps, Purposes
<1> QED
  BY <1>1, TypeStep, PTL DEF Spec

-----------------------------------------------------------------------------
(* The inductive invariant is preserved *)

\* Steps that leave the claim, the request and the provider alone: callers may
\* only move to harmless positions, unclaimed rows may move on (to the queue
\* only if approved), and an execution may become uncertain.
LEMMA QuietStep ==
  ASSUME IInv, TypeOK',
         UNCHANGED <<claimant, sent, provider>>,
         \A a \in Actions : approved[a] => approved'[a],
         \A a \in Actions, p \in Callers :
           pc'[a][p] = pc[a][p] \/ pc'[a][p] \in Harmless,
         \A a \in Actions :
           \/ state'[a] = state[a]
           \/ /\ state[a] \in {"none"} \union Unclaimed
              /\ state'[a] \in Unclaimed \union NotExecuted
              /\ state'[a] = "queued" => approved'[a]
           \/ state[a] = "executing" /\ state'[a] = "outcome_unknown"
  PROVE  IInv'
<1> USE DEF IInv, Claimed, Harmless, Working, Unsent, Unclaimed, NotExecuted
<1>1. ClaimInv'
  BY DEF ClaimInv
<1>2. WorkInv'
  BY DEF WorkInv
<1>3. SendInv'
  BY DEF SendInv
<1>4. CallInv'
  BY DEF CallInv
<1>5. SettledIsTrue'
  <2> SUFFICES ASSUME NEW a \in Actions
               PROVE  /\ state'[a] \in NotExecuted =>
                           /\ provider[a] \in {"untouched", "refused"}
                           /\ \A p \in Callers :
                                pc'[a][p] \notin {"access", "credentials", "mutate", "waiting"}
                      /\ state'[a] = "succeeded" => provider[a] = "applied"
    BY DEF SettledIsTrue
  <2>1. CASE state'[a] = state[a]
    BY <2>1 DEF SettledIsTrue
  <2>2. CASE state[a] \in {"none"} \union Unclaimed
    <3>1. claimant[a] = NoCaller /\ provider[a] = "untouched"
      BY <2>2 DEF ClaimInv, SendInv, TypeOK
    <3>2. \A p \in Callers : pc[a][p] \notin Working
      BY <3>1, NoCallerFresh DEF WorkInv
    <3> QED
      BY <2>2, <3>1, <3>2
  <2>3. CASE state[a] = "executing" /\ state'[a] = "outcome_unknown"
    BY <2>3
  <2> QED
    BY <2>1, <2>2, <2>3
<1> QED
  BY <1>1, <1>2, <1>3, <1>4, <1>5

\* The special case of one caller moving to a harmless position.
LEMMA CallerMoves ==
  ASSUME IInv, TypeOK', NEW a \in Actions, NEW p \in Callers,
         NEW step \in Harmless, GoTo(a, p, step),
         UNCHANGED <<state, approved, claimant, sent, provider>>
  PROVE  IInv'
<1>1. \A b \in Actions, q \in Callers : pc'[b][q] = pc[b][q] \/ pc'[b][q] \in Harmless
  BY DEF IInv, TypeOK, GoTo
<1> QED
  BY <1>1, QuietStep

\* The owner's handlers, time, the dispatchers and the engine only take quiet
\* steps: none of them claims a row or talks to the provider.
LEMMA QuietActors ==
  ASSUME IInv, TypeOK', OwnerStep \/ TimePasses \/ DispatcherStep \/ EngineStep
  PROVE  IInv'
<1> USE DEF ownerVars, clockVars, outboxVars, providerVars
<1>0. TypeOK
  BY DEF IInv
<1>1. ASSUME NEW a \in Actions, Prepare(a)
      PROVE  IInv'
  BY <1>0, <1>1, QuietStep DEF Prepare, SetState, TypeOK, Unclaimed
<1>2. ASSUME NEW a \in Actions, Approve(a)
      PROVE  IInv'
  BY <1>0, <1>2, QuietStep DEF Approve, SetState, TypeOK, Unclaimed
<1>3. ASSUME NEW a \in Actions, Cancel(a)
      PROVE  IInv'
  BY <1>0, <1>3, QuietStep DEF Cancel, SetState, TypeOK, Unclaimed, NotExecuted
<1>4. ASSUME NEW a \in Actions, OwnerReconcile(a)
      PROVE  IInv'
  <2>1. ReconcileEntry(a) \in Harmless /\ Owner \in Callers
    BY DEF ReconcileEntry, Harmless, Steps, Working, Unsent, Callers
  <2> QED
    BY <1>4, <2>1, CallerMoves DEF OwnerReconcile
<1>5. ASSUME NEW c \in Connections, Disconnect(c)
      PROVE  IInv'
  BY <1>0, <1>5, QuietStep DEF Disconnect, CancelUnclaimed, TypeOK, Unclaimed, NotExecuted
<1>6. CASE TimePasses
  BY <1>6, QuietStep DEF TimePasses, Lapse, BecomeOverdue, LeaseEnds
<1>7. ASSUME NEW d \in Dispatchers, NEW locked, NEW batch, ClaimOutbox(d, locked, batch)
      PROVE  IInv'
  BY <1>0, <1>7, QuietStep DEF ClaimOutbox, Maintained, TypeOK, Unclaimed, NotExecuted
<1>8. ASSUME NEW d \in Dispatchers, HandleBatch(d)
      PROVE  IInv'
  BY <1>8, QuietStep DEF HandleBatch, StartWorkflow, Deliver, AbandonBatch
<1>9. ASSUME NEW a \in Actions, NEW i \in Attempts, StartAttempt(a, i)
      PROVE  IInv'
  <2>1. "begin" \in Harmless /\ i \in Callers
    BY DEF Harmless, Steps, Working, Unsent, Callers
  <2> QED
    BY <1>9, <2>1, CallerMoves DEF StartAttempt
<1>10. ASSUME NEW a \in Actions, CloseWorkflow(a) \/ GiveUp(a)
       PROVE  IInv'
  BY <1>10, QuietStep DEF CloseWorkflow, GiveUp
<1>11. ASSUME NEW a \in Actions, RecordInterrupted(a)
       PROVE  IInv'
  BY <1>0, <1>11, QuietStep
  DEF RecordInterrupted, FinishState, SetState, TypeOK, ActionStates, Unclaimed, NotExecuted
<1> QED
  BY <1>1, <1>2, <1>3, <1>4, <1>5, <1>6, <1>7, <1>8, <1>9, <1>10, <1>11
  DEF OwnerStep, DispatcherStep, Maintain, EngineStep

\* The claim: the row was queued, so nobody worked on it and nothing was sent.
LEMMA ClaimStep ==
  ASSUME IInv, TypeOK', NEW a \in Actions, NEW p \in Callers, Claim(a, p)
  PROVE  IInv'
<1> USE DEF IInv, TypeOK, Claim, Claimable, GoTo, SetState, ownerVars, providerVars,
            Claimed, Working, Unsent
<1>1. claimant[a] = NoCaller /\ sent[a] = 0 /\ approved[a] /\ p # NoCaller
  BY NoCallerFresh DEF ClaimInv, SendInv, Unclaimed
<1>2. \A q \in Callers : pc[a][q] \notin Working
  BY <1>1, NoCallerFresh DEF WorkInv
<1>3. pc'[a][p] \in {"access", "mutate"}
  OBVIOUS
<1>4. /\ state'[a] = "executing" /\ claimant'[a] = p
      /\ \A b \in Actions \ {a} :
           state'[b] = state[b] /\ claimant'[b] = claimant[b]
      /\ \A b \in Actions, q \in Callers :
           b # a \/ q # p => pc'[b][q] = pc[b][q]
  OBVIOUS
<1>5. ClaimInv'
  BY <1>1, <1>4 DEF ClaimInv, Unclaimed
<1>6. WorkInv'
  BY <1>2, <1>4 DEF WorkInv
<1>7. SendInv'
  BY <1>1, <1>4 DEF SendInv
<1>8. CallInv'
  BY <1>1, <1>3, <1>4 DEF CallInv
<1>9. SettledIsTrue'
  BY <1>4 DEF SettledIsTrue, NotExecuted
<1> QED
  BY <1>5, <1>6, <1>7, <1>8, <1>9

\* The claimant's own steps up to its request's answer.
LEMMA ClaimantSteps ==
  ASSUME IInv, TypeOK', NEW a \in Actions, NEW p \in Callers,
         ValidateGrant(a, p) \/ ReadCredentials(a, p) \/ Send(a, p) \/ Answer(a, p)
  PROVE  IInv'
<1> USE DEF ownerVars, providerVars, GoTo
<1>1. pc[a][p] \in Unsent \union {"waiting"} /\ claimant[a] = p
  BY DEF IInv, WorkInv, Working, Unsent, ValidateGrant, ReadCredentials, Send, Answer
<1>2. Claimed(a) /\ state[a] \notin NotExecuted
  BY <1>1, NoCallerFresh DEF IInv, Claimed, SettledIsTrue, Unsent
<1>3. CASE ValidateGrant(a, p) \/ ReadCredentials(a, p)
  <2>1. /\ pc'[a][p] \in {"credentials", "mutate", "reject"}
        /\ \A b \in Actions, q \in Callers :
             b # a \/ q # p => pc'[b][q] = pc[b][q]
        /\ UNCHANGED <<state, approved, claimant, sent, provider>>
        /\ sent[a] = 0
    BY <1>3 DEF IInv, TypeOK, CallInv, Unsent, ValidateGrant, ReadCredentials
  <2>2. ClaimInv' /\ SendInv'
    BY <2>1 DEF IInv, ClaimInv, SendInv, Claimed
  <2>3. WorkInv'
    BY <1>1, <2>1 DEF IInv, WorkInv
  <2>4. CallInv'
    BY <2>1 DEF IInv, CallInv, SendInv, Unsent
  <2>5. SettledIsTrue'
    BY <1>2, <2>1 DEF IInv, SettledIsTrue
  <2> QED
    BY <2>2, <2>3, <2>4, <2>5 DEF IInv
<1>4. CASE Send(a, p)
  <2>1. /\ sent[a] = 0 /\ sent'[a] = 1 /\ provider'[a] = "inflight"
        /\ \A b \in Actions \ {a} : sent'[b] = sent[b] /\ provider'[b] = provider[b]
        /\ pc'[a][p] = "waiting"
        /\ \A b \in Actions, q \in Callers :
             b # a \/ q # p => pc'[b][q] = pc[b][q]
        /\ UNCHANGED <<state, approved, claimant>>
    BY <1>4 DEF IInv, TypeOK, CallInv, Unsent, Send
  <2>2. ClaimInv' /\ SendInv'
    BY <1>2, <2>1 DEF IInv, ClaimInv, SendInv, Claimed
  <2>3. WorkInv'
    BY <1>1, <2>1 DEF IInv, WorkInv, Working
  <2>4. \A q \in Callers \ {p} : pc[a][q] \notin Working \union {"confirm"}
    BY <1>1, <2>1 DEF IInv, WorkInv, CallInv, SendInv
  <2>5. CallInv'
    BY <2>1, <2>4 DEF IInv, CallInv, Working, Unsent
  <2>6. SettledIsTrue'
    BY <1>2, <2>1 DEF IInv, SettledIsTrue, SendInv
  <2> QED
    BY <2>2, <2>3, <2>5, <2>6 DEF IInv
<1>5. CASE Answer(a, p)
  <2>1. CASE provider[a] = "inflight" /\ provider' = [provider EXCEPT ![a] = "refused"]
             /\ GoTo(a, p, "reject")
    <3>1. /\ provider'[a] = "refused"
          /\ \A b \in Actions \ {a} : provider'[b] = provider[b]
          /\ pc'[a][p] = "reject"
          /\ \A b \in Actions, q \in Callers :
               b # a \/ q # p => pc'[b][q] = pc[b][q]
          /\ UNCHANGED <<state, approved, claimant, sent>>
      BY <1>5, <2>1 DEF IInv, TypeOK, Answer
    <3>2. ClaimInv' /\ SendInv'
      BY <2>1, <3>1 DEF IInv, ClaimInv, SendInv, Claimed
    <3>3. WorkInv'
      BY <1>1, <3>1 DEF IInv, WorkInv
    <3>4. \A q \in Callers \ {p} : pc[a][q] \notin Working \union {"confirm"}
      BY <1>1, <2>1 DEF IInv, WorkInv, CallInv
    <3>5. CallInv'
      BY <3>1, <3>4 DEF IInv, CallInv, Working, Unsent
    <3>6. SettledIsTrue'
      BY <1>2, <2>1, <3>1 DEF IInv, SettledIsTrue
    <3> QED
      BY <3>2, <3>3, <3>5, <3>6 DEF IInv
  <2>2. CASE provider[a] = "applied" /\ GoTo(a, p, "confirm") /\ UNCHANGED provider
    <3>1. /\ pc'[a][p] = "confirm"
          /\ \A b \in Actions, q \in Callers :
               b # a \/ q # p => pc'[b][q] = pc[b][q]
          /\ UNCHANGED <<state, approved, claimant, sent, provider>>
      BY <1>5, <2>2 DEF IInv, TypeOK, Answer
    <3>2. ClaimInv' /\ SendInv'
      BY <3>1 DEF IInv, ClaimInv, SendInv, Claimed
    <3>3. WorkInv' /\ CallInv'
      BY <2>2, <3>1 DEF IInv, WorkInv, CallInv, Working, Unsent
    <3>4. SettledIsTrue'
      BY <3>1 DEF IInv, SettledIsTrue
    <3> QED
      BY <3>2, <3>3, <3>4 DEF IInv
  <2>3. CASE GoTo(a, p, AfterLostAnswer(a)) /\ UNCHANGED provider
    <3>1. AfterLostAnswer(a) \in Harmless
      BY DEF AfterLostAnswer, ReconcileWithToken, Harmless, Steps, Working, Unsent
    <3> QED
      BY <1>5, <2>3, <3>1, CallerMoves DEF Answer
  <2> QED
    BY <1>5, <2>1, <2>2, <2>3 DEF Answer
<1> QED
  BY <1>3, <1>4, <1>5

\* A report: only the claimant still at work reports a rejection, so a row that
\* failed has nobody working on it; a confirmation is always true.
LEMMA FinishStep ==
  ASSUME IInv, TypeOK', NEW a \in Actions, NEW p \in Callers, Finish(a, p)
  PROVE  IInv'
<1> USE DEF Finish, GoTo, SetState, ownerVars, providerVars
<1>0. /\ TypeOK
      /\ state'[a] = FinishState(state[a], Report(pc[a][p]), pc[a][p] = "reject_unstarted")
      /\ \A b \in Actions \ {a} : state'[b] = state[b]
      /\ pc'[a][p] = "done"
      /\ \A b \in Actions, q \in Callers :
           b # a \/ q # p => pc'[b][q] = pc[b][q]
      /\ UNCHANGED <<approved, claimant, sent, provider>>
  BY DEF IInv, TypeOK
<1>1. CASE pc[a][p] \in {"doubt", "reject_unstarted"} \/ state'[a] = state[a]
  BY <1>0, <1>1, QuietStep
  DEF FinishState, Report, Harmless, Steps, Working, Unsent, Unclaimed, NotExecuted
<1>2. CASE pc[a][p] = "reject" /\ state'[a] # state[a]
  <2>1. claimant[a] = p /\ Claimed(a)
    BY <1>2, NoCallerFresh DEF IInv, WorkInv, Working, Claimed
  <2>2. state[a] = "executing" /\ state'[a] = "failed"
    BY <1>0, <1>2, <2>1 DEF FinishState, Report, IInv, ClaimInv, Unclaimed
  <2>3. ClaimInv' /\ SendInv'
    BY <1>0, <2>1, <2>2 DEF IInv, ClaimInv, SendInv, Claimed, Unclaimed
  <2>4. WorkInv' /\ CallInv'
    BY <1>0 DEF IInv, WorkInv, CallInv, Working, Unsent
  <2>5. \A q \in Callers : pc'[a][q] \notin {"access", "credentials", "mutate", "waiting"}
    BY <1>0, <2>1 DEF IInv, WorkInv, Working, Unsent
  <2>6. provider[a] \in {"untouched", "refused"}
    BY <1>2 DEF IInv, CallInv
  <2>7. SettledIsTrue'
    BY <1>0, <2>2, <2>5, <2>6 DEF IInv, SettledIsTrue
  <2> QED
    BY <2>3, <2>4, <2>7 DEF IInv
<1>3. CASE pc[a][p] = "confirm" /\ state'[a] # state[a]
  <2>1. provider[a] = "applied" /\ Claimed(a)
    BY <1>3 DEF IInv, CallInv, SendInv
  <2>2. state'[a] = "succeeded"
    BY <1>0, <1>3 DEF FinishState, Report
  <2>3. ClaimInv' /\ SendInv'
    BY <1>0, <2>1, <2>2 DEF IInv, ClaimInv, SendInv, Claimed, Unclaimed
  <2>4. WorkInv' /\ CallInv'
    BY <1>0 DEF IInv, WorkInv, CallInv, Working, Unsent
  <2>5. SettledIsTrue'
    BY <1>0, <2>1, <2>2 DEF IInv, SettledIsTrue, NotExecuted
  <2> QED
    BY <2>3, <2>4, <2>5 DEF IInv
<1> QED
  BY <1>0, <1>1, <1>2, <1>3

\* What the provider does with a request does not disturb what callers know:
\* nobody has been told of a refusal or a failure.
LEMMA ProviderSteps ==
  ASSUME IInv, TypeOK', NEW a \in Actions, ProviderApplies(a)
  PROVE  IInv'
<1>1. /\ provider[a] = "inflight" /\ provider'[a] = "applied"
      /\ \A b \in Actions \ {a} : provider'[b] = provider[b]
      /\ UNCHANGED <<state, approved, claimant, sent, pc>>
  BY DEF ProviderApplies, ownerVars, IInv, TypeOK
<1>2. state[a] \notin NotExecuted
  BY <1>1 DEF IInv, SettledIsTrue
<1>3. ClaimInv' /\ WorkInv' /\ SendInv'
  BY <1>1 DEF IInv, ClaimInv, WorkInv, SendInv, Claimed
<1>4. CallInv'
  BY <1>1 DEF IInv, CallInv
<1>5. SettledIsTrue'
  BY <1>1, <1>2 DEF IInv, SettledIsTrue
<1> QED
  BY <1>3, <1>4, <1>5 DEF IInv

\* The other steps of a caller.
LEMMA OtherServiceSteps ==
  ASSUME IInv, TypeOK', NEW a \in Actions, NEW p \in Callers,
         \/ ReadRow(a, p) \/ LoadAttachments(a, p) \/ Authorize(a, p)
         \/ ClaimRefused(a, p) \/ ReconcileStep(a, p) \/ Crash(a, p)
  PROVE  IInv'
<1> USE DEF ownerVars, providerVars, Harmless, Steps, Working, Unsent
<1>1. CASE ReadRow(a, p)
  BY <1>1, CallerMoves DEF ReadRow, Branch, ReconcileEntry
<1>2. CASE LoadAttachments(a, p)
  BY <1>2, CallerMoves DEF LoadAttachments
<1>3. CASE Authorize(a, p)
  <2>1. \E next \in Harmless : GoTo(a, p, next)
    BY <1>3 DEF Authorize, OnceAuthorized
  <2> QED
    BY <1>3, <2>1, CallerMoves DEF Authorize
<1>4. CASE ClaimRefused(a, p)
  <2>1. \A b \in Actions, q \in Callers : pc'[b][q] = pc[b][q] \/ pc'[b][q] \in Harmless
    BY <1>4 DEF ClaimRefused, GoTo, IInv, TypeOK
  <2>2. \A b \in Actions :
          \/ state'[b] = state[b]
          \/ state[b] = "queued" /\ state'[b] \in NotExecuted
    BY <1>4 DEF ClaimRefused, SetState, IInv, TypeOK, NotExecuted
  <2> QED
    BY <1>4, <2>1, <2>2, QuietStep DEF ClaimRefused, Unclaimed, NotExecuted
<1>5. CASE AuthorizeReconcile(a, p)
  BY <1>5, CallerMoves DEF AuthorizeReconcile
<1>6. CASE ReconcileAccess(a, p)
  BY <1>6, CallerMoves DEF ReconcileAccess
<1>7. CASE Lookup(a, p)
  <2>1. CASE GoTo(a, p, "doubt")
    BY <1>7, <2>1, CallerMoves DEF Lookup
  <2>2. CASE GoTo(a, p, "confirm") /\ provider[a] = "applied"
    <3>1. /\ pc'[a][p] = "confirm"
          /\ \A b \in Actions, q \in Callers :
               b # a \/ q # p => pc'[b][q] = pc[b][q]
          /\ UNCHANGED <<state, approved, claimant, sent, provider>>
      BY <1>7, <2>2 DEF Lookup, GoTo, IInv, TypeOK
    <3>2. ClaimInv' /\ SendInv'
      BY <3>1 DEF IInv, ClaimInv, SendInv, Claimed
    <3>3. WorkInv' /\ CallInv' /\ SettledIsTrue'
      BY <2>2, <3>1 DEF IInv, WorkInv, CallInv, SettledIsTrue
    <3> QED
      BY <3>2, <3>3 DEF IInv
  <2> QED
    BY <1>7, <2>1, <2>2 DEF Lookup, Found
<1>8. CASE Crash(a, p)
  BY <1>8, CallerMoves DEF Crash
<1> QED
  BY <1>1, <1>2, <1>3, <1>4, <1>5, <1>6, <1>7, <1>8 DEF ReconcileStep

\* Every step of the system preserves the inductive invariant, which holds at
\* first, so it always holds.
LEMMA InvStep == IInv /\ [Next]_vars => IInv'
<1> SUFFICES ASSUME IInv, [Next]_vars
             PROVE  IInv'
  OBVIOUS
<1>0. TypeOK'
  BY TypeStep DEF IInv
<1>1. CASE OwnerStep \/ TimePasses \/ DispatcherStep \/ EngineStep
  BY <1>0, <1>1, QuietActors
<1>2. CASE ServiceStep
  BY <1>0, <1>2, ClaimStep, ClaimantSteps, FinishStep, OtherServiceSteps
  DEF ServiceStep, ExecuteStep
<1>3. CASE ProviderStep
  BY <1>0, <1>3, ProviderSteps DEF ProviderStep
<1>4. CASE UNCHANGED vars
  BY <1>0, <1>4, QuietStep DEF vars
<1> QED
  BY <1>1, <1>2, <1>3, <1>4 DEF Next

\* Nothing is claimed, sent or settled before the first step.
LEMMA InvInit == Init => IInv
BY LimitsAssumption, AttemptsAssumption
DEF Init, IInv, TypeOK, ClaimInv, WorkInv, SendInv, CallInv, SettledIsTrue,
    Claimed, NoCaller, ActionStates, Steps, Purposes, Unclaimed, NotExecuted,
    Working, Unsent

\* The inductive invariant holds in every reachable state.
LEMMA Invariance == Spec => []IInv
BY InvInit, InvStep, PTL DEF Spec

\* However retries, timed-out attempts, crashes, repeated dispatch and result
\* checks interleave, no action is requested from the provider twice, and only
\* one that was approved and claimed is requested at all.
THEOREM OneMutation == Spec => []AtMostOneMutation
<1>1. IInv => AtMostOneMutation
  BY DEF IInv, SendInv, ClaimInv, AtMostOneMutation
<1> QED
  BY <1>1, Invariance, PTL

\* What the owner is told of a settled action is true, and stays true.
THEOREM Truthful == Spec => []SettledIsTrue
<1>1. IInv => SettledIsTrue
  BY DEF IInv
<1> QED
  BY <1>1, Invariance, PTL

-----------------------------------------------------------------------------
(* The lifecycle and the promise *)

\* What one step may do to a row, its claim and the provider's side of it.
RowStep(a) ==
  LET Moves(from, to) == state[a] \in from /\ state'[a] \in to
      Silent == /\ UNCHANGED claimant[a]
                /\ provider'[a] = "applied" <=> provider[a] = "applied"
  IN \/ UNCHANGED state[a] /\ Silent
     \/ Moves({"none"}, {"awaiting_approval"}) /\ Silent
     \/ Moves({"awaiting_approval"}, {"queued", "cancelled", "expired"}) /\ Silent
     \/ Moves({"queued"}, {"cancelled", "expired", "failed"}) /\ Silent
     \/ /\ Moves({"queued"}, {"executing"})
        /\ claimant'[a] # NoCaller
        /\ UNCHANGED provider[a]
     \/ Moves({"executing"}, {"failed"}) /\ Silent /\ provider[a] # "applied"
     \/ Moves({"executing"}, {"outcome_unknown"}) /\ Silent
     \/ /\ Moves({"executing", "outcome_unknown"}, {"succeeded"})
        /\ Silent
        /\ provider[a] = "applied"
     \/ /\ state[a] \in {"executing", "outcome_unknown"}
        /\ UNCHANGED <<state[a], claimant[a]>>
        /\ provider[a] # "applied" /\ provider'[a] = "applied"

\* Every step of every actor does one of these to each row.
LEMMA RowSteps ==
  ASSUME IInv, [Next]_vars, NEW a \in Actions
  PROVE  RowStep(a)
<1> USE DEF RowStep, SetState, ownerVars, clockVars, outboxVars, providerVars
<1>0. TypeOK
  BY DEF IInv
<1>1. CASE OwnerStep
  BY ZenonT(30), <1>0, <1>1
  DEF OwnerStep, Prepare, Approve, Cancel, OwnerReconcile, Disconnect,
      CancelUnclaimed, TypeOK, Unclaimed
<1>2. CASE TimePasses
  BY <1>2 DEF TimePasses, Lapse, BecomeOverdue, LeaseEnds
<1>3. ASSUME NEW d \in Dispatchers, NEW locked, NEW batch, ClaimOutbox(d, locked, batch)
      PROVE  RowStep(a)
  BY <1>0, <1>3 DEF ClaimOutbox, Maintained, TypeOK, Unclaimed
<1>4. ASSUME NEW d \in Dispatchers, HandleBatch(d)
      PROVE  RowStep(a)
  BY <1>4 DEF HandleBatch, StartWorkflow, Deliver, AbandonBatch
<1>5. CASE EngineStep
  BY <1>0, <1>5
  DEF EngineStep, StartAttempt, CloseWorkflow, GiveUp, RecordInterrupted,
      FinishState, TypeOK, ActionStates
<1>6. ASSUME NEW b \in Actions, NEW p \in Callers, Claim(b, p)
      PROVE  RowStep(a)
  BY <1>0, <1>6, NoCallerFresh DEF Claim, Claimable, TypeOK
<1>7. ASSUME NEW b \in Actions, NEW p \in Callers, ClaimRefused(b, p)
      PROVE  RowStep(a)
  BY <1>0, <1>7 DEF ClaimRefused, TypeOK
<1>8. ASSUME NEW b \in Actions, NEW p \in Callers,
             \/ ReadRow(b, p) \/ LoadAttachments(b, p) \/ Authorize(b, p)
             \/ ValidateGrant(b, p) \/ ReadCredentials(b, p)
             \/ ReconcileStep(b, p) \/ Crash(b, p)
      PROVE  RowStep(a)
  BY <1>8
  DEF ReadRow, LoadAttachments, Authorize, ValidateGrant, ReadCredentials,
      ReconcileStep, AuthorizeReconcile, ReconcileAccess, Lookup, Crash
<1>9. ASSUME NEW b \in Actions, NEW p \in Callers, Send(b, p)
      PROVE  RowStep(a)
  <2>1. provider[b] = "untouched" /\ provider'[b] = "inflight"
    BY <1>0, <1>9 DEF Send, IInv, CallInv, SendInv, Unsent, TypeOK
  <2> QED
    BY <1>0, <1>9, <2>1 DEF Send, TypeOK
<1>10. ASSUME NEW b \in Actions, NEW p \in Callers, Answer(b, p)
       PROVE  RowStep(a)
  BY <1>0, <1>10 DEF Answer, TypeOK
<1>11. ASSUME NEW b \in Actions, NEW p \in Callers, Finish(b, p)
       PROVE  RowStep(a)
  <2>0. /\ state'[b] = FinishState(state[b], Report(pc[b][p]), pc[b][p] = "reject_unstarted")
        /\ \A c \in Actions \ {b} : state'[c] = state[c]
        /\ UNCHANGED <<claimant, provider>>
        /\ state[b] \in ActionStates
    BY <1>0, <1>11 DEF Finish, TypeOK
  <2>1. CASE pc[b][p] = "confirm"
    <3>1. provider[b] = "applied" /\ Claimed(b)
      BY <2>1 DEF IInv, CallInv, SendInv
    <3>2. state[b] \notin {"queued"} \union NotExecuted
      BY <3>1 DEF IInv, ClaimInv, SettledIsTrue, Unclaimed
    <3> QED
      BY <2>0, <2>1, <3>1, <3>2 DEF FinishState, Report, NotExecuted, ActionStates
  <2>2. CASE pc[b][p] = "reject"
    <3>1. provider[b] # "applied"
      BY <2>2 DEF IInv, CallInv
    <3> QED
      BY <2>0, <2>2, <3>1 DEF FinishState, Report
  <2>3. CASE pc[b][p] \in {"reject_unstarted", "doubt"}
    BY <2>0, <2>3 DEF FinishState, Report, ActionStates
  <2> QED
    BY <1>11, <2>1, <2>2, <2>3 DEF Finish
<1>12. ASSUME NEW b \in Actions, ProviderApplies(b)
       PROVE  RowStep(a)
  <2>1. state[b] \in {"executing", "outcome_unknown"}
    BY <1>0, <1>12
    DEF ProviderApplies, IInv, SettledIsTrue, SendInv, ClaimInv, NotExecuted,
        TypeOK, ActionStates, Unclaimed
  <2> QED
    BY <1>0, <1>12, <2>1 DEF ProviderApplies, TypeOK
<1>13. CASE UNCHANGED vars
  BY <1>13 DEF vars
<1> QED
  BY <1>1, <1>2, <1>3, <1>4, <1>5, <1>6, <1>7, <1>8, <1>9, <1>10, <1>11, <1>12, <1>13
  DEF Next, DispatcherStep, Maintain, ServiceStep, ExecuteStep, ProviderStep

\* No interleaving of handlers moves a row outside its lifecycle.
THEOREM Lifecycle == Spec => FollowsLifecycle
<1>1. IInv /\ [Next]_vars =>
        [\A a \in Actions : state'[a] # state[a] => state'[a] \in Successors(state[a])]_vars
  BY RowSteps DEF RowStep, Successors
<1> QED
  BY <1>1, Invariance, PTL DEF Spec, FollowsLifecycle

\* Every step of the service is a step of the one-shot promise, or stutters.
LEMMA PromiseStep ==
  ASSUME IInv, [Next]_vars, NEW a \in Actions
  PROVE  Promise(a)!Next \/ UNCHANGED Promise(a)!vars
<1>1. RowStep(a) /\ IInv'
  BY RowSteps, InvStep
<1> QED
  BY <1>1
  DEF RowStep, IInv, ClaimInv, Claimed, Unclaimed, OutcomeOf, Promise!Next,
      Promise!vars, Promise!Authorize, Promise!Withdraw, Promise!Commit,
      Promise!Apply, Promise!Reject, Promise!Doubt, Promise!Confirm

\* The service keeps the one-shot promise for every action.
THEOREM PromiseKept == Spec => KeepsPromise
<1>1. Init => \A a \in Actions : Promise(a)!Init
  BY DEF Init, OutcomeOf, Promise!Init
<1>2. IInv /\ [Next]_vars =>
        [\A a \in Actions : Promise(a)!Next \/ UNCHANGED Promise(a)!vars]_vars
  BY PromiseStep
<1> QED
  BY <1>1, <1>2, Invariance, PTL DEF Spec, KeepsPromise

-----------------------------------------------------------------------------
(* Disconnected accounts, and the outbox *)

\* Only approvals, previews and authorizations make something live, and they
\* look at the connection in the same transaction.
LEMMA OfflineStep == TypeOK /\ NothingLiveOffline /\ [Next]_vars => NothingLiveOffline'
<1> SUFFICES ASSUME TypeOK, NothingLiveOffline, [Next]_vars
             PROVE  NothingLiveOffline'
  OBVIOUS
<1> USE DEF TypeOK, SetState, ownerVars, clockVars, outboxVars, NothingLiveOffline,
            Online, Unclaimed
<1>1. ASSUME NEW a \in Actions, Prepare(a) \/ Approve(a) \/ Cancel(a)
      PROVE  NothingLiveOffline'
  BY <1>1 DEF Prepare, Approve, Cancel
<1>2. ASSUME NEW a \in Actions, OwnerReconcile(a)
      PROVE  NothingLiveOffline'
  BY <1>2 DEF OwnerReconcile
<1>3. ASSUME NEW c \in Connections, Disconnect(c)
      PROVE  NothingLiveOffline'
  BY <1>3 DEF Disconnect, CancelUnclaimed, RevokeGrants
<1>4. CASE TimePasses
  BY <1>4 DEF TimePasses, Lapse, BecomeOverdue, LeaseEnds
<1>5. ASSUME NEW d \in Dispatchers, NEW locked, NEW batch, ClaimOutbox(d, locked, batch)
      PROVE  NothingLiveOffline'
  BY <1>5 DEF ClaimOutbox, Maintained
<1>6. ASSUME NEW d \in Dispatchers, HandleBatch(d)
      PROVE  NothingLiveOffline'
  BY <1>6 DEF HandleBatch, StartWorkflow, Deliver, AbandonBatch
<1>7. CASE EngineStep
  BY <1>7 DEF EngineStep, StartAttempt, CloseWorkflow, GiveUp, RecordInterrupted, FinishState
<1>8. ASSUME NEW a \in Actions, NEW p \in Callers, Authorize(a, p)
      PROVE  NothingLiveOffline'
  <2>1. CASE UNCHANGED grant
    BY <1>8, <2>1 DEF Authorize
  <2>2. CASE Online(a) /\ grant' = [grant EXCEPT ![a]["execute"] = "active"]
    BY <1>8, <2>2 DEF Authorize
  <2> QED
    BY <1>8, <2>1, <2>2 DEF Authorize, Authorizable, Admissible
<1>9. ASSUME NEW a \in Actions, NEW p \in Callers, AuthorizeReconcile(a, p)
      PROVE  NothingLiveOffline'
  <2>1. CASE UNCHANGED grant
    BY <1>9, <2>1 DEF AuthorizeReconcile
  <2>2. CASE Online(a) /\ grant' = [grant EXCEPT ![a]["reconcile"] = "active"]
    BY <1>9, <2>2 DEF AuthorizeReconcile
  <2> QED
    BY <1>9, <2>1, <2>2 DEF AuthorizeReconcile, Authorizable, Admissible
<1>10. ASSUME NEW a \in Actions, NEW p \in Callers,
              Claim(a, p) \/ ClaimRefused(a, p) \/ Finish(a, p)
       PROVE  NothingLiveOffline'
  BY <1>10 DEF Claim, ClaimRefused, Finish, FinishState, Report
<1>11. ASSUME NEW a \in Actions, NEW p \in Callers,
              \/ ReadRow(a, p) \/ LoadAttachments(a, p) \/ ValidateGrant(a, p)
              \/ ReadCredentials(a, p) \/ Send(a, p) \/ Answer(a, p)
              \/ ReconcileAccess(a, p) \/ Lookup(a, p) \/ Crash(a, p)
       PROVE  NothingLiveOffline'
  BY <1>11
  DEF ReadRow, LoadAttachments, ValidateGrant, ReadCredentials, Send, Answer,
      ReconcileAccess, Lookup, Crash
<1>12. ASSUME NEW a \in Actions, ProviderApplies(a)
       PROVE  NothingLiveOffline'
  BY <1>12 DEF ProviderApplies
<1>13. CASE UNCHANGED vars
  BY <1>13 DEF vars
<1> QED
  BY <1>1, <1>2, <1>3, <1>4, <1>5, <1>6, <1>7, <1>8, <1>9, <1>10, <1>11, <1>12, <1>13
  DEF Next, OwnerStep, DispatcherStep, Maintain, ServiceStep, ExecuteStep,
      ReconcileStep, ProviderStep

\* A disconnect leaves no live grant and no unclaimed action behind, whatever
\* authorization, approval or claim was under way.
THEOREM OfflineIsDead == Spec => []NothingLiveOffline
<1>1. Init => NothingLiveOffline
  BY ConnectionAssumption DEF Init, NothingLiveOffline, Online, Unclaimed, Purposes
<1> QED
  BY <1>1, OfflineStep, TypeCorrect, PTL DEF Spec

\* A step by which a caller obtains a token is one of a connected account.
AccessOnline(a, p) ==
  /\ pc'[a][p] = "mutate" /\ pc[a][p] # "mutate" => Online(a)
  /\ pc[a][p] = "reconcile_access" /\ pc'[a][p] = "lookup" => Online(a)

\* Once an account is disconnected, no caller obtains credentials for it.
LEMMA AccessStep ==
  ASSUME TypeOK, [Next]_vars, NEW a \in Actions, NEW p \in Callers
  PROVE  AccessOnline(a, p)
<1>1. ASSUME UNCHANGED pc
      PROVE  AccessOnline(a, p)
  BY <1>1 DEF AccessOnline
<1>2. ASSUME NEW b \in Actions, NEW q \in Callers, NEW step, GoTo(b, q, step),
             step = "mutate" => Online(b),
             pc[b][q] = "reconcile_access" /\ step = "lookup" => Online(b)
      PROVE  AccessOnline(a, p)
  BY <1>2 DEF GoTo, TypeOK, AccessOnline
<1>3. ASSUME NEW b \in Actions, OwnerReconcile(b)
      PROVE  AccessOnline(a, p)
  BY <1>2, <1>3 DEF OwnerReconcile, ReconcileEntry, Callers
<1>4. ASSUME NEW b \in Actions, NEW i \in Attempts, StartAttempt(b, i)
      PROVE  AccessOnline(a, p)
  BY <1>2, <1>4 DEF StartAttempt, Callers
<1>5. ASSUME NEW b \in Actions, NEW q \in Callers,
             ExecuteStep(b, q) \/ ReconcileStep(b, q) \/ Finish(b, q) \/ Crash(b, q)
      PROVE  AccessOnline(a, p)
  <2>1. CASE ReadRow(b, q) \/ LoadAttachments(b, q)
    BY <1>2, <2>1 DEF ReadRow, Branch, ReconcileEntry, LoadAttachments
  <2>2. CASE Authorize(b, q)
    BY <1>2, <2>2 DEF Authorize, OnceAuthorized
  <2>3. CASE Claim(b, q) \/ ClaimRefused(b, q)
    BY <1>2, <2>3 DEF Claim, Claimable, ClaimRefused
  <2>4. CASE ValidateGrant(b, q) \/ ReadCredentials(b, q)
    BY <1>2, <2>4 DEF ValidateGrant, ReadCredentials, Readable, CredentialsReadable
  <2>5. CASE Send(b, q)
    BY <1>2, <2>5 DEF Send
  <2>6. CASE Answer(b, q)
    BY <1>2, <2>6 DEF Answer, AfterLostAnswer, ReconcileWithToken
  <2>7. CASE AuthorizeReconcile(b, q)
    BY <1>2, <2>7 DEF AuthorizeReconcile
  <2>8. CASE ReconcileAccess(b, q)
    BY <1>2, <2>8 DEF ReconcileAccess
  <2>9. CASE Lookup(b, q) \/ Finish(b, q) \/ Crash(b, q)
    BY <1>2, <2>9 DEF Lookup, Finish, Crash
  <2> QED
    BY <1>5, <2>1, <2>2, <2>3, <2>4, <2>5, <2>6, <2>7, <2>8, <2>9
    DEF ExecuteStep, ReconcileStep
<1>6. ASSUME OwnerStep
      PROVE  AccessOnline(a, p)
  BY <1>1, <1>3, <1>6 DEF OwnerStep, Prepare, Approve, Cancel, Disconnect
<1>7. ASSUME TimePasses \/ ProviderStep
      PROVE  AccessOnline(a, p)
  BY <1>1, <1>7
  DEF TimePasses, Lapse, BecomeOverdue, LeaseEnds, ProviderStep, ProviderApplies
<1>8. ASSUME DispatcherStep
      PROVE  AccessOnline(a, p)
  BY <1>1, <1>8
  DEF DispatcherStep, Maintain, ClaimOutbox, HandleBatch, StartWorkflow, Deliver,
      AbandonBatch
<1>9. ASSUME EngineStep
      PROVE  AccessOnline(a, p)
  BY <1>1, <1>4, <1>9 DEF EngineStep, CloseWorkflow, GiveUp, RecordInterrupted
<1>10. ASSUME ServiceStep
      PROVE  AccessOnline(a, p)
  BY <1>5, <1>10 DEF ServiceStep
<1> QED
  BY <1>1, <1>6, <1>7, <1>8, <1>9, <1>10 DEF Next, vars

\* Whoever obtains a token, to mutate or to look a result up, does so while the
\* account is connected, in the very transaction that yields the credentials.
THEOREM OfflineNoAccess == Spec => NoAccessOffline
<1>1. TypeOK /\ NothingLiveOffline' /\ [Next]_vars =>
        [/\ NothingLiveOffline'
         /\ \A a \in Actions, p \in Callers :
              /\ pc'[a][p] = "mutate" /\ pc[a][p] # "mutate" => Online(a)
              /\ pc[a][p] = "reconcile_access" /\ pc'[a][p] = "lookup" => Online(a)]_vars
  BY AccessStep DEF AccessOnline
<1> QED
  BY <1>1, TypeCorrect, OfflineIsDead, PTL DEF Spec, NoAccessOffline

\* The engine has the workflow of every start it answered, and so of every
\* outbox row that was acknowledged.
OutboxInv ==
  \A a \in Actions :
    delivered[a] \/ (\E d \in Dispatchers : <<d, a>> \in accepted) => workflow[a] # "none"

(* Every step keeps both halves of the outbox's safety: a delivered row, or one
   a dispatcher got an acknowledgement for, has its workflow. *)
LEMMA OutboxStep == TypeOK /\ OutboxInv /\ [Next]_vars => OutboxInv'
<1> SUFFICES ASSUME TypeOK, OutboxInv, [Next]_vars
             PROVE  OutboxInv'
  OBVIOUS
<1> USE DEF TypeOK, OutboxInv, outboxVars
<1>1. CASE UNCHANGED <<delivered, accepted, workflow>>
  BY <1>1
<1>2. ASSUME NEW d \in Dispatchers, NEW a \in Actions, StartWorkflow(d, a)
      PROVE  OutboxInv'
  BY <1>2 DEF StartWorkflow
<1>3. ASSUME NEW d \in Dispatchers, NEW a \in Actions, Deliver(d, a)
      PROVE  OutboxInv'
  BY <1>3 DEF Deliver, Acknowledged
<1>4. ASSUME NEW d \in Dispatchers, AbandonBatch(d)
      PROVE  OutboxInv'
  BY <1>4 DEF AbandonBatch
<1>5. ASSUME NEW a \in Actions, CloseWorkflow(a) \/ GiveUp(a)
      PROVE  OutboxInv'
  BY <1>5 DEF CloseWorkflow, GiveUp
<1>6. CASE OwnerStep \/ TimePasses \/ ProviderStep
  BY <1>1, <1>6
  DEF OwnerStep, Prepare, Approve, Cancel, OwnerReconcile, Disconnect, TimePasses,
      Lapse, BecomeOverdue, LeaseEnds, ProviderStep, ProviderApplies
<1>7. ASSUME NEW d \in Dispatchers, NEW locked, NEW batch, ClaimOutbox(d, locked, batch)
      PROVE  OutboxInv'
  BY <1>1, <1>7 DEF ClaimOutbox
<1>8. ASSUME NEW a \in Actions,
             (\E i \in Attempts : StartAttempt(a, i)) \/ RecordInterrupted(a)
      PROVE  OutboxInv'
  BY <1>1, <1>8 DEF StartAttempt, RecordInterrupted
<1>9. ASSUME NEW a \in Actions, NEW p \in Callers,
             ExecuteStep(a, p) \/ ReconcileStep(a, p) \/ Finish(a, p) \/ Crash(a, p)
      PROVE  OutboxInv'
  <2>1. UNCHANGED <<delivered, accepted, workflow>>
    BY <1>9
    DEF ExecuteStep, ReconcileStep, ReadRow, LoadAttachments, Authorize,
        Claim, ClaimRefused, ValidateGrant, ReadCredentials, Send, Answer,
        AuthorizeReconcile, ReconcileAccess, Lookup, Finish, Crash
  <2> QED
    BY <1>1, <2>1
<1> QED
  BY <1>1, <1>2, <1>3, <1>4, <1>5, <1>6, <1>7, <1>8, <1>9
  DEF Next, DispatcherStep, Maintain, HandleBatch, EngineStep, ServiceStep, vars

\* No acknowledged outbox row is without a workflow, whenever dispatchers die
\* between the start and the acknowledgement.
THEOREM DeliveryIsSafe == Spec => []DeliveredHasWorkflow
<1>1. Init => OutboxInv
  BY DEF Init, OutboxInv
<1>2. OutboxInv => DeliveredHasWorkflow
  BY DEF OutboxInv, DeliveredHasWorkflow
<1> QED
  BY <1>1, <1>2, OutboxStep, TypeCorrect, PTL DEF Spec
====
