# Shuddho coworker: a formal model

Shuddho is a writing assistant whose *coworker* (`src/services/coworker`) acts
for its users: it sends an email, creates a calendar event, publishes a post or
reserves a table, after the user has approved the exact preview. This directory
models the parts of the coworker in which a mistake cannot be taken back, and
those that decide who may work at all, checks the models with TLC on small
instances and proves their central properties with TLAPS for every size.

Run everything from this directory:

    tlc -workers 2 -config ActionRetries.cfg MCActionExecution.tla
    tlapm ActionExecutionProofs.tla

## The system

| Component | State it keeps | Operations | Talks to |
|---|---|---|---|
| External actions (`action_repository.py`, `actions.py`) | one row per action: state, `approved_at`, `expires_at`, `started_at`, lease, delivered flag, result checks | prepare, approve, cancel, reconcile (owner); claim_outbox, delivered (dispatcher); execute, reconcile, finish (activity) | the database, the gateway and broker, a provider adapter |
| Permission gateway, credential broker (`permission_gateway.py`, `credential_broker.py`) | grants per action and purpose | authorize_action, validate_grant, issue_access | the database, the provider's token endpoint |
| Dispatcher (`worker.py`) and workflows (`workflow.py`) | worker claims; the engine keeps workflow state | tick: one claim batch per queue, start the workflow, mark delivered | the database, Temporal |
| Business transactions (`transaction_repository.py`, `restaurant_reservations.py`) | transaction with revision, terms, reviews as events, execution link, reconciliation evidence | set_terms, start_review, confirm_review, prepare_action and bind, transition (cancel), sync_external_action | external actions |
| Provider capacity (`provider_capacity.py`) and model budgets (the `reserve_*`/`settle_*` pairs) | leases, daily token usage by day and by account | acquire, settle, release | model providers |
| Worker fleet and reviewed skills (`repository.py`, `worker_claims.py`, `worker.py`) | worker rows, dispatch claims, publications and the selected one, the publication pinned by each task | register, heartbeat, request drain, claim, complete, mark drained; publish, select, roll back, admit | dispatchers, agent runs |
| Agent runs (`agent_*.py`, `tool_execution.py`, `AgentWorkflowV3`) | run with steps, their invocations and receipts, checkpoints of decisions | decide, begin, link, finish, complete, fail (activities); cancel (owner); expire (maintenance) | capacity, document tasks, browser sessions, external actions |
| Document tasks (`runner.py`, `repository.py`) | task with phases and their output | claim, phases, cancel, fail | models, storage |
| Automations (`automation_*.py`, `AutomationOccurrenceWorkflow`) | automation with revision and policy, one row per occurrence | update, pause, resume, cancel (owner); accept, release the buffer, record an error | Temporal schedules, connector events, agent runs, notices |
| Connected accounts (`action_repository.py`, `connector_registry.py`) | connection, OAuth state, credential | start, callback, rotate, disconnect | providers |
| Connector reads and push (`connector_reads.py`) | read grant, cursor, snapshots; subscriptions and the events they brought | sync, revoke, subscribe (owner); enqueue (provider's push); claim and process events, renew (worker) | providers, automations |
| Browser broker (`browser.py`, `browser_worker.mjs`) | session with takeover state, frame and stored login; commands with leases | prepare, request takeover, resume, cancel (owner); claim, heartbeat, control, complete, fail (worker) | worker processes with live pages |
| Sandbox broker (`sandbox.py`) | executions with leases | enqueue, claim, complete, cancel | worker processes |
| Notifications, conversations, negotiations, goals, memory, suggestions | owner-scoped rows | mostly single transactions under the owner's lock; deliveries and replies are claimed with timeouts | push services, models |
| Writing assistant, `ml`, front ends, scripts | none that is shared | analysis of one request at a time; release gates | |

What makes the coworker hard: a workflow retries an activity whose earlier
attempt may still be running; the provider's answer may be lost, so nobody knows
whether an email was sent; the owner may cancel, disconnect or edit at any
moment between two database transactions of somebody else; a worker may die
between two of its own; and several deadlines run against late results. What
must hold all the same, per component:

* external actions: nothing is sent without approval, nothing twice, and the
  owner is told the truth or told that it is not known;
* gateway: a disconnect ends all access;
* dispatcher: an approved action is neither lost nor left hanging;
* transactions: what executes is what was reviewed, and its outcome can be
  recorded and is not overwritten;
* capacity: limits hold, and what is charged is what was used, or more;
* fleet: a selected skill runs only where every running worker can honour it,
  and a drained worker has nothing left to do;
* runs: a decision is taken once, a run that is said to be completed did its
  steps, a stopped one holds nothing;
* automations: an occurrence gets one run, whoever delivers it and how often;
* browser: an owner's click goes to the page they saw, once; a closed session
  keeps nothing of the login;
* connector reads: what the cursor has passed is stored, nothing that was notified
  goes by unread, nothing is stored without authority;
* deliveries, sandbox, replies: each unit of work is done at most once, late
  results do not revive what was cancelled.

`PROJECT.json` lists the hazards at the lines where they bite.

## Modules

| Module | What it is |
|---|---|
| `ActionLifecycle` | states of an action row, which state may follow which, and `FinishState`, the pure part of `ActionRepository.finish`; shared by the next two |
| `OneShotAction` | the abstract specification of what cannot be taken back: proposed, authorized, committed, then confirmed, rejected or uncertain, with the one change of the outside world as a step; `ActionExecution` implements it for each external action, `BrowserSession` for each click of the owner |
| `AgentSession` | the contract between a run and the browser broker about one session: asked once, answered, settled, or closed; `AgentRun` and `BrowserSession` both implement it |
| `ActionExecution` | the service: owner, dispatchers, engine, attempts of the activity and provider, interleaved |
| `ActionExecutionProofs` | its theorems |
| `TransactionBinding` | one business transaction, the requests that turn its review into an action, and the synchronization back |
| `TransactionBindingProofs` | its theorems |
| `ProviderCapacity` | admission and settlement of model calls: leases, the provider's daily allocation and each account's |
| `ProviderCapacityProofs` | its theorems, and facts about sums over finite sets |
| `WorkerFleet` | worker processes, their rows and dispatch claims, drains, and the selection of a reviewed skill against them |
| `WorkerFleetProofs` | its theorems |
| `BrowserSession` | one browser session with its commands, its owner, and the workers that hold its pages |
| `BrowserSessionProofs` | its theorems |
| `AutomationOccurrence` | one automation, its occurrences, and the calls that admit them |
| `AutomationOccurrenceProofs` | its theorems |
| `AgentRun` | one run of the agent, its coordinator, the attempts at its activities, and what its steps start |
| `AgentRunProofs` | its theorems |
| `ConnectorReads` | one read grant on a Google account: its cursor, snapshots, subscriptions and events, the provider that changes meanwhile, and all callers |
| `ConnectorReadsProofs` | its theorems |
| `MC...` | the instances TLC checks |

`ActionExecution`, `TransactionBinding` and `AgentRun` share `ActionLifecycle`: the
latter two move an action only along `Successors` (theorems `ActionFollows` and
`AgentActions`), which is what `FollowsLifecycle` says of the service. `AgentRun` starts browser sessions and
`AutomationOccurrence` starts runs; each sees of the other what its own code reads:
a session that is open, reading, read, settled or closed; a run that is active or
over. For sessions this is a contract of its own, `AgentSession`, which both sides are
proved to keep, so that what `AgentRun` supposes of a session (`SessionMoves`) is what
`BrowserSession` does to one. The dispatcher
appears twice: `ActionExecution` models what happens to an action's row and its
workflow and takes a running worker for granted; `WorkerFleet` models the worker
and its claims and treats what is dispatched as opaque rows.

### ActionExecution

Each database transaction of the code holds the locks of the rows it writes, so
it is one action; every `await` between two transactions is a point where any
other actor may run. `pc[a][p]` says where caller `p` (an attempt of the execute
activity, or caller 0, the API process that checks a result for the owner)
stands in `ActionService.execute` or `reconcile`:

    begin -> load -> authorize -> claim -> access -> credentials -> mutate -> waiting
          \-> reconcile -> reconcile_access -> lookup
    then confirm / reject / reject_unstarted / doubt -> done      (Finish)

`claimant` stands for `started_at` (and remembers who set it, which the code does
not), `leased` for `lease_until > now`, `lapsed` for `expires_at <= now`,
`overdue` for `started_at` being ten minutes old, `delivered` for the column of
that name; `claimed` and `accepted` are the dispatcher's local variables. `sent`
and `provider` are the outside world. An uncaught exception, a kill switch and
the death of a process are the step `Crash`, which no handler follows up; the call
is then `done` like one that returned, since nothing tells the two apart.
`StartAttempt` lets an attempt begin while earlier ones are still running: the
activity has no heartbeat, so Temporal's timeout stops nobody. The engine itself
is modelled as `workflow.py` uses it, with `REJECT_DUPLICATE` identifiers.

`trustBoundary` is the setting `connector_trust_boundary_enabled`, off by default.
It is a variable that no action changes, so that one run takes both paths of the code
(credentials before the claim, or a grant before and the credentials after).

The deadline maintenance at the start of `claim_outbox` is part of `ClaimOutbox`:
it skips locked rows (`FOR UPDATE SKIP LOCKED`), hence the parameter `locked`.

### TransactionBinding

The transaction's own operations each run under its row lock with the revision
their caller expects, so each is one action. `RestaurantReservationService.
prepare_action` is three: it reads the review, prepares the action, binds it.
The action is represented by its row, which moves along
`ActionLifecycle!Successors`; `FollowsLifecycle` of `ActionExecution`, checked
and proved there, is what justifies that. The event ledger is represented by the
reviews it records and by the pairs (evidence, observation) that
`_verify_execution_history` compares; hashes are left out.

### ProviderCapacity

One call of a model goes `idle -> admitting -> running -> answered -> (settling)
-> settled`, or `late` (its lease was gone when it settled), or `lost` (its
process died). `admitting` and `settling` are transactions that hold the
account's row lock, have read its usage (`seen`) and wait for the provider's
advisory lock; everything written under that lock until the commit is one action.
So the model has the code's two-lock structure and its stale reads: `_settle` of
the suggestion and negotiation services (`Bare` calls) changes the account's usage
under the advisory lock alone. `acquire_provider_lease` reads the clock before it
waits, so it may charge a day that is over (`now` in `Admit`), while settlement
uses the day of `created_at`.

A lease does not expire while its call is in flight: `config.py` refuses a lease
time that is not longer than the timeout of the call. A replayed call is another
call, possibly with the same key (`KeyOf`). Limits per task, run or conversation
only refuse, which is `Reserve` not happening.

### WorkerFleet

A worker has a row (`row`, `stale`), and a process (`process`, `busy`), which is
what the row is about. `main` is the path `absent -> registered -> serving ->
closing -> closed -> gone`; `Die` leaves it anywhere. `_dispatch_claim_batch` is
the small program `at`: `batch -> started -> returned` per row, `failed` when the
operation raises, `sweep` for the outer `finally`. Every database call of it can
fail, with or without having committed. Claims are pairs in `claims` as long as
they are active; a completed one is of no consequence. All transactions lock the
worker row first, and those on the fleet lock all rows and the membership, so
each is one action.

The row states `lost` and unknown ones are not reachable (nothing writes them),
and `drain_requested_at` is set exactly while the state is `draining` or was so
before `drained`. The three outboxes are one set of rows, since claims do not
depend on what is dispatched.

### BrowserSession

Every method of `BrowserRepository` is one transaction under the session's lock, so
each is one action, including what it tidies before its own work: expiry, lost
live pages (`_expire_takeover_affinities`), and in `claim_commands` the leases that
lapsed. A method that raises rolls back what it wrote and is no step, except
where the code commits first (`_commit_rejected_agent_observation`). `session` and
`command` are the rows; `warm` says that `takeover_worker_lease_until` is ahead,
`lease` the same for a command; `due` that `expires_at` has passed.

A worker is the loop of `browser_worker.mjs`: `work[w]` says whether it is idle, has
polled, holds a claimed command, has acted, or is about to report a failure; `page[w]` is what
its live takeover page shows. A request or its answer may be lost at every call,
which the worker takes for a failure; a crash loses the page, and the worker
comes back under its configured name. `clicks` counts what was really done. The
owner's click names the version of a frame; the model abstracts the version by
the frame the broker holds when the call arrives, and the hash of a page by the view.
`KeepsPromise` maps each click to `OneShotAction`: prepared is authorized, handed out
is committed; missing or stale pages are rejections, all other failures after it was handed out are doubt.

### AutomationOccurrence

A call of `accept_occurrence` (by a Temporal schedule, a connector event, or a
released buffer) goes `called -> routed -> locked -> admitted -> started`: it reads
which path applies without a lock (`Route`), locks the automation and reads the
occurrence's row (`Lock`, where `lock` is held to the end of the transaction),
decides (`Replay`, `Suppress`, `Overlap`, `Admit`, `Remind`), creates the run in
`AgentRepository.create` under its idempotency key (`Create`), and links and announces it in
a third transaction (`Link`); a refused run is recorded in one of its own
(`RecordError`). A call dies at any stage (`Crash`) or meets another one at any
stage. The four paths are those of the profiles: goal, event, meeting
and deadline scans differ in the order of their checks, and a reminder creates no run.
`due[o].revision` is the revision an occurrence was fired under, any up to the
current one, which covers whatever Temporal's copy of the schedule holds.

### AgentRun

`flow` is `AgentWorkflowV3`: which activity is current, in which cycle, and how often
it was tried. `attempt[t]` is a thread at work on an activity; `Lose` makes
the engine give it up (no heartbeat, a timeout, a lost answer), after which the thread may go on next
to its retry. Each transaction of `AgentRepository` is an action. Between two of
them an attempt keeps what it read (`seen`) and where it stands:

    decide -> reserve -> infer -> (commit)        decide -> block
    step -> begin -> create -> link -> work -> finish             (a task)
    step -> begin -> create -> link -> clear -> poll -> finish    (a browser session)
    step -> look -> settle                                        (an action)
    complete,  fail -> fail_run

`task`, `session` and `action` are what the steps start, and move by themselves
(`TaskEnds`, `SessionMoves`, `ActionMoves`). `run = "cancelled"` stands for
`cancel_requested` as well, which `cancel_in_session` sets with the state of the steps. Decisions of the
model are nondeterministic within what `append_v3_step` and the plan's validation
let through. `result[c]` is the checkpoint by which a repeated decision activity
finds what it has decided.

### ConnectorReads

Every transaction of `ConnectorReadRepository` is an action; a caller (a request of
the API, or the loop of a worker) stands between two of them, or at a request to
the provider, in `call[c].stage`:

    sync -> list -> fetch -> apply (-> bind -> consume -> finish)    sync, process_event
    check -> ignore | sync                                           process_event
    reset -> sync,  recover -> list                                  reset_cursor
    reserve -> watch -> done | drop (-> keep)                        subscribe, renew_subscription
    revoke                                                           revoke

`provider` and `log` are the account at the provider, which numbers its changes; a
history id, a sync token, and a message number of a calendar channel stand for such a number, of which
the code only uses the order. Gmail is read in two steps, `List` (the history, or
the number of the mailbox) and `Fetch` (the mails themselves), and the mailbox
changes between the two; a calendar answers at once. A claim is the flag `claimed`, which
lapses at any time (`EventLapses`, `RenewalLapses`) whether or not its caller is still at work:
the claim is not asked for again when the caller writes. What the
automations do with an event is `Consume`, which succeeds or fails; `AutomationOccurrence`
has their side. `Authorized` is `validate_read_grant_in_session`, which takes the locks
of the connection and the grant to the end of the transaction, so that `Apply` is atomic
with it.

## Runs

| Run | Question | Bounds | Answer |
|---|---|---|---|
| `retries` | can retries, timeouts, crashes, lost answers, a disconnect, the owner's check or maintenance produce a second mutation, a lie or access after a disconnect? does the service implement `OneShotAction`? is every approved action settled, and is what the outbox acknowledges handed to the engine? | one action with and without the trust boundary, two attempts that may hang and the owner, one dispatcher, one result check | no; yes; yes, under the fairness below |
| `review` | do re-reviews, racing requests, expiry, cancellation and synchronization keep transaction and action consistent? | seven revisions, two requests | yes |
| `cancelled` | is a cancelled transaction one whose action was never claimed, as the documentation says? | five revisions | **no**, see below |
| `capacity` | do the limits hold for the calls in flight, and is an account charged what its calls cost, over expiry, crashes, midnight, stale writes and reports above a reservation? | three calls (one of each way to settle), two accounts, two days, reports of 0 and 3 for reservations of 1 and 2 | yes, but for settlements without the account's lock |
| `replayed` | does a lease bound the calls in flight, as documented? | two calls with one key, limit one | **no** |
| `fleet` | is a drain final and honest, does a dispatcher hold the claim of whatever it may start, and do selection, rollback and admission see the fleet as it is? | an old and a new worker, two rows, three publications (two of the new revision, so that one that was rolled back could be tried again), one task | yes |
| `browser` | does every click implement `OneShotAction`, on the page its owner saw; does anything late revive or refill a closed session? | two workers, two views, three commands of two attempts each | yes; no |
| `automation` | does an occurrence get one run, does the buffer hold one? | three occurrences, two calls at once, four profiles, three revisions, one call lost | yes |
| `agent` | is a completed run honest, does a stopped one hold nothing, is a decision taken once, is the end final? | two steps, three planner calls, three cycles, two threads, two attempts given up | yes |
| `reads` | is every change up to the cursor stored, every settled event read, and nothing stored without authority; does anything late take something back; do renewals go on? | a mailbox or a calendar with two resources, two callers, two changes, two events, three subscriptions, two generations of the cursor, one failure or crash | yes; no; yes |
| `evidence` | does the retry of an event keep the evidence that its first attempt bound, as documented? | one mailbox with two mails, one caller, one event of two attempts, one failure | **no** |
| `stuck_claim` | is a row retried after its lease, as the comment says? | one worker, one row | **no** |

Why the bounds are enough: two attempts give every pairwise overlap of a retry
and an attempt that timed out, the code allows three, and the proofs cover any
number. One action suffices because actions share only the connection, which a
disconnect takes from each of them alike, the daily limit, which only refuses an
approval, and a batch, from which the one action may be abandoned at any point; two
dispatchers that hold one row after its lease ended, several actions and any limit
are covered by the proofs of the safety properties, while liveness is checked for
one action and one dispatcher only. An action whose kind has no result check
behaves as one whose lookup always fails, so `Reconcilable` holds the one action. Seven
revisions reach terms, review and confirmation twice plus a cancellation or
three synchronized outcomes. Three calls fill a limit of two, and the accounts put two of the settlement
paths on one account and the third on another; a report of 3 is above every reservation
and alone reaches the account's budget, one of 0 is below them all. Two workers are the two
sides of a rollout; batches of two rows are explored for the new worker before
anything is published (constraint `SecondRowFirst`), which is where the order of
a batch and its sweep matter; control steps see claims of one row of either
worker. In `browser`, the two workers are the holder of a page and another one, two
views a page before and after it changed, and two attempts a claim and its
retry; three commands make a frame, a click on it, and one more on the live page:
the third is explored only after a frame that was taken at once and a click
(constraint `ThirdAfterInteraction`), the first two without restriction. In
`automation`, the first occurrence is running under an event automation when
the others fall due, a state of the specification that takes four steps to reach,
so that the overlap policy has something to overlap; two more occurrences compete for one place in the
buffer; the third revision is for an automation that was paused and resumed
(constraint `WorthExploring`). In `agent`, two steps are the least that depend on
each other, three cycles two steps and a conclusion, and two threads an attempt that was
given up and its retry; a second attempt is given up only in runs of one step
(constraint). In `reads`, two changes are of one resource or
of two, or an arrival and a removal; two callers are two synchronizations, or two attempts at an
event; the third subscription is for renewals that overlap. Changes, events, failures, resets, further
subscriptions and the end of the authority add up to four at most, or three where a failure, reset or
subscription meets an event (constraint `FewComplications`): each of them meets each other. It starts with a subscription that is active,
three steps from the initial state. `evidence` needs one event, tried twice, and two mails.
The symmetries permute resources, workers and views, the occurrences but
the first, callers, and threads, none of which the definitions tell apart.
`CHECK_DEADLOCK FALSE` is set because all models may
stop: an action that is settled, with its callers done, has no next step.

**Fairness** (`FairSpec`). Clocks advance (`Lapse`, `BecomeOverdue`); some
dispatcher keeps ticking, finishes its batch (`Dispatcher.run` loops and catches
everything, and each item either completes or is abandoned) and now and then runs
its maintenance with no row locked by somebody else. No attempt, owner, engine
or provider step is fair: attempts may hang and the engine may forget. The
maintenance alone settles what is left. It needs one worker in state `running`:
a draining one returns from `tick` before `claim_outbox`. A stuck claim (below) on
an action makes that worker's `claim_outbox` roll back together with its
maintenance, but only until the action expires: expiry comes first in the same
transaction and takes the row out of the batch.

In `WorkerFleet`, a serving worker keeps its heartbeat and its ticks, and an
operation that is tried again and again succeeds some time (strong fairness,
since each may fail); leases end. The property is only asked of workers that
serve for ever. Nothing else in the models needs fairness: safety alone is asked
of the other modules.

**The divergence** (`cancelled`). `TransactionRepository.transition` allows
`awaiting_approval -> cancelled` on a bound transaction and does not look at the
action. `docs/PART_3_APPROVED_ACTIONS.md:37` says that cancellation stops
unclaimed actions only. TLC's trace binds, approves, claims, and cancels: the
transaction is cancelled, the action is executing, and when the provider confirms,
`sync_external_action` answers `transaction_execution_state_conflict` for ever.
Whether cancelling is possible depends only on whether somebody has synchronized
since the approval. `ObservationNeverBlocked` therefore excludes cancelled
transactions, and says that this is the only way to that conflict.

**Three more divergences.** `replayed`: two requests for a negotiation proposal with one idempotency key have
one lease key, and `acquire_provider_lease` answers a key it knows with the
running lease, so two calls are in flight under a limit of one. `capacity` has
injective keys, as all other callers do. `stuck_claim`: both attempts of
`_dispatch_claim_batch` to complete a claim may fail, say in a short outage; the
claim then outlives the attempt on a worker that lives, and the unique index
on active claims makes every later `claim_outbox` of this worker that selects the
row roll back. Another worker may still dispatch it; with one worker it is
stuck until an operator acts. The documentation names crashes and cancellation as
what leaves a claim behind, and promises a retry for the rest. `evidence`: a retry whose
synchronization changed anything replaces the evidence of its event
(`connector_reads.py:813`), where `docs/PA10_EMAIL_COWORKER.md:25` says that the first
non-empty evidence is preserved, so that the event does not widen to unrelated
snapshots. In the trace a consumer fails after the evidence was bound, another mail
arrives, and the retry binds that mail in place of the one the event was about. Only a
retry that brings no change keeps what there is.

`WorkIsCharged` says exactly what an account is charged: the sum of what its calls cost,
except that the settlement of a `Bare` call may be lost as a whole, in either direction,
to a transaction that read the usage before it. Reports are not bounded by the
reservations (`suggestion_relevance_service.py:29` reserves 2000 tokens or less, without regard to the
prompt), so an account may pass its budget, but only by what was reported above the
reservations (`Overrun`). For the provider the property compares sums over all days: at
midnight a reservation may be charged to one day and settled on the next, so a single
day can be off in either direction, but not the sum. The provider's count is read and
written under the advisory lock, which is why no settlement under a live lease is lost there, upward or
downward, as `docs/PROVIDER_CAPACITY_GOVERNOR.md:61` has it.

## Proofs

TLAPS checks the theorems of the eight proof modules for every value of the
constants. The assumptions are the named ones of the modules: connections are a
function on actions, at least one attempt, limits are naturals, `None` is nothing
else.

*ActionExecution.* `AtMostOneMutation` is not inductive: it does not say why a
second caller cannot be about to send. `IInv` adds

* `ClaimInv`: who claimed is recorded with the state; an unclaimed row has no
  claimant, and a claimed row never looks unclaimed again;
* `WorkInv`: only the claimant stands at a step between the claim and the end of
  its mutation, so the right to send is never shared;
* `SendInv`: a request was sent only by a claimant that has left the steps before
  sending;
* `CallInv`: what a caller is about to report is true at the provider;
* `SettledIsTrue`: itself inductive relative to the others.

`InvStep` has one lemma per group of actions: those that move nobody's right to
send (`QuietStep`), the claim, the claimant's own steps, `Finish`, the provider
and the services around. `OneMutation` and `Truthful` follow;
`Lifecycle` and `PromiseKept` (the refinement) are proved step by step from the
invariant. `OfflineIsDead`, `OfflineNoAccess` and `DeliveryIsSafe` need only small
invariants of their own.

*TransactionBinding.* `BInv` says that a link equals the action's binding, is a
confirmed review and freezes the terms; that an action past approval is linked;
and that outcomes are true. `HInv`, for `AlwaysObservable`, relates each entry of
the ledger of evidence to the action's current state: what was observed can still
lead to what is, entries are in order of revision, and the last one is what the
transaction shows. That no synchronization is ever rejected follows, since every
state an action can still reach projects to an allowed move. `TransactionTypes` bounds
the ledgers: no state is observed twice (`DistinctInv`), so the index of an entry is
determined by its state, and a ledger is no longer than the lifecycle (`LedgerIsShort`).
`ActionFollows` says that the row moves as `ActionExecution` lets it.

*WorkerFleet.* `DrainedIsQuiet` is inductive only with what leads to the row being
written: `ProcessInv` says that a process that may work has an active row, an
activity runs only in a process that serves or closes, and a drained row's worker
is gone and has no claims; `DispatchInv` says that a dispatcher that may still start
work holds the claims of its whole batch (the part of `TypeOK` that is no type), and that its
process serves. The two
control theorems follow: `ControlStep` shows that only the transactions which
check the fleet change the selection or admit, `RowsTellProcesses` that a check of
rows is a check of processes (a live process has an active row), and an empty
set of claims contradicts a dispatcher with a batch. The assumption used is that
`None` is neither a row nor a publication.

*BrowserSession.* The invariant has two halves. `LedgerInv` relates a command, its
clicks and its worker: an interaction that was not claimed was not clicked; a
worker that has claimed it, has acted, or is about to report knows which, and no
two workers have the same interaction, since a second attempt is never
allowed. `SessionInv` relates the session to its open commands: a frame belongs
to the holder of the page, a closed session is bare, and a command that needs the live
page is open only while the session waits for its owner or runs it. Lemmas state once what ending some commands does to
either half (`SomeEndLedger`, `FewerInv`), since a dozen methods do that.
Beside the invariant, every step lemma proves `Final`: a closed session stays closed, and a
command takes its `Course` (prepared, handed out, ended once, for good). `BrowserEnded` is that.
The refinement of `OneShotAction` follows from it (`PromiseStep`): the course leaves a few outcomes
for each step, the ledger invariant rules out the false ones, and the change of the world is the one
step that clicks (`ClickStep`), at a command which is handed out or in doubt. `BrowserInteractions`
is what the promise says of a single state.

`BrokerKeepsContract` maps the session to `AgentSession`. Only the agent's own transaction makes a
session completed, and only on an answer (`OnlySettled`); answers stay (`AnswersStay`, from
`Course`); everything else that ends a session is `Close`.

*AutomationOccurrence.* `OneRunEach` follows from `IInv`: `RowSound` says what a row's state
implies for the run, the notices and the link; `CallSound` what a call
may believe: only the holder of the lock has an up-to-date view, a stale one still tells whether the
row was there and of which kind, and a call past its admission has a row that
is no reminder's. `BufferHoldsOne` needs one step lemma (`BufferStep`): only a call that
holds the lock and saw no other buffered occurrence buffers one. `OccurrencesStay`
(`NothingIsForgotten`) says what late calls cannot undo: the row, its kind, its link, its run and the notices.
It does not say so of the row's state, for which it is false (see below).

*AgentRun.* `IInv` has three parts beside the types: `FlowSound` (the coordinator
executes a step that exists and knows its tries), `LedgerSound` (steps agree with
their invocations, receipts with what happened; the four properties themselves) and `AttemptsSound` (what
an attempt stands at exists, and what it has seen to be done is done: the facts it
carries across transactions are stable). `QuietStep`, `AttemptStep` and `OneStep` say which part a kind of
step can disturb. `AgentKeepsContract` is the other side of `AgentSession`: whatever
attempts overlap, the run asks an open session, settles one that was read and closes live ones.
`BrokerIsFree` says that what the contract lets the broker do to a live session is a step of this
model. So the two models fit: neither supposes of the session what the other does not keep.

*ConnectorReads.* `NothingLost` is about every event and every order of
synchronizations, retries and renewals. It rests on `HonestCursor`, for which `IInv` has, beside the types,
`ProviderSound` (the account at the provider is no older than any change),
`ReadsSound` (what a caller read up to its number has every change after the cursor it
began from) and `CursorSound` (the cursor does not run ahead; before the first read
nothing is stored). `SettledInv` adds that a caller at work on an
event has read up to it before it binds, tells and finishes (`CallsSound`), that the events which
are settled, and the last event of a subscription, were stored (`EventsSound`,
`SubsSound`). The crux is that `Known`, the strengthening of "stored", is stable
(`KnownStays`): until the first reset the cursor is past the change, so that a mail
which is removed later is either stored or was never to be, and after a reset a removal makes no
difference.

`WatchStaysOn` is about renewals that overlap. A subscription that replaces another one must not
itself be replaced, or lost, before it goes on. `WatchInv` says why: a caller that prepares a
subscription prepares one that nobody else prepares or replaces, and that cannot be renewed yet
(`ReservedApart`), what is replaced was made before (`OldMade`, `UnmadeIsFresh`), and as soon as one
was replaced some subscription goes on or has used up its attempts (`Lasts`). A revoked
subscription counts as going on, since a renewal that fails afterwards makes it pending again.

*ProviderCapacity.* The sums are those of the community modules, recursive functions on
the subsets of a set, of which the library states nothing, and its induction theorems take
an operator, which the provers cannot instantiate. `Smallest` replaces them: among the
subsets for which a statement fails there is one with no smaller one (well-foundedness
of strict inclusion). By it the recursion defines a function (`SumsExist`), the order of the
elements does not matter (`SumRemove`), and a sum injected into another one is no
greater (`SumInjected`). `LimitsHold` needs that lease keys are not shared (`OwnKeys`: the run
`replayed` shows what happens otherwise); `LeaseInv` says that each call in flight holds
an unexpired lease of its own and that the leases are within the limits, so that `SumInjected` bounds the calls by
the leases.

`OnlyUnlockedIsLost` supposes nothing of keys or reports. `AccountInv` says why stale
reads do only that harm: one transaction at a time holds the account (`OneHolder`), and what it has
read is the sum of what the calls cost, less the settlements already lost and those made without
the lock since it read (`SeenExplained`). When it writes, those are lost too (`AccountWritten`); a
settlement without the lock changes both the usage and, for a transaction that has read
already, the set of what it will lose (`AccountUnlocked`). That usage never falls below zero
(`CapacityTypes`) follows, since a sum of costs is not negative. For the budget, `BudgetInv` keeps
usage, and what a transaction is about to write, within the budget and the overrun, which only
grows (`OverrunGrows`). `ProviderInv` compares the sums over all calls and all days, and needs keys
that are not shared. `NoFreeWork` puts the three together.

Only model-checked: `ApprovedIsSettled`, since liveness is out of the prover's reach. Only proved,
for no run has them as a property: `AgentKeepsContract`, `BrokerKeepsContract`, `OccurrencesStay`,
`ActionFollows`, `AgentActions`, `OnlyUnlockedIsLost`, `DrainedQuiet` and `OfflineIsDead`.

## What the models show besides

Behaviours met while modelling, in the order of their components, for which no run
was made a counterexample. Where a document or a comment can be read otherwise, it is named:

* *Transactions*: an action's idempotency key names only the transaction. After a
  crash between prepare and bind and a new review, the old action answers the
  key and the transaction can no longer be bound.
* *Dispatcher*: a tick of a draining worker returns before `claim_outbox`, so the
  deadline maintenance stops with the last running worker.
* *Browser*: `resume` leaves a pending takeover command open, which blocks later ones,
  and a frame that completes afterwards puts the session back into `takeover` without
  `takeover_required`. `fail_command` on a navigation leaves commands prepared
  after it open in a failed session. The expired branch of `worker_control` leaves
  other open commands to the next sweep. A `takeover_input` whose lease lapses is
  tried again, unlike a click. Version numbers of frames restart after a clear. A worker that still
  holds a command of a session which the agent has settled is told that the session is out of time,
  and `worker_control` (`browser.py:1722`) then relabels the completed session as expired
  (`Outlive` in `AgentSession`); the run has its receipt by then and does not look again.
* *Capacity*: `_settle` (`suggestion_relevance_service.py:69`, `negotiation_service.py:84`) changes
  the account's usage under the advisory lock, but without the account's. A reservation that has read
  the usage before and writes it afterwards takes the settlement back, be it downward, so that the
  account stays charged with the full reservation, or upward, so that what was used above the
  reservation is not charged. `WorkIsCharged` says that nothing else is lost;
  `docs/PA10_MODEL_ASSISTED_RELEVANCE.md:29` says that known usage settles the reservation.
* *Automations*: the overlap check counts linked runs only, so two occurrences that
  are both being accepted both run. A run in `needs_input` or `blocked` is terminal (`agent_repository.py:28`)
  and cannot be cancelled any more, but the query counts it as running, so it holds its
  automation for good, although the docstring at
  `automation_repository.py:2383` speaks of a previous run that is terminal. An admission that has read
  its row before another call links it may still write what it decides: an occurrence whose run is active
  may be shown as skipped, or wait in the buffer, linked as it is.
  `claim_buffered_occurrences` takes the ten oldest
  rows before it skips those that are held, so ten held ones starve the others. A
  crash between creating a run and linking it, followed by a pause, records the
  occurrence as skipped although its run exists.
* *Agent runs*: `action_waiting` may write a waiting state over a step that another
  attempt has completed; the run then cannot complete and fails, which is honest.
  A run that ends in `needs_input` or `blocked` does not withdraw a ready action;
  `expire_due_runs` does not settle browser sessions, and a crash between creating a task or session and
  linking it leaves it without its run. `StoppedHoldsNothing` names what it
  leaves out for these reasons.
* *Connector reads*: `finish_event` and `fail_event` do not look at the claim. An
  event whose worker dies at the eighth attempt stays `processing`.
  `activate_subscription` and `subscription_failed` do not look at the state they
  replace: a revoked subscription may become active (its grant is not), a superseded one
  pending. After a crash between `apply_sync` and
  `bind_event_snapshots`, the retry finds the cursor advanced and binds nothing, or
  what came later (`evidence` shows what else a retry does). A manual
  synchronization before a Gmail event makes the event stale, and its automation does not fire. A mail that is
  added and removed within one window of the history makes every incremental read fail until a full one;
  a full read after a reset does not see what was removed meanwhile. Two renewals, the second after the
  claim of the first lapsed, leave two active subscriptions.

## Not modelled

Left out of the components that are modelled: the content of previews and
receipts (a payload is only equal or different), attachments beyond their
availability, the OAuth handshake and token rotation, the hash chain of
transaction events, the promotion of agent proposals to actions; the limits per
task, run and conversation in front of a lease; the migration of legacy tasks,
the checks of a pinned publication in each phase and the operator's inventory; a
thread that outlives a cancelled activity, which is a matter of the engine's
library. Of the browser: the values of forms, secrets and captures, the content of
pages, version numbers, and `worker_session_ref`. Of automations: the
validation of each profile, quiet hours, the delivery of notices, and the
reconciliation of Temporal's schedules (`automation_scheduler.py`), instead of
which a schedule may fire at any time with any revision. Of connector reads: Microsoft
(whose `nextLink` may become the cursor, so that an event may be processed before all pages are
read), the verification of a push and what it carries, reads of more than one page, the
first `sync` message of a calendar channel, several grants of one account, batches of more than
one claim, and the consumers behind `Consume`. Of agent runs: the two
older runtimes, replanning, proposals, the sandbox tool, the content of plans and
their dependencies beyond what makes a step not ready, and the dispatch of runs from
their outbox, which `WorkerFleet` has as a row.

Not modelled at all, and why:

* document tasks: sequential phases under one claim; `AgentRun` has what a step
  sees of one;
* the sandbox broker: the browser broker's protocol without takeover;
* token rotation, conversation replies, delivery of notices: each is one claim or one compare-and-write around an external call.
  The hazards are listed, without a property;
* goals, memory, suggestions, projects, negotiations: rows that one transaction
  at a time changes under the owner's lock;
* provider adapters (external I/O), the writing assistant and `ml` (stateless or
  offline), front ends, release scripts and infrastructure. These are most of the
  repository's lines, and they keep no state that several actors share.

## Plan

What is next, in order.

1. The sandbox broker as another keeper of `OneShotAction`'s promise, one execution per command, and
   of `AgentSession`'s contract.
2. `DocumentTask`: phases with saved steps and the one paid search against
   cancellation and retry, composed with `AgentRun` in place of `TaskEnds`.
3. `TokenRotation` (`action_repository.py`): a rotated credential is not lost to a
   concurrent rotation or revived after a disconnect. Reads of several pages in
   `ConnectorReads`, and with them Microsoft.
4. `ConversationReply`: the generation of a reply against its timeout.
5. Schedule reconciliation: a slow worker that applies an older revision may
   overwrite Temporal's schedule after the newer one was recorded.
