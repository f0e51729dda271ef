---- MODULE AgentRun ----
(* One run of the agent, runtime v3: the ledger (agent_repository.py), the   *)
(* steps' execution (agent_runtime.py) and the coordinator                   *)
(* (AgentWorkflowV3 in workflow.py).                                         *)
(*                                                                           *)
(* The coordinator has one activity under way at a time, but an attempt that *)
(* it gave up, for want of a heartbeat or an answer, may go on beside the    *)
(* next ones.  Meanwhile the owner cancels the run, the deadline passes, the *)
(* attached action is approved and executed, the browser reads.  Each        *)
(* transaction is an action; what an attempt does between two of them keeps  *)
(* what it has read.                                                         *)
EXTENDS ActionLifecycle, Naturals

CONSTANTS
  Tools,        \* kinds of tools the planner may choose
  MaxSteps,     \* max_agent_tool_calls_per_run
  MaxCalls,     \* max_agent_v3_planner_calls
  MaxCycles,    \* MAX_AGENT_V3_COORDINATOR_CYCLES
  Threads,      \* what attempts run on
  MaxTroubles,  \* bound: attempts that are given up
  None

ASSUME ToolsAssumption == Tools \subseteq {"task", "browser", "action"}
ASSUME LimitsAssumption ==
  MaxSteps \in Nat /\ MaxCalls \in Nat /\ MaxCycles \in Nat \ {0} /\ MaxTroubles \in Nat
ASSUME NoneAssumption == None \notin Threads

VARIABLES
  run,       \* state of the run; "cancelled" stands for cancel_requested as well
  deadline,  \* "ahead", "passed", or "enforced" by expire_due_runs
  calls,     \* planner_calls
  size,      \* how many steps were appended
  steps,     \* the steps, each with its invocation and its receipt
  result,    \* the checkpoint v3_activity_result of each decision activity
  task,      \* the task of a step
  session,   \* the browser session of a step
  action,    \* the external action attached to the run
  flow,      \* the coordinator
  attempt,   \* the attempts
  troubles

ledger == <<run, calls, size, steps, result>>
resources == <<task, session, action>>
vars == <<ledger, resources, deadline, flow, attempt, troubles>>

Ordinals == 1..MaxSteps
Cycles == 1..MaxCycles
Active == {"queued", "planning", "running", "awaiting_approval"}
AgentTerminal == {"completed", "failed", "cancelled", "needs_input", "blocked"}
Open == {"prepared", "running", "awaiting_approval"}  \* of an invocation
OpenStep == {"planned", "running", "awaiting_approval"}
Live == {"open", "reading", "read"}  \* of a session

NoStep == [tool |-> "none", state |-> "planned", invocation |-> "prepared",
           output |-> "none", receipt |-> "none"]
NoResult == [decision |-> "none", ordinal |-> 0]
Quiet == [at |-> "idle", cycle |-> 1, ordinal |-> 0, seen |-> "none"]
Exists(o) == o \in 1..size

MaxAttempts == [decide |-> 2, step |-> 2, complete |-> 3, fail |-> 5]
Doing(activity, cycle, ordinal) ==
  [at |-> activity, cycle |-> cycle, ordinal |-> ordinal, tries |-> 0, thread |-> None]

Init ==
  /\ run = "queued" /\ deadline = "ahead"
  /\ calls = 0 /\ size = 0
  /\ steps = [o \in Ordinals |-> NoStep]
  /\ result = [c \in Cycles |-> NoResult]
  /\ task = [o \in Ordinals |-> "none"]
  /\ session = [o \in Ordinals |-> "none"]
  /\ action = [state |-> "awaiting_approval", ready |-> FALSE]
  /\ flow = Doing("decide", 1, 0)
  /\ attempt = [t \in Threads |-> Quiet]
  /\ troubles = 0

-----------------------------------------------------------------------------
(* The coordinator *)

\* Starts an attempt of the current activity.
Schedule(t) ==
  /\ flow.at # "over" /\ flow.thread = None /\ attempt[t] = Quiet
  /\ flow' = [flow EXCEPT !.tries = flow.tries + 1, !.thread = t]
  /\ attempt' = [attempt EXCEPT ![t] =
       [at |-> flow.at, cycle |-> flow.cycle, ordinal |-> flow.ordinal, seen |-> "none"]]
  /\ UNCHANGED <<ledger, resources, deadline, troubles>>

\* What follows an activity that failed for good.
Fails == IF flow.at = "fail" THEN [flow EXCEPT !.at = "over", !.thread = None]
         ELSE Doing("fail", flow.cycle, flow.ordinal)

\* An attempt is given up, or fails in a way that is retried; in the former
\* case it may go on.
Lose(t) ==
  /\ flow.thread = t /\ troubles < MaxTroubles
  /\ troubles' = troubles + 1
  /\ flow' = IF flow.tries < MaxAttempts[flow.at] THEN [flow EXCEPT !.thread = None] ELSE Fails
  /\ attempt' \in {attempt, [attempt EXCEPT ![t] = Quiet]}
  /\ UNCHANGED <<ledger, resources, deadline>>

\* An attempt ends; only the current one has a say in what follows.
Ends(t, next) ==
  /\ attempt' = [attempt EXCEPT ![t] = Quiet]
  /\ flow' = IF flow.thread = t THEN next ELSE flow
Raises(t) == Ends(t, Fails)
Goes(t, at) == attempt' = [attempt EXCEPT ![t].at = at] /\ UNCHANGED flow

\* What follows a decision; the number of cycles is bounded.
Follows(c, r) ==
  CASE r.decision = "next_step" -> Doing("step", c, r.ordinal)
    [] r.decision = "complete" -> Doing("complete", c, 0)
    [] r.decision \in {"needs_input", "blocked"} -> [flow EXCEPT !.at = "over", !.thread = None]
    [] OTHER -> IF c < MaxCycles THEN Doing("decide", c + 1, 0) ELSE Fails
\* What follows a step, by its status; one that waits is executed again.  The
\* first form forgets the bound.
StepDoneUnbounded(c) == Doing("decide", c + 1, 0)
StepDone(c) == IF c < MaxCycles THEN Doing("decide", c + 1, 0) ELSE Fails
StepWaits(t) == Doing("step", attempt[t].cycle, attempt[t].ordinal)

-----------------------------------------------------------------------------
(* Transactions on the ledger *)

\* Guards of the handlers: a terminal run takes nothing any more.  The first
\* form is the one of the runtimes v1 and v2, which only mind a cancellation.
ClosedLegacy == run = "cancelled"
Closed == run \in AgentTerminal
Late == deadline # "ahead"

\* v3_can_complete and the counts of complete_run.  The first form counts the
\* receipts only.
CanCompleteByCount == size > 0 /\ \A o \in 1..size : steps[o].receipt # "none"
CanComplete ==
  /\ size > 0
  /\ \A o \in 1..size : steps[o].invocation = "completed" /\ steps[o].receipt = "full"

\* Whether the activity has committed its result before.  The first form is
\* for an activity without a key.
CommittedNever(c) == FALSE
Committed(c) == result[c].decision # "none"

\* What the end of a run, by failure or by its deadline, leaves of the attached
\* action.  The first form minds only the actions under review.
WithdrawnPending == IF action.state = "awaiting_approval" THEN "cancelled" ELSE action.state
Withdrawn == IF action.state \in Unclaimed THEN "cancelled" ELSE action.state
FailedSteps ==
  [o \in Ordinals |-> IF Exists(o) /\ steps[o].invocation \in Open
     THEN [steps[o] EXCEPT !.state = "failed", !.invocation = "failed"] ELSE steps[o]]

\* cancel_in_session
Cancel ==
  LET Stops(o) == Exists(o) /\ steps[o].state \in OpenStep IN
  /\ run \in Active
  /\ run' = "cancelled"
  /\ steps' = [o \in Ordinals |-> IF Stops(o)
                 THEN [steps[o] EXCEPT !.state = "cancelled"] ELSE steps[o]]
  /\ session' = [o \in Ordinals |->
       IF Stops(o) /\ steps[o].output = "session" /\ session[o] \in Live
       THEN "closed" ELSE session[o]]
  /\ task' = [o \in Ordinals |->
       IF steps[o].state = "running" /\ steps[o].output = "task" /\ task[o] = "open"
       THEN "stopping" ELSE task[o]]
  /\ action' = IF \E o \in Ordinals : Stops(o) /\ steps[o].output = "action"
               THEN [action EXCEPT !.state = Withdrawn] ELSE action
  /\ UNCHANGED <<calls, size, result, deadline, flow, attempt, troubles>>

\* expire_due_runs; a browser session is left to its own time to live.
Expire ==
  /\ run \in Active /\ deadline = "passed"
  /\ run' = "failed" /\ deadline' = "enforced"
  /\ steps' = FailedSteps
  /\ task' = [o \in Ordinals |-> IF task[o] = "open" THEN "stopping" ELSE task[o]]
  /\ action' = [action EXCEPT !.state = Withdrawn]
  /\ UNCHANGED <<calls, size, result, session, flow, attempt, troubles>>

-----------------------------------------------------------------------------
(* Decisions *)

\* decide_v3 up to its planner call: what it reads, and the reservation.
ReadRun(t) ==
  LET c == attempt[t].cycle IN
  /\ attempt[t].at = "decide"
  /\ IF run # "cancelled" /\ Committed(c) THEN Ends(t, Follows(c, result[c]))
     ELSE IF Closed \/ Late THEN Raises(t)
     ELSE Goes(t, "reserve") \/ (~CanComplete /\ Goes(t, "block"))
  /\ UNCHANGED <<ledger, resources, deadline, troubles>>
Reserve(t) ==
  /\ attempt[t].at = "reserve"
  /\ IF Closed \/ Late \/ calls = MaxCalls
     THEN Raises(t) /\ UNCHANGED ledger
     ELSE /\ calls' = calls + 1
          /\ Goes(t, "infer")
          /\ UNCHANGED <<run, size, steps, result>>
  /\ UNCHANGED <<resources, deadline, troubles>>

\* The model chooses a tool that is not a repetition: of the tools that are bound
\* to the request or to the attached action there is one invocation at most.
Chooses(tool) ==
  /\ size < MaxSteps
  /\ tool = "browser" => \A o \in 1..size : steps[o].tool # "browser"
  /\ tool = "action" =>
       /\ action.state = "awaiting_approval"
       /\ \A o \in 1..size : steps[o].tool # "action"
Decides(t, r) ==
  /\ result' = [result EXCEPT ![attempt[t].cycle] = r]
  /\ Ends(t, Follows(attempt[t].cycle, r))
NextStep(t) ==
  \E tool \in Tools :
    /\ Chooses(tool)
    /\ size' = size + 1
    /\ steps' = [steps EXCEPT ![size + 1] = [NoStep EXCEPT !.tool = tool]]
    /\ run' = "planning"
    /\ Decides(t, [decision |-> "next_step", ordinal |-> size + 1])
Concludes(t) ==
  \E d \in {"complete", "needs_input", "blocked", "awaiting_approval", "wait"} :
    /\ d = "complete" => CanComplete
    /\ d = "awaiting_approval" => \E o \in 1..size : steps[o].invocation = "awaiting_approval"
    /\ run' = IF d \in {"needs_input", "blocked"} THEN d ELSE run
    /\ Decides(t, [decision |-> d, ordinal |-> 0])
    /\ UNCHANGED <<size, steps>>

\* commit_v3_decision
Commit(t) ==
  LET c == attempt[t].cycle IN
  /\ attempt[t].at = "infer"
  /\ \/ run # "cancelled" /\ Committed(c)
        /\ Ends(t, Follows(c, result[c])) /\ UNCHANGED ledger
     \/ ~Committed(c) /\ ~Closed /\ ~Late
        /\ (NextStep(t) \/ Concludes(t)) /\ UNCHANGED calls
  /\ UNCHANGED <<resources, deadline, troubles>>

\* block_v3_unavailable_tools
Block(t) ==
  LET c == attempt[t].cycle
      blocked == [decision |-> "blocked", ordinal |-> 0] IN
  /\ attempt[t].at = "block"
  /\ \/ run # "cancelled" /\ Committed(c)
        /\ Ends(t, Follows(c, result[c])) /\ UNCHANGED ledger
     \/ ~Committed(c) /\ ~Closed /\ ~Late
        /\ run' = "blocked" /\ Decides(t, blocked)
        /\ UNCHANGED <<calls, size, steps>>
  /\ UNCHANGED <<resources, deadline, troubles>>

-----------------------------------------------------------------------------
(* Steps *)

\* execute_step before any tool; a later task waits for earlier ones.  A tool
\* that was disabled sends the coordinator back to the planner.
Unready(o) ==
  steps[o].tool = "task"
    /\ \E p \in 1..(o - 1) : steps[p].tool = "task" /\ steps[p].state # "completed"
ReadStep(t) ==
  LET o == attempt[t].ordinal IN
  /\ attempt[t].at = "step"
  /\ IF run \in AgentTerminal \ {"completed"} THEN Raises(t)
     ELSE IF steps[o].invocation = "completed" THEN Ends(t, StepDone(attempt[t].cycle))
     ELSE IF Late \/ Unready(o) THEN Raises(t)
     ELSE \/ Goes(t, IF steps[o].tool = "action" THEN "look" ELSE "begin")
          \/ /\ steps[o].tool = "task" /\ steps[o].invocation = "prepared"
             /\ Ends(t, StepDone(attempt[t].cycle))
  /\ UNCHANGED <<ledger, resources, deadline, troubles>>

\* finish_invocation
Finish(t, output, receipt) ==
  LET o == attempt[t].ordinal IN
  /\ run' = "running"
  /\ steps' = [steps EXCEPT ![o].state = "completed", ![o].invocation = "completed",
                            ![o].output = output,
                            ![o].receipt = IF @ = "none" THEN receipt ELSE @]
  /\ Ends(t, StepDone(attempt[t].cycle))
  /\ UNCHANGED <<calls, size, result>>

\* The attached action, as the attempt has seen it; what it has become since is
\* for the next attempt.
Look(t) ==
  /\ attempt[t].at = "look"
  /\ IF action.state \in {"awaiting_approval", "queued", "executing", "succeeded"}
     THEN attempt' = [attempt EXCEPT ![t].at = "settle", ![t].seen = action.state]
          /\ UNCHANGED flow
     ELSE Raises(t)
  /\ UNCHANGED <<ledger, resources, deadline, troubles>>
FinishAction(t) ==
  /\ attempt[t].at = "settle" /\ attempt[t].seen = "succeeded"
  /\ IF Closed THEN Raises(t) /\ UNCHANGED ledger ELSE Finish(t, "action", "full")
  /\ UNCHANGED <<resources, deadline, troubles>>

\* action_waiting
ActionWaiting(t) ==
  LET o == attempt[t].ordinal
      state == IF attempt[t].seen = "awaiting_approval" THEN "awaiting_approval"
               ELSE "running" IN
  /\ attempt[t].at = "settle" /\ attempt[t].seen # "succeeded"
  /\ IF Closed THEN Raises(t) /\ UNCHANGED <<ledger, action>>
     ELSE /\ action' = [action EXCEPT !.ready = TRUE]
          /\ steps' = [steps EXCEPT ![o].state = state, ![o].invocation = state,
                                    ![o].output = "action"]
          /\ run' = IF steps[o].invocation = state /\ run = state THEN run ELSE state
          /\ Ends(t, StepWaits(t))
          /\ UNCHANGED <<calls, size, result>>
  /\ UNCHANGED <<task, session, deadline, troubles>>

\* begin_invocation
Begin(t) ==
  LET o == attempt[t].ordinal IN
  /\ attempt[t].at = "begin"
  /\ IF Closed \/ Late THEN Raises(t) /\ UNCHANGED ledger
     ELSE /\ Goes(t, "create")
          /\ IF steps[o].invocation = "completed" THEN UNCHANGED ledger
             ELSE /\ run' = "running"
                  /\ steps' = [steps EXCEPT ![o].state = "running",
                                            ![o].invocation = "running"]
                  /\ UNCHANGED <<calls, size, result>>
  /\ UNCHANGED <<resources, deadline, troubles>>

\* The task or the session is created, unless it is there: the idempotency key
\* is the run's and the ordinal.
CreateTask(t) ==
  LET o == attempt[t].ordinal IN
  /\ attempt[t].at = "create" /\ steps[o].tool = "task"
  /\ task' = [task EXCEPT ![o] = IF @ = "none" THEN "open" ELSE @]
  /\ Goes(t, "link")
  /\ UNCHANGED <<ledger, session, action, deadline, troubles>>
CreateSession(t) ==
  LET o == attempt[t].ordinal IN
  /\ attempt[t].at = "create" /\ steps[o].tool = "browser"
  /\ IF steps[o].output = "none"
     THEN /\ session' = [session EXCEPT ![o] = IF @ = "none" THEN "open" ELSE @]
          /\ Goes(t, "link")
     ELSE /\ UNCHANGED session
          /\ IF steps[o].output = "session" THEN Goes(t, "poll") ELSE Raises(t)
  /\ UNCHANGED <<ledger, task, action, deadline, troubles>>

\* link_invocation_resource; a session that comes too late is cancelled.
Link(t) ==
  LET o == attempt[t].ordinal IN
  /\ attempt[t].at = "link"
  /\ IF run \in AgentTerminal
     THEN /\ IF steps[o].tool = "browser" THEN Goes(t, "clear") ELSE Raises(t)
          /\ UNCHANGED ledger
     ELSE /\ steps' = [steps EXCEPT ![o].output =
                         IF steps[o].tool = "task" THEN "task" ELSE "session"]
          /\ Goes(t, IF steps[o].tool = "task" THEN "work" ELSE "poll")
          /\ UNCHANGED <<run, calls, size, result>>
  /\ UNCHANGED <<resources, deadline, troubles>>
Clear(t) ==
  LET o == attempt[t].ordinal IN
  /\ attempt[t].at = "clear"
  /\ session' = [session EXCEPT ![o] = IF @ \in Live THEN "closed" ELSE @]
  /\ Raises(t)
  /\ UNCHANGED <<ledger, task, action, deadline, troubles>>

\* The phases of the task, up to its completion; one that another attempt has
\* completed is not done again.
Work(t) ==
  LET o == attempt[t].ordinal IN
  /\ attempt[t].at = "work" /\ run # "cancelled"
  /\ task[o] \in {"open", "completed", "needs_input"}
  /\ task' \in {[task EXCEPT ![o] = IF @ = "open" THEN outcome ELSE @] :
                  outcome \in {"completed", "needs_input"}}
  /\ Goes(t, "finish")
  /\ UNCHANGED <<ledger, session, action, deadline, troubles>>
\* execute_tool_contract tries the task again.
Retry(t) ==
  /\ attempt[t].at = "work" /\ run # "cancelled"
  /\ Goes(t, "create")
  /\ UNCHANGED <<ledger, resources, deadline, troubles>>
FinishTask(t) ==
  LET o == attempt[t].ordinal IN
  /\ attempt[t].at = "finish" /\ steps[o].tool = "task"
  /\ IF Closed THEN Raises(t) /\ UNCHANGED ledger
     ELSE Finish(t, "task", IF task[o] = "completed" THEN "full" ELSE "missing")
  /\ UNCHANGED <<resources, deadline, troubles>>

\* prepare_agent_read: asks the browser, or finds its answer.
Poll(t) ==
  LET o == attempt[t].ordinal IN
  /\ attempt[t].at = "poll"
  /\ session' = [session EXCEPT ![o] = IF @ = "open" THEN "reading" ELSE @]
  /\ CASE session[o] \in {"open", "reading"} -> Ends(t, StepWaits(t))
       [] session[o] = "read" -> Goes(t, "finish")
       [] OTHER -> Raises(t)
  /\ UNCHANGED <<ledger, task, action, deadline, troubles>>
FinishBrowser(t) ==
  LET o == attempt[t].ordinal IN
  /\ attempt[t].at = "finish" /\ steps[o].tool = "browser"
  /\ IF Closed \/ session[o] # "read" \/ steps[o].output # "session"
     THEN Raises(t) /\ UNCHANGED <<ledger, session>>
     ELSE /\ session' = [session EXCEPT ![o] = "settled"]
          /\ Finish(t, "command", "full")
  /\ UNCHANGED <<task, action, deadline, troubles>>

\* Whatever else may go wrong in an attempt: a limit, a refusal, a provider.
GoWrong(t) ==
  /\ attempt[t].at \in
       {"decide", "reserve", "infer", "block", "step", "create", "poll", "work", "finish"}
  /\ Raises(t)
  /\ UNCHANGED <<ledger, resources, deadline, troubles>>

-----------------------------------------------------------------------------
(* The end of the run *)

\* complete_run
Complete(t) ==
  /\ attempt[t].at = "complete"
  /\ IF run = "completed" \/ (~Closed /\ CanComplete)
     THEN /\ run' = "completed"
          /\ Ends(t, [flow EXCEPT !.at = "over", !.thread = None])
     ELSE Raises(t) /\ UNCHANGED run
  /\ UNCHANGED <<calls, size, steps, result, resources, deadline, troubles>>

\* AgentRuntime.fail: the tasks first, then the run (fail_run).
FailTasks(t) ==
  /\ attempt[t].at = "fail"
  /\ task' = [o \in Ordinals |->
       IF steps[o].output = "task" /\ task[o] \in {"open", "stopping"} THEN "ended" ELSE task[o]]
  /\ Goes(t, "fail_run")
  /\ UNCHANGED <<ledger, session, action, deadline, troubles>>
FailRun(t) ==
  /\ attempt[t].at = "fail_run"
  /\ IF Closed THEN UNCHANGED <<run, steps, session, action>>
     ELSE /\ run' = "failed"
          /\ steps' = FailedSteps
          /\ session' = [o \in Ordinals |->
               IF Exists(o) /\ steps[o].invocation \in Open /\ steps[o].output = "session"
                  /\ session[o] \in Live
               THEN "closed" ELSE session[o]]
          /\ action' = [action EXCEPT !.state = Withdrawn]
  /\ Ends(t, [flow EXCEPT !.at = "over", !.thread = None])
  /\ UNCHANGED <<calls, size, result, task, deadline, troubles>>

-----------------------------------------------------------------------------
(* The rest of the world *)

TimeIsUp ==
  /\ deadline = "ahead"
  /\ deadline' = "passed"
  /\ UNCHANGED <<ledger, resources, flow, attempt, troubles>>

\* The owner, the dispatcher and the provider move the action along; the outbox
\* gives out those that the run is ready for (claim_outbox).
ActionMoves ==
  /\ \E s \in Successors(action.state) :
       /\ s = "executing" => action.ready
       /\ action' = [action EXCEPT !.state = s]
  /\ UNCHANGED <<ledger, task, session, deadline, flow, attempt, troubles>>

\* The browser answers, or the session comes to an end; a task may be stopped
\* by its owner or by its own deadline.
SessionMoves(o) ==
  /\ session[o] \in Live
  /\ \/ session' = [session EXCEPT ![o] = "closed"]
     \/ session[o] = "reading" /\ session' = [session EXCEPT ![o] = "read"]
  /\ UNCHANGED <<ledger, task, action, deadline, flow, attempt, troubles>>
TaskEnds(o) ==
  /\ task[o] \in {"open", "stopping"}
  /\ task' \in {[task EXCEPT ![o] = s] : s \in {"stopping", "ended"}}
  /\ UNCHANGED <<ledger, session, action, deadline, flow, attempt, troubles>>

Coordinate(t) == Schedule(t) \/ Lose(t)
Decide(t) == ReadRun(t) \/ Reserve(t) \/ Commit(t) \/ Block(t)
Execute(t) ==
  \/ ReadStep(t) \/ Look(t) \/ FinishAction(t) \/ ActionWaiting(t)
  \/ Begin(t) \/ CreateTask(t) \/ CreateSession(t) \/ Link(t) \/ Clear(t)
  \/ Work(t) \/ Retry(t) \/ FinishTask(t) \/ Poll(t) \/ FinishBrowser(t) \/ GoWrong(t)
Conclude(t) == Complete(t) \/ FailTasks(t) \/ FailRun(t)
Outside ==
  \/ Cancel \/ Expire \/ TimeIsUp \/ ActionMoves
  \/ \E o \in Ordinals : SessionMoves(o) \/ TaskEnds(o)

Next ==
  \/ \E t \in Threads : Coordinate(t) \/ Decide(t) \/ Execute(t) \/ Conclude(t)
  \/ Outside

Spec == Init /\ [][Next]_vars

-----------------------------------------------------------------------------
(* Properties *)

StepType ==
  [tool : Tools \union {"none"},
   state : {"planned", "running", "awaiting_approval", "completed", "cancelled", "failed"},
   invocation : {"prepared", "running", "awaiting_approval", "completed", "failed"},
   output : {"none", "task", "session", "command", "action"},
   receipt : {"none", "full", "missing"}]
Decisions ==
  {"none", "next_step", "complete", "needs_input", "blocked", "awaiting_approval", "wait"}
Stages ==
  {"idle", "decide", "reserve", "infer", "block", "step", "look", "settle", "begin",
   "create", "link", "clear", "work", "poll", "finish", "complete", "fail", "fail_run"}

ResultType == [decision : Decisions, ordinal : 0..MaxSteps]
FlowType ==
  [at : {"decide", "step", "complete", "fail", "over"}, cycle : Cycles,
   ordinal : 0..MaxSteps, tries : 0..5, thread : Threads \union {None}]
AttemptType ==
  [at : Stages, cycle : Cycles, ordinal : 0..MaxSteps, seen : ActionStates]

TypeOK ==
  /\ run \in Active \union AgentTerminal
  /\ deadline \in {"ahead", "passed", "enforced"}
  /\ calls \in 0..MaxCalls /\ size \in 0..MaxSteps
  /\ steps \in [Ordinals -> StepType]
  /\ result \in [Cycles -> ResultType]
  /\ task \in [Ordinals -> {"none", "open", "stopping", "completed", "needs_input", "ended"}]
  /\ session \in [Ordinals -> Live \union {"none", "settled", "closed"}]
  /\ action \in [state : ActionStates, ready : BOOLEAN]
  /\ flow \in FlowType
  /\ attempt \in [Threads -> AttemptType]
  /\ troubles \in 0..MaxTroubles

\* Whatever comes late - a decision, a tool's result, a poll of the action, a
\* completion, a failure, a cancellation, the deadline - changes nothing of a run
\* that has ended, nor of its steps and receipts, nor re-arms its action
\* (the guards on AGENT_TERMINAL_STATES).
EndedIsFinal ==
  [][(run \in AgentTerminal) =>
       (run' = run /\ calls' = calls /\ steps' = steps /\ action'.ready = action.ready)]_vars

\* A run is completed only when every step has a complete result, and what the
\* result speaks of did happen: the task completed, the provider confirmed the
\* action, the browser session was settled with a page that was read
\* (complete_run, v3_can_complete).
CompletionIsHonest ==
  run = "completed" =>
    /\ size > 0
    /\ \A o \in 1..size :
         /\ steps[o].invocation = "completed" /\ steps[o].receipt = "full"
         /\ steps[o].tool = "task" => task[o] = "completed"
         /\ steps[o].tool = "action" => action.state = "succeeded"
         /\ steps[o].tool = "browser" => session[o] = "settled"

\* A run that was stopped leaves nothing that would go on for it: an action that
\* could still be approved or claimed; a browser session that a step is linked to,
\* unless the deadline stopped the run; a linked task that nobody has told, when
\* it was cancelled or out of time (cancel_in_session, expire_due_runs, fail_run).
StoppedHoldsNothing ==
  /\ run \in {"failed", "cancelled"} => ~(action.ready /\ action.state \in Unclaimed)
  /\ \A o \in 1..size :
       /\ run = "cancelled" \/ (run = "failed" /\ deadline # "enforced") =>
            ~(steps[o].output = "session" /\ session[o] \in Live)
       /\ run = "cancelled" \/ deadline = "enforced" =>
            ~(steps[o].output = "task" /\ task[o] = "open")

\* However many attempts of a decision's activity there are, it is taken once:
\* each step was appended by one activity, whose result is that step
\* (commit_v3_decision and its checkpoint).
OneDecisionEach ==
  \A o \in 1..size :
    \E c \in Cycles : \A d \in Cycles :
      result[d] = [decision |-> "next_step", ordinal |-> o] <=> d = c
====
