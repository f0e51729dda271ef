---- MODULE AgentRunProofs ----
(* What AgentRun promises, for any number of steps, of decisions and of      *)
(* attempts at work together.                                                *)
EXTENDS AgentRun, TLAPS

-----------------------------------------------------------------------------
(* The inductive invariant *)

\* The coordinator knows how often it has tried, and executes a step that is
\* there.
FlowOK(f, n) ==
  /\ f \in FlowType
  /\ f.at # "over" => f.tries <= MaxAttempts[f.at]
  /\ f.at # "over" /\ f.thread = None => f.tries < MaxAttempts[f.at]
  /\ f.at = "step" => f.ordinal \in 1..n
FlowSound == FlowOK(flow, size)

\* A decision that chose a step is followed by that step.
ResultsSound ==
  \A c \in Cycles : result[c].decision = "next_step" => Exists(result[c].ordinal)

\* In a run that is not over, the steps are planned, under way or done, and their
\* invocations agree with them.
StepSound(o) ==
  /\ run \in Active =>
       /\ steps[o].state \in OpenStep \union {"completed"}
       /\ steps[o].state = "completed" <=> steps[o].invocation = "completed"
       /\ steps[o].invocation # "failed"
  /\ steps[o].tool = "none" => steps[o] = NoStep /\ task[o] = "none" /\ session[o] = "none"
  /\ ~Exists(o) <=> steps[o].tool = "none"

\* What a step has is there, and what it says to have done was done.
TaskSound(o) ==
  /\ steps[o].tool = "task" =>
       /\ steps[o].output \in {"none", "task"}
       /\ steps[o].output = "task" => task[o] # "none"
       /\ steps[o].output = "task" /\ task[o] = "open" /\ run \in Active =>
            steps[o].state = "running"
       /\ steps[o].invocation = "completed" => task[o] \in {"completed", "needs_input"}
       /\ steps[o].receipt = "full" => task[o] = "completed"
  /\ steps[o].tool # "task" => steps[o].output # "task"
SessionSound(o) ==
  /\ steps[o].tool = "browser" =>
       /\ steps[o].output = "session" => session[o] # "none"
       /\ steps[o].invocation = "completed" => session[o] = "settled"
       /\ steps[o].receipt = "full" => session[o] = "settled"
  /\ steps[o].tool # "browser" => steps[o].output # "session"
ActionSound ==
  /\ action.state # "none"
  /\ action.ready => \E o \in Ordinals : Exists(o) /\ steps[o].output = "action"
  /\ \A o \in Ordinals :
       /\ steps[o].output = "action" => steps[o].tool = "action"
       /\ steps[o].tool = "action" /\ (steps[o].invocation = "completed" \/ steps[o].receipt = "full") =>
            action.state = "succeeded"

\* What an attempt works on is there, and what it has seen to be done is.
AttemptSound(t) ==
  LET at == attempt[t].at
      o == attempt[t].ordinal IN
  /\ at \in {"step", "look", "settle", "begin", "create", "link", "clear", "work",
             "poll", "finish"} => Exists(o)
  /\ at \in {"look", "settle"} => steps[o].tool = "action"
  /\ at = "settle" =>
       /\ attempt[t].seen \in {"awaiting_approval", "queued", "executing", "succeeded"}
       /\ attempt[t].seen = "succeeded" => action.state = "succeeded"
  /\ at \in {"begin", "create", "link", "finish"} => steps[o].tool \in {"task", "browser"}
  /\ at = "work" => steps[o].tool = "task"
  /\ at \in {"clear", "poll"} => steps[o].tool = "browser"
  /\ at \in {"create", "link", "work", "finish"} /\ steps[o].tool = "task" /\ run \in Active =>
       steps[o].state \in {"running", "completed"}
  /\ at \in {"link", "work"} /\ steps[o].tool = "task" => task[o] # "none"
  /\ at = "finish" /\ steps[o].tool = "task" => task[o] \in {"completed", "needs_input"}
  /\ at \in {"link", "poll"} /\ steps[o].tool = "browser" => session[o] # "none"

RowSound(o) == StepSound(o) /\ TaskSound(o) /\ SessionSound(o)
LedgerSound ==
  /\ ResultsSound /\ OneDecisionEach
  /\ \A o \in Ordinals : RowSound(o)
  /\ ActionSound
  /\ deadline = "enforced" => run = "failed"
  /\ CompletionIsHonest /\ StoppedHoldsNothing
AttemptsSound == \A t \in Threads : AttemptSound(t)
IInv == TypeOK /\ FlowSound /\ LedgerSound /\ AttemptsSound

-----------------------------------------------------------------------------
(* The coordinator *)

\* An activity that starts anew is in order.
LEMMA DoingOK ==
  ASSUME NEW at \in {"decide", "step", "complete", "fail"}, NEW c \in Cycles,
         NEW o \in 0..MaxSteps, NEW n, at = "step" => o \in 1..n
  PROVE  FlowOK(Doing(at, c, o), n)
BY DEF FlowOK, FlowType, Doing, MaxAttempts

\* So is one that has come to its end.
LEMMA OverOK ==
  ASSUME IInv, NEW n
  PROVE  FlowOK([flow EXCEPT !.at = "over", !.thread = None], n)
<1>1. flow \in FlowType
  BY DEF IInv, TypeOK
<1>2. [flow EXCEPT !.at = "over", !.thread = None] \in FlowType
  BY <1>1 DEF FlowType
<1>3. [flow EXCEPT !.at = "over", !.thread = None].at = "over"
  BY <1>1 DEF FlowType
<1> QED BY <1>2, <1>3 DEF FlowOK

\* And what follows a failure, a step, and a decision.
LEMMA FailsOK ==
  ASSUME IInv, NEW n
  PROVE  FlowOK(Fails, n)
<1>1. flow.cycle \in Cycles /\ flow.ordinal \in 0..MaxSteps
  BY DEF IInv, TypeOK, FlowType
<1> QED BY <1>1, OverOK, DoingOK DEF Fails

LEMMA StepDoneOK ==
  ASSUME IInv, NEW c \in Cycles, NEW n
  PROVE  FlowOK(StepDone(c), n)
<1>1. 0 \in 0..MaxSteps
  BY LimitsAssumption
<1>2. c < MaxCycles => c + 1 \in Cycles
  BY LimitsAssumption DEF Cycles
<1> QED BY <1>1, <1>2, FailsOK, DoingOK DEF StepDone

LEMMA FollowsOK ==
  ASSUME IInv, NEW c \in Cycles, NEW r \in ResultType, NEW n,
         r.decision = "next_step" => r.ordinal \in 1..n
  PROVE  FlowOK(Follows(c, r), n)
<1>1. 0 \in 0..MaxSteps /\ r.ordinal \in 0..MaxSteps
  BY LimitsAssumption DEF ResultType
<1>2. c < MaxCycles => c + 1 \in Cycles
  BY LimitsAssumption DEF Cycles
<1>3. CASE r.decision = "next_step"
  BY <1>1, <1>3, DoingOK DEF Follows
<1>4. CASE r.decision = "complete"
  BY <1>1, <1>4, DoingOK DEF Follows
<1>5. CASE r.decision \in {"needs_input", "blocked"}
  BY <1>5, OverOK DEF Follows
<1>6. CASE r.decision \notin {"next_step", "complete", "needs_input", "blocked"}
  BY <1>1, <1>2, <1>6, FailsOK, DoingOK DEF Follows
<1> QED BY <1>3, <1>4, <1>5, <1>6

\* The end of an attempt leaves the coordinator and the attempt in order.
LEMMA EndsFacts ==
  ASSUME IInv, NEW t \in Threads, NEW next, Ends(t, next), FlowOK(next, size'),
         size' \in Nat, size <= size'
  PROVE  /\ flow' \in FlowType /\ FlowSound'
         /\ attempt' \in [Threads -> AttemptType] /\ AttemptSound(t)'
         /\ \A s \in Threads \ {t} : attempt'[s] = attempt[s]
<1>1. Quiet \in AttemptType
  BY LimitsAssumption DEF Quiet, AttemptType, Stages, ActionStates, Cycles
<1>2. attempt \in [Threads -> AttemptType] /\ size \in Nat
  BY LimitsAssumption DEF IInv, TypeOK
<1>3. attempt' \in [Threads -> AttemptType] /\ attempt'[t] = Quiet
      /\ \A s \in Threads \ {t} : attempt'[s] = attempt[s]
  BY <1>1, <1>2 DEF Ends
<1>4. AttemptSound(t)'
  BY <1>3 DEF AttemptSound, Quiet
<1>5. FlowOK(flow, size')
  <2>1. FlowOK(flow, size)
    BY DEF IInv, FlowSound
  <2> QED BY <1>2, <2>1 DEF FlowOK
<1>6. FlowOK(flow', size')
  BY <1>5 DEF Ends
<1> QED BY <1>3, <1>4, <1>6 DEF FlowSound, FlowOK

\* An attempt that fails is in order, and so is one that gets on.
LEMMA RaisesFacts ==
  ASSUME IInv, NEW t \in Threads, Raises(t), size' = size
  PROVE  /\ flow' \in FlowType /\ FlowSound'
         /\ attempt' \in [Threads -> AttemptType] /\ AttemptSound(t)'
         /\ \A s \in Threads \ {t} : attempt'[s] = attempt[s]
<1>1. size \in Nat
  BY LimitsAssumption DEF IInv, TypeOK
<1> QED BY <1>1, EndsFacts, FailsOK DEF Raises

LEMMA GoesFacts ==
  ASSUME IInv, NEW t \in Threads, NEW at \in Stages, Goes(t, at), size' = size
  PROVE  /\ flow' \in FlowType /\ FlowSound'
         /\ attempt' \in [Threads -> AttemptType]
         /\ attempt'[t].at = at /\ attempt'[t].cycle = attempt[t].cycle
         /\ attempt'[t].ordinal = attempt[t].ordinal /\ attempt'[t].seen = attempt[t].seen
         /\ \A s \in Threads \ {t} : attempt'[s] = attempt[s]
<1>1. attempt \in [Threads -> AttemptType] /\ flow \in FlowType /\ FlowOK(flow, size)
  BY DEF IInv, TypeOK, FlowSound
<1>2. [attempt[t] EXCEPT !.at = at] \in AttemptType
  BY <1>1 DEF AttemptType
<1>3. attempt'[t] = [attempt[t] EXCEPT !.at = at]
  BY <1>1 DEF Goes
<1> QED BY <1>1, <1>2, <1>3 DEF Goes, FlowSound, AttemptType

-----------------------------------------------------------------------------
(* What a step may leave alone *)

\* What others have done may be built upon: nothing of it is taken back while
\* the run goes on.
Kept ==
  /\ run' \in Active => run \in Active
  /\ size' \in Nat /\ size <= size'
  /\ \A o \in Ordinals :
       /\ Exists(o) => steps'[o].tool = steps[o].tool
       /\ steps[o].tool = "task" /\ run' \in Active /\ steps[o].state \in {"running", "completed"} =>
            steps'[o].state \in {"running", "completed"}
       /\ task[o] # "none" => task'[o] # "none"
       /\ task[o] \in {"completed", "needs_input"} => task'[o] \in {"completed", "needs_input"}
       /\ session[o] # "none" => session'[o] # "none"
  /\ action.state = "succeeded" => action'.state = "succeeded"

\* The other attempts stay in order.
LEMMA AttemptStays ==
  ASSUME IInv, Kept, NEW s \in Threads, attempt'[s] = attempt[s]
  PROVE  AttemptSound(s)'
<1> DEFINE o == attempt[s].ordinal
<1>1. AttemptSound(s)
  BY DEF IInv, AttemptsSound
<1>2. size \in 0..MaxSteps /\ MaxSteps \in Nat
  BY LimitsAssumption DEF IInv, TypeOK
<1>3. CASE attempt[s].at \notin {"step", "look", "settle", "begin", "create", "link",
                                  "clear", "work", "poll", "finish"}
  BY <1>3 DEF AttemptSound
<1>4. CASE attempt[s].at \in {"step", "look", "settle", "begin", "create", "link",
                               "clear", "work", "poll", "finish"}
  <2>1. Exists(o)
    BY <1>1, <1>4 DEF AttemptSound
  <2>2. o \in Ordinals /\ Exists(o)'
    BY <1>2, <2>1 DEF Exists, Ordinals, Kept
  <2>3. steps'[o].tool = steps[o].tool
    BY <2>1, <2>2 DEF Kept
  <2>4. steps[o].tool = "task" /\ run' \in Active /\ steps[o].state \in {"running", "completed"} =>
          run \in Active /\ steps'[o].state \in {"running", "completed"}
    BY <2>2 DEF Kept
  <2>5. /\ run' \in Active => run \in Active
        /\ task[o] # "none" => task'[o] # "none"
        /\ task[o] \in {"completed", "needs_input"} => task'[o] \in {"completed", "needs_input"}
        /\ session[o] # "none" => session'[o] # "none"
        /\ action.state = "succeeded" => action'.state = "succeeded"
    BY <2>2 DEF Kept
  <2> QED BY <1>1, <2>2, <2>3, <2>4, <2>5 DEF AttemptSound
<1> QED BY <1>3, <1>4

\* A step that writes neither the ledger nor what the steps have.
LEMMA LedgerStays ==
  ASSUME IInv, UNCHANGED <<ledger, resources>>,
         deadline' = deadline \/ (deadline = "ahead" /\ deadline' = "passed")
  PROVE  LedgerSound' /\ Kept
<1> USE DEF ledger, resources
<1>1. ResultsSound' /\ OneDecisionEach'
  BY DEF IInv, LedgerSound, ResultsSound, OneDecisionEach, Exists
<1>2. \A o \in Ordinals : RowSound(o)'
  BY DEF IInv, LedgerSound, RowSound, StepSound, TaskSound, SessionSound, Exists
<1>3. ActionSound' /\ (deadline' = "enforced" => run' = "failed")
  BY DEF IInv, LedgerSound, ActionSound, Exists
<1>4. CompletionIsHonest' /\ StoppedHoldsNothing'
  BY DEF IInv, LedgerSound, CompletionIsHonest, StoppedHoldsNothing
<1>5. Kept
  BY LimitsAssumption DEF IInv, TypeOK, Kept
<1> QED BY <1>1, <1>2, <1>3, <1>4, <1>5 DEF LedgerSound

LEMMA QuietStep ==
  ASSUME IInv, NEW t \in Threads, UNCHANGED <<ledger, resources, deadline>>,
         flow' \in FlowType, FlowSound', attempt' \in [Threads -> AttemptType],
         AttemptSound(t)', \A s \in Threads \ {t} : attempt'[s] = attempt[s],
         troubles' \in 0..MaxTroubles
  PROVE  IInv'
<1>1. LedgerSound' /\ Kept
  BY LedgerStays
<1>2. AttemptsSound'
  BY <1>1, AttemptStays DEF AttemptsSound
<1>3. TypeOK'
  BY DEF IInv, TypeOK, ledger, resources
<1> QED BY <1>1, <1>2, <1>3 DEF IInv

\* A run that goes on has not been stopped, nor completed.
LEMMA GoesOn ==
  ASSUME IInv, run' \in Active, UNCHANGED deadline, run \in Active
  PROVE  /\ CompletionIsHonest' /\ StoppedHoldsNothing'
         /\ deadline' = "enforced" => run' = "failed"
<1>1. deadline # "enforced"
  BY DEF IInv, LedgerSound, Active
<1> QED BY <1>1 DEF CompletionIsHonest, StoppedHoldsNothing, Active

\* Any step of an attempt, put together.
LEMMA AttemptStep ==
  ASSUME IInv, NEW t \in Threads, LedgerSound', Kept,
         run' \in Active \union AgentTerminal, UNCHANGED deadline,
         calls' \in 0..MaxCalls, size' \in 0..MaxSteps,
         steps' \in [Ordinals -> StepType], result' \in [Cycles -> ResultType],
         task' \in [Ordinals -> {"none", "open", "stopping", "completed", "needs_input", "ended"}],
         session' \in [Ordinals -> Live \union {"none", "settled", "closed"}],
         action' \in [state : ActionStates, ready : BOOLEAN],
         UNCHANGED troubles,
         flow' \in FlowType, FlowSound', attempt' \in [Threads -> AttemptType],
         AttemptSound(t)', \A s \in Threads \ {t} : attempt'[s] = attempt[s]
  PROVE  IInv'
<1>1. AttemptsSound'
  BY AttemptStays DEF AttemptsSound
<1>2. TypeOK'
  BY DEF IInv, TypeOK
<1> QED BY <1>1, <1>2 DEF IInv

-----------------------------------------------------------------------------
(* Steps of the coordinator, and attempts that read *)

LEMMA InitSound == Init => IInv
<1> SUFFICES ASSUME Init PROVE IInv
  OBVIOUS
<1> USE LimitsAssumption
<1>1. 1 \in Cycles /\ 0 \in 0..MaxSteps /\ 0 \in 0..MaxCalls /\ 0 \in 0..MaxTroubles
  BY DEF Cycles
<1>2. NoStep \in StepType /\ NoResult \in ResultType /\ Quiet \in AttemptType
  BY <1>1 DEF NoStep, StepType, NoResult, ResultType, Decisions, Quiet, AttemptType, Stages,
              ActionStates
<1>3. FlowOK(flow, size)
  BY <1>1, DoingOK DEF Init
<1>4. action \in [state : ActionStates, ready : BOOLEAN]
  BY DEF Init, ActionStates
<1>5. TypeOK
  BY <1>1, <1>2, <1>3, <1>4 DEF Init, TypeOK, FlowOK, Active, Live
<1>6. ResultsSound /\ OneDecisionEach
  BY DEF Init, ResultsSound, OneDecisionEach, NoResult
<1>7. \A o \in Ordinals : RowSound(o)
  BY DEF Init, RowSound, StepSound, TaskSound, SessionSound, NoStep, Exists, OpenStep
<1>8. ActionSound
  BY DEF Init, ActionSound, NoStep
<1>9. CompletionIsHonest /\ StoppedHoldsNothing /\ deadline # "enforced"
  BY DEF Init, CompletionIsHonest, StoppedHoldsNothing
<1>10. AttemptsSound
  BY DEF Init, AttemptsSound, AttemptSound, Quiet
<1> QED BY <1>3, <1>5, <1>6, <1>7, <1>8, <1>9, <1>10 DEF IInv, FlowSound, LedgerSound

LEMMA ScheduleSound ==
  ASSUME IInv, NEW t \in Threads, Schedule(t)
  PROVE  IInv'
<1> DEFINE new == [at |-> flow.at, cycle |-> flow.cycle, ordinal |-> flow.ordinal,
                   seen |-> "none"]
<1>1. /\ flow \in FlowType /\ FlowOK(flow, size) /\ attempt \in [Threads -> AttemptType]
      /\ size' = size /\ troubles' \in 0..MaxTroubles
      /\ flow.at # "over" /\ flow.thread = None
  BY DEF IInv, TypeOK, FlowSound, Schedule, ledger
<1>2. flow.tries < MaxAttempts[flow.at] /\ MaxAttempts[flow.at] \in 0..5
  BY <1>1 DEF FlowOK, FlowType, MaxAttempts
<1>3. flow' = [flow EXCEPT !.tries = flow.tries + 1, !.thread = t]
  BY DEF Schedule
<1>4. flow.tries + 1 \in 0..5 /\ flow.tries + 1 <= MaxAttempts[flow.at]
  BY <1>1, <1>2 DEF FlowType
<1>5. /\ flow' \in FlowType
      /\ flow'.at = flow.at /\ flow'.ordinal = flow.ordinal
      /\ flow'.tries = flow.tries + 1 /\ flow'.thread = t
  BY <1>1, <1>3, <1>4 DEF FlowType
<1>6. FlowOK(flow', size')
  BY <1>1, <1>4, <1>5, NoneAssumption DEF FlowOK
<1>7. new \in AttemptType
  BY <1>1 DEF AttemptType, FlowType, Stages, ActionStates
<1>8. attempt' \in [Threads -> AttemptType] /\ attempt'[t] = new
      /\ \A s \in Threads \ {t} : attempt'[s] = attempt[s]
  BY <1>1, <1>7 DEF Schedule
<1>9. AttemptSound(t)'
  <2>1. new.at \in {"decide", "step", "complete", "fail"}
    BY <1>1 DEF FlowType
  <2>2. new.at = "step" => new.ordinal \in 1..size'
    BY <1>1 DEF FlowOK
  <2> QED BY <1>8, <2>1, <2>2 DEF AttemptSound, Exists
<1>10. UNCHANGED <<ledger, resources, deadline>>
  BY DEF Schedule
<1> QED BY <1>1, <1>5, <1>6, <1>8, <1>9, <1>10, QuietStep DEF FlowSound

LEMMA LoseSound ==
  ASSUME IInv, NEW t \in Threads, Lose(t)
  PROVE  IInv'
<1>1. /\ flow \in FlowType /\ FlowOK(flow, size) /\ attempt \in [Threads -> AttemptType]
      /\ size' = size /\ troubles' \in 0..MaxTroubles
      /\ UNCHANGED <<ledger, resources, deadline>>
  BY LimitsAssumption DEF IInv, TypeOK, FlowSound, Lose, ledger
<1>2. FlowOK(flow', size)
  <2>1. CASE flow.tries < MaxAttempts[flow.at]
    <3>1. flow' = [flow EXCEPT !.thread = None]
      BY <2>1 DEF Lose
    <3>2. /\ flow' \in FlowType
          /\ flow'.at = flow.at /\ flow'.ordinal = flow.ordinal /\ flow'.tries = flow.tries
      BY <1>1, <3>1 DEF FlowType
    <3> QED BY <1>1, <2>1, <3>2 DEF FlowOK
  <2>2. CASE ~(flow.tries < MaxAttempts[flow.at])
    BY <2>2, FailsOK DEF Lose
  <2> QED BY <2>1, <2>2
<1>3. Quiet \in AttemptType
  BY LimitsAssumption DEF Quiet, AttemptType, Stages, ActionStates, Cycles
<1>4. attempt' \in [Threads -> AttemptType] /\ attempt'[t] \in {attempt[t], Quiet}
      /\ \A s \in Threads \ {t} : attempt'[s] = attempt[s]
  BY <1>1, <1>3 DEF Lose
<1>5. AttemptSound(t)'
  <2>1. LedgerSound' /\ Kept
    BY <1>1, LedgerStays
  <2>2. CASE attempt'[t] = attempt[t]
    BY <2>1, <2>2, AttemptStays
  <2>3. CASE attempt'[t] = Quiet
    BY <2>3 DEF AttemptSound, Quiet
  <2> QED BY <1>4, <2>2, <2>3
<1> QED BY <1>1, <1>2, <1>4, <1>5, QuietStep DEF FlowSound, FlowOK

\* What an attempt has before it: its cycle and its step are in order, and the
\* result of a decision can be followed.
LEMMA AttemptFacts ==
  ASSUME IInv, NEW t \in Threads
  PROVE  /\ attempt[t] \in AttemptType /\ attempt[t].cycle \in Cycles
         /\ AttemptSound(t)
         /\ size \in 0..MaxSteps /\ size \in Nat /\ MaxSteps \in Nat
         /\ FlowOK(Fails, size) /\ FlowOK(StepDone(attempt[t].cycle), size)
         /\ FlowOK(Follows(attempt[t].cycle, result[attempt[t].cycle]), size)
         /\ attempt[t].ordinal \in 1..size => FlowOK(StepWaits(t), size)
<1> DEFINE c == attempt[t].cycle
<1>1. attempt[t] \in AttemptType /\ c \in Cycles /\ attempt[t].ordinal \in 0..MaxSteps
  BY DEF IInv, TypeOK, AttemptType
<1>2. size \in 0..MaxSteps /\ size \in Nat /\ MaxSteps \in Nat
  BY LimitsAssumption DEF IInv, TypeOK
<1>3. AttemptSound(t)
  BY DEF IInv, AttemptsSound
<1>4. result[c] \in ResultType
  BY <1>1 DEF IInv, TypeOK
<1>5. result[c].decision = "next_step" => result[c].ordinal \in 1..size
  BY <1>1 DEF IInv, LedgerSound, ResultsSound, Exists
<1>6. FlowOK(Follows(c, result[c]), size)
  BY <1>1, <1>4, <1>5, FollowsOK
<1>7. attempt[t].ordinal \in 1..size => FlowOK(StepWaits(t), size)
  BY <1>1, DoingOK DEF StepWaits
<1> QED BY <1>1, <1>2, <1>3, <1>6, <1>7, FailsOK, StepDoneOK

\* An attempt that ends, fails or gets on without a transaction.
LEMMA QuietEnds ==
  ASSUME IInv, NEW t \in Threads, NEW next, Ends(t, next), FlowOK(next, size),
         UNCHANGED <<ledger, resources, deadline, troubles>>
  PROVE  IInv'
<1>1. size' = size /\ size \in Nat /\ troubles' \in 0..MaxTroubles
  BY LimitsAssumption DEF IInv, TypeOK, ledger
<1> QED BY <1>1, EndsFacts, QuietStep

LEMMA QuietRaises ==
  ASSUME IInv, NEW t \in Threads, Raises(t), UNCHANGED <<ledger, resources, deadline, troubles>>
  PROVE  IInv'
BY QuietEnds, FailsOK DEF Raises

LEMMA QuietGoes ==
  ASSUME IInv, NEW t \in Threads, NEW at \in Stages, Goes(t, at),
         UNCHANGED <<ledger, resources, deadline, troubles>>,
         AttemptSound(t)'
  PROVE  IInv'
<1>1. size' = size /\ troubles' \in 0..MaxTroubles
  BY DEF IInv, TypeOK, ledger
<1> QED BY <1>1, GoesFacts, QuietStep

LEMMA ReadRunSound ==
  ASSUME IInv, NEW t \in Threads, ReadRun(t)
  PROVE  IInv'
<1> DEFINE c == attempt[t].cycle
<1>1. UNCHANGED <<ledger, resources, deadline, troubles>>
  BY DEF ReadRun
<1>2. CASE Ends(t, Follows(c, result[c]))
  BY <1>1, <1>2, AttemptFacts, QuietEnds
<1>3. CASE Raises(t)
  BY <1>1, <1>3, QuietRaises
<1>4. ASSUME NEW at \in {"reserve", "block"}, Goes(t, at)
      PROVE  IInv'
  <2>1. at \in Stages /\ size' = size
    BY <1>1 DEF Stages, ledger
  <2>2. AttemptSound(t)'
    BY <1>4, <2>1, GoesFacts DEF AttemptSound
  <2> QED BY <1>1, <1>4, <2>1, <2>2, QuietGoes
<1> QED BY <1>2, <1>3, <1>4 DEF ReadRun

LEMMA ReadStepSound ==
  ASSUME IInv, NEW t \in Threads, ReadStep(t)
  PROVE  IInv'
<1> DEFINE o == attempt[t].ordinal
           at == IF steps[o].tool = "action" THEN "look" ELSE "begin"
<1>1. UNCHANGED <<ledger, resources, deadline, troubles>>
  BY DEF ReadStep
<1>2. CASE Raises(t)
  BY <1>1, <1>2, QuietRaises
<1>3. CASE Ends(t, StepDone(attempt[t].cycle))
  BY <1>1, <1>3, AttemptFacts, QuietEnds
<1>4. CASE Goes(t, at)
  <2>1. at \in Stages /\ size' = size /\ steps' = steps
    BY <1>1 DEF Stages, ledger
  <2>2. Exists(o) /\ o \in Ordinals
    BY AttemptFacts DEF ReadStep, AttemptSound, Exists, Ordinals
  <2>3. steps[o].tool \in {"task", "browser", "action"}
    <3>1. steps[o] \in StepType
      BY <2>2 DEF IInv, TypeOK
    <3>2. steps[o].tool # "none"
      BY <2>2 DEF IInv, LedgerSound, RowSound, StepSound
    <3> QED BY <3>1, <3>2, ToolsAssumption DEF StepType
  <2>4. AttemptSound(t)'
    <3> HIDE DEF at
    <3>1. attempt'[t].at = at /\ attempt'[t].ordinal = o
      BY <1>4, <2>1, GoesFacts
    <3>2. o \in 1..size'
      BY <2>1, <2>2 DEF Exists
    <3>3. \/ at = "look" /\ steps[o].tool = "action"
          \/ at = "begin" /\ steps[o].tool \in {"task", "browser"}
      BY <2>3 DEF at
    <3> QED BY <2>1, <3>1, <3>2, <3>3 DEF AttemptSound, Exists
  <2> QED BY <1>1, <1>4, <2>1, <2>4, QuietGoes
<1> QED BY <1>2, <1>3, <1>4 DEF ReadStep

LEMMA LookSound ==
  ASSUME IInv, NEW t \in Threads, Look(t)
  PROVE  IInv'
<1>1. UNCHANGED <<ledger, resources, deadline, troubles>>
  BY DEF Look
<1>2. CASE Raises(t)
  BY <1>1, <1>2, QuietRaises
<1>3. CASE ~Raises(t)
  <2>1. /\ action.state \in {"awaiting_approval", "queued", "executing", "succeeded"}
        /\ attempt' = [attempt EXCEPT ![t].at = "settle", ![t].seen = action.state]
        /\ UNCHANGED flow
    BY <1>3 DEF Look
  <2>2. attempt \in [Threads -> AttemptType]
    BY DEF IInv, TypeOK
  <2>3. /\ attempt'[t] = [attempt[t] EXCEPT !.at = "settle", !.seen = action.state]
        /\ \A s \in Threads \ {t} : attempt'[s] = attempt[s]
    BY <2>1, <2>2
  <2>4. /\ attempt'[t] \in AttemptType /\ attempt'[t].at = "settle"
        /\ attempt'[t].seen = action.state /\ attempt'[t].ordinal = attempt[t].ordinal
    <3>1. attempt[t] \in AttemptType /\ "settle" \in Stages /\ action.state \in ActionStates
      BY <2>1, <2>2 DEF Stages, ActionStates
    <3> QED BY <2>3, <3>1 DEF AttemptType
  <2>5. attempt' \in [Threads -> AttemptType]
    BY <2>1, <2>2, <2>4
  <2>6. AttemptSound(t)'
    <3>1. Exists(attempt[t].ordinal) /\ steps[attempt[t].ordinal].tool = "action"
      BY AttemptFacts DEF Look, AttemptSound
    <3> QED BY <1>1, <2>1, <2>4, <3>1 DEF AttemptSound, Exists, ledger, resources
  <2>7. flow' \in FlowType /\ FlowSound' /\ troubles' \in 0..MaxTroubles
    BY <1>1, <2>1 DEF IInv, TypeOK, FlowSound, ledger
  <2> QED BY <1>1, <2>3, <2>5, <2>6, <2>7, QuietStep
<1> QED BY <1>2, <1>3

LEMMA RetrySound ==
  ASSUME IInv, NEW t \in Threads, Retry(t)
  PROVE  IInv'
<1>1. UNCHANGED <<ledger, resources, deadline, troubles>> /\ Goes(t, "create")
      /\ attempt[t].at = "work"
  BY DEF Retry
<1>2. "create" \in Stages /\ size' = size
  BY <1>1 DEF Stages, ledger
<1>3. AttemptSound(t)'
  <2>1. /\ attempt'[t].at = "create" /\ attempt'[t].ordinal = attempt[t].ordinal
    BY <1>1, <1>2, GoesFacts
  <2> QED BY <1>1, <2>1, AttemptFacts DEF AttemptSound, Exists, ledger, resources
<1> QED BY <1>1, <1>2, <1>3, QuietGoes

LEMMA TimeIsUpSound ==
  ASSUME IInv, TimeIsUp
  PROVE  IInv'
<1>1. LedgerSound' /\ Kept
  BY LedgerStays DEF TimeIsUp
<1>2. AttemptsSound'
  BY <1>1, AttemptStays DEF AttemptsSound, TimeIsUp
<1>3. TypeOK' /\ FlowSound'
  BY DEF IInv, TypeOK, FlowSound, TimeIsUp, ledger, resources
<1> QED BY <1>1, <1>2, <1>3 DEF IInv

-----------------------------------------------------------------------------
(* Decisions *)

LEMMA ReserveSound ==
  ASSUME IInv, NEW t \in Threads, Reserve(t)
  PROVE  IInv'
<1>1. UNCHANGED <<resources, deadline, troubles>>
  BY DEF Reserve
<1>2. CASE Raises(t) /\ UNCHANGED ledger
  BY <1>1, <1>2, QuietRaises
<1>3. CASE ~Closed /\ calls # MaxCalls /\ calls' = calls + 1 /\ Goes(t, "infer")
           /\ UNCHANGED <<run, size, steps, result>>
  <2>1. calls' \in 0..MaxCalls
    BY <1>3, LimitsAssumption DEF IInv, TypeOK
  <2>2. "infer" \in Stages
    BY DEF Stages
  <2>3. AttemptSound(t)'
    BY <1>3, <2>2, GoesFacts DEF AttemptSound
  <2>4. ResultsSound' /\ OneDecisionEach'
    BY <1>3 DEF IInv, LedgerSound, ResultsSound, OneDecisionEach, Exists
  <2>5. \A o \in Ordinals : RowSound(o)'
    BY <1>1, <1>3 DEF IInv, LedgerSound, RowSound, StepSound, TaskSound, SessionSound, Exists,
                      resources
  <2>6. ActionSound' /\ (deadline' = "enforced" => run' = "failed")
    BY <1>1, <1>3 DEF IInv, LedgerSound, ActionSound, Exists, resources
  <2>7. CompletionIsHonest' /\ StoppedHoldsNothing'
    BY <1>1, <1>3 DEF IInv, LedgerSound, CompletionIsHonest, StoppedHoldsNothing, resources
  <2>8. LedgerSound'
    BY <2>4, <2>5, <2>6, <2>7 DEF LedgerSound
  <2>9. Kept
    BY <1>1, <1>3, LimitsAssumption DEF IInv, TypeOK, Kept, resources
  <2>10. TypeOK'
    BY <1>1, <1>3, <2>1, <2>2, GoesFacts DEF IInv, TypeOK, resources
  <2>11. FlowSound' /\ \A s \in Threads \ {t} : attempt'[s] = attempt[s]
    BY <1>3, <2>2, GoesFacts
  <2>12. AttemptsSound'
    BY <2>3, <2>9, <2>11, AttemptStays DEF AttemptsSound
  <2> QED BY <2>8, <2>10, <2>11, <2>12 DEF IInv
<1> QED BY <1>2, <1>3 DEF Reserve

\* A decision that ends the run, or lets it wait.
LEMMA ConcludesSound ==
  ASSUME IInv, NEW t \in Threads, ~Closed, ~Late, ~Committed(attempt[t].cycle),
         NEW d \in Decisions \ {"none", "next_step"},
         run' \in {run, "needs_input", "blocked"},
         Decides(t, [decision |-> d, ordinal |-> 0]),
         UNCHANGED <<calls, size, steps, resources, deadline, troubles>>
  PROVE  IInv'
<1> DEFINE c == attempt[t].cycle
           r == [decision |-> d, ordinal |-> 0]
<1> USE DEF resources
<1>1. run \in Active /\ run' \in Active \union {"needs_input", "blocked"}
  BY DEF IInv, TypeOK, Closed, Active, AgentTerminal
<1>2. r \in ResultType /\ r.decision # "next_step"
  BY LimitsAssumption DEF ResultType
<1>3. result \in [Cycles -> ResultType] /\ c \in Cycles
  BY AttemptFacts DEF IInv, TypeOK
<1>4. result' \in [Cycles -> ResultType] /\ result'[c] = r
      /\ \A x \in Cycles \ {c} : result'[x] = result[x]
  BY <1>2, <1>3 DEF Decides
<1>5. result[c].decision # "next_step"
  BY DEF Committed
<1>6. ResultsSound'
  BY <1>2, <1>4 DEF IInv, LedgerSound, ResultsSound, Exists
<1>7. OneDecisionEach'
  <2>1. \A x \in Cycles, o \in 1..size :
          result'[x] = [decision |-> "next_step", ordinal |-> o]
            <=> result[x] = [decision |-> "next_step", ordinal |-> o]
    BY <1>2, <1>4, <1>5
  <2> SUFFICES ASSUME NEW o \in 1..size
               PROVE  \E x \in Cycles : \A y \in Cycles :
                        result'[y] = [decision |-> "next_step", ordinal |-> o] <=> y = x
    BY DEF OneDecisionEach
  <2>2. PICK x \in Cycles : \A y \in Cycles :
          result[y] = [decision |-> "next_step", ordinal |-> o] <=> y = x
    BY DEF IInv, LedgerSound, OneDecisionEach
  <2> QED BY <2>1, <2>2
<1>8. \A o \in Ordinals : RowSound(o)'
  BY <1>1 DEF IInv, LedgerSound, RowSound, StepSound, TaskSound, SessionSound, Exists
<1>9. ActionSound'
  BY DEF IInv, LedgerSound, ActionSound, Exists
<1>10. CompletionIsHonest' /\ StoppedHoldsNothing' /\ (deadline' = "enforced" => run' = "failed")
  BY <1>1 DEF Late, CompletionIsHonest, StoppedHoldsNothing, Active
<1>11. LedgerSound'
  BY <1>6, <1>7, <1>8, <1>9, <1>10 DEF LedgerSound
<1>12. Kept
  BY <1>1, LimitsAssumption DEF IInv, TypeOK, Kept
<1>13. FlowOK(Follows(c, r), size)
  BY <1>2, <1>3, FollowsOK
<1>14. /\ flow' \in FlowType /\ FlowSound'
       /\ attempt' \in [Threads -> AttemptType] /\ AttemptSound(t)'
       /\ \A s \in Threads \ {t} : attempt'[s] = attempt[s]
  <2>1. Ends(t, Follows(c, r)) /\ size' = size /\ size \in Nat
    BY LimitsAssumption DEF Decides, IInv, TypeOK
  <2> HIDE DEF r
  <2> QED BY <1>13, <2>1, EndsFacts
<1>15. run' \in Active \union AgentTerminal
  BY <1>1 DEF AgentTerminal
<1>16. /\ calls' \in 0..MaxCalls /\ size' \in 0..MaxSteps
       /\ steps' \in [Ordinals -> StepType]
       /\ task' \in [Ordinals -> {"none", "open", "stopping", "completed", "needs_input", "ended"}]
       /\ session' \in [Ordinals -> Live \union {"none", "settled", "closed"}]
       /\ action' \in [state : ActionStates, ready : BOOLEAN]
  BY DEF IInv, TypeOK
<1> QED BY <1>4, <1>11, <1>12, <1>14, <1>15, <1>16, AttemptStep

\* A decision that appends a step.
LEMMA NextStepSound ==
  ASSUME IInv, NEW t \in Threads, ~Closed, ~Late, ~Committed(attempt[t].cycle),
         NextStep(t), UNCHANGED <<calls, resources, deadline, troubles>>
  PROVE  IInv'
<1>0. PICK n \in Ordinals : n = size + 1 /\ size < MaxSteps
  BY LimitsAssumption DEF NextStep, Chooses, IInv, TypeOK, Ordinals
<1> DEFINE c == attempt[t].cycle
           r == [decision |-> "next_step", ordinal |-> n]
<1> USE DEF resources
<1>1. run \in Active /\ run' = "planning" /\ run' \in Active
  BY DEF IInv, TypeOK, Closed, Active, AgentTerminal, NextStep
<1>2. PICK tool \in Tools :
        /\ size < MaxSteps /\ size' = n
        /\ steps' = [steps EXCEPT ![n] = [NoStep EXCEPT !.tool = tool]]
        /\ Decides(t, r)
  BY <1>0 DEF NextStep, Chooses
<1>3. size \in Nat /\ MaxSteps \in Nat /\ n \in Ordinals /\ n \in 0..MaxSteps /\ n \in 1..n
  BY <1>0, <1>2, LimitsAssumption DEF IInv, TypeOK, Ordinals
<1>4. r \in ResultType
  BY <1>3 DEF ResultType, Decisions
<1>5. result \in [Cycles -> ResultType] /\ c \in Cycles
  BY AttemptFacts DEF IInv, TypeOK
<1>6. result' \in [Cycles -> ResultType] /\ result'[c] = r
      /\ \A x \in Cycles \ {c} : result'[x] = result[x]
  BY <1>2, <1>4, <1>5 DEF Decides
<1>7. result[c].decision # "next_step"
  BY DEF Committed
<1>8. \A x \in Cycles : result[x].decision = "next_step" => result[x].ordinal \in 1..size
  BY DEF IInv, LedgerSound, ResultsSound, Exists
<1>9. ResultsSound'
  <2> SUFFICES ASSUME NEW x \in Cycles, result'[x].decision = "next_step"
               PROVE  result'[x].ordinal \in 1..n
    BY <1>2 DEF ResultsSound, Exists
  <2>1. CASE x = c
    BY <1>3, <1>6, <2>1
  <2>2. CASE x # c
    BY <1>0, <1>3, <1>6, <1>8, <2>2
  <2> QED BY <2>1, <2>2
<1>10. OneDecisionEach'
  <2> SUFFICES ASSUME NEW o \in 1..n
               PROVE  \E x \in Cycles : \A y \in Cycles :
                        result'[y] = [decision |-> "next_step", ordinal |-> o] <=> y = x
    BY <1>2 DEF OneDecisionEach
  <2>1. CASE o = n
    <3>1. \A y \in Cycles \ {c} : result'[y] # r
      BY <1>0, <1>3, <1>6, <1>8
    <3> QED BY <1>5, <1>6, <2>1, <3>1
  <2>2. CASE o # n
    <3>1. o \in 1..size
      BY <1>0, <1>3, <2>2
    <3>2. PICK x \in Cycles : \A y \in Cycles :
            result[y] = [decision |-> "next_step", ordinal |-> o] <=> y = x
      BY <3>1 DEF IInv, LedgerSound, OneDecisionEach
    <3>3. x # c
      BY <1>5, <1>7, <3>2
    <3>4. result'[c] # [decision |-> "next_step", ordinal |-> o]
      BY <1>6, <2>2
    <3> QED BY <1>6, <3>2, <3>3, <3>4
  <2> QED BY <2>1, <2>2
<1>11. /\ steps' \in [Ordinals -> StepType] /\ steps'[n] = [NoStep EXCEPT !.tool = tool]
       /\ \A o \in Ordinals \ {n} : steps'[o] = steps[o]
  <2>1. [NoStep EXCEPT !.tool = tool] \in StepType
    BY DEF NoStep, StepType
  <2> QED BY <1>2, <1>3, <2>1 DEF IInv, TypeOK
<1>12. \A o \in Ordinals \ {n} : Exists(o)' <=> Exists(o)
  BY <1>0, <1>2, <1>3 DEF Exists, Ordinals
<1>13. ~Exists(n) /\ Exists(n)' /\ steps[n].tool = "none" /\ task[n] = "none" /\ session[n] = "none"
       /\ steps[n] = NoStep
  BY <1>0, <1>2, <1>3 DEF Exists, IInv, LedgerSound, RowSound, StepSound
<1>14. \A o \in Ordinals : RowSound(o)'
  <2>1. RowSound(n)'
    <3>1. /\ steps'[n].tool = tool /\ tool # "none"
          /\ steps'[n].state = "planned" /\ steps'[n].invocation = "prepared"
          /\ steps'[n].output = "none" /\ steps'[n].receipt = "none"
      BY <1>11, ToolsAssumption DEF NoStep
    <3> QED BY <1>13, <3>1 DEF RowSound, StepSound, TaskSound, SessionSound, OpenStep
  <2>2. ASSUME NEW o \in Ordinals \ {n}
        PROVE  RowSound(o)'
    BY <1>1, <1>11, <1>12 DEF IInv, LedgerSound, RowSound, StepSound, TaskSound, SessionSound
  <2> QED BY <2>1, <2>2
<1>15. ActionSound'
  <2>1. /\ steps'[n].output = "none" /\ steps'[n].receipt = "none"
        /\ steps'[n].invocation = "prepared"
    BY <1>11 DEF NoStep
  <2>2. steps[n].output = "none"
    BY <1>13 DEF NoStep
  <2> QED BY ZenonT(30), <1>11, <1>12, <2>1, <2>2 DEF IInv, LedgerSound, ActionSound
<1>16. LedgerSound'
  BY <1>1, <1>9, <1>10, <1>14, <1>15, GoesOn DEF LedgerSound
<1>17. Kept
  <2>1. steps[n].tool # "task"
    BY <1>13
  <2>2. size' \in Nat /\ size <= size'
    BY <1>0, <1>2, <1>3
  <2> QED BY <1>1, <1>11, <1>13, <2>1, <2>2 DEF Kept
<1>18. FlowOK(Follows(c, r), size')
  <2> HIDE DEF c
  <2>1. r.decision = "next_step" => r.ordinal \in 1..size'
    BY <1>2, <1>3
  <2> QED BY <1>4, <1>5, <2>1, FollowsOK
<1>19. /\ flow' \in FlowType /\ FlowSound'
       /\ attempt' \in [Threads -> AttemptType] /\ AttemptSound(t)'
       /\ \A s \in Threads \ {t} : attempt'[s] = attempt[s]
  <2>1. Ends(t, Follows(c, r)) /\ size' \in Nat /\ size <= size'
    BY <1>0, <1>2, <1>3 DEF Decides
  <2> HIDE DEF r
  <2> QED BY <1>18, <2>1, EndsFacts
<1>20. /\ calls' \in 0..MaxCalls /\ size' \in 0..MaxSteps
       /\ task' \in [Ordinals -> {"none", "open", "stopping", "completed", "needs_input", "ended"}]
       /\ session' \in [Ordinals -> Live \union {"none", "settled", "closed"}]
       /\ action' \in [state : ActionStates, ready : BOOLEAN]
  BY <1>2, <1>3 DEF IInv, TypeOK
<1> QED BY <1>1, <1>6, <1>11, <1>16, <1>17, <1>19, <1>20, AttemptStep

LEMMA CommitSound ==
  ASSUME IInv, NEW t \in Threads, Commit(t)
  PROVE  IInv'
<1> DEFINE c == attempt[t].cycle
<1>1. UNCHANGED <<resources, deadline, troubles>>
  BY DEF Commit
<1>2. CASE Ends(t, Follows(c, result[c])) /\ UNCHANGED ledger
  BY <1>1, <1>2, AttemptFacts, QuietEnds
<1>3. CASE ~Committed(c) /\ ~Closed /\ ~Late /\ NextStep(t) /\ UNCHANGED calls
  BY <1>1, <1>3, NextStepSound
<1>4. CASE ~Committed(c) /\ ~Closed /\ ~Late /\ Concludes(t) /\ UNCHANGED calls
  <2>1. PICK d \in {"complete", "needs_input", "blocked", "awaiting_approval", "wait"} :
          /\ run' = IF d \in {"needs_input", "blocked"} THEN d ELSE run
          /\ Decides(t, [decision |-> d, ordinal |-> 0])
          /\ UNCHANGED <<size, steps>>
    BY <1>4 DEF Concludes
  <2>2. d \in Decisions \ {"none", "next_step"} /\ run' \in {run, "needs_input", "blocked"}
    BY <2>1 DEF Decisions
  <2> QED BY <1>1, <1>4, <2>1, <2>2, ConcludesSound
<1> QED BY <1>2, <1>3, <1>4 DEF Commit

LEMMA BlockSound ==
  ASSUME IInv, NEW t \in Threads, Block(t)
  PROVE  IInv'
<1> DEFINE c == attempt[t].cycle
<1>1. UNCHANGED <<resources, deadline, troubles>>
  BY DEF Block
<1>2. CASE Ends(t, Follows(c, result[c])) /\ UNCHANGED ledger
  BY <1>1, <1>2, AttemptFacts, QuietEnds
<1>3. CASE /\ ~Committed(c) /\ ~Closed /\ ~Late /\ run' = "blocked"
           /\ Decides(t, [decision |-> "blocked", ordinal |-> 0])
           /\ UNCHANGED <<calls, size, steps>>
  <2>1. "blocked" \in Decisions \ {"none", "next_step"}
    BY DEF Decisions
  <2> QED BY <1>1, <1>3, <2>1, ConcludesSound
<1> QED BY <1>2, <1>3 DEF Block

-----------------------------------------------------------------------------
(* Steps *)

\* A transaction on one step of a run that goes on.
LEMMA OneStep ==
  ASSUME IInv, NEW t \in Threads, NEW o \in 1..size, NEW row \in StepType,
         run \in Active, run' \in Active,
         steps' = [steps EXCEPT ![o] = row], row.tool = steps[o].tool,
         steps[o].tool = "task" =>
           row.state \in {"running", "completed"} \/ row.state = steps[o].state,
         session' = session \/ session' = [session EXCEPT ![o] = "settled"],
         action' \in [state : ActionStates, ready : BOOLEAN], action'.state = action.state,
         RowSound(o)', ActionSound',
         UNCHANGED <<calls, size, result, task, deadline, troubles>>,
         flow' \in FlowType, FlowSound', attempt' \in [Threads -> AttemptType],
         AttemptSound(t)', \A s \in Threads \ {t} : attempt'[s] = attempt[s]
  PROVE  IInv'
<1>1. o \in Ordinals /\ size \in Nat
  BY LimitsAssumption DEF IInv, TypeOK, Ordinals
<1>2. /\ steps' \in [Ordinals -> StepType] /\ steps'[o] = row
      /\ \A p \in Ordinals \ {o} : steps'[p] = steps[p]
  BY <1>1 DEF IInv, TypeOK
<1>3. /\ session' \in [Ordinals -> Live \union {"none", "settled", "closed"}]
      /\ session'[o] \in {session[o], "settled"}
      /\ \A p \in Ordinals \ {o} : session'[p] = session[p]
  BY <1>1 DEF IInv, TypeOK
<1>4. ResultsSound' /\ OneDecisionEach'
  BY DEF IInv, LedgerSound, ResultsSound, OneDecisionEach, Exists
<1>5. \A p \in Ordinals : RowSound(p)'
  <2>1. ASSUME NEW p \in Ordinals \ {o}
        PROVE  RowSound(p)'
    BY <1>2, <1>3 DEF IInv, LedgerSound, RowSound, StepSound, TaskSound, SessionSound, Exists
  <2> QED BY <2>1
<1>6. LedgerSound'
  BY <1>4, <1>5, GoesOn DEF LedgerSound
<1>7. Kept
  BY <1>1, <1>2, <1>3 DEF Kept
<1>8. /\ calls' \in 0..MaxCalls /\ size' \in 0..MaxSteps /\ result' \in [Cycles -> ResultType]
      /\ task' \in [Ordinals -> {"none", "open", "stopping", "completed", "needs_input", "ended"}]
  BY DEF IInv, TypeOK
<1> QED BY <1>2, <1>3, <1>6, <1>7, <1>8, AttemptStep

\* A transaction on a step of another tool says nothing of the action.
LEMMA ActionAside ==
  ASSUME IInv, NEW o \in 1..size, NEW row \in StepType,
         steps' = [steps EXCEPT ![o] = row], row.tool = steps[o].tool,
         steps[o].tool # "action", row.output # "action", size' = size, action' = action
  PROVE  ActionSound'
<1>1. o \in Ordinals
  BY LimitsAssumption DEF IInv, TypeOK, Ordinals
<1>2. steps'[o] = row /\ \A p \in Ordinals \ {o} : steps'[p] = steps[p]
  BY <1>1 DEF IInv, TypeOK
<1>3. steps[o].output # "action"
  BY <1>1 DEF IInv, LedgerSound, ActionSound
<1> QED BY <1>1, <1>2, <1>3 DEF IInv, LedgerSound, ActionSound, Exists

\* A run that takes something is not over.
LEMMA OpenRun ==
  ASSUME IInv, ~Closed
  PROVE  run \in Active
BY DEF IInv, TypeOK, Closed

\* A step that is done, and its attempt, which is over.
LEMMA FinishFacts ==
  ASSUME IInv, NEW t \in Threads, NEW o \in 1..size, o = attempt[t].ordinal,
         NEW output \in {"task", "command", "action"}, NEW receipt \in {"full", "missing"},
         Finish(t, output, receipt)
  PROVE  /\ run' = "running" /\ UNCHANGED <<calls, size, result>>
         /\ flow' \in FlowType /\ FlowSound' /\ attempt' \in [Threads -> AttemptType]
         /\ AttemptSound(t)' /\ \A s \in Threads \ {t} : attempt'[s] = attempt[s]
         /\ \E row \in StepType :
              /\ steps' = [steps EXCEPT ![o] = row] /\ row.tool = steps[o].tool
              /\ row.state = "completed" /\ row.invocation = "completed" /\ row.output = output
              /\ row.receipt = IF steps[o].receipt = "none" THEN receipt ELSE steps[o].receipt
<1> DEFINE mark == IF steps[o].receipt = "none" THEN receipt ELSE steps[o].receipt
           row == [steps[o] EXCEPT !.state = "completed", !.invocation = "completed",
                                   !.output = output, !.receipt = mark]
<1>1. o \in Ordinals
  BY LimitsAssumption DEF IInv, TypeOK, Ordinals
<1>2. steps \in [Ordinals -> StepType] /\ steps[o] \in StepType
  BY <1>1 DEF IInv, TypeOK
<1>3. mark \in {"none", "full", "missing"}
  BY <1>2 DEF StepType
<1>4. /\ row \in StepType /\ row.tool = steps[o].tool
      /\ row.state = "completed" /\ row.invocation = "completed" /\ row.output = output
      /\ row.receipt = mark
  <2> HIDE DEF mark
  <2>1. row \in StepType
    <3>1. \A r \in StepType :
            [r EXCEPT !.state = "completed", !.invocation = "completed"] \in StepType
      BY ZenonT(30) DEF StepType
    <3>2. \A r \in StepType : [r EXCEPT !.output = output, !.receipt = mark] \in StepType
      BY ZenonT(30), <1>3 DEF StepType
    <3> QED BY <1>2, <3>1, <3>2
  <2>2. row.tool = steps[o].tool /\ row.state = "completed" /\ row.invocation = "completed"
    BY <1>2 DEF StepType
  <2>3. row.output = output /\ row.receipt = mark
    BY <1>2 DEF StepType
  <2> QED BY <2>1, <2>2, <2>3
<1>5. steps' = [steps EXCEPT ![o] = row]
  BY <1>1, <1>2 DEF Finish
<1>6. size' = size /\ size \in Nat /\ Ends(t, StepDone(attempt[t].cycle))
  BY AttemptFacts DEF Finish
<1>7. /\ flow' \in FlowType /\ FlowSound' /\ attempt' \in [Threads -> AttemptType]
      /\ AttemptSound(t)' /\ \A s \in Threads \ {t} : attempt'[s] = attempt[s]
  BY <1>6, AttemptFacts, EndsFacts
<1>8. run' = "running" /\ UNCHANGED <<calls, size, result>>
  BY DEF Finish
<1> HIDE DEF row
<1> QED BY <1>4, <1>5, <1>7, <1>8

LEMMA FinishActionSound ==
  ASSUME IInv, NEW t \in Threads, FinishAction(t)
  PROVE  IInv'
<1> DEFINE o == attempt[t].ordinal
<1>1. UNCHANGED <<resources, deadline, troubles>>
  BY DEF FinishAction
<1>2. CASE Raises(t) /\ UNCHANGED ledger
  BY <1>1, <1>2, QuietRaises
<1>3. CASE ~Closed /\ Finish(t, "action", "full")
  <2>1. Exists(o) /\ steps[o].tool = "action" /\ action.state = "succeeded"
    BY AttemptFacts DEF FinishAction, AttemptSound
  <2>2. PICK q \in Ordinals : q = o /\ q \in 1..size
    BY <2>1, AttemptFacts DEF Exists, Ordinals
  <2>3. PICK row \in StepType :
          /\ steps' = [steps EXCEPT ![q] = row] /\ row.tool = steps[q].tool
          /\ row.state = "completed" /\ row.invocation = "completed" /\ row.output = "action"
    BY <1>3, <2>2, FinishFacts
  <2>4. /\ steps'[q] = row /\ \A p \in Ordinals \ {q} : steps'[p] = steps[p]
        /\ UNCHANGED <<task, session, action>> /\ size' = size
    BY <1>1, <1>3, <2>3 DEF IInv, TypeOK, resources, Finish
  <2>5. RowSound(q)'
    BY <2>1, <2>2, <2>3, <2>4 DEF RowSound, StepSound, TaskSound, SessionSound, Exists
  <2>6. ActionSound'
    BY <2>1, <2>2, <2>3, <2>4 DEF IInv, LedgerSound, ActionSound, Exists
  <2>7. action' \in [state : ActionStates, ready : BOOLEAN]
    BY <2>4 DEF IInv, TypeOK
  <2>10. /\ flow' \in FlowType /\ FlowSound' /\ attempt' \in [Threads -> AttemptType]
         /\ AttemptSound(t)' /\ \A s \in Threads \ {t} : attempt'[s] = attempt[s]
         /\ run' = "running" /\ UNCHANGED <<calls, size, result>>
    BY <1>3, <2>2, FinishFacts
  <2>8. run \in Active /\ run' \in Active
    BY <1>3, <2>10, OpenRun DEF Active
  <2> QED BY <1>1, <2>2, <2>3, <2>4, <2>5, <2>6, <2>7, <2>8, <2>10, OneStep
<1> QED BY <1>2, <1>3 DEF FinishAction

LEMMA FinishTaskSound ==
  ASSUME IInv, NEW t \in Threads, FinishTask(t)
  PROVE  IInv'
<1> DEFINE o == attempt[t].ordinal
           receipt == IF task[o] = "completed" THEN "full" ELSE "missing"
<1>1. UNCHANGED <<resources, deadline, troubles>>
  BY DEF FinishTask
<1>2. CASE Raises(t) /\ UNCHANGED ledger
  BY <1>1, <1>2, QuietRaises
<1>3. CASE ~Closed /\ Finish(t, "task", receipt)
  <2>1. Exists(o) /\ steps[o].tool = "task" /\ task[o] \in {"completed", "needs_input"}
    BY AttemptFacts DEF FinishTask, AttemptSound
  <2>2. PICK q \in Ordinals : q = o /\ q \in 1..size
    BY <2>1, AttemptFacts DEF Exists, Ordinals
  <2>3. PICK row \in StepType :
          /\ steps' = [steps EXCEPT ![q] = row] /\ row.tool = steps[q].tool
          /\ row.state = "completed" /\ row.invocation = "completed" /\ row.output = "task"
          /\ row.receipt = IF steps[q].receipt = "none" THEN receipt ELSE steps[q].receipt
    BY <1>3, <2>2, FinishFacts
  <2>4. /\ steps'[q] = row /\ \A p \in Ordinals \ {q} : steps'[p] = steps[p]
        /\ UNCHANGED <<task, session, action>> /\ size' = size
    BY <1>1, <1>3, <2>3 DEF IInv, TypeOK, resources, Finish
  <2>5. RowSound(q)'
    <3>1. StepSound(q)' /\ SessionSound(q)'
      BY <2>1, <2>2, <2>3, <2>4 DEF StepSound, SessionSound, Exists
    <3>2. row.receipt = "full" => task[q] = "completed"
      <4>1. steps[q].receipt = "full" => task[q] = "completed"
        BY <2>1, <2>2 DEF IInv, LedgerSound, RowSound, TaskSound
      <4> QED BY <2>2, <2>3, <4>1
    <3>3. TaskSound(q)'
      BY <2>1, <2>2, <2>3, <2>4, <3>2 DEF TaskSound
    <3> QED BY <3>1, <3>3 DEF RowSound
  <2>6. ActionSound'
    BY <2>1, <2>2, <2>3, <2>4, ActionAside
  <2>7. action' \in [state : ActionStates, ready : BOOLEAN]
    BY <2>4 DEF IInv, TypeOK
  <2>9. receipt \in {"full", "missing"}
    OBVIOUS
  <2> HIDE DEF receipt
  <2>10. /\ flow' \in FlowType /\ FlowSound' /\ attempt' \in [Threads -> AttemptType]
         /\ AttemptSound(t)' /\ \A s \in Threads \ {t} : attempt'[s] = attempt[s]
         /\ run' = "running" /\ UNCHANGED <<calls, size, result>>
    BY <1>3, <2>2, <2>9, FinishFacts
  <2>8. run \in Active /\ run' \in Active
    BY <1>3, <2>10, OpenRun DEF Active
  <2> QED BY <1>1, <2>2, <2>3, <2>4, <2>5, <2>6, <2>7, <2>8, <2>10, OneStep
<1> QED BY <1>2, <1>3 DEF FinishTask

LEMMA FinishBrowserSound ==
  ASSUME IInv, NEW t \in Threads, FinishBrowser(t)
  PROVE  IInv'
<1> DEFINE o == attempt[t].ordinal
<1>1. UNCHANGED <<task, action, deadline, troubles>>
  BY DEF FinishBrowser
<1>2. CASE Raises(t) /\ UNCHANGED <<ledger, session>>
  BY <1>1, <1>2, QuietRaises DEF resources
<1>3. CASE /\ ~Closed /\ session[o] = "read" /\ steps[o].output = "session"
           /\ session' = [session EXCEPT ![o] = "settled"] /\ Finish(t, "command", "full")
  <2>1. Exists(o) /\ steps[o].tool = "browser"
    BY AttemptFacts DEF FinishBrowser, AttemptSound
  <2>2. PICK q \in Ordinals : q = o /\ q \in 1..size
    BY <2>1, AttemptFacts DEF Exists, Ordinals
  <2>3. PICK row \in StepType :
          /\ steps' = [steps EXCEPT ![q] = row] /\ row.tool = steps[q].tool
          /\ row.state = "completed" /\ row.invocation = "completed" /\ row.output = "command"
    BY <1>3, <2>2, FinishFacts
  <2>4. /\ steps'[q] = row /\ \A p \in Ordinals \ {q} : steps'[p] = steps[p]
        /\ session'[q] = "settled" /\ size' = size
    BY <1>3, <2>2, <2>3 DEF IInv, TypeOK, Finish
  <2>5. RowSound(q)'
    BY <1>1, <2>1, <2>2, <2>3, <2>4 DEF RowSound, StepSound, TaskSound, SessionSound, Exists
  <2>6. ActionSound'
    BY <1>1, <2>1, <2>2, <2>3, <2>4, ActionAside
  <2>7. action' \in [state : ActionStates, ready : BOOLEAN]
    BY <1>1 DEF IInv, TypeOK
  <2>10. /\ flow' \in FlowType /\ FlowSound' /\ attempt' \in [Threads -> AttemptType]
         /\ AttemptSound(t)' /\ \A s \in Threads \ {t} : attempt'[s] = attempt[s]
         /\ run' = "running" /\ UNCHANGED <<calls, size, result>>
    BY <1>3, <2>2, FinishFacts
  <2>8. run \in Active /\ run' \in Active
    BY <1>3, <2>10, OpenRun DEF Active
  <2>9. session' = [session EXCEPT ![q] = "settled"]
    BY <1>3, <2>2
  <2> QED BY <1>1, <2>2, <2>3, <2>4, <2>5, <2>6, <2>7, <2>8, <2>9, <2>10, OneStep
<1> QED BY <1>2, <1>3 DEF FinishBrowser

LEMMA ActionWaitingSound ==
  ASSUME IInv, NEW t \in Threads, ActionWaiting(t)
  PROVE  IInv'
<1> DEFINE o == attempt[t].ordinal
           s == IF attempt[t].seen = "awaiting_approval" THEN "awaiting_approval" ELSE "running"
<1>1. UNCHANGED <<task, session, deadline, troubles>>
  BY DEF ActionWaiting
<1>2. CASE Raises(t) /\ UNCHANGED <<ledger, action>>
  BY <1>1, <1>2, QuietRaises DEF resources
<1>3. CASE /\ ~Closed /\ action' = [action EXCEPT !.ready = TRUE]
           /\ steps' = [steps EXCEPT ![o].state = s, ![o].invocation = s, ![o].output = "action"]
           /\ run' \in {run, s} /\ Ends(t, StepWaits(t))
           /\ UNCHANGED <<calls, size, result>>
  <2>1. Exists(o) /\ steps[o].tool = "action"
    BY AttemptFacts DEF ActionWaiting, AttemptSound
  <2>2. PICK q \in Ordinals : q = o /\ q \in 1..size
    BY <2>1, AttemptFacts DEF Exists, Ordinals
  <2> DEFINE row == [steps[q] EXCEPT !.state = s, !.invocation = s, !.output = "action"]
  <2>3. s \in {"awaiting_approval", "running"}
    OBVIOUS
  <2> HIDE DEF s
  <2>4. steps \in [Ordinals -> StepType] /\ steps[q] \in StepType
    BY DEF IInv, TypeOK
  <2>5. row \in StepType
    <3>1. \A r \in StepType : [r EXCEPT !.state = s, !.invocation = s] \in StepType
      BY ZenonT(30), <2>3 DEF StepType
    <3>2. \A r \in StepType : [r EXCEPT !.output = "action"] \in StepType
      BY DEF StepType
    <3> QED BY <2>4, <3>1, <3>2
  <2>6. /\ row.tool = steps[q].tool /\ row.state = s /\ row.invocation = s
        /\ row.output = "action" /\ row.receipt = steps[q].receipt
    BY <2>4 DEF StepType
  <2>7. steps' = [steps EXCEPT ![q] = row]
    BY <1>3, <2>2, <2>4
  <2> HIDE DEF row
  <2>8. /\ steps'[q] = row /\ \A p \in Ordinals \ {q} : steps'[p] = steps[p]
        /\ size' = size
    BY <1>3, <2>4, <2>7
  <2>9. /\ action' \in [state : ActionStates, ready : BOOLEAN] /\ action'.state = action.state
    BY <1>3 DEF IInv, TypeOK
  <2>10. RowSound(q)'
    BY <2>1, <2>2, <2>3, <2>6, <2>8 DEF RowSound, StepSound, TaskSound, SessionSound, Exists, OpenStep
  <2>11. ActionSound'
    <3>1. \E p \in Ordinals : Exists(p)' /\ steps'[p].output = "action"
      BY <2>2, <2>6, <2>8 DEF Exists
    <3>2. ASSUME NEW p \in Ordinals
          PROVE  /\ steps'[p].output = "action" => steps'[p].tool = "action"
                 /\ steps'[p].tool = "action"
                      /\ (steps'[p].invocation = "completed" \/ steps'[p].receipt = "full") =>
                      action'.state = "succeeded"
      BY <2>1, <2>2, <2>3, <2>6, <2>8, <2>9 DEF IInv, LedgerSound, ActionSound
    <3> QED BY <2>9, <3>1, <3>2 DEF IInv, LedgerSound, ActionSound
  <2>12. run \in Active /\ run' \in Active
    BY <1>3, <2>3, OpenRun DEF Active
  <2>13. size' = size /\ size \in Nat /\ FlowOK(StepWaits(t), size)
    BY <1>3, <2>2, AttemptFacts
  <2>14. /\ flow' \in FlowType /\ FlowSound' /\ attempt' \in [Threads -> AttemptType]
         /\ AttemptSound(t)' /\ \A x \in Threads \ {t} : attempt'[x] = attempt[x]
    BY <1>3, <2>13, EndsFacts
  <2>15. steps[q].tool # "task" /\ UNCHANGED <<calls, size, result>>
    BY <1>3, <2>1, <2>2
  <2> QED BY <1>1, <2>2, <2>5, <2>6, <2>7, <2>9, <2>10, <2>11, <2>12, <2>14, <2>15, OneStep
<1> QED BY <1>2, <1>3 DEF ActionWaiting

LEMMA BeginSound ==
  ASSUME IInv, NEW t \in Threads, Begin(t)
  PROVE  IInv'
<1> DEFINE o == attempt[t].ordinal
<1>1. UNCHANGED <<resources, deadline, troubles>>
  BY DEF Begin
<1>2. CASE Raises(t) /\ UNCHANGED ledger
  BY <1>1, <1>2, QuietRaises
<1>3. CASE ~Closed /\ Goes(t, "create") /\ steps[o].invocation = "completed" /\ UNCHANGED ledger
  <2>1. Exists(o) /\ o \in Ordinals /\ steps[o].tool \in {"task", "browser"}
    BY AttemptFacts DEF Begin, AttemptSound, Exists, Ordinals
  <2>2. steps[o].state = "completed"
    BY <1>3, <2>1, OpenRun DEF IInv, LedgerSound, RowSound, StepSound
  <2>3. "create" \in Stages /\ UNCHANGED <<size, steps>>
    BY <1>3 DEF Stages, ledger
  <2>4. attempt'[t].at = "create" /\ attempt'[t].ordinal = o
    BY <1>3, <2>3, GoesFacts
  <2>5. AttemptSound(t)'
    BY <2>1, <2>2, <2>3, <2>4 DEF AttemptSound, Exists
  <2> QED BY <1>1, <1>3, <2>3, <2>5, QuietGoes
<1>4. CASE /\ ~Closed /\ Goes(t, "create") /\ steps[o].invocation # "completed"
           /\ run' = "running"
           /\ steps' = [steps EXCEPT ![o].state = "running", ![o].invocation = "running"]
           /\ UNCHANGED <<calls, size, result>>
  <2>1. Exists(o) /\ steps[o].tool \in {"task", "browser"}
    BY AttemptFacts DEF Begin, AttemptSound
  <2>2. PICK q \in Ordinals : q = o /\ q \in 1..size
    BY <2>1, AttemptFacts DEF Exists, Ordinals
  <2> DEFINE row == [steps[q] EXCEPT !.state = "running", !.invocation = "running"]
  <2>3. steps \in [Ordinals -> StepType] /\ steps[q] \in StepType
    BY DEF IInv, TypeOK
  <2>4. row \in StepType
    <3>1. \A r \in StepType : [r EXCEPT !.state = "running", !.invocation = "running"] \in StepType
      BY ZenonT(30) DEF StepType
    <3> QED BY <2>3, <3>1
  <2>5. /\ row.tool = steps[q].tool /\ row.state = "running" /\ row.invocation = "running"
        /\ row.output = steps[q].output /\ row.receipt = steps[q].receipt
    BY <2>3 DEF StepType
  <2>6. steps' = [steps EXCEPT ![q] = row]
    BY <1>4, <2>2, <2>3
  <2> HIDE DEF row
  <2>7. /\ steps'[q] = row /\ \A p \in Ordinals \ {q} : steps'[p] = steps[p]
        /\ UNCHANGED <<task, session, action, size>>
    BY <1>1, <1>4, <2>3, <2>6 DEF resources
  <2>8. run \in Active /\ run' \in Active
    BY <1>4, OpenRun DEF Active
  <2>9. RowSound(q)'
    <3>1. RowSound(q)
      BY DEF IInv, LedgerSound
    <3> QED BY <2>1, <2>2, <2>5, <2>7, <3>1 DEF RowSound, StepSound, TaskSound, SessionSound, Exists,
                                          OpenStep
  <2>10. ActionSound'
    <3>1. steps[q].tool # "action" /\ steps[q].output # "action"
      BY <2>1, <2>2 DEF IInv, LedgerSound, ActionSound
    <3> QED BY <2>2, <2>4, <2>5, <2>6, <2>7, <3>1, ActionAside
  <2>11. action' \in [state : ActionStates, ready : BOOLEAN]
    BY <2>7 DEF IInv, TypeOK
  <2>12. "create" \in Stages
    BY DEF Stages
  <2>13. /\ flow' \in FlowType /\ FlowSound' /\ attempt' \in [Threads -> AttemptType]
         /\ attempt'[t].at = "create" /\ attempt'[t].ordinal = o
         /\ \A x \in Threads \ {t} : attempt'[x] = attempt[x]
    BY <1>4, <2>12, GoesFacts
  <2>14. AttemptSound(t)'
    BY <2>1, <2>2, <2>5, <2>7, <2>13 DEF AttemptSound, Exists
  <2> QED BY <1>1, <1>4, <2>2, <2>4, <2>5, <2>6, <2>7, <2>8, <2>9, <2>10, <2>11, <2>13, <2>14, OneStep
<1> QED BY <1>2, <1>3, <1>4 DEF Begin

LEMMA LinkSound ==
  ASSUME IInv, NEW t \in Threads, Link(t)
  PROVE  IInv'
<1> DEFINE o == attempt[t].ordinal
           at == IF steps[o].tool = "task" THEN "work" ELSE "poll"
           output == IF steps[o].tool = "task" THEN "task" ELSE "session"
<1>1. UNCHANGED <<resources, deadline, troubles>>
  BY DEF Link
<1>2. CASE Raises(t) /\ UNCHANGED ledger
  BY <1>1, <1>2, QuietRaises
<1>3. Exists(o) /\ steps[o].tool \in {"task", "browser"}
  BY AttemptFacts DEF Link, AttemptSound
<1>4. PICK q \in Ordinals : q = o /\ q \in 1..size
  BY <1>3, AttemptFacts DEF Exists, Ordinals
<1>5. CASE steps[o].tool = "browser" /\ Goes(t, "clear") /\ UNCHANGED ledger
  <2>1. "clear" \in Stages /\ UNCHANGED <<size, steps>>
    BY <1>5 DEF Stages, ledger
  <2>2. attempt'[t].at = "clear" /\ attempt'[t].ordinal = o
    BY <1>5, <2>1, GoesFacts
  <2>3. AttemptSound(t)'
    BY <1>3, <1>5, <2>1, <2>2 DEF AttemptSound, Exists
  <2> QED BY <1>1, <1>5, <2>1, <2>3, QuietGoes
<1>6. CASE /\ run \notin AgentTerminal /\ steps' = [steps EXCEPT ![o].output = output]
           /\ Goes(t, at) /\ UNCHANGED <<run, calls, size, result>>
  <2> DEFINE row == [steps[q] EXCEPT !.output = output]
  <2>1. /\ steps[q].tool = "task" => output = "task" /\ at = "work"
        /\ steps[q].tool = "browser" => output = "session" /\ at = "poll"
        /\ output \in {"task", "session"} /\ at \in Stages
    BY <1>3, <1>4 DEF Stages
  <2> HIDE DEF output, at
  <2>2. steps \in [Ordinals -> StepType] /\ steps[q] \in StepType
    BY DEF IInv, TypeOK
  <2>3. row \in StepType
    <3>1. \A r \in StepType : [r EXCEPT !.output = output] \in StepType
      BY <2>1 DEF StepType
    <3> QED BY <2>2, <3>1
  <2>4. /\ row.tool = steps[q].tool /\ row.state = steps[q].state
        /\ row.invocation = steps[q].invocation
        /\ row.output = output /\ row.receipt = steps[q].receipt
    BY <2>2 DEF StepType
  <2>5. steps' = [steps EXCEPT ![q] = row]
    BY <1>4, <1>6, <2>2
  <2> HIDE DEF row
  <2>6. /\ steps'[q] = row /\ \A p \in Ordinals \ {q} : steps'[p] = steps[p]
        /\ UNCHANGED <<task, session, action, size>>
    BY <1>1, <1>6, <2>2, <2>5 DEF resources
  <2>7. run \in Active /\ run' = run
    BY <1>6 DEF IInv, TypeOK
  <2>8. /\ steps[q].tool = "task" => steps[q].state \in {"running", "completed"} /\ task[q] # "none"
        /\ steps[q].tool = "browser" => session[q] # "none"
    <3>1. AttemptSound(t) /\ attempt[t].at = "link"
      BY AttemptFacts DEF Link
    <3> QED BY <1>4, <2>7, <3>1 DEF AttemptSound
  <2>9. RowSound(q)'
    <3>1. RowSound(q) /\ Exists(q)
      BY <1>4 DEF IInv, LedgerSound, Exists
    <3>2. StepSound(q)'
      BY <1>3, <1>4, <2>4, <2>6, <2>7, <3>1 DEF RowSound, StepSound, Exists
    <3>3. TaskSound(q)'
      <4>1. steps[q].tool = "task" /\ task[q] = "open" => steps[q].state = "running"
        BY <2>7, <2>8, <3>1 DEF RowSound, StepSound, TaskSound
      <4> QED BY <1>3, <1>4, <2>1, <2>4, <2>6, <2>7, <2>8, <3>1, <4>1 DEF RowSound, TaskSound
    <3>4. SessionSound(q)'
      BY <1>3, <1>4, <2>1, <2>4, <2>6, <2>8, <3>1 DEF RowSound, SessionSound
    <3> QED BY <3>2, <3>3, <3>4 DEF RowSound
  <2>10. ActionSound'
    <3>1. steps[q].tool # "action" /\ row.output # "action"
      BY <1>3, <1>4, <2>1, <2>4
    <3> QED BY <1>4, <2>3, <2>4, <2>5, <2>6, <3>1, ActionAside
  <2>11. action' \in [state : ActionStates, ready : BOOLEAN]
    BY <2>6 DEF IInv, TypeOK
  <2>12. /\ flow' \in FlowType /\ FlowSound' /\ attempt' \in [Threads -> AttemptType]
         /\ attempt'[t].at = at /\ attempt'[t].ordinal = o
         /\ \A x \in Threads \ {t} : attempt'[x] = attempt[x]
    BY <1>6, <2>1, GoesFacts
  <2>13. AttemptSound(t)'
    BY <1>3, <1>4, <2>1, <2>4, <2>6, <2>8, <2>12 DEF AttemptSound, Exists
  <2>14. run' \in Active /\ session' = session /\ action'.state = action.state
         /\ UNCHANGED <<calls, size, result, task, deadline, troubles>>
    BY <1>1, <1>6, <2>6, <2>7
  <2> HIDE DEF o
  <2> QED BY <1>4, <2>3, <2>4, <2>5, <2>7, <2>9, <2>10, <2>11, <2>12, <2>13, <2>14, OneStep
<1> QED BY <1>2, <1>5, <1>6, <1>3 DEF Link

-----------------------------------------------------------------------------
(* What the steps have *)

TaskStates == {"none", "open", "stopping", "completed", "needs_input", "ended"}
SessionStates == Live \union {"none", "settled", "closed"}

\* The task or the session of one step moves on, and is not undone.
LEMMA OneResource ==
  ASSUME IInv, NEW o \in 1..size, NEW x \in TaskStates, NEW y \in SessionStates,
         task' = [task EXCEPT ![o] = x], session' = [session EXCEPT ![o] = y],
         UNCHANGED <<ledger, action, deadline>>,
         task[o] \in {"completed", "needs_input"} => x = task[o],
         task[o] # "none" => x # "none",
         session[o] = "settled" => y = "settled", session[o] # "none" => y # "none",
         steps[o].output = "task" /\ x = "open" => task[o] = "open",
         steps[o].output = "session" /\ y \in Live => session[o] \in Live
  PROVE  /\ LedgerSound' /\ Kept
         /\ task' \in [Ordinals -> TaskStates] /\ task'[o] = x
         /\ session' \in [Ordinals -> SessionStates] /\ session'[o] = y
<1> USE DEF ledger
<1>1. o \in Ordinals /\ size \in Nat
  BY LimitsAssumption DEF IInv, TypeOK, Ordinals
<1>2. /\ task' \in [Ordinals -> TaskStates] /\ task'[o] = x
      /\ \A p \in Ordinals \ {o} : task'[p] = task[p]
  BY <1>1 DEF IInv, TypeOK, TaskStates
<1>3. /\ session' \in [Ordinals -> SessionStates] /\ session'[o] = y
      /\ \A p \in Ordinals \ {o} : session'[p] = session[p]
  BY <1>1 DEF IInv, TypeOK, SessionStates
<1>4. ResultsSound' /\ OneDecisionEach' /\ ActionSound' /\ (deadline' = "enforced" => run' = "failed")
  BY DEF IInv, LedgerSound, ResultsSound, OneDecisionEach, ActionSound, Exists
<1>5. RowSound(o)'
  <2>1. RowSound(o) /\ Exists(o) /\ Exists(o)'
    BY <1>1 DEF IInv, LedgerSound, Exists
  <2>2. steps[o].tool # "none"
    BY <2>1 DEF RowSound, StepSound
  <2>3. StepSound(o)'
    BY <2>1, <2>2 DEF RowSound, StepSound
  <2>4. TaskSound(o)'
    BY <1>2, <2>1 DEF RowSound, TaskSound
  <2>5. SessionSound(o)'
    BY <1>3, <2>1 DEF RowSound, SessionSound
  <2> QED BY <2>3, <2>4, <2>5 DEF RowSound
<1>6. \A p \in Ordinals : RowSound(p)'
  <2>1. ASSUME NEW p \in Ordinals \ {o}
        PROVE  RowSound(p)'
    BY <1>2, <1>3 DEF IInv, LedgerSound, RowSound, StepSound, TaskSound, SessionSound, Exists
  <2> QED BY <1>5, <2>1
<1>7. CompletionIsHonest'
  <2>1. \A p \in Ordinals : /\ task[p] = "completed" => task'[p] = "completed"
                            /\ session[p] = "settled" => session'[p] = "settled"
    BY <1>2, <1>3
  <2>2. \A p \in 1..size : p \in Ordinals
    BY LimitsAssumption DEF IInv, TypeOK, Ordinals
  <2> QED BY <2>1, <2>2 DEF IInv, LedgerSound, CompletionIsHonest
<1>8. StoppedHoldsNothing'
  <2>1. \A p \in Ordinals :
          /\ steps[p].output = "task" /\ task'[p] = "open" => task[p] = "open"
          /\ steps[p].output = "session" /\ session'[p] \in Live => session[p] \in Live
    BY <1>2, <1>3
  <2>2. \A p \in 1..size : p \in Ordinals
    BY LimitsAssumption DEF IInv, TypeOK, Ordinals
  <2> QED BY <2>1, <2>2 DEF IInv, LedgerSound, StoppedHoldsNothing
<1>9. Kept
  BY <1>1, <1>2, <1>3 DEF Kept
<1> QED BY <1>2, <1>3, <1>4, <1>6, <1>7, <1>8, <1>9 DEF LedgerSound

\* As a step of an attempt.
LEMMA AttemptOnResource ==
  ASSUME IInv, NEW t \in Threads, LedgerSound', Kept,
         UNCHANGED <<ledger, action, deadline, troubles>>,
         task' \in [Ordinals -> TaskStates], session' \in [Ordinals -> SessionStates],
         flow' \in FlowType, FlowSound', attempt' \in [Threads -> AttemptType],
         AttemptSound(t)', \A s \in Threads \ {t} : attempt'[s] = attempt[s]
  PROVE  IInv'
<1>1. TypeOK'
  BY DEF IInv, TypeOK, ledger, TaskStates, SessionStates
<1>2. AttemptsSound'
  BY AttemptStays DEF AttemptsSound
<1> QED BY <1>1, <1>2 DEF IInv

\* The step that an attempt works on.
LEMMA WorksOn ==
  ASSUME IInv, NEW t \in Threads,
         attempt[t].at \in {"step", "look", "settle", "begin", "create", "link", "clear",
                            "work", "poll", "finish"}
  PROVE  /\ attempt[t].ordinal \in 1..size /\ attempt[t].ordinal \in Ordinals
         /\ RowSound(attempt[t].ordinal) /\ AttemptSound(t)
         /\ task[attempt[t].ordinal] \in TaskStates
         /\ session[attempt[t].ordinal] \in SessionStates
<1>1. attempt[t].ordinal \in 1..size /\ attempt[t].ordinal \in Ordinals
  BY AttemptFacts DEF AttemptSound, Exists, Ordinals
<1> QED BY <1>1, AttemptFacts DEF IInv, LedgerSound, TypeOK, TaskStates, SessionStates

LEMMA CreateTaskSound ==
  ASSUME IInv, NEW t \in Threads, CreateTask(t)
  PROVE  IInv'
<1>1. PICK o \in 1..size : o = attempt[t].ordinal /\ o \in Ordinals
  BY WorksOn DEF CreateTask
<1> DEFINE x == IF task[o] = "none" THEN "open" ELSE task[o]
<1>2. RowSound(o) /\ AttemptSound(t) /\ x \in TaskStates /\ session[o] \in SessionStates
  BY <1>1, WorksOn DEF CreateTask, TaskStates
<1>3. /\ attempt[t].at = "create" /\ steps[o].tool = "task" /\ Goes(t, "link")
      /\ task' = [task EXCEPT ![o] = x] /\ session' = session
      /\ UNCHANGED <<ledger, action, deadline, troubles>>
  BY <1>1 DEF CreateTask
<1>4. session' = [session EXCEPT ![o] = session[o]]
  BY <1>1, <1>3 DEF IInv, TypeOK
<1>5. steps[o].output = "task" => task[o] # "none"
  BY <1>2, <1>3 DEF RowSound, TaskSound
<1>6. /\ LedgerSound' /\ Kept
      /\ task' \in [Ordinals -> TaskStates] /\ task'[o] = x
      /\ session' \in [Ordinals -> SessionStates]
  <2>1. /\ task[o] \in {"completed", "needs_input"} => x = task[o]
        /\ x # "none"
        /\ steps[o].output = "task" /\ x = "open" => task[o] = "open"
    BY <1>5
  <2> HIDE DEF x
  <2> QED BY <1>2, <1>3, <1>4, <2>1, OneResource
<1>7. "link" \in Stages /\ size' = size /\ steps' = steps /\ run' = run
  BY <1>3 DEF Stages, ledger
<1>8. /\ flow' \in FlowType /\ FlowSound' /\ attempt' \in [Threads -> AttemptType]
      /\ attempt'[t].at = "link" /\ attempt'[t].ordinal = o
      /\ \A s \in Threads \ {t} : attempt'[s] = attempt[s]
  BY <1>1, <1>3, <1>7, GoesFacts
<1>9. AttemptSound(t)'
  BY <1>1, <1>2, <1>3, <1>6, <1>7, <1>8 DEF AttemptSound, Exists
<1> QED BY <1>3, <1>6, <1>8, <1>9, AttemptOnResource

LEMMA CreateSessionSound ==
  ASSUME IInv, NEW t \in Threads, CreateSession(t)
  PROVE  IInv'
<1>1. PICK o \in 1..size : o = attempt[t].ordinal /\ o \in Ordinals
  BY WorksOn DEF CreateSession
<1> DEFINE y == IF session[o] = "none" THEN "open" ELSE session[o]
<1>2. RowSound(o) /\ AttemptSound(t) /\ y \in SessionStates /\ task[o] \in TaskStates
  BY <1>1, WorksOn DEF CreateSession, SessionStates, Live
<1>3. /\ attempt[t].at = "create" /\ steps[o].tool = "browser"
      /\ UNCHANGED <<ledger, task, action, deadline, troubles>>
  BY <1>1 DEF CreateSession
<1>4. size' = size /\ steps' = steps /\ run' = run
  BY <1>3 DEF ledger
<1>5. CASE /\ steps[o].output = "none" /\ session' = [session EXCEPT ![o] = y]
           /\ Goes(t, "link")
  <2>1. task' = [task EXCEPT ![o] = task[o]]
    BY <1>1, <1>3 DEF IInv, TypeOK
  <2>2. /\ session[o] = "settled" => y = "settled"
        /\ y # "none"
    OBVIOUS
  <2>3. /\ LedgerSound' /\ Kept
        /\ task' \in [Ordinals -> TaskStates]
        /\ session' \in [Ordinals -> SessionStates] /\ session'[o] # "none"
    <3> HIDE DEF y
    <3>1. y \in SessionStates /\ task[o] \in TaskStates /\ session' = [session EXCEPT ![o] = y]
          /\ UNCHANGED <<ledger, action, deadline>> /\ steps[o].output # "session"
      BY <1>2, <1>3, <1>5
    <3>2. /\ LedgerSound' /\ Kept
          /\ task' \in [Ordinals -> TaskStates]
          /\ session' \in [Ordinals -> SessionStates] /\ session'[o] = y
      BY <2>1, <2>2, <3>1, OneResource
    <3> QED BY <2>2, <3>2
  <2>4. "link" \in Stages
    BY DEF Stages
  <2>5. /\ flow' \in FlowType /\ FlowSound' /\ attempt' \in [Threads -> AttemptType]
        /\ attempt'[t].at = "link" /\ attempt'[t].ordinal = o
        /\ \A s \in Threads \ {t} : attempt'[s] = attempt[s]
    BY <1>1, <1>4, <1>5, <2>4, GoesFacts
  <2>6. AttemptSound(t)'
    BY <1>1, <1>3, <1>4, <2>3, <2>5 DEF AttemptSound, Exists
  <2> QED BY <1>3, <2>3, <2>5, <2>6, AttemptOnResource
<1>6. CASE UNCHANGED session /\ Raises(t)
  BY <1>3, <1>6, QuietRaises DEF resources
<1>7. CASE UNCHANGED session /\ steps[o].output = "session" /\ Goes(t, "poll")
  <2>1. session[o] # "none"
    BY <1>2, <1>3, <1>7 DEF RowSound, SessionSound
  <2>2. "poll" \in Stages
    BY DEF Stages
  <2>3. attempt'[t].at = "poll" /\ attempt'[t].ordinal = o
    BY <1>1, <1>4, <1>7, <2>2, GoesFacts
  <2>4. AttemptSound(t)'
    BY <1>1, <1>3, <1>4, <1>7, <2>1, <2>3 DEF AttemptSound, Exists
  <2> QED BY <1>3, <1>7, <2>2, <2>4, QuietGoes DEF resources
<1> QED BY <1>1, <1>5, <1>6, <1>7 DEF CreateSession

LEMMA ClearSound ==
  ASSUME IInv, NEW t \in Threads, Clear(t)
  PROVE  IInv'
<1>1. PICK o \in 1..size : o = attempt[t].ordinal /\ o \in Ordinals
  BY WorksOn DEF Clear
<1> DEFINE y == IF session[o] \in Live THEN "closed" ELSE session[o]
<1>2. y \in SessionStates /\ task[o] \in TaskStates
  BY <1>1, WorksOn DEF Clear, SessionStates
<1>3. /\ session' = [session EXCEPT ![o] = y] /\ task' = [task EXCEPT ![o] = task[o]]
      /\ Raises(t) /\ UNCHANGED <<ledger, action, deadline, troubles>>
  BY <1>1 DEF Clear, IInv, TypeOK
<1>4. /\ session[o] = "settled" => y = "settled"
      /\ session[o] # "none" => y # "none"
      /\ y \notin Live
  BY DEF Live
<1> HIDE DEF y
<1>5. /\ LedgerSound' /\ Kept
      /\ task' \in [Ordinals -> TaskStates] /\ session' \in [Ordinals -> SessionStates]
  BY <1>2, <1>3, <1>4, OneResource
<1>6. size' = size
  BY <1>3 DEF ledger
<1> QED BY <1>3, <1>5, <1>6, RaisesFacts, AttemptOnResource

LEMMA WorkSound ==
  ASSUME IInv, NEW t \in Threads, Work(t)
  PROVE  IInv'
<1>1. PICK o \in 1..size : o = attempt[t].ordinal /\ o \in Ordinals
  BY WorksOn DEF Work
<1>2. PICK outcome \in {"completed", "needs_input"} :
        task' = [task EXCEPT ![o] = IF @ = "open" THEN outcome ELSE @]
  BY <1>1 DEF Work
<1> DEFINE x == IF task[o] = "open" THEN outcome ELSE task[o]
<1>3. /\ attempt[t].at = "work" /\ Goes(t, "finish") /\ task[o] \in {"open", "completed", "needs_input"}
      /\ UNCHANGED <<ledger, session, action, deadline, troubles>>
  BY <1>1 DEF Work
<1>4. /\ x \in {"completed", "needs_input"} /\ x \in TaskStates
      /\ task[o] \in {"completed", "needs_input"} => x = task[o]
  BY <1>3 DEF TaskStates
<1>5. task' = [task EXCEPT ![o] = x] /\ session' = [session EXCEPT ![o] = session[o]]
  BY <1>1, <1>2, <1>3 DEF IInv, TypeOK
<1>6. session[o] \in SessionStates /\ AttemptSound(t)
  BY <1>1, <1>3, WorksOn
<1> HIDE DEF x
<1>7. /\ LedgerSound' /\ Kept
      /\ task' \in [Ordinals -> TaskStates] /\ task'[o] = x
      /\ session' \in [Ordinals -> SessionStates]
  BY <1>3, <1>4, <1>5, <1>6, OneResource
<1>8. "finish" \in Stages /\ size' = size /\ steps' = steps /\ run' = run
  BY <1>3 DEF Stages, ledger
<1>9. /\ flow' \in FlowType /\ FlowSound' /\ attempt' \in [Threads -> AttemptType]
      /\ attempt'[t].at = "finish" /\ attempt'[t].ordinal = o
      /\ \A s \in Threads \ {t} : attempt'[s] = attempt[s]
  BY <1>1, <1>3, <1>8, GoesFacts
<1>10. AttemptSound(t)'
  BY <1>1, <1>3, <1>4, <1>6, <1>7, <1>8, <1>9 DEF AttemptSound, Exists
<1> QED BY <1>3, <1>7, <1>9, <1>10, AttemptOnResource

LEMMA PollSound ==
  ASSUME IInv, NEW t \in Threads, Poll(t)
  PROVE  IInv'
<1>1. PICK o \in 1..size : o = attempt[t].ordinal /\ o \in Ordinals
  BY WorksOn DEF Poll
<1> DEFINE y == IF session[o] = "open" THEN "reading" ELSE session[o]
<1>2. task[o] \in TaskStates /\ y \in SessionStates /\ AttemptSound(t)
  BY <1>1, WorksOn DEF Poll, SessionStates, Live
<1>3. /\ attempt[t].at = "poll" /\ session' = [session EXCEPT ![o] = y]
      /\ task' = [task EXCEPT ![o] = task[o]]
      /\ UNCHANGED <<ledger, action, deadline, troubles>>
      /\ Ends(t, StepWaits(t)) \/ Goes(t, "finish") \/ Raises(t)
  BY <1>1 DEF Poll, IInv, TypeOK
<1>4. /\ session[o] = "settled" => y = "settled"
      /\ session[o] # "none" => y # "none"
      /\ y \in Live => session[o] \in Live
  BY DEF Live
<1> HIDE DEF y
<1>5. /\ LedgerSound' /\ Kept
      /\ task' \in [Ordinals -> TaskStates] /\ session' \in [Ordinals -> SessionStates]
  BY <1>2, <1>3, <1>4, OneResource
<1>6. size' = size /\ size \in Nat /\ steps' = steps /\ run' = run
  BY <1>3, AttemptFacts DEF ledger
<1>7. /\ flow' \in FlowType /\ FlowSound' /\ attempt' \in [Threads -> AttemptType]
      /\ AttemptSound(t)' /\ \A s \in Threads \ {t} : attempt'[s] = attempt[s]
  <2>1. CASE Ends(t, StepWaits(t))
    BY <1>1, <1>6, <2>1, AttemptFacts, EndsFacts
  <2>2. CASE Raises(t)
    BY <1>6, <2>2, RaisesFacts
  <2>3. CASE Goes(t, "finish")
    <3>1. "finish" \in Stages
      BY DEF Stages
    <3>2. /\ flow' \in FlowType /\ FlowSound' /\ attempt' \in [Threads -> AttemptType]
          /\ attempt'[t].at = "finish" /\ attempt'[t].ordinal = o
          /\ \A s \in Threads \ {t} : attempt'[s] = attempt[s]
      BY <1>1, <1>6, <2>3, <3>1, GoesFacts
    <3>3. AttemptSound(t)'
      BY <1>1, <1>2, <1>3, <1>6, <3>2 DEF AttemptSound, Exists
    <3> QED BY <3>2, <3>3
  <2> QED BY <1>3, <2>1, <2>2, <2>3
<1> QED BY <1>3, <1>5, <1>7, AttemptOnResource

\* As a step of the rest of the world.
LEMMA OutsideOnResource ==
  ASSUME IInv, LedgerSound', Kept,
         UNCHANGED <<ledger, action, deadline, flow, attempt, troubles>>,
         task' \in [Ordinals -> TaskStates], session' \in [Ordinals -> SessionStates]
  PROVE  IInv'
<1>1. TypeOK' /\ FlowSound'
  BY DEF IInv, TypeOK, FlowSound, ledger, TaskStates, SessionStates
<1>2. AttemptsSound'
  BY AttemptStays DEF AttemptsSound
<1> QED BY <1>1, <1>2 DEF IInv

\* Only a step that is there has something.
LEMMA HasSomething ==
  ASSUME IInv, NEW o \in Ordinals, task[o] # "none" \/ session[o] # "none"
  PROVE  o \in 1..size /\ task[o] \in TaskStates /\ session[o] \in SessionStates
BY DEF IInv, TypeOK, LedgerSound, RowSound, StepSound, Exists, TaskStates, SessionStates

LEMMA SessionMovesSound ==
  ASSUME IInv, NEW o \in Ordinals, SessionMoves(o)
  PROVE  IInv'
<1>1. o \in 1..size /\ session[o] \in Live /\ task[o] \in TaskStates
  BY HasSomething DEF SessionMoves, Live
<1>2. PICK y \in {"closed", "read"} : session' = [session EXCEPT ![o] = y]
  BY DEF SessionMoves
<1>3. /\ y \in SessionStates /\ y # "none" /\ session[o] # "settled"
      /\ task' = [task EXCEPT ![o] = task[o]]
      /\ UNCHANGED <<ledger, action, deadline, flow, attempt, troubles>>
  BY <1>1 DEF SessionMoves, SessionStates, Live, IInv, TypeOK
<1>4. /\ LedgerSound' /\ Kept
      /\ task' \in [Ordinals -> TaskStates] /\ session' \in [Ordinals -> SessionStates]
  BY <1>1, <1>2, <1>3, OneResource
<1> QED BY <1>3, <1>4, OutsideOnResource

LEMMA TaskEndsSound ==
  ASSUME IInv, NEW o \in Ordinals, TaskEnds(o)
  PROVE  IInv'
<1>1. o \in 1..size /\ task[o] \in {"open", "stopping"} /\ session[o] \in SessionStates
  BY HasSomething DEF TaskEnds
<1>2. PICK x \in {"stopping", "ended"} : task' = [task EXCEPT ![o] = x]
  BY DEF TaskEnds
<1>3. /\ x \in TaskStates /\ x \notin {"none", "open"}
      /\ session' = [session EXCEPT ![o] = session[o]]
      /\ UNCHANGED <<ledger, action, deadline, flow, attempt, troubles>>
  BY DEF TaskEnds, TaskStates, IInv, TypeOK
<1>4. /\ LedgerSound' /\ Kept
      /\ task' \in [Ordinals -> TaskStates] /\ session' \in [Ordinals -> SessionStates]
  BY <1>1, <1>2, <1>3, OneResource
<1> QED BY <1>3, <1>4, OutsideOnResource

LEMMA ActionMovesSound ==
  ASSUME IInv, ActionMoves
  PROVE  IInv'
<1>1. PICK s \in Successors(action.state) : action' = [action EXCEPT !.state = s]
  BY DEF ActionMoves
<1>2. /\ UNCHANGED <<ledger, task, session, deadline, flow, attempt, troubles>>
      /\ action \in [state : ActionStates, ready : BOOLEAN] /\ action.state # "none"
  BY DEF ActionMoves, IInv, TypeOK, LedgerSound, ActionSound
<1>3. /\ s \in ActionStates /\ s # "none" /\ action.state # "succeeded"
      /\ s \in Unclaimed => action.state \in Unclaimed
  BY <1>1, <1>2 DEF Successors, ActionStates, Unclaimed
<1>4. action' \in [state : ActionStates, ready : BOOLEAN] /\ action'.state = s
      /\ action'.ready = action.ready
  BY <1>1, <1>2, <1>3
<1> USE DEF ledger
<1>5. ResultsSound' /\ OneDecisionEach' /\ (deadline' = "enforced" => run' = "failed")
  BY <1>2 DEF IInv, LedgerSound, ResultsSound, OneDecisionEach, Exists
<1>6. \A o \in Ordinals : RowSound(o)'
  BY <1>2 DEF IInv, LedgerSound, RowSound, StepSound, TaskSound, SessionSound, Exists
<1>7. ActionSound'
  BY <1>2, <1>3, <1>4 DEF IInv, LedgerSound, ActionSound, Exists
<1>8. CompletionIsHonest'
  <2>1. \A o \in 1..size : o \in Ordinals
    BY LimitsAssumption DEF IInv, TypeOK, Ordinals
  <2>2. \A o \in 1..size : steps[o].tool = "action" => steps[o].receipt # "full"
    BY <1>3, <2>1 DEF IInv, LedgerSound, ActionSound
  <2> QED BY <1>2, <2>2 DEF IInv, LedgerSound, CompletionIsHonest
<1>9. StoppedHoldsNothing'
  BY <1>2, <1>3, <1>4 DEF IInv, LedgerSound, StoppedHoldsNothing
<1>10. Kept
  BY <1>2, <1>3, LimitsAssumption DEF IInv, TypeOK, Kept
<1>11. AttemptsSound'
  BY <1>2, <1>10, AttemptStays DEF AttemptsSound
<1>12. TypeOK' /\ FlowSound'
  BY <1>2, <1>4 DEF IInv, TypeOK, FlowSound
<1> QED BY <1>5, <1>6, <1>7, <1>8, <1>9, <1>11, <1>12 DEF IInv, LedgerSound

-----------------------------------------------------------------------------
(* The end of the run *)

\* What is stopped with a run keeps what was done.
LEMMA RunStops ==
  ASSUME IInv, run \in Active, run' \in {"cancelled", "failed"},
         UNCHANGED <<size, result>>, StoppedHoldsNothing',
         deadline' = "enforced" => run' = "failed",
         action'.state \in {action.state, Withdrawn}, action'.ready = action.ready,
         \A o \in Ordinals :
           /\ steps'[o].tool = steps[o].tool /\ steps'[o].output = steps[o].output
           /\ steps'[o].receipt = steps[o].receipt
           /\ steps'[o].invocation = "completed" => steps[o].invocation = "completed"
           /\ ~Exists(o) => steps'[o] = steps[o]
           /\ task'[o] = task[o] \/ (task[o] = "open" /\ task'[o] = "stopping")
           /\ session'[o] = session[o] \/ (session[o] \in Live /\ session'[o] = "closed")
  PROVE  LedgerSound' /\ Kept
<1>1. run' \notin Active /\ run' # "completed"
  BY DEF Active
<1>2. ResultsSound' /\ OneDecisionEach'
  BY DEF IInv, LedgerSound, ResultsSound, OneDecisionEach, Exists
<1>3. ASSUME NEW o \in Ordinals
      PROVE  RowSound(o)'
  <2>1. RowSound(o) /\ (Exists(o)' <=> Exists(o))
    BY DEF IInv, LedgerSound, Exists
  <2>2. StepSound(o)'
    BY <1>1, <2>1 DEF RowSound, StepSound, Live
  <2>3. TaskSound(o)'
    BY <1>1, <2>1 DEF RowSound, TaskSound
  <2>4. SessionSound(o)'
    BY <2>1 DEF RowSound, SessionSound, Live
  <2> QED BY <2>2, <2>3, <2>4 DEF RowSound
<1>4. ActionSound'
  <2>1. action'.state # "none" /\ (action.state = "succeeded" => action'.state = "succeeded")
    BY DEF IInv, LedgerSound, ActionSound, Withdrawn, Unclaimed
  <2> QED BY <2>1 DEF IInv, LedgerSound, ActionSound, Exists
<1>5. Kept
  <2>1. size' \in Nat /\ size <= size'
    BY LimitsAssumption DEF IInv, TypeOK
  <2>2. action.state = "succeeded" => action'.state = "succeeded"
    BY DEF Withdrawn, Unclaimed
  <2>3. \A o \in Ordinals : session'[o] = "none" => session[o] = "none"
    OBVIOUS
  <2> QED BY <1>1, <2>1, <2>2, <2>3 DEF Kept
<1>6. CompletionIsHonest'
  BY <1>1 DEF CompletionIsHonest
<1> QED BY <1>2, <1>3, <1>4, <1>5, <1>6 DEF LedgerSound

\* What a failure makes of the steps, and of the action.
LEMMA FailedStepsFacts ==
  ASSUME IInv, steps' = FailedSteps
  PROVE  /\ steps' \in [Ordinals -> StepType]
         /\ \A o \in Ordinals :
              /\ steps'[o].tool = steps[o].tool /\ steps'[o].output = steps[o].output
              /\ steps'[o].receipt = steps[o].receipt
              /\ steps'[o].invocation = "completed" => steps[o].invocation = "completed"
              /\ ~Exists(o) => steps'[o] = steps[o]
<1>1. \A r \in StepType : [r EXCEPT !.state = "failed", !.invocation = "failed"] \in StepType
  BY ZenonT(30) DEF StepType
<1>2. \A r \in StepType :
        LET f == [r EXCEPT !.state = "failed", !.invocation = "failed"] IN
        f.tool = r.tool /\ f.output = r.output /\ f.receipt = r.receipt /\ f.invocation = "failed"
  BY DEF StepType
<1>3. steps \in [Ordinals -> StepType]
  BY DEF IInv, TypeOK
<1>4. \A o \in Ordinals :
        steps'[o] = IF Exists(o) /\ steps[o].invocation \in Open
                    THEN [steps[o] EXCEPT !.state = "failed", !.invocation = "failed"]
                    ELSE steps[o]
  BY DEF FailedSteps
<1>5. steps' \in [Ordinals -> StepType]
  BY <1>1, <1>3 DEF FailedSteps
<1> QED BY <1>2, <1>3, <1>4, <1>5

LEMMA WithdrawnFacts ==
  ASSUME IInv, action' = [action EXCEPT !.state = Withdrawn]
  PROVE  /\ action' \in [state : ActionStates, ready : BOOLEAN]
         /\ action'.state = Withdrawn /\ action'.ready = action.ready
         /\ action'.state \notin Unclaimed
BY DEF IInv, TypeOK, Withdrawn, Unclaimed, ActionStates

LEMMA CompleteSound ==
  ASSUME IInv, NEW t \in Threads, Complete(t)
  PROVE  IInv'
<1>1. UNCHANGED <<calls, size, steps, result, resources, deadline, troubles>>
  BY DEF Complete
<1>2. CASE Raises(t) /\ UNCHANGED run
  BY <1>1, <1>2, QuietRaises DEF ledger
<1> DEFINE over == [flow EXCEPT !.at = "over", !.thread = None]
<1>3. FlowOK(over, size) /\ size' = size /\ size \in Nat
  BY <1>1, OverOK, AttemptFacts
<1>4. CASE run = "completed" /\ run' = "completed" /\ Ends(t, over)
  <2>1. UNCHANGED <<ledger, resources, deadline, troubles>>
    BY <1>1, <1>4 DEF ledger
  <2> HIDE DEF over
  <2> QED BY <1>3, <1>4, <2>1, QuietEnds
<1>5. CASE run \in Active /\ CanComplete /\ run' = "completed" /\ Ends(t, over)
  <2> USE DEF resources
  <2>1. run' \notin Active /\ deadline # "enforced"
    BY <1>5 DEF Active, IInv, LedgerSound
  <2>2. ResultsSound' /\ OneDecisionEach' /\ ActionSound'
    BY <1>1 DEF IInv, LedgerSound, ResultsSound, OneDecisionEach, ActionSound, Exists
  <2>3. \A o \in Ordinals : RowSound(o)'
    BY <1>1, <2>1 DEF IInv, LedgerSound, RowSound, StepSound, TaskSound, SessionSound, Exists
  <2>4. CompletionIsHonest'
    <3>1. ASSUME NEW o \in 1..size
          PROVE  /\ steps[o].invocation = "completed" /\ steps[o].receipt = "full"
                 /\ steps[o].tool = "task" => task[o] = "completed"
                 /\ steps[o].tool = "action" => action.state = "succeeded"
                 /\ steps[o].tool = "browser" => session[o] = "settled"
      <4>1. o \in Ordinals
        BY LimitsAssumption DEF IInv, TypeOK, Ordinals
      <4>2. RowSound(o) /\ ActionSound
        BY <4>1 DEF IInv, LedgerSound
      <4>3. steps[o].invocation = "completed" /\ steps[o].receipt = "full"
        BY <1>5 DEF CanComplete
      <4> QED BY <4>1, <4>2, <4>3 DEF RowSound, TaskSound, SessionSound, ActionSound
    <3>2. size > 0
      BY <1>5 DEF CanComplete
    <3> QED BY <1>1, <3>1, <3>2 DEF CompletionIsHonest
  <2>5. StoppedHoldsNothing'
    BY <1>1, <1>5, <2>1 DEF StoppedHoldsNothing
  <2>6. LedgerSound'
    BY <1>1, <2>1, <2>2, <2>3, <2>4, <2>5 DEF LedgerSound
  <2>7. Kept
    BY <1>1, <1>3, <2>1 DEF Kept
  <2> HIDE DEF over
  <2>8. /\ flow' \in FlowType /\ FlowSound' /\ attempt' \in [Threads -> AttemptType]
        /\ AttemptSound(t)' /\ \A s \in Threads \ {t} : attempt'[s] = attempt[s]
    BY <1>3, <1>5, EndsFacts
  <2>9. TypeOK'
    BY <1>1, <1>5, <2>8 DEF IInv, TypeOK, AgentTerminal
  <2>10. AttemptsSound'
    BY <2>7, <2>8, AttemptStays DEF AttemptsSound
  <2> QED BY <2>6, <2>8, <2>9, <2>10 DEF IInv
<1> QED BY <1>2, <1>4, <1>5, OpenRun DEF Complete

LEMMA FailTasksSound ==
  ASSUME IInv, NEW t \in Threads, FailTasks(t)
  PROVE  IInv'
<1>1. Goes(t, "fail_run") /\ UNCHANGED <<ledger, session, action, deadline, troubles>>
  BY DEF FailTasks
<1>2. task \in [Ordinals -> TaskStates] /\ session' \in [Ordinals -> SessionStates]
  BY <1>1 DEF IInv, TypeOK, TaskStates, SessionStates
<1>3. task' \in [Ordinals -> TaskStates]
      /\ \A o \in Ordinals : task'[o] = task[o] \/ (task[o] \in {"open", "stopping"} /\ task'[o] = "ended")
  <2>1. task' = [o \in Ordinals |->
          IF steps[o].output = "task" /\ task[o] \in {"open", "stopping"} THEN "ended" ELSE task[o]]
    BY DEF FailTasks
  <2> QED BY <1>2, <2>1 DEF TaskStates
<1>4. ResultsSound' /\ OneDecisionEach' /\ ActionSound' /\ (deadline' = "enforced" => run' = "failed")
  BY <1>1 DEF IInv, LedgerSound, ResultsSound, OneDecisionEach, ActionSound, Exists, ledger
<1>5. ASSUME NEW o \in Ordinals
      PROVE  RowSound(o)'
  <2>1. RowSound(o) /\ (Exists(o)' <=> Exists(o)) /\ steps' = steps /\ run' = run /\ session' = session
    BY <1>1 DEF IInv, LedgerSound, Exists, ledger
  <2>2. StepSound(o)'
    BY <1>3, <2>1 DEF RowSound, StepSound
  <2>3. TaskSound(o)'
    BY <1>3, <2>1 DEF RowSound, TaskSound
  <2>4. SessionSound(o)'
    BY <2>1 DEF RowSound, SessionSound
  <2> QED BY <2>2, <2>3, <2>4 DEF RowSound
<1>6. \A o \in 1..size : o \in Ordinals
  BY LimitsAssumption DEF IInv, TypeOK, Ordinals
<1>7. CompletionIsHonest'
  BY <1>1, <1>3, <1>6 DEF IInv, LedgerSound, CompletionIsHonest, ledger
<1>8. StoppedHoldsNothing'
  BY <1>1, <1>3, <1>6 DEF IInv, LedgerSound, StoppedHoldsNothing, ledger
<1>9. LedgerSound'
  BY <1>4, <1>5, <1>7, <1>8 DEF LedgerSound
<1>10. Kept
  BY <1>1, <1>3, LimitsAssumption DEF IInv, TypeOK, Kept, ledger
<1>11. "fail_run" \in Stages /\ size' = size
  BY <1>1 DEF Stages, ledger
<1>12. /\ flow' \in FlowType /\ FlowSound' /\ attempt' \in [Threads -> AttemptType]
       /\ attempt'[t].at = "fail_run"
       /\ \A s \in Threads \ {t} : attempt'[s] = attempt[s]
  BY <1>1, <1>11, GoesFacts
<1>13. AttemptSound(t)'
  BY <1>12 DEF AttemptSound
<1> QED BY <1>1, <1>2, <1>3, <1>9, <1>10, <1>12, <1>13, AttemptOnResource

\* A session of a step that is done is settled, and no step of a run that goes
\* on has failed.
LEMMA LiveSession ==
  ASSUME IInv, run \in Active, NEW o \in 1..size, steps[o].output = "session",
         session[o] \in Live
  PROVE  /\ o \in Ordinals /\ Exists(o)
         /\ steps[o].state \in OpenStep /\ steps[o].invocation \in Open
<1>1. o \in Ordinals /\ Exists(o)
  BY LimitsAssumption DEF IInv, TypeOK, Ordinals, Exists
<1>2. RowSound(o) /\ steps[o] \in StepType
  BY <1>1 DEF IInv, LedgerSound, TypeOK
<1>3. steps[o].invocation # "completed"
  BY <1>2 DEF RowSound, SessionSound, Live
<1>4. steps[o].invocation \in {"prepared", "running", "awaiting_approval", "completed", "failed"}
  BY <1>2 DEF StepType
<1> QED BY <1>1, <1>2, <1>3, <1>4 DEF RowSound, StepSound, Open

LEMMA FailRunSound ==
  ASSUME IInv, NEW t \in Threads, FailRun(t)
  PROVE  IInv'
<1> DEFINE over == [flow EXCEPT !.at = "over", !.thread = None]
<1>1. Ends(t, over) /\ UNCHANGED <<calls, size, result, task, deadline, troubles>>
  BY DEF FailRun
<1>2. FlowOK(over, size) /\ size' = size /\ size \in Nat
  BY <1>1, OverOK, AttemptFacts
<1> HIDE DEF over
<1>3. CASE Closed
  <2>1. UNCHANGED <<ledger, resources, deadline, troubles>>
    BY <1>1, <1>3 DEF FailRun, ledger, resources
  <2> QED BY <1>1, <1>2, <2>1, QuietEnds
<1>4. CASE ~Closed
  <2>1. /\ run \in Active /\ run' = "failed" /\ steps' = FailedSteps
        /\ session' = [o \in Ordinals |->
             IF Exists(o) /\ steps[o].invocation \in Open /\ steps[o].output = "session"
                /\ session[o] \in Live
             THEN "closed" ELSE session[o]]
        /\ action' = [action EXCEPT !.state = Withdrawn]
    BY <1>4, OpenRun DEF FailRun
  <2>2. deadline # "enforced"
    BY <2>1 DEF IInv, LedgerSound, Active
  <2>3. session' \in [Ordinals -> SessionStates]
        /\ \A o \in Ordinals :
             session'[o] = session[o] \/ (session[o] \in Live /\ session'[o] = "closed")
    <3>1. session \in [Ordinals -> SessionStates]
      BY DEF IInv, TypeOK, SessionStates
    <3> QED BY <2>1, <3>1 DEF SessionStates
  <2>4. /\ steps' \in [Ordinals -> StepType]
        /\ \A o \in Ordinals :
             /\ steps'[o].tool = steps[o].tool /\ steps'[o].output = steps[o].output
             /\ steps'[o].receipt = steps[o].receipt
             /\ steps'[o].invocation = "completed" => steps[o].invocation = "completed"
             /\ ~Exists(o) => steps'[o] = steps[o]
    BY <2>1, FailedStepsFacts
  <2>5. /\ action' \in [state : ActionStates, ready : BOOLEAN]
        /\ action'.state = Withdrawn /\ action'.ready = action.ready
        /\ action'.state \notin Unclaimed
    BY <2>1, WithdrawnFacts
  <2>6. StoppedHoldsNothing'
    <3>1. ASSUME NEW o \in 1..size, steps'[o].output = "session", session'[o] \in Live
          PROVE  FALSE
      <4>1. o \in Ordinals
        BY LimitsAssumption DEF IInv, TypeOK, Ordinals
      <4>2. steps[o].output = "session" /\ session[o] \in Live
        BY <2>3, <2>4, <3>1, <4>1 DEF Live
      <4>3. Exists(o) /\ steps[o].invocation \in Open
        BY <2>1, <4>2, LiveSession
      <4> QED BY <2>1, <3>1, <4>1, <4>2, <4>3 DEF Live
    <3> QED BY <1>1, <2>1, <2>2, <2>5, <3>1 DEF StoppedHoldsNothing
  <2>7. LedgerSound' /\ Kept
    BY <1>1, <2>1, <2>2, <2>3, <2>4, <2>5, <2>6, RunStops
  <2>8. /\ flow' \in FlowType /\ FlowSound' /\ attempt' \in [Threads -> AttemptType]
        /\ AttemptSound(t)' /\ \A s \in Threads \ {t} : attempt'[s] = attempt[s]
    BY <1>1, <1>2, EndsFacts
  <2>9. AttemptsSound'
    BY <2>7, <2>8, AttemptStays DEF AttemptsSound
  <2>10. TypeOK'
    BY <1>1, <2>1, <2>3, <2>4, <2>5, <2>8 DEF IInv, TypeOK, AgentTerminal, SessionStates
  <2> QED BY <2>7, <2>8, <2>9, <2>10 DEF IInv
<1> QED BY <1>3, <1>4

LEMMA ExpireSound ==
  ASSUME IInv, Expire
  PROVE  IInv'
<1>1. /\ run \in Active /\ run' = "failed" /\ deadline' = "enforced" /\ steps' = FailedSteps
      /\ task' = [o \in Ordinals |-> IF task[o] = "open" THEN "stopping" ELSE task[o]]
      /\ action' = [action EXCEPT !.state = Withdrawn]
      /\ UNCHANGED <<calls, size, result, session, flow, attempt, troubles>>
  BY DEF Expire
<1>2. task' \in [Ordinals -> TaskStates]
      /\ \A o \in Ordinals :
           (task'[o] = task[o] /\ task[o] # "open") \/ (task[o] = "open" /\ task'[o] = "stopping")
  <2>1. task \in [Ordinals -> TaskStates]
    BY DEF IInv, TypeOK, TaskStates
  <2> QED BY <1>1, <2>1 DEF TaskStates
<1>3. /\ steps' \in [Ordinals -> StepType]
      /\ \A o \in Ordinals :
           /\ steps'[o].tool = steps[o].tool /\ steps'[o].output = steps[o].output
           /\ steps'[o].receipt = steps[o].receipt
           /\ steps'[o].invocation = "completed" => steps[o].invocation = "completed"
           /\ ~Exists(o) => steps'[o] = steps[o]
  BY <1>1, FailedStepsFacts
<1>4. /\ action' \in [state : ActionStates, ready : BOOLEAN]
      /\ action'.state = Withdrawn /\ action'.ready = action.ready
      /\ action'.state \notin Unclaimed
  BY <1>1, WithdrawnFacts
<1>5. StoppedHoldsNothing'
  <2>1. \A o \in 1..size : o \in Ordinals
    BY LimitsAssumption DEF IInv, TypeOK, Ordinals
  <2>2. \A o \in 1..size : task'[o] # "open"
    BY <1>2, <2>1
  <2> QED BY <1>1, <1>4, <2>2 DEF StoppedHoldsNothing
<1>6. LedgerSound' /\ Kept
  BY <1>1, <1>2, <1>3, <1>4, <1>5, RunStops
<1>7. AttemptsSound'
  BY <1>1, <1>6, AttemptStays DEF AttemptsSound
<1>8. TypeOK' /\ FlowSound'
  BY <1>1, <1>2, <1>3, <1>4 DEF IInv, TypeOK, FlowSound, AgentTerminal, TaskStates
<1> QED BY <1>6, <1>7, <1>8 DEF IInv

LEMMA CancelSound ==
  ASSUME IInv, Cancel
  PROVE  IInv'
<1> DEFINE Stops(o) == Exists(o) /\ steps[o].state \in OpenStep
<1>1. /\ run \in Active /\ run' = "cancelled"
      /\ steps' = [o \in Ordinals |-> IF Stops(o)
                     THEN [steps[o] EXCEPT !.state = "cancelled"] ELSE steps[o]]
      /\ session' = [o \in Ordinals |->
           IF Stops(o) /\ steps[o].output = "session" /\ session[o] \in Live
           THEN "closed" ELSE session[o]]
      /\ task' = [o \in Ordinals |->
           IF steps[o].state = "running" /\ steps[o].output = "task" /\ task[o] = "open"
           THEN "stopping" ELSE task[o]]
      /\ action' = IF \E o \in Ordinals : Stops(o) /\ steps[o].output = "action"
                   THEN [action EXCEPT !.state = Withdrawn] ELSE action
      /\ UNCHANGED <<calls, size, result, deadline, flow, attempt, troubles>>
  BY DEF Cancel
<1>2. deadline # "enforced"
  BY <1>1 DEF IInv, LedgerSound, Active
<1>3. \A r \in StepType :
        LET s == [r EXCEPT !.state = "cancelled"] IN
        /\ s \in StepType /\ s.tool = r.tool /\ s.output = r.output
        /\ s.receipt = r.receipt /\ s.invocation = r.invocation
  BY DEF StepType
<1>4. steps \in [Ordinals -> StepType]
  BY DEF IInv, TypeOK
<1>5. \A o \in Ordinals :
        steps'[o] = IF Stops(o) THEN [steps[o] EXCEPT !.state = "cancelled"] ELSE steps[o]
  BY <1>1
<1>6. /\ steps' \in [Ordinals -> StepType]
      /\ \A o \in Ordinals :
           /\ steps'[o].tool = steps[o].tool /\ steps'[o].output = steps[o].output
           /\ steps'[o].receipt = steps[o].receipt
           /\ steps'[o].invocation = steps[o].invocation
           /\ ~Exists(o) => steps'[o] = steps[o]
  <2>1. \A o \in Ordinals : steps'[o] \in StepType
    BY <1>3, <1>4, <1>5
  <2>2. steps' = [o \in Ordinals |-> steps'[o]]
    BY <1>1
  <2> QED BY <1>3, <1>4, <1>5, <2>1, <2>2
<1>7. session' \in [Ordinals -> SessionStates]
      /\ \A o \in Ordinals :
           session'[o] = session[o] \/ (session[o] \in Live /\ session'[o] = "closed")
  <2>1. session \in [Ordinals -> SessionStates]
    BY DEF IInv, TypeOK, SessionStates
  <2> QED BY <1>1, <2>1 DEF SessionStates
<1>8. task' \in [Ordinals -> TaskStates]
      /\ \A o \in Ordinals : task'[o] = task[o] \/ (task[o] = "open" /\ task'[o] = "stopping")
  <2>1. task \in [Ordinals -> TaskStates]
    BY DEF IInv, TypeOK, TaskStates
  <2> QED BY <1>1, <2>1 DEF TaskStates
<1>9. /\ action' \in [state : ActionStates, ready : BOOLEAN]
      /\ action'.state \in {action.state, Withdrawn} /\ action'.ready = action.ready
  <2>1. CASE action' = action
    BY <2>1 DEF IInv, TypeOK
  <2>2. CASE action' = [action EXCEPT !.state = Withdrawn]
    BY <2>2, WithdrawnFacts
  <2> QED BY <1>1, <2>1, <2>2
<1>10. StoppedHoldsNothing'
  <2>0. \A o \in 1..size : o \in Ordinals /\ Exists(o)
    BY LimitsAssumption DEF IInv, TypeOK, Ordinals, Exists
  <2>1. ~(action'.ready /\ action'.state \in Unclaimed)
    <3>1. CASE \E o \in Ordinals : Stops(o) /\ steps[o].output = "action"
      BY <1>1, <3>1, WithdrawnFacts
    <3>2. CASE ~\E o \in Ordinals : Stops(o) /\ steps[o].output = "action"
      <4>1. SUFFICES ASSUME action.ready
                     PROVE  action.state \notin Unclaimed
        BY <1>1, <3>2
      <4>2. PICK o \in Ordinals : Exists(o) /\ steps[o].output = "action"
        BY <4>1 DEF IInv, LedgerSound, ActionSound
      <4>3. steps[o].state = "completed"
        BY <1>1, <3>2, <4>2 DEF IInv, LedgerSound, RowSound, StepSound
      <4>4. action.state = "succeeded"
        BY <1>1, <4>2, <4>3 DEF IInv, LedgerSound, RowSound, StepSound, ActionSound
      <4> QED BY <4>4 DEF Unclaimed
    <3> QED BY <3>1, <3>2
  <2>2. ASSUME NEW o \in 1..size, steps'[o].output = "session", session'[o] \in Live
        PROVE  FALSE
    <3>1. o \in Ordinals /\ steps[o].output = "session" /\ session[o] \in Live
      BY <1>6, <1>7, <2>0, <2>2 DEF Live
    <3>2. Stops(o)
      BY <1>1, <2>0, <3>1, LiveSession
    <3> HIDE DEF Stops
    <3> QED BY <1>1, <2>2, <3>1, <3>2 DEF Live
  <2>3. ASSUME NEW o \in 1..size, steps'[o].output = "task", task'[o] = "open"
        PROVE  FALSE
    <3>1. o \in Ordinals /\ steps[o].output = "task" /\ task[o] = "open"
      BY <1>6, <1>8, <2>0, <2>3
    <3>2. steps[o].state = "running"
      BY <1>1, <3>1 DEF IInv, LedgerSound, RowSound, TaskSound
    <3> QED BY <1>1, <2>3, <3>1, <3>2
  <2>4. size' = size
    BY <1>1
  <2> QED BY <2>1, <2>2, <2>3, <2>4 DEF StoppedHoldsNothing
<1>11. LedgerSound' /\ Kept
  <2>1. UNCHANGED <<size, result>> /\ (deadline' = "enforced" => run' = "failed")
    BY <1>1, <1>2
  <2>2. run \in Active /\ run' \in {"cancelled", "failed"}
    BY <1>1
  <2> HIDE DEF Stops
  <2> QED BY <1>6, <1>7, <1>8, <1>9, <1>10, <2>1, <2>2, RunStops
<1>12. AttemptsSound'
  BY <1>1, <1>11, AttemptStays DEF AttemptsSound
<1>13. TypeOK' /\ FlowSound'
  <2>1. UNCHANGED <<calls, size, result, deadline, flow, attempt, troubles>> /\ run' \in AgentTerminal
    BY <1>1 DEF AgentTerminal
  <2> QED BY <1>6, <1>7, <1>8, <1>9, <2>1 DEF IInv, TypeOK, FlowSound, TaskStates, SessionStates
<1> QED BY <1>11, <1>12, <1>13 DEF IInv

-----------------------------------------------------------------------------
(* The theorems *)

LEMMA NextSound == IInv /\ [Next]_vars => IInv'
<1> SUFFICES ASSUME IInv, [Next]_vars PROVE IInv'
  OBVIOUS
<1>1. CASE UNCHANGED vars
  <2>1. UNCHANGED <<ledger, resources, deadline, flow, attempt, troubles>>
    BY <1>1 DEF vars
  <2>2. LedgerSound' /\ Kept
    BY <2>1, LedgerStays
  <2>3. AttemptsSound'
    BY <2>1, <2>2, AttemptStays DEF AttemptsSound
  <2>4. TypeOK' /\ FlowSound'
    BY <2>1 DEF IInv, TypeOK, FlowSound, ledger, resources
  <2> QED BY <2>2, <2>3, <2>4 DEF IInv
<1>2. ASSUME NEW t \in Threads, Coordinate(t)
      PROVE  IInv'
  BY <1>2, ScheduleSound, LoseSound DEF Coordinate
<1>3. ASSUME NEW t \in Threads, Decide(t)
      PROVE  IInv'
  BY <1>3, ReadRunSound, ReserveSound, CommitSound, BlockSound DEF Decide
<1>4. ASSUME NEW t \in Threads, Execute(t)
      PROVE  IInv'
  <2>1. CASE GoWrong(t)
    BY <2>1, QuietRaises DEF GoWrong
  <2>2. CASE Link(t) \/ Clear(t) \/ Work(t) \/ Retry(t) \/ FinishTask(t) \/ Poll(t) \/ FinishBrowser(t)
    BY <2>2, LinkSound, ClearSound, WorkSound, RetrySound, FinishTaskSound, PollSound,
       FinishBrowserSound
  <2>3. CASE \/ ReadStep(t) \/ Look(t) \/ FinishAction(t) \/ ActionWaiting(t)
             \/ Begin(t) \/ CreateTask(t) \/ CreateSession(t)
    BY <2>3, ReadStepSound, LookSound, FinishActionSound, ActionWaitingSound, BeginSound,
       CreateTaskSound, CreateSessionSound
  <2> QED BY <1>4, <2>1, <2>2, <2>3 DEF Execute
<1>5. ASSUME NEW t \in Threads, Conclude(t)
      PROVE  IInv'
  BY <1>5, CompleteSound, FailTasksSound, FailRunSound DEF Conclude
<1>6. CASE Outside
  BY <1>6, CancelSound, ExpireSound, TimeIsUpSound, ActionMovesSound, SessionMovesSound,
     TaskEndsSound DEF Outside
<1> QED BY <1>1, <1>2, <1>3, <1>4, <1>5, <1>6 DEF Next

LEMMA Invariance == Spec => []IInv
BY InitSound, NextSound, PTL DEF Spec

\* Each variable has its type in every run of the agent.
THEOREM AgentTypes == Spec => []TypeOK
<1>1. IInv => TypeOK
  BY DEF IInv
<1> QED BY <1>1, Invariance, PTL

\* A run is completed only when all of its steps were done, and what their
\* receipts speak of did happen (complete_run).
THEOREM AgentCompletes == Spec => []CompletionIsHonest
<1>1. IInv => CompletionIsHonest
  BY DEF IInv, LedgerSound
<1> QED BY <1>1, Invariance, PTL

\* A run that was stopped leaves nothing that goes on for it (cancel_in_session,
\* expire_due_runs, fail_run).
THEOREM AgentStops == Spec => []StoppedHoldsNothing
<1>1. IInv => StoppedHoldsNothing
  BY DEF IInv, LedgerSound
<1> QED BY <1>1, Invariance, PTL

\* A decision is taken once, however often its activity is attempted
\* (commit_v3_decision).
THEOREM AgentDecides == Spec => []OneDecisionEach
<1>1. IInv => OneDecisionEach
  BY DEF IInv, LedgerSound
<1> QED BY <1>1, Invariance, PTL

\* A step on a run that has ended changes nothing that counts.
LEMMA EndedStays ==
  ASSUME IInv, [Next]_vars, run \in AgentTerminal
  PROVE  run' = run /\ calls' = calls /\ steps' = steps /\ action'.ready = action.ready
<1>1. run \notin Active /\ Closed
  BY DEF Active, AgentTerminal, Closed
<1>2. CASE UNCHANGED <<ledger, action>>
  BY <1>2 DEF ledger
<1>3. CASE UNCHANGED vars
  BY <1>3 DEF vars, ledger, resources
<1>4. ASSUME NEW t \in Threads, Coordinate(t)
      PROVE  UNCHANGED <<ledger, action>>
  BY <1>4 DEF Coordinate, Schedule, Lose, resources
<1>5. ASSUME NEW t \in Threads, Decide(t)
      PROVE  UNCHANGED <<ledger, action>>
  BY <1>1, <1>5 DEF Decide, ReadRun, Reserve, Commit, Block, resources
<1>6. ASSUME NEW t \in Threads, Execute(t)
      PROVE  UNCHANGED <<ledger, action>>
  <2>1. CASE ReadStep(t) \/ Look(t) \/ FinishAction(t) \/ ActionWaiting(t) \/ Begin(t)
    BY <1>1, <2>1 DEF ReadStep, Look, FinishAction, ActionWaiting, Begin, resources
  <2>2. CASE CreateTask(t) \/ CreateSession(t) \/ Clear(t) \/ Work(t) \/ Retry(t) \/ Poll(t)
    BY <2>2 DEF CreateTask, CreateSession, Clear, Work, Retry, Poll, resources
  <2>3. CASE Link(t) \/ FinishTask(t) \/ FinishBrowser(t) \/ GoWrong(t)
    BY <1>1, <2>3 DEF Link, FinishTask, FinishBrowser, GoWrong, resources
  <2> QED BY <1>6, <2>1, <2>2, <2>3 DEF Execute
<1>7. ASSUME NEW t \in Threads, Conclude(t)
      PROVE  run' = run /\ calls' = calls /\ steps' = steps /\ action' = action
  BY <1>1, <1>7 DEF Conclude, Complete, FailTasks, FailRun, ledger, resources
<1>8. CASE Outside
  <2>1. CASE ActionMoves
    BY <2>1 DEF ActionMoves, ledger, IInv, TypeOK
  <2>2. CASE TimeIsUp \/ \E o \in Ordinals : SessionMoves(o) \/ TaskEnds(o)
    BY <2>2 DEF TimeIsUp, SessionMoves, TaskEnds, ledger, resources
  <2> QED BY <1>1, <1>8, <2>1, <2>2 DEF Outside, Cancel, Expire
<1> QED BY <1>2, <1>3, <1>4, <1>5, <1>6, <1>7, <1>8 DEF Next

\* What comes late changes nothing of a run that has ended, nor of its steps, nor
\* does it make its action ready again (the guards on AGENT_TERMINAL_STATES).
THEOREM AgentEnded == Spec => EndedIsFinal
<1>1. IInv /\ [Next]_vars
        => [(run \in AgentTerminal) =>
              (run' = run /\ calls' = calls /\ steps' = steps /\ action'.ready = action.ready)]_vars
  BY EndedStays
<1> QED BY <1>1, Invariance, PTL DEF Spec, EndedIsFinal

\* The action attached to a run moves only along its lifecycle.
ActionFollowsLifecycle ==
  [][action'.state # action.state => action'.state \in Successors(action.state)]_vars

\* No step takes it off the lifecycle.
LEMMA ActionAlong ==
  ASSUME TypeOK, [Next]_vars, action'.state # action.state
  PROVE  action'.state \in Successors(action.state)
<1>0. /\ action \in [state : ActionStates, ready : BOOLEAN]
      /\ Withdrawn = action.state \/ Withdrawn \in Successors(action.state)
  BY DEF TypeOK, Withdrawn, Unclaimed, Successors
<1> USE DEF resources
<1>1. CASE UNCHANGED vars
  BY <1>1 DEF vars
<1>2. ASSUME NEW t \in Threads, Coordinate(t) \/ Decide(t)
      PROVE  FALSE
  BY <1>2 DEF Coordinate, Schedule, Lose, Decide, ReadRun, Reserve, Commit, Block
<1>3. ASSUME NEW t \in Threads, Execute(t)
      PROVE  FALSE
  BY <1>0, <1>3 DEF Execute, ReadStep, Look, FinishAction, ActionWaiting, Begin, CreateTask,
     CreateSession, Link, Clear, Work, Retry, FinishTask, Poll, FinishBrowser, GoWrong
<1>4. ASSUME NEW t \in Threads, Conclude(t)
      PROVE  action'.state \in Successors(action.state)
  BY <1>0, <1>4 DEF Conclude, Complete, FailTasks, FailRun
<1>5. CASE Outside
  BY <1>0, <1>5 DEF Outside, Cancel, Expire, TimeIsUp, ActionMoves, SessionMoves, TaskEnds
<1> QED BY <1>1, <1>2, <1>3, <1>4, <1>5 DEF Next

\* The action attached to a run moves only along the lifecycle that the service
\* keeps (FollowsLifecycle of ActionExecution): a run that stops withdraws it only
\* while nobody has claimed it, and no attempt at its step touches its state
\* (cancel_in_session, expire_due_runs, fail_run, action_waiting).
THEOREM AgentActions == Spec => ActionFollowsLifecycle
<1>1. TypeOK /\ [Next]_vars =>
        [action'.state # action.state => action'.state \in Successors(action.state)]_vars
  BY ActionAlong
<1> QED BY <1>1, AgentTypes, PTL DEF Spec, ActionFollowsLifecycle

-----------------------------------------------------------------------------
(* The contract with the browser broker *)

Contract(o) == INSTANCE AgentSession WITH stage <- session[o]

\* What may become of one browser session while the others stay as they are, or of
\* several when the run stops.
ContractStep(o) == UNCHANGED session[o] \/ Contract(o)!Next

\* The attempts at a step take its session through the contract, whatever other
\* attempts have done to it meanwhile.
LEMMA ExecuteContract ==
  ASSUME TypeOK, NEW t \in Threads, Execute(t), NEW o \in Ordinals
  PROVE  ContractStep(o)
<1> USE DEF ContractStep, resources
<1>0. session = [p \in Ordinals |-> session[p]] /\ session[o] \in SessionStates
  BY DEF TypeOK, SessionStates
<1>1. CASE \/ ReadStep(t) \/ Look(t) \/ FinishAction(t) \/ ActionWaiting(t) \/ Begin(t)
           \/ Link(t) \/ FinishTask(t) \/ GoWrong(t)
  BY <1>1 DEF ReadStep, Look, FinishAction, ActionWaiting, Begin, Link, FinishTask, GoWrong
<1>2. CASE CreateTask(t) \/ Work(t) \/ Retry(t)
  BY <1>2 DEF CreateTask, Work, Retry
<1>3. CASE CreateSession(t)
  BY <1>0, <1>3 DEF CreateSession, Contract!Next, Contract!Create
<1>4. CASE Clear(t)
  BY <1>0, <1>4 DEF Clear, Contract!Next, Contract!Close, Contract!Live, Live
<1>5. CASE Poll(t)
  BY <1>0, <1>5 DEF Poll, Contract!Next, Contract!Ask
<1>6. CASE FinishBrowser(t)
  BY <1>0, <1>6 DEF FinishBrowser, Contract!Next, Contract!Settle
<1> QED BY <1>1, <1>2, <1>3, <1>4, <1>5, <1>6 DEF Execute

\* So do all other steps: those that stop the run close sessions, and what a
\* session does by itself is an answer or its end.
LEMMA ContractKept ==
  ASSUME TypeOK, [Next]_vars, NEW o \in Ordinals
  PROVE  ContractStep(o)
<1>0. session[o] \in SessionStates
  BY DEF TypeOK, SessionStates
<1>1. CASE UNCHANGED vars
  BY <1>1 DEF vars, resources, ContractStep
<1>2. ASSUME NEW t \in Threads, Coordinate(t) \/ Decide(t)
      PROVE  UNCHANGED session
  BY <1>2 DEF Coordinate, Schedule, Lose, Decide, ReadRun, Reserve, Commit, Block, resources
<1>3. ASSUME NEW t \in Threads, Execute(t)
      PROVE  ContractStep(o)
  BY <1>3, ExecuteContract
<1>4. ASSUME NEW t \in Threads, Conclude(t)
      PROVE  ContractStep(o)
  BY <1>4 DEF Conclude, Complete, FailTasks, FailRun, resources, ContractStep,
              Contract!Next, Contract!Close, Contract!Live, Live
<1>5. CASE Outside
  <2>1. CASE Expire \/ TimeIsUp \/ ActionMoves \/ \E p \in Ordinals : TaskEnds(p)
    BY <2>1 DEF Expire, TimeIsUp, ActionMoves, TaskEnds, resources, ContractStep
  <2>2. CASE Cancel
    BY <2>2 DEF Cancel, ContractStep, Contract!Next, Contract!Close, Contract!Live, Live
  <2>3. ASSUME NEW p \in Ordinals, SessionMoves(p)
        PROVE  ContractStep(o)
    BY <2>3 DEF SessionMoves, ContractStep, TypeOK, Contract!Next, Contract!Close,
                Contract!Answer, Contract!Live, Live
  <2> QED BY <1>5, <2>1, <2>2, <2>3 DEF Outside
<1> QED BY <1>1, <1>2, <1>3, <1>4, <1>5 DEF Next, ContractStep

\* The run keeps the contract for the session of every step, with any number of
\* attempts at the step beside each other (prepare_agent_read,
\* finish_invocation, _settle_agent_browser_session).
THEOREM AgentKeepsContract == Spec => \A o \in Ordinals : Contract(o)!Spec
<1> SUFFICES ASSUME NEW o \in Ordinals PROVE Spec => Contract(o)!Spec
  OBVIOUS
<1>1. Init => Contract(o)!Init
  BY DEF Init, Contract!Init
<1>2. IInv /\ [Next]_vars => [Contract(o)!Next]_(session[o])
  BY ContractKept DEF IInv, ContractStep
<1> QED BY <1>1, <1>2, Invariance, PTL DEF Spec, Contract!Spec

\* What the broker may do by the contract to a session that is live, the model of
\* the run allows at any time.
LEMMA BrokerIsFree ==
  ASSUME TypeOK, NEW o \in Ordinals, NEW stage,
         session' = [session EXCEPT ![o] = stage],
         Contract(o)!Answer \/ Contract(o)!Close,
         UNCHANGED <<ledger, task, action, deadline, flow, attempt, troubles>>
  PROVE  Next
<1>1. SessionMoves(o)
  BY DEF SessionMoves, TypeOK, Live, Contract!Answer, Contract!Close, Contract!Live
<1> QED BY <1>1 DEF Next, Outside
====
