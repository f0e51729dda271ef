---- MODULE AutomationOccurrence ----
(* One automation and the admission of its occurrences                       *)
(* (automation_repository.py).                                               *)
(*                                                                           *)
(* Temporal, or a connector, calls for an occurrence, perhaps several times; *)
(* the dispatcher's ticks (worker.py) call again for those that wait.  A     *)
(* call has three transactions: the admission, under the lock of the         *)
(* automation's row; the creation of the run, by the agent's repository; and *)
(* the link from the occurrence to its run.  Between them other calls get    *)
(* on, the owner changes the automation, and the process may die.  The       *)
(* admission reads the occurrence's row without a lock, so what it writes    *)
(* may be based on what it has read before another call linked the run.      *)
(*                                                                           *)
(* A schedule may be out of date, so a call comes with the revision at the   *)
(* time or an earlier one.                                                   *)
EXTENDS Naturals

CONSTANTS
  Occurrences,  \* occurrences that may fall due
  Callers,      \* threads that work on them
  Profiles,     \* what the owner may make of the automation
  MaxRevision,  \* bound: revisions of the automation
  MaxTroubles,  \* bound: lost calls, and runs refused for want of capacity
  None

ASSUME ProfilesAssumption ==
  Profiles \subseteq {"goal", "event", "meeting", "deadline", "reminder"}
ASSUME LimitsAssumption == MaxRevision \in Nat \ {0} /\ MaxTroubles \in Nat
ASSUME NoneAssumption == None \notin Callers \union Occurrences

VARIABLES
  automation,  \* the row of the automation
  enabled,     \* automations_enabled
  lock,        \* the caller that has the automation's row locked
  due,         \* what an occurrence was called for with
  row,         \* the rows of the occurrences
  run,         \* what became of the run created for an occurrence
  created,     \* how many runs were created for it: a ghost
  notices,     \* how many notices of its start were sent
  call,        \* what each caller is doing
  troubles

ownerVars == <<automation, enabled>>
vars == <<automation, enabled, lock, due, row, run, created, notices, call, troubles>>

Paths == {"goal", "event", "meeting", "deadline", "reminder"}
NotDue == [revision |-> 0, event |-> FALSE]
NoRow == [state |-> "none", kind |-> "none", linked |-> FALSE]
New(state, kind) == [state |-> state, kind |-> kind, linked |-> FALSE]
Doing(stage, o, path, seen) ==
  [stage |-> stage, on |-> o, path |-> path, seen |-> seen]
Idle == Doing("idle", None, "none", NoRow)

Init ==
  /\ automation \in [revision : {1}, state : {"active"}, profile : Profiles,
                     overlap : {"skip", "buffer_one"}]
  /\ enabled = TRUE
  /\ lock = None
  /\ due = [o \in Occurrences |-> NotDue]
  /\ row = [o \in Occurrences |-> NoRow]
  /\ run = [o \in Occurrences |-> "none"]
  /\ created = [o \in Occurrences |-> 0]
  /\ notices = [o \in Occurrences |-> 0]
  /\ call = [c \in Callers |-> Idle]
  /\ troubles = 0

-----------------------------------------------------------------------------
(* The owner and the operator *)

\* Each command of the owner waits for the row's lock.
Change(value) ==
  /\ enabled /\ lock = None /\ automation.revision < MaxRevision
  /\ automation.state # "cancelled"
  /\ automation' = [value EXCEPT !.revision = automation.revision + 1]
  /\ UNCHANGED <<enabled, lock, due, row, run, created, notices, call, troubles>>
Update(profile, overlap) ==
  Change([automation EXCEPT !.profile = profile, !.overlap = overlap])

\* _transition, for pause, resume and cancel.
Allowed ==
  [paused |-> {"active"}, active |-> {"paused"}, cancelled |-> {"active", "paused"}]
Transition(target) ==
  /\ automation.state \in Allowed[target]
  /\ Change([automation EXCEPT !.state = target])

SwitchOff ==
  /\ enabled' = ~enabled
  /\ UNCHANGED <<automation, lock, due, row, run, created, notices, call, troubles>>

Owner ==
  \/ \E profile \in Profiles, overlap \in {"skip", "buffer_one"} : Update(profile, overlap)
  \/ \E target \in {"paused", "active", "cancelled"} : Transition(target)
  \/ SwitchOff

-----------------------------------------------------------------------------
(* Calls for an occurrence *)

\* accept_occurrence goes by the profile that the automation has now, read
\* without a lock; a scan for meetings finds none in an automation that is out
\* of date (accept_meeting_scan).
Current(revision) ==
  enabled /\ automation.state = "active" /\ revision = automation.revision
PathNow == IF automation.profile = "event" THEN "goal" ELSE automation.profile
Routed(o, revision) ==
  IF PathNow = "meeting" /\ ~Current(revision) THEN Idle ELSE Doing("routed", o, PathNow, NoRow)

\* Temporal fires, or tries again (AutomationOccurrenceWorkflow).
Fire(c, o) ==
  /\ call[c] = Idle /\ ~due[o].event
  /\ IF due[o] = NotDue
     THEN \E revision \in 1..automation.revision : due' = [due EXCEPT ![o].revision = revision]
     ELSE UNCHANGED due
  /\ call' = [call EXCEPT ![c] = Routed(o, due'[o].revision)]
  /\ UNCHANGED <<ownerVars, lock, row, run, created, notices, troubles>>

\* handle_connector_event: the event may be reported again.
Notice(c, o) ==
  /\ call[c] = Idle
  /\ automation.state = "active" /\ automation.profile = "event"
  /\ due[o] = NotDue \/ (due[o].event /\ due[o].revision = automation.revision)
  /\ due' = [due EXCEPT ![o] = [revision |-> automation.revision, event |-> TRUE]]
  /\ call' = [call EXCEPT ![c] = Doing("routed", o, "event", NoRow)]
  /\ UNCHANGED <<ownerVars, lock, row, run, created, notices, troubles>>

\* Another occurrence has a run that did not end.  A run that needs input, or is
\* blocked, does not end in this sense.
Busy(o) ==
  \E p \in Occurrences \ {o} : row[p].linked /\ run[p] = "active"

\* The query of claim_buffered_occurrences: an occurrence that waits for its
\* turn, or whose admission got lost: it is thirty seconds old, which the
\* admission of a slow call may be as well.
Releasable(o) == row[o].state \in {"buffered", "accepting"}

\* A tick claims the occurrence and calls again.
Release(c, o) ==
  /\ enabled /\ call[c] = Idle
  /\ Releasable(o) /\ ~Busy(o)
  /\ row' = [row EXCEPT ![o].state = "accepting"]
  /\ call' = [call EXCEPT ![c] =
       IF row[o].kind \in {"event", "meeting"}
       THEN Doing("routed", o, row[o].kind, NoRow)
       ELSE Doing("called", o, "none", NoRow)]
  /\ UNCHANGED <<ownerVars, lock, due, run, created, notices, troubles>>

-----------------------------------------------------------------------------
(* The admission *)

\* A tick's call goes by the profile as well, unless its row says what it is.
Route(c) ==
  /\ call[c].stage = "called"
  /\ call' = [call EXCEPT ![c] = Routed(call[c].on, due[call[c].on].revision)]
  /\ UNCHANGED <<ownerVars, lock, due, row, run, created, notices, troubles>>

\* The row of the automation is locked, the occurrence's is only read.
Lock(c) ==
  /\ call[c].stage = "routed" /\ lock = None
  /\ lock' = c
  /\ call' = [call EXCEPT ![c].stage = "locked", ![c].seen = row[call[c].on]]
  /\ UNCHANGED <<ownerVars, due, row, run, created, notices, troubles>>

\* What the transaction knows of the occurrence: a deadline locks its row as
\* well.
Seen(c) == IF call[c].path = "deadline" THEN row[call[c].on] ELSE call[c].seen

\* Plans and reminders have the same key, and a deadline finds both by their
\* time; every other path looks for a row of its own.
Finds(path, kind) ==
  \/ kind \in {"none", path}
  \/ path \in {"goal", "reminder", "deadline"} /\ kind \in {"goal", "reminder"}

\* The row is written: the columns that change, or all of a new one.
Written(c, state) ==
  IF Seen(c).state = "none"
  THEN [row EXCEPT ![call[c].on] = New(state, call[c].path)]
  ELSE [row EXCEPT ![call[c].on].state = state]
Ends(c) == call' = [call EXCEPT ![c] = Idle]
Commits == lock' = None /\ UNCHANGED <<ownerVars, due, run, created, troubles>>
Settles(c, state) ==
  row' = Written(c, state) /\ Ends(c) /\ UNCHANGED notices /\ Commits

\* Nothing is written: the occurrence was decided before, or is none of this
\* path's.
Decided(c) ==
  \/ ~Finds(call[c].path, Seen(c).kind)
  \/ Seen(c).linked
  \/ Seen(c).state \in {"accepted", "skipped", "blocked", "buffered"}
  \/ call[c].path = "reminder" /\ Seen(c).state # "none"
  \/ call[c].path = "deadline" /\ Seen(c).state = "notified"
Replay(c) ==
  /\ call[c].stage = "locked"
  /\ Decided(c)
  /\ UNCHANGED <<row, notices>> /\ Ends(c) /\ Commits

InTime(c) == Current(due[call[c].on].revision)
Decides(c) == call[c].stage = "locked" /\ ~Decided(c)

\* Whatever speaks against it: a stale revision, a paused automation, the kill
\* switch, or what the models of goals, grants and snapshots would say.  A
\* deadline that nobody waits for leaves no row.
Suppress(c) ==
  /\ Decides(c)
  /\ \E state \in {"skipped", "blocked"} :
       /\ state = "blocked" => call[c].path \in {"goal", "deadline"}
       /\ IF call[c].path = "deadline" /\ Seen(c).state = "none"
          THEN UNCHANGED <<row, notices>> /\ Ends(c) /\ Commits
          ELSE Settles(c, state)

\* The run of another occurrence is in the way.  The first form does not ask
\* whether the buffer is taken.
BufferedAlways(o) == "buffered"
Buffered(o) ==
  IF \E p \in Occurrences \ {o} : row[p].state = "buffered" THEN "skipped" ELSE "buffered"
Overlap(c) ==
  /\ Decides(c) /\ InTime(c) /\ Busy(call[c].on)
  /\ IF call[c].path = "deadline"
     THEN UNCHANGED <<row, notices>> /\ Ends(c) /\ Commits
     ELSE /\ call[c].path \in {"goal", "event"}
          /\ Settles(c, IF automation.overlap = "skip" THEN "skipped"
                        ELSE Buffered(call[c].on))

\* The occurrence gets a run; a row that is there is not touched, except by a
\* deadline.
Admit(c) ==
  /\ Decides(c) /\ InTime(c)
  /\ \/ call[c].path = "meeting"
     \/ call[c].path \in {"goal", "event", "deadline"} /\ ~Busy(call[c].on)
  /\ row' = IF Seen(c).state = "none" \/ call[c].path = "deadline"
            THEN Written(c, "accepting") ELSE row
  /\ call' = [call EXCEPT ![c] = Doing("admitted", call[c].on, call[c].path, NoRow)]
  /\ UNCHANGED notices /\ Commits

\* accept_reminder_occurrence: a notice, and no run.
Remind(c) ==
  /\ Decides(c) /\ InTime(c)
  /\ call[c].path = "reminder"
  /\ row' = Written(c, "notified")
  /\ notices' = [notices EXCEPT ![call[c].on] = @ + 1]
  /\ Ends(c) /\ Commits

-----------------------------------------------------------------------------
(* The run and the link *)

\* AgentRepository.create: the idempotency key of an occurrence is always the
\* same.  The first form does not look for an earlier run of that key.
CreatesAlways(o) == TRUE
Creates(o) == run[o] = "none"
Create(c) ==
  LET o == call[c].on IN
  /\ call[c].stage = "admitted"
  /\ IF Creates(o)
     THEN /\ run' = [run EXCEPT ![o] = "active"]
          /\ created' = [created EXCEPT ![o] = @ + 1]
     ELSE UNCHANGED <<run, created>>
  /\ call' = [call EXCEPT ![c].stage = "started"]
  /\ UNCHANGED <<ownerVars, lock, due, row, notices, troubles>>

\* The run is refused: for want of capacity, or for good; the latter also when
\* the run is there but the goal or its context has changed since.  The first
\* form of the state to record does not tell the two apart.
RefusedAlike(retryable) == "failed"
Refused(retryable) == IF retryable THEN "accepting" ELSE "blocked"
Refuse(c, retryable) ==
  /\ call[c].stage = "admitted"
  /\ retryable => run[call[c].on] = "none" /\ troubles < MaxTroubles
  /\ troubles' = IF retryable THEN troubles + 1 ELSE troubles
  /\ call' = [call EXCEPT ![c].stage = IF retryable THEN "no_capacity" ELSE "refused"]
  /\ UNCHANGED <<ownerVars, lock, due, row, run, created, notices>>

\* _record_occurrence_admission_error
RecordError(c) ==
  LET o == call[c].on IN
  /\ call[c].stage \in {"no_capacity", "refused"}
  /\ row' = IF row[o].linked \/ row[o].state \notin {"accepting", "buffered"} THEN row
            ELSE [row EXCEPT ![o].state = Refused(call[c].stage = "no_capacity")]
  /\ Ends(c)
  /\ UNCHANGED <<ownerVars, lock, due, run, created, notices, troubles>>

\* The last transaction: it does not ask what became of the occurrence
\* meanwhile, unless it is a deadline.  One notice is sent for an occurrence.
Superseded(c) ==
  call[c].path = "deadline" /\ (row[call[c].on].linked \/ row[call[c].on].state # "accepting")
Link(c) ==
  LET o == call[c].on IN
  /\ call[c].stage = "started"
  /\ IF Superseded(c) THEN UNCHANGED <<row, notices>>
     ELSE /\ row' = [row EXCEPT ![o].state = "accepted", ![o].linked = TRUE]
          /\ notices' = [notices EXCEPT ![o] = IF @ = 0 THEN 1 ELSE @]
  /\ Ends(c)
  /\ UNCHANGED <<ownerVars, lock, due, run, created, troubles>>

-----------------------------------------------------------------------------
(* Failures, time, and the runs *)

\* The process dies, or the call is abandoned.
Crash(c) ==
  /\ call[c] # Idle /\ troubles < MaxTroubles
  /\ troubles' = troubles + 1
  /\ lock' = IF lock = c THEN None ELSE lock
  /\ Ends(c)
  /\ UNCHANGED <<ownerVars, due, row, run, created, notices>>

\* A run is completed, failed or cancelled.
RunEnds(o) ==
  /\ run[o] = "active"
  /\ run' = [run EXCEPT ![o] = "over"]
  /\ UNCHANGED <<ownerVars, lock, due, row, created, notices, call, troubles>>

Proceed(c) ==
  \/ Route(c) \/ Replay(c) \/ Suppress(c) \/ Overlap(c) \/ Admit(c) \/ Remind(c)
  \/ Create(c) \/ (\E retryable \in BOOLEAN : Refuse(c, retryable))
  \/ RecordError(c) \/ Link(c)

Next ==
  \/ Owner
  \/ \E c \in Callers :
       \/ \E o \in Occurrences : Fire(c, o) \/ Notice(c, o) \/ Release(c, o)
       \/ Lock(c) \/ Proceed(c) \/ Crash(c)
  \/ \E o \in Occurrences : RunEnds(o)

Spec == Init /\ [][Next]_vars

-----------------------------------------------------------------------------
(* Properties *)

RowType ==
  [state : {"none", "accepting", "buffered", "accepted", "skipped", "blocked", "notified"},
   kind : Paths \union {"none"}, linked : BOOLEAN]
CallType ==
  [stage : {"idle", "called", "routed", "locked", "admitted", "started",
            "no_capacity", "refused"},
   on : Occurrences \union {None}, path : Paths \union {"none"}, seen : RowType]

TypeOK ==
  /\ automation \in [revision : 1..MaxRevision, state : {"active", "paused", "cancelled"},
                     profile : Profiles, overlap : {"skip", "buffer_one"}]
  /\ enabled \in BOOLEAN
  /\ lock \in Callers \union {None}
  /\ due \in [Occurrences -> [revision : 0..MaxRevision, event : BOOLEAN]]
  /\ row \in [Occurrences -> RowType]
  /\ run \in [Occurrences -> {"none", "active", "over"}]
  /\ created \in [Occurrences -> Nat]
  /\ notices \in [Occurrences -> Nat]
  /\ call \in [Callers -> CallType]
  /\ troubles \in 0..MaxTroubles

\* However often an occurrence is called for, by Temporal, by connectors and by
\* ticks at once, with calls lost between their transactions and the owner
\* changing the automation, it gets one run and one notice at most; one that is
\* said to be accepted is linked to its run and was announced
\* (accept_occurrence and its relatives, AgentRepository.create).
OneRunEach ==
  \A o \in Occurrences :
    /\ created[o] <= 1 /\ notices[o] <= 1
    /\ row[o].state = "accepted" => row[o].linked
    /\ row[o].linked => created[o] = 1 /\ notices[o] = 1
    /\ row[o].kind = "reminder" => created[o] = 0

\* The buffer holds one occurrence, although ticks take it out and put it back
\* while others are being admitted (overlap policy buffer_one).
BufferHoldsOne ==
  \A o, p \in Occurrences :
    row[o].state = "buffered" /\ row[p].state = "buffered" => o = p
====
