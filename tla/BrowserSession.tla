---- MODULE BrowserSession ----
(* A supervised browser session: its row and its commands (browser.py), and  *)
(* the browser workers that carry the commands out (browser_worker.mjs).     *)
(*                                                                           *)
(* Every method of the broker is one transaction that locks the session, so  *)
(* each is one action; what it writes before it raises is rolled back, so a  *)
(* refused call is no step.  Between two calls time passes: the session      *)
(* expires, leases lapse, requests or their answers get lost, workers die    *)
(* and come back under the same name without their pages.                    *)
(*                                                                           *)
(* A view stands for what a page shows, and so for the frame taken of it and *)
(* for the frame's hash.  An owner's click names the version of the frame;   *)
(* here it is the frame that the broker holds when the call arrives.         *)
EXTENDS Naturals

CONSTANTS
  Workers,      \* identities of browser workers
  Views,        \* what a page may show
  Reasons,      \* why a takeover is requested
  MaxCommands,  \* bound: commands of the session
  MaxAttempts,  \* browser_command_max_attempts
  None

ASSUME ReasonsAssumption == Reasons \subseteq {"login", "captcha", "webauthn"}
ASSUME LimitsAssumption == MaxCommands \in Nat /\ MaxAttempts \in Nat \ {0}
ASSUME NoneAssumption == None \notin Workers \union Views \union Reasons

VARIABLES
  session,  \* the row of the session
  due,      \* expires_at has passed
  command,  \* the rows of its commands, by sequence
  enabled,  \* agent_browser_read_enabled
  work,     \* what each worker is doing
  page,     \* what a worker's live takeover page shows, if it has one
  clicks    \* how often the page of a command was clicked: a ghost

brokerVars == <<session, command>>
workerVars == <<work, page, clicks>>
vars == <<session, due, command, enabled, work, page, clicks>>

Commands == 1..MaxCommands
AffinityKinds == {"takeover_frame", "takeover_interaction"}
TakeoverKinds == AffinityKinds \union {"takeover_input"}
Kinds == TakeoverKinds \union {"navigate", "prepare_form", "agent_read"}
Terminal == {"cancelled", "completed", "expired", "failed"}

Open(c) == c.state \in {"prepared", "running"}
NoOpen(cs) == \A n \in Commands : ~Open(cs[n])
Closed(s) == s.cancelled \/ s.state \in Terminal
TakenOver(s) == s.required \/ s.state = "takeover"

Row(kind, state, live, view) ==
  [kind |-> kind, state |-> state, attempts |-> 0, by |-> None,
   lease |-> "none", live |-> live, view |-> view, error |-> "none"]
NoCommand == Row("navigate", "none", FALSE, None)
Doing(stage, n) == [stage |-> stage, on |-> n, shot |-> None, error |-> "none"]
Resting == Doing("idle", 0)

Init ==
  /\ session \in [state : {"prepared"}, required : {FALSE}, reason : {None},
                  cancelled : {FALSE}, holder : {None}, warm : {FALSE},
                  frame : {None}, stored : {FALSE}, agent : BOOLEAN]
  /\ due = FALSE /\ enabled = TRUE
  /\ command = [n \in Commands |-> NoCommand]
  /\ work = [w \in Workers |-> Resting]
  /\ page = [w \in Workers |-> None]
  /\ clicks = [n \in Commands |-> 0]

-----------------------------------------------------------------------------
(* What the methods share *)

\* A command ends; nobody holds it any more.
End(c, state, error) ==
  [c EXCEPT !.state = state, !.error = error, !.by = None, !.lease = "none"]
EndOpen(cs, state, error) ==
  [n \in Commands |-> IF Open(cs[n]) THEN End(cs[n], state, error) ELSE cs[n]]

\* _clear_takeover_frame, _clear_takeover_affinity; Bare also clears the
\* storage state.
NoFrame(s) == [s EXCEPT !.frame = None]
NoAffinity(s) == [s EXCEPT !.holder = None, !.warm = FALSE]
Bare(s) == [NoFrame(NoAffinity(s)) EXCEPT !.stored = FALSE]

\* The session is closed, and the request to stop is recorded or not.  The first
\* form leaves the storage state behind.
CloseKeeping(s, state, cancelled) ==
  [NoFrame(NoAffinity(s)) EXCEPT
     !.state = state, !.cancelled = cancelled, !.required = FALSE, !.reason = None]
Close(s, state, cancelled) ==
  [Bare(s) EXCEPT
     !.state = state, !.cancelled = cancelled, !.required = FALSE, !.reason = None]

\* _expire_stale_sessions
SessionStale == due /\ session.state \notin Terminal
ExpireSession ==
  /\ session' = Close(session, "expired", TRUE)
  /\ command' = EndOpen(command, "failed", "session_expired")

\* _expire_takeover_affinities: only commands that need the live page are lost
\* with it.  The first form leaves the frame behind.
AffinityStale(s) ==
  s.required /\ s.state = "takeover" /\ s.holder # None /\ ~s.warm
SweptSessionKeeping(s) == IF AffinityStale(s) THEN NoAffinity(s) ELSE s
SweptSession(s) == IF AffinityStale(s) THEN NoFrame(NoAffinity(s)) ELSE s
SweptCommands(s, cs) ==
  [n \in Commands |->
     IF AffinityStale(s) /\ Open(cs[n]) /\ cs[n].live
     THEN End(cs[n], "failed",
              IF cs[n].state = "running" THEN "uncertain" ELSE "context_missing")
     ELSE cs[n]]

-----------------------------------------------------------------------------
(* The owner *)

OwnerStep == UNCHANGED <<due, enabled, workerVars>>

\* list, get, get_takeover_frame, read_agent_capture
Look ==
  /\ \/ SessionStale /\ ExpireSession
     \/ /\ ~SessionStale
        /\ session' = SweptSession(session)
        /\ command' = SweptCommands(session, command)
  /\ OwnerStep

Append(cs, kind, live, view) ==
  \E n \in Commands :
    /\ cs[n].state = "none"
    /\ \A m \in 1..(n - 1) : cs[m].state # "none"
    /\ command' = [cs EXCEPT ![n] = Row(kind, "prepared", live, view)]

\* prepare_navigation, prepare_form; neither waits for earlier commands.
Prepare(kind) ==
  /\ ~due /\ ~Closed(session)
  /\ session.state # "takeover"
  /\ kind = "navigate" \/ (kind = "prepare_form" /\ ~session.agent)
  /\ Append(command, kind, FALSE, None)
  /\ UNCHANGED session /\ OwnerStep

\* prepare_agent_read, for the first command of an agent's session.
PrepareAgentRead ==
  /\ enabled /\ session.agent
  /\ ~due /\ ~Closed(session) /\ ~TakenOver(session)
  /\ \A n \in Commands : command[n].state = "none"
  /\ Append(command, "agent_read", FALSE, None)
  /\ UNCHANGED session /\ OwnerStep

\* request_takeover: cancels what is under way.
RequestTakeover(reason) ==
  /\ ~due /\ session.state \notin Terminal
  /\ session' = [NoFrame(NoAffinity(session)) EXCEPT
                   !.state = "takeover", !.required = TRUE, !.reason = reason]
  /\ command' = EndOpen(command, "cancelled", "takeover_requested")
  /\ OwnerStep

Waiting(s) == ~due /\ s.state = "takeover" /\ s.required

\* prepare_takeover_frame: a live page must be used again when there is one.
RequestFrame ==
  LET swept == SweptCommands(session, command) IN
  /\ Waiting(session)
  /\ NoOpen(swept)
  /\ session' = NoFrame(SweptSession(session))
  /\ Append(swept, "takeover_frame", SweptSession(session).warm, None)
  /\ OwnerStep

\* prepare_takeover_interaction
RequestInteraction ==
  /\ Waiting(session) /\ session.reason # "webauthn"
  /\ session.warm /\ session.frame # None
  /\ NoOpen(command)
  /\ Append(command, "takeover_interaction", TRUE, session.frame.view)
  /\ UNCHANGED session /\ OwnerStep

\* prepare_takeover_input
RequestInput ==
  /\ Waiting(session) /\ session.reason \notin {"captcha", "webauthn"}
  /\ NoOpen(command)
  /\ Append(command, "takeover_input", FALSE, None)
  /\ UNCHANGED session /\ OwnerStep

\* resume: does not end a command of the takeover.
Resume ==
  /\ Waiting(session)
  /\ session' = [NoFrame(NoAffinity(session)) EXCEPT
                   !.state = "prepared", !.required = FALSE, !.reason = None]
  /\ UNCHANGED command /\ OwnerStep

\* cancel
Cancel ==
  /\ session.state \notin Terminal
  /\ session' = Close(session, "cancelled", TRUE)
  /\ command' = EndOpen(command, "cancelled", "session_cancelled")
  /\ OwnerStep

\* _settle_agent_browser_session, when the agent has its receipt or stops.
Settle(completed) ==
  /\ session.agent /\ ~Closed(session)
  /\ completed => ~due /\ \E n \in Commands :
       command[n].kind = "agent_read" /\ command[n].state = "succeeded"
  /\ session' = Close(session, IF completed THEN "completed" ELSE "cancelled", ~completed)
  /\ command' = EndOpen(command, "cancelled", "session_cancelled")
  /\ OwnerStep

Owner ==
  \/ Look \/ PrepareAgentRead \/ RequestFrame \/ RequestInteraction
  \/ RequestInput \/ Resume \/ Cancel
  \/ \E kind \in Kinds : Prepare(kind)
  \/ \E reason \in Reasons : RequestTakeover(reason)
  \/ \E completed \in BOOLEAN : Settle(completed)

-----------------------------------------------------------------------------
(* The broker and its workers *)

\* An interaction has one attempt, for its outcome is unknown once it was
\* handed out; the other form treats it as a view of the live page.
RetriedLikeFrame(c) == FALSE
SingleAttempt(c) == c.kind = "takeover_interaction"

\* The first step of claim_commands: takeover commands whose lease lapsed.
Abandoned(s, c) ==
  /\ c.kind \in AffinityKinds /\ c.state = "running" /\ c.lease = "lapsed"
  /\ s.state = "takeover" /\ s.required /\ ~s.cancelled
Lost(s, c) == Abandoned(s, c) /\ (SingleAttempt(c) \/ c.live)
AbandonedSession(s, cs) ==
  IF \E n \in Commands : Lost(s, cs[n]) THEN NoFrame(NoAffinity(s))
  ELSE IF \E n \in Commands : Abandoned(s, cs[n]) THEN NoAffinity(s)
  ELSE s
AbandonedCommands(s, cs) ==
  [n \in Commands |->
     IF Lost(s, cs[n])
     THEN End(cs[n], "failed",
              IF SingleAttempt(cs[n]) THEN "uncertain" ELSE "context_missing")
     ELSE cs[n]]

\* What both sweeps of claim_commands make of the session and its commands.
TidySession ==
  SweptSession(AbandonedSession(session, command))
TidyCommands ==
  SweptCommands(AbandonedSession(session, command),
                AbandonedCommands(session, command))

\* The query of claim_commands; the first form forgets the limit of attempts.
ClaimableForEver(s, c, w) ==
  /\ Open(c) /\ ~s.cancelled
  /\ IF c.kind \in TakeoverKinds THEN s.required /\ s.state = "takeover"
     ELSE ~s.required /\ s.state \in {"prepared", "running"}
  /\ c.kind \in AffinityKinds => s.holder \in {None, w} \/ ~s.warm
  /\ SingleAttempt(c) => c.state = "prepared" /\ c.attempts = 0
  /\ c.lease # "held"
Claimable(s, c, w) ==
  /\ Open(c) /\ ~s.cancelled
  /\ IF c.kind \in TakeoverKinds THEN s.required /\ s.state = "takeover"
     ELSE ~s.required /\ s.state \in {"prepared", "running"}
  /\ c.kind \in AffinityKinds => s.holder \in {None, w} \/ ~s.warm
  /\ c.attempts < MaxAttempts
  /\ SingleAttempt(c) => c.state = "prepared" /\ c.attempts = 0
  /\ c.lease # "held"
IsFirst(cs, n) == Open(cs[n]) /\ \A m \in 1..(n - 1) : ~Open(cs[m])
FirstClaimable(n, w) ==
  /\ ~due /\ IsFirst(TidyCommands, n)
  /\ Claimable(TidySession, TidyCommands[n], w)

\* pollOnce: the heartbeat for a live page comes before each claim.
MayPoll(w) ==
  work[w].stage = "polled" \/ (work[w].stage = "idle" /\ page[w] = None)

Claim(s, w, n, received) ==
  /\ session' = [s EXCEPT
       !.state = IF TidyCommands[n].kind \in TakeoverKinds THEN @ ELSE "running",
       !.holder = IF TidyCommands[n].kind \in AffinityKinds /\ ~s.warm THEN w ELSE @,
       !.warm = @ \/ TidyCommands[n].kind \in AffinityKinds]
  /\ command' = [TidyCommands EXCEPT
       ![n].state = "running", ![n].attempts = @ + 1, ![n].by = w, ![n].lease = "held"]
  /\ work' = [work EXCEPT ![w] =
       IF received THEN Doing("claimed", n) ELSE Resting]
  /\ UNCHANGED <<due, enabled, page, clicks>>

\* claim_commands, when it hands out a command; the answer may get lost.
ClaimCommand(w, n, received) ==
  /\ MayPoll(w) /\ ~SessionStale
  /\ FirstClaimable(n, w)
  /\ TidyCommands[n].kind = "agent_read" => enabled
  /\ TidyCommands[n].live => TidySession.warm
  /\ Claim(TidySession, w, n, received)

\* ... or fails it, because agents may read no more (_revoke_disabled_agent_read).
\* It would also fail a command whose live page is gone; the sweep has done that
\* already (LivePageIsThere in BrowserSessionProofs).
Revoked(c) == c.kind = "agent_read" /\ ~enabled
Revoke(s) == [Bare(s) EXCEPT !.state = "failed", !.cancelled = TRUE]
Refuse(w, n) ==
  /\ MayPoll(w) /\ ~SessionStale
  /\ FirstClaimable(n, w)
  /\ Revoked(TidyCommands[n])
  /\ session' = Revoke(TidySession)
  /\ command' = [TidyCommands EXCEPT ![n] = End(@, "failed", "read_disabled")]
  /\ work' = [work EXCEPT ![w] = Resting]
  /\ UNCHANGED <<due, enabled, page, clicks>>

\* ... or has nothing for this worker.
ClaimNothing(w) ==
  /\ MayPoll(w)
  /\ \/ SessionStale /\ ExpireSession
     \/ /\ ~SessionStale
        /\ \A n \in Commands : ~FirstClaimable(n, w)
        /\ session' = TidySession /\ command' = TidyCommands
  /\ work' = [work EXCEPT ![w] = Resting]
  /\ UNCHANGED <<due, enabled, page, clicks>>

\* heartbeat_takeover_contexts: keeps the affinity of a worker with a live page,
\* or tells it to drop the page; without an answer there is no claim either.
Keeps(s, w) == Waiting(s) /\ ~s.cancelled /\ s.holder = w
Heartbeat(w, received) ==
  /\ work[w].stage = "idle" /\ page[w] # None
  /\ LET s == IF SessionStale THEN session ELSE SweptSession(session) IN
     /\ \/ SessionStale /\ ExpireSession
        \/ /\ ~SessionStale
           /\ session' = IF Keeps(s, w) THEN [s EXCEPT !.warm = TRUE] ELSE s
           /\ command' = SweptCommands(session, command)
     /\ IF received
        THEN /\ work' = [work EXCEPT ![w].stage = "polled"]
             /\ page' = [page EXCEPT ![w] = IF Keeps(s, w) THEN @ ELSE None]
        ELSE UNCHANGED <<work, page>>
  /\ UNCHANGED <<due, enabled, clicks>>

\* complete_command.  It does not ask whether the lease has lapsed, only
\* whether another worker has the command now; the first form does not ask.
AcceptedFromAnyone(w, n) ==
  /\ TakenOver(session) => command[n].kind \in TakeoverKinds
  /\ ~Closed(session) /\ ~due
  /\ command[n].kind \in AffinityKinds => session.holder = w
Accepted(w, n) ==
  /\ TakenOver(session) => command[n].kind \in TakeoverKinds
  /\ ~Closed(session) /\ ~due
  /\ command[n].state = "running" /\ command[n].by = w
  /\ command[n].kind \in AffinityKinds => session.holder = w

\* The state of the session after a command of this kind.
Completed(s, w, kind, shot) ==
  CASE kind \in AffinityKinds ->
         [s EXCEPT !.state = "takeover", !.holder = w, !.warm = TRUE, !.stored = TRUE,
                   !.frame = [by |-> w, view |-> shot]]
    [] kind = "takeover_input" ->
         [NoFrame(NoAffinity(s)) EXCEPT
            !.state = "prepared", !.required = FALSE, !.reason = None, !.stored = TRUE]
    [] kind = "agent_read" -> [s EXCEPT !.state = "prepared"]
    [] OTHER -> [s EXCEPT !.state = "prepared", !.stored = TRUE]

Complete(w, received) ==
  LET n == work[w].on IN
  /\ work[w].stage = "acted"
  /\ n \in Commands /\ Accepted(w, n)
  /\ command[n].kind = "agent_read" => enabled
  /\ session' = Completed(session, w, command[n].kind, work[w].shot)
  /\ command' = [command EXCEPT ![n] = End(@, "succeeded", "none")]
  /\ IF received
     THEN /\ work' = [work EXCEPT ![w] = Resting]
          /\ page' = [page EXCEPT ![w] =
                        IF command[n].kind \in AffinityKinds THEN work[w].shot ELSE @]
     ELSE /\ work' = [work EXCEPT ![w].stage = "failing", ![w].error = "other"]
          /\ UNCHANGED page
  /\ UNCHANGED <<due, enabled, clicks>>

\* The report of an agent's read is refused for good: agents may read no more,
\* or the read did what it must not do (_commit_rejected_agent_observation).
RejectRead(w) ==
  LET n == work[w].on IN
  /\ work[w].stage = "acted"
  /\ n \in Commands /\ command[n].kind = "agent_read"
  /\ \/ /\ Revoked(command[n]) /\ Open(command[n])
        /\ session' = Revoke(session)
        /\ command' = [command EXCEPT ![n] = End(@, "failed", "read_disabled")]
     \/ /\ command[n].state = "running" /\ command[n].by = w /\ ~Closed(session)
        /\ session' = Close(session, "failed", TRUE)
        /\ command' = [command EXCEPT ![n] = End(@, "failed", "read_rejected")]
  /\ work' = [work EXCEPT ![w].stage = "failing", ![w].error = "other"]
  /\ UNCHANGED <<due, enabled, page, clicks>>

\* Any other refusal changes nothing; nor does a request that gets lost.
CompleteRefused(w) ==
  /\ work[w].stage = "acted"
  /\ work' = [work EXCEPT ![w].stage = "failing", ![w].error = "other"]
  /\ UNCHANGED <<brokerVars, due, enabled, page, clicks>>

\* fail_command, as to the session.
Failed(s, kind, error) ==
  IF s.state \in Terminal THEN s
  ELSE CASE kind = "takeover_frame" ->
         [(IF error \in {"context_missing", "uncertain", "interrupted"}
           THEN NoAffinity(s) ELSE s) EXCEPT !.state = "takeover"]
    [] kind = "takeover_interaction" ->
         [(IF error \in {"context_missing", "uncertain", "interrupted"}
           THEN NoAffinity(NoFrame(s)) ELSE NoFrame(s)) EXCEPT !.state = "takeover"]
    [] OTHER ->
         [NoFrame(s) EXCEPT !.state = "failed", !.required = FALSE, !.reason = None,
                            !.stored = FALSE]

\* The worker keeps its live page when it did nothing to it, and drops it in any
\* other case, whatever becomes of its report.
Fail(w) ==
  LET n == work[w].on IN
  /\ work[w].stage = "failing"
  /\ n \in Commands
  /\ \/ /\ command[n].state = "running" /\ command[n].by = w
        /\ session' = Failed(session, command[n].kind, work[w].error)
        /\ command' = [command EXCEPT ![n] = End(@, "failed", work[w].error)]
     \/ UNCHANGED brokerVars
  /\ work' = [work EXCEPT ![w] = Resting]
  /\ page' = [page EXCEPT ![w] =
                IF command[n].kind \in AffinityKinds /\ work[w].error # "frame_stale"
                THEN None ELSE @]
  /\ UNCHANGED <<due, enabled, clicks>>

\* worker_control, asked while the command is under way: whatever stops the
\* worker, its page is closed at once.  A worker that may go on has its affinity
\* prolonged, which AffinityEnds allows for.
Stopped(w) ==
  /\ work' = [work EXCEPT ![w].stage = "failing", ![w].error = "interrupted"]
  /\ page' = [page EXCEPT ![w] =
                IF command[work[w].on].kind \in AffinityKinds THEN None ELSE @]
ControlCancelled(n) ==
  /\ session.cancelled
  /\ session' = session
  /\ command' = [command EXCEPT ![n] =
                   IF Open(@) THEN End(@, "cancelled", "session_cancelled") ELSE @]
ControlRevoked(n) ==
  /\ ~session.cancelled /\ Revoked(command[n])
  /\ IF Open(command[n])
     THEN /\ session' = Revoke(session)
          /\ command' = [command EXCEPT ![n] = End(@, "failed", "read_disabled")]
     ELSE UNCHANGED brokerVars
ControlPaused(n) ==
  /\ ~session.cancelled /\ ~Revoked(command[n])
  /\ TakenOver(session) /\ command[n].kind \notin TakeoverKinds
  /\ session' = session
  /\ command' = [command EXCEPT ![n] =
                   IF @.state = "running" THEN End(@, "cancelled", "takeover_requested")
                   ELSE @]
ControlExpired(n) ==
  /\ ~session.cancelled /\ ~Revoked(command[n])
  /\ ~(TakenOver(session) /\ command[n].kind \notin TakeoverKinds)
  /\ due
  /\ session' = Close(session, "expired", FALSE)
  /\ command' = [command EXCEPT ![n] =
                   IF Open(@) THEN End(@, "failed", "session_expired") ELSE @]
ControlClosed(n) ==
  /\ ~session.cancelled /\ ~Revoked(command[n]) /\ ~due
  /\ session.state \in Terminal
  /\ session' = NoFrame(NoAffinity(session))
  /\ UNCHANGED command
ClaimLost(w, n) ==
  /\ ~Closed(session) /\ ~due /\ ~Revoked(command[n])
  /\ \/ command[n].state # "running" \/ command[n].by # w \/ command[n].lease # "held"
  /\ UNCHANGED brokerVars
ControlStops(w) ==
  /\ work[w].stage \in {"claimed", "acted"}
  /\ \E n \in Commands :
       /\ n = work[w].on
       /\ \/ ControlCancelled(n) \/ ControlRevoked(n) \/ ControlPaused(n)
          \/ ControlExpired(n) \/ ControlClosed(n) \/ ClaimLost(w, n)
  /\ Stopped(w)
  /\ UNCHANGED <<due, enabled, clicks>>

-----------------------------------------------------------------------------
(* The worker alone *)

Report(w, error) ==
  work' = [work EXCEPT ![w].stage = "failing", ![w].error = error]
WorkerAlone == UNCHANGED <<brokerVars, due, enabled>>

\* execute, for a command that leaves no live page behind.
Browse(w) ==
  /\ work[w].stage = "claimed"
  /\ command[work[w].on].kind \notin AffinityKinds
  /\ work' = [work EXCEPT ![w].stage = "acted"]
  /\ UNCHANGED <<page, clicks>> /\ WorkerAlone

\* captureTakeoverFrame on the live page, or on one that is opened for it.
NeedsPage(n) == command[n].live
Capture(w, view) ==
  /\ work[w].stage = "claimed"
  /\ command[work[w].on].kind = "takeover_frame"
  /\ IF page[w] = None THEN ~NeedsPage(work[w].on) ELSE view = page[w]
  /\ work' = [work EXCEPT ![w].stage = "acted", ![w].shot = view]
  /\ UNCHANGED <<page, clicks>> /\ WorkerAlone

\* The live page is gone: the worker was restarted, or had to drop it.
MissPage(w) ==
  /\ work[w].stage = "claimed"
  /\ NeedsPage(work[w].on) /\ page[w] = None
  /\ Report(w, "context_missing")
  /\ UNCHANGED <<page, clicks>> /\ WorkerAlone

\* performTakeoverInteraction: the page must still show what the owner saw.
FindChanged(w) ==
  /\ work[w].stage = "claimed"
  /\ command[work[w].on].kind = "takeover_interaction"
  /\ page[w] \notin {None, command[work[w].on].view}
  /\ Report(w, "frame_stale")
  /\ UNCHANGED <<page, clicks>> /\ WorkerAlone

\* It clicks, the page changes or not, and a new frame is taken of it; or
\* something goes wrong after the click.
Click(w, view, error) ==
  /\ work[w].stage = "claimed"
  /\ command[work[w].on].kind = "takeover_interaction"
  /\ page[w] # None /\ page[w] = command[work[w].on].view
  /\ clicks' = [clicks EXCEPT ![work[w].on] = @ + 1]
  /\ page' = [page EXCEPT ![w] = view]
  /\ work' = [work EXCEPT ![w].stage = IF error = "none" THEN "acted" ELSE "failing",
                          ![w].shot = IF error = "none" THEN view ELSE None,
                          ![w].error = error]
  /\ WorkerAlone

\* Anything else that goes wrong on the way.
GoWrong(w) ==
  /\ work[w].stage = "claimed"
  /\ Report(w, "other")
  /\ UNCHANGED <<page, clicks>> /\ WorkerAlone

\* The process dies, and another one takes its name.
Crash(w) ==
  /\ work[w] # Resting \/ page[w] # None
  /\ work' = [work EXCEPT ![w] = Resting]
  /\ page' = [page EXCEPT ![w] = None]
  /\ UNCHANGED clicks /\ WorkerAlone

Worker(w) ==
  \/ \E received \in BOOLEAN :
       \/ Heartbeat(w, received) \/ Complete(w, received)
       \/ \E n \in Commands : ClaimCommand(w, n, received)
  \/ \E n \in Commands : Refuse(w, n)
  \/ ClaimNothing(w)
  \/ RejectRead(w) \/ CompleteRefused(w) \/ Fail(w)
  \/ ControlStops(w)
  \/ \E view \in Views :
       \/ Capture(w, view)
       \/ \E error \in {"none", "uncertain", "other"} : Click(w, view, error)
  \/ Browse(w) \/ MissPage(w) \/ FindChanged(w) \/ GoWrong(w) \/ Crash(w)

-----------------------------------------------------------------------------
(* Time, and what the pages do by themselves *)

\* No lease on a live page lasts longer than the session.
SessionDue ==
  /\ ~due /\ due' = TRUE
  /\ session' = [session EXCEPT !.warm = FALSE]
  /\ UNCHANGED <<command, enabled, workerVars>>

LeaseEnds(n) ==
  /\ command[n].lease = "held"
  /\ command' = [command EXCEPT ![n].lease = "lapsed"]
  /\ UNCHANGED <<session, due, enabled, workerVars>>

\* The lease on the live page is at least as long as that on a command and starts
\* with it (config.py).
AffinityEnds ==
  /\ session.warm
  /\ \A n \in Commands :
       command[n].kind \in AffinityKinds => command[n].lease # "held"
  /\ session' = [session EXCEPT !.warm = FALSE]
  /\ UNCHANGED <<command, due, enabled, workerVars>>

PageChanges(w) ==
  /\ page[w] # None
  /\ \E view \in Views : page' = [page EXCEPT ![w] = view]
  /\ UNCHANGED <<session, due, command, enabled, work, clicks>>

\* Agents lose the permission to read pages (agent_browser_read_enabled).
DisableReads ==
  /\ enabled /\ enabled' = FALSE
  /\ UNCHANGED <<session, due, command, workerVars>>

Environment ==
  \/ SessionDue \/ AffinityEnds \/ DisableReads
  \/ \E n \in Commands : LeaseEnds(n)
  \/ \E w \in Workers : PageChanges(w)

Next == Owner \/ Environment \/ \E w \in Workers : Worker(w)

Spec == Init /\ [][Next]_vars

-----------------------------------------------------------------------------
(* Properties *)

SessionType ==
  [state : {"prepared", "running", "takeover"} \union Terminal,
   required : BOOLEAN, reason : Reasons \union {None}, cancelled : BOOLEAN,
   holder : Workers \union {None}, warm : BOOLEAN,
   frame : [by : Workers, view : Views] \union {None},
   stored : BOOLEAN, agent : BOOLEAN]
Errors == {"none", "other", "uncertain", "context_missing", "frame_stale",
           "interrupted", "session_expired", "session_cancelled",
           "takeover_requested", "read_disabled", "read_rejected"}
CommandType ==
  [kind : Kinds, state : {"none", "prepared", "running", "succeeded", "failed", "cancelled"},
   attempts : 0..MaxAttempts, by : Workers \union {None},
   lease : {"none", "held", "lapsed"}, live : BOOLEAN,
   view : Views \union {None}, error : Errors]
WorkType ==
  [stage : {"idle", "polled", "claimed", "acted", "failing"},
   on : Commands \union {0}, shot : Views \union {None}, error : Errors]

TypeOK ==
  /\ session \in SessionType
  /\ due \in BOOLEAN /\ enabled \in BOOLEAN
  /\ command \in [Commands -> CommandType]
  /\ work \in [Workers -> WorkType]
  /\ page \in [Workers -> Views \union {None}]
  /\ clicks \in [Commands -> Nat]

\* What the broker says of the owner's click that command n stands for, to which
\* a worker may be committed as soon as it was handed out.  The worker gives up
\* before it clicks when its page is missing or has changed; any other end
\* leaves open whether it clicked.
OutcomeOf(n) ==
  LET c == command[n] IN
  IF c.kind # "takeover_interaction" THEN "proposed"
  ELSE CASE c.state = "none" -> "proposed"
         [] c.state = "prepared" -> "authorized"
         [] c.state = "running" -> "committed"
         [] c.state = "succeeded" -> "confirmed"
         [] c.state \in {"failed", "cancelled"} /\ c.attempts = 0 -> "withdrawn"
         [] c.state \in {"failed", "cancelled"} /\ c.attempts # 0 ->
              IF c.error \in {"context_missing", "frame_stale"} THEN "rejected"
              ELSE "uncertain"

Promise(n) == INSTANCE OneShotAction
  WITH outcome <- OutcomeOf(n), applied <- (clicks[n] = 1)

\* Every click keeps the one-shot promise, however answers get lost, leases lapse
\* and workers restart or report late: it happens at most once, and only when
\* the owner asked for it; it has happened when it succeeded, and neither has nor
\* will when the command ended before it was handed out, or the owner is told
\* that the page was missing or had changed, and may try again (claim_commands,
\* complete_command, fail_command, performTakeoverInteraction).  This is
\* \A n \in Commands : Promise(n)!Spec, in the form TLC can check.
KeepsPromise ==
  /\ \A n \in Commands : Promise(n)!Init
  /\ [][\A n \in Commands : UNCHANGED Promise(n)!vars \/ Promise(n)!Next]_vars

\* The frame shown to the owner was taken by the worker that holds the live
\* page, so that a click made on it goes to the page it shows: whenever the
\* affinity is lost or goes to another worker, the frame goes with it.
FrameIsFromHolder ==
  session.frame # None => session.holder = session.frame.by

\* A session that was closed, in whichever of the many ways, keeps neither its
\* authenticated state nor a frame, and no late report of a worker puts one
\* back (complete_command).
ClosedKeepsNothing ==
  Closed(session) => ~session.stored /\ session.frame = None

\* A closed session is never active again, and a command that has ended keeps
\* its outcome, however late a worker reports, asks or polls.
EndedIsFinal ==
  [][/\ Closed(session) => Closed(session')
     /\ \A n \in Commands :
          command[n].state \in {"succeeded", "failed", "cancelled"} =>
            /\ command'[n].state = command[n].state
            /\ command'[n].error = command[n].error]_vars
====
