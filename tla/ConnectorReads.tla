---- MODULE ConnectorReads ----
(* Reads of one connected Google account (connector_reads.py): the           *)
(* synchronization of a mailbox or a calendar behind one read grant, the     *)
(* subscriptions that the provider notifies, and the events they bring.      *)
(*                                                                           *)
(* Callers are requests of the API and the loops of the workers: any of them *)
(* may synchronize, process an event or renew a subscription, next to the    *)
(* others.  Every transaction is one step; between two of them, and while    *)
(* the provider is asked, everything else goes on, the claim of an event or  *)
(* of a renewal may end, and the process may die.                            *)
(*                                                                           *)
(* The provider numbers its changes.  A cursor (history id, sync token)      *)
(* stands for such a number, and so do the history id of a Gmail event and   *)
(* the message number of a Calendar one.                                     *)
EXTENDS Naturals, Sequences, FiniteSets

CONSTANTS
  Capabilities,      \* what the grant may be for
  Resources,         \* mails or calendar events
  Callers,
  MaxAttempts,       \* 8, for events and for subscriptions
  MaxSubscriptions,  \* bound: subscriptions of the grant
  MaxChanges,        \* bound: changes at the provider
  MaxEvents,         \* bound: events that are stored
  MaxGeneration,     \* bound: generations of the cursor
  MaxTroubles,       \* bound: failures and crashes
  None

ASSUME CapabilitiesAssumption == Capabilities \subseteq {"email_read", "calendar_read"}
ASSUME LimitsAssumption ==
  /\ MaxAttempts \in Nat \ {0} /\ MaxSubscriptions \in Nat /\ MaxChanges \in Nat
  /\ MaxEvents \in Nat /\ MaxGeneration \in Nat \ {0} /\ MaxTroubles \in Nat
ASSUME NoneAssumption == None \notin Nat

VARIABLES
  capability,  \* what the grant is for
  log,         \* the resource that each change at the provider was about
  provider,    \* what the provider has: the last change of each resource
  grant,       \* the read grant: a grant expires while its row stays active
  cursor,      \* its cursor
  snapshot,    \* what is stored of each resource
  sub,         \* its subscriptions, by generation
  event,       \* the events of a subscription, by the change notified
  call,        \* what each caller is doing
  troubles

provided == <<capability, log, provider>>
stored == <<cursor, snapshot>>
vars == <<capability, log, provider, grant, cursor, snapshot, sub, event, call, troubles>>

Generations == 1..MaxSubscriptions
Numbers == 1..MaxChanges
Absent == [version |-> 0, gone |-> FALSE]
Nothing == [r \in Resources |-> Absent]

\* last: last_event_sequence; renewable: renew_after is set; claimed: claim_until
\* has not passed.
NoSub == [state |-> "none", renewable |-> FALSE, claimed |-> FALSE, attempts |-> 0, last |-> 0]
NoEvent == [state |-> "none", claimed |-> FALSE, attempts |-> 0, evidence |-> {},
            admitted |-> FALSE]

\* by: for whom a caller works; sub, at: its event, or the subscription it has
\* reserved; old: the subscription to be replaced; seen, next, changes: the
\* synchronization under way; changed: the snapshots it has changed.
Idle == [stage |-> "idle", by |-> "none", sub |-> 0, at |-> 0, old |-> 0,
         seen |-> None, next |-> 0, changes |-> Nothing, changed |-> {}]

Init ==
  /\ capability \in Capabilities
  /\ log = <<>>
  /\ provider = Nothing
  /\ grant = "active"
  /\ cursor = [value |-> None, generation |-> 1]
  /\ snapshot = Nothing
  /\ sub = [s \in Generations |-> NoSub]
  /\ event = [s \in Generations |-> [n \in Numbers |-> NoEvent]]
  /\ call = [c \in Callers |-> Idle]
  /\ troubles = 0

Mail == capability = "email_read"
History == Len(log)

\* validate_read_grant_in_session; a revoked grant and a disconnected account
\* are the same to it.
Authorized == grant = "active"

-----------------------------------------------------------------------------
(* The provider *)

\* A mail arrives and may be removed; an entry of a calendar changes, too.
Change(r, gone) ==
  /\ History < MaxChanges
  /\ ~provider[r].gone
  /\ gone => provider[r].version > 0
  /\ Mail /\ ~gone => provider[r].version = 0
  /\ log' = Append(log, r)
  /\ provider' = [provider EXCEPT ![r] = [version |-> History + 1, gone |-> gone]]
  /\ UNCHANGED <<capability, grant, stored, sub, event, call, troubles>>

-----------------------------------------------------------------------------
(* Steps of a caller *)

Goes(c, stage) == call' = [call EXCEPT ![c].stage = stage]
Ends(c) == call' = [call EXCEPT ![c] = Idle]

\* An exception of a synchronization: process_event tells the loss of the
\* authority from other failures, anybody else just gives up.
Stops(c, stage) ==
  call' = [call EXCEPT ![c] =
    IF call[c].by = "event"
    THEN [Idle EXCEPT !.stage = stage, !.by = "event", !.sub = call[c].sub, !.at = call[c].at]
    ELSE Idle]
Revoked(c) == Stops(c, "ignore") /\ UNCHANGED stored
Failed(c) == Stops(c, "fail") /\ UNCHANGED stored
Trouble(c) == troubles < MaxTroubles /\ troubles' = troubles + 1

-----------------------------------------------------------------------------
(* Synchronization: sync *)

\* A request for a synchronization, perhaps a full one, or the synchronization
\* that an event or a renewal calls for: issue_read_access validates the grant,
\* and so does the transaction that reads the cursor.  A full one resets the
\* cursor first and reads it again.
Request(c, full) ==
  /\ call[c] = Idle /\ Authorized
  /\ full => cursor.generation < MaxGeneration
  /\ call' = [call EXCEPT
       ![c].stage = IF full /\ cursor.value # None THEN "reset" ELSE "list",
       ![c].by = "request",
       ![c].seen = IF full THEN None ELSE cursor.value]
  /\ UNCHANGED <<provided, grant, stored, sub, event, troubles>>
Begin(c) ==
  /\ call[c].stage = "sync"
  /\ IF ~Authorized THEN Revoked(c)
     ELSE /\ call' = [call EXCEPT ![c].stage = "list", ![c].seen = cursor.value]
          /\ UNCHANGED stored
  /\ UNCHANGED <<provided, grant, sub, event, troubles>>

\* reset_cursor, because a full read was asked for, or because the provider no
\* longer knows the cursor.
Reset(c) ==
  /\ call[c].stage \in {"reset", "recover"}
  /\ IF ~Authorized THEN Revoked(c)
     ELSE /\ cursor' = [value |-> None, generation |-> cursor.generation + 1]
          /\ call' = [call EXCEPT
               ![c].stage = IF call[c].stage = "reset" THEN "sync" ELSE "list",
               ![c].seen = None]
          /\ UNCHANGED snapshot
  /\ UNCHANGED <<provided, grant, sub, event, troubles>>

\* read_email and read_calendar.  A calendar answers at once.  A mailbox first
\* gives the number up to which it is read, with what has changed since the
\* cursor; a removal gets that number as its version.  The resources are those
\* that one page of the provider's answer can hold (max_items): more changes
\* than that fail the read, and older mails are never read.
Since(seen, r) == seen = None \/ provider[r].version > seen
Listed(seen) ==
  [r \in Resources |->
     IF ~Since(seen, r) THEN Absent
     ELSE IF Mail /\ provider[r].gone THEN [version |-> History, gone |-> TRUE]
     ELSE provider[r]]
List(c) ==
  /\ call[c].stage = "list"
  /\ call' = [call EXCEPT
       ![c].stage = IF Mail THEN "fetch" ELSE "apply",
       ![c].next = History,
       ![c].changes = IF Mail /\ call[c].seen = None THEN Nothing ELSE Listed(call[c].seen)]
  /\ UNCHANGED <<provided, grant, stored, sub, event, troubles>>

\* Then every mail that came is asked for: without a cursor those that are
\* there now; a mail that came since the cursor and is gone fails the read.
Mailbox ==
  [r \in Resources |-> IF provider[r].gone THEN Absent ELSE provider[r]]
Vanished(c) ==
  \E n \in call[c].seen + 1 .. call[c].next :
    provider[log[n]].gone /\ provider[log[n]].version # n
Fetch(c) ==
  /\ call[c].stage = "fetch"
  /\ IF call[c].seen # None /\ Vanished(c) THEN Failed(c)
     ELSE /\ call' = [call EXCEPT
               ![c].stage = "apply",
               ![c].changes = IF call[c].seen = None THEN Mailbox ELSE @]
          /\ UNCHANGED stored
  /\ UNCHANGED <<provided, grant, sub, event, troubles>>

\* The provider does not know the cursor any more, or does not answer.
Invalid(c) ==
  /\ call[c].stage = "list" /\ call[c].seen # None
  /\ cursor.generation < MaxGeneration
  /\ Goes(c, "recover")
  /\ UNCHANGED <<provided, grant, stored, sub, event, troubles>>
ReadFails(c) ==
  /\ call[c].stage \in {"list", "fetch"} /\ Trouble(c)
  /\ Failed(c)
  /\ UNCHANGED <<provided, grant, sub, event>>

\* apply_sync: a version that is not newer than the stored one is ignored.
\* The first form of Permitted is that of an earlier revision of the code, the
\* first form of Current does not compare the cursor, and the first form of
\* Newer does not compare the versions.
PermittedBefore == TRUE
Permitted == Authorized
CurrentAlways(c) == TRUE
Current(c) == cursor.value = call[c].seen
NewerAlways(r, version) == version > 0
Newer(r, version) == version > snapshot[r].version
Changed(c) == {r \in Resources : Newer(r, call[c].changes[r].version)}
Apply(c) ==
  /\ call[c].stage = "apply"
  /\ IF ~Permitted THEN Revoked(c)
     ELSE IF ~Current(c) THEN Failed(c)
     ELSE /\ snapshot' = [r \in Resources |->
                            IF r \in Changed(c) THEN call[c].changes[r] ELSE snapshot[r]]
          /\ cursor' = [cursor EXCEPT !.value = call[c].next]
          /\ IF call[c].by = "event"
             THEN call' = [call EXCEPT ![c] =
                    [Idle EXCEPT !.stage = "bind", !.by = "event", !.sub = call[c].sub,
                                 !.at = call[c].at, !.changed = Changed(c)]]
             ELSE Ends(c)
  /\ UNCHANGED <<provided, grant, sub, event, troubles>>

-----------------------------------------------------------------------------
(* Events: enqueue_gmail_event, enqueue_calendar_event, process_event *)

Live(s) == sub[s].state \in {"pending", "active", "renewing"}
Waiting(s, n) == Live(s) /\ event[s][n].state = "none"
Stored == {e \in Generations \X Numbers : event[e[1]][e[2]].state # "none"}

\* A notification may be late, be overtaken and come again.  Mails are notified
\* to every live subscription of the account, a calendar notifies a channel.
\* The check and the insertion commute with a revocation.
Receive(n, to) ==
  /\ Authorized /\ n <= History
  /\ to # {} /\ Cardinality(Stored) + Cardinality(to) <= MaxEvents
  /\ event' = [s \in Generations |->
       IF s \in to THEN [event[s] EXCEPT ![n].state = "pending"] ELSE event[s]]
  /\ UNCHANGED <<provided, grant, stored, sub, call, troubles>>
ReceiveMail(n) == Mail /\ Receive(n, {s \in Generations : Waiting(s, n)})
ReceiveChange(n, s) == ~Mail /\ Waiting(s, n) /\ Receive(n, {s})

\* claim_events, whose limit is taken to be one.  The first form of the query
\* does not count the attempts.
ClaimableForEver(row) == row.state \in {"pending", "retry", "processing"} /\ ~row.claimed
Claimable(row) ==
  /\ row.state \in {"pending", "retry", "processing"}
  /\ ~row.claimed /\ row.attempts < MaxAttempts
Claim(c, s, n) ==
  /\ call[c] = Idle
  /\ Claimable(event[s][n])
  /\ event' = [event EXCEPT ![s][n].state = "processing", ![s][n].claimed = TRUE,
                            ![s][n].attempts = @ + 1]
  /\ call' = [call EXCEPT ![c].stage = IF event[s][n].attempts = 0 THEN "check" ELSE "sync",
                          ![c].by = "event", ![c].sub = s, ![c].at = n]
  /\ UNCHANGED <<provided, grant, stored, sub, troubles>>

\* event_is_stale, asked at the first attempt only.  The first form takes a
\* missing cursor for a newer one.
StaleUnsynced(s, n) ==
  IF Mail THEN cursor.value = None \/ n <= cursor.value ELSE n <= sub[s].last
Stale(s, n) ==
  IF Mail THEN cursor.value # None /\ n <= cursor.value ELSE n <= sub[s].last
Check(c) ==
  /\ call[c].stage = "check"
  /\ Goes(c, IF Stale(call[c].sub, call[c].at) THEN "ignore" ELSE "sync")
  /\ UNCHANGED <<provided, grant, stored, sub, event, troubles>>

\* bind_event_snapshots
Bind(c) ==
  /\ call[c].stage = "bind"
  /\ event' = [event EXCEPT ![call[c].sub][call[c].at].evidence =
       IF call[c].changed # {} \/ @ = {} THEN call[c].changed ELSE @]
  /\ call' = [call EXCEPT ![c].stage = "consume", ![c].changed = {}]
  /\ UNCHANGED <<provided, grant, stored, sub, troubles>>

\* The automations are told; whether they are able to admit the event is their
\* own matter (AutomationOccurrence).
Consume(c) ==
  /\ call[c].stage = "consume"
  /\ event' = [event EXCEPT ![call[c].sub][call[c].at].admitted = TRUE]
  /\ Goes(c, "finish")
  /\ UNCHANGED <<provided, grant, stored, sub, troubles>>
ConsumerFails(c) ==
  /\ call[c].stage = "consume" /\ Trouble(c)
  /\ Goes(c, "fail")
  /\ UNCHANGED <<provided, grant, stored, sub, event>>

\* finish_event and fail_event ask neither who has claimed the event nor what
\* became of it.
Finish(c) ==
  LET s == call[c].sub
      n == call[c].at IN
  /\ call[c].stage \in {"finish", "ignore"}
  /\ event' = [event EXCEPT ![s][n].state = IF call[c].stage = "ignore" THEN "ignored"
                                             ELSE "processed",
                            ![s][n].claimed = FALSE]
  /\ sub' = IF ~Mail /\ n > sub[s].last THEN [sub EXCEPT ![s].last = n] ELSE sub
  /\ Ends(c)
  /\ UNCHANGED <<provided, grant, stored, troubles>>
Fail(c) ==
  LET s == call[c].sub
      n == call[c].at IN
  /\ call[c].stage = "fail"
  /\ event' = [event EXCEPT ![s][n].state = IF event[s][n].attempts >= MaxAttempts
                                             THEN "failed" ELSE "retry",
                            ![s][n].claimed = FALSE]
  /\ Ends(c)
  /\ UNCHANGED <<provided, grant, stored, sub, troubles>>

-----------------------------------------------------------------------------
(* Subscriptions: subscribe, renew_subscription *)

Made == {s \in Generations : sub[s].state # "none"}
LiveSubs == {s \in Generations : Live(s)}

\* subscribe_connector_read_grant: unless the latest subscription is active.
Subscribe(c) ==
  /\ call[c] = Idle
  /\ \A s \in LiveSubs : (\A t \in LiveSubs : t <= s) => sub[s].state # "active"
  /\ call' = [call EXCEPT ![c].stage = "reserve", ![c].by = "request"]
  /\ UNCHANGED <<provided, grant, stored, sub, event, troubles>>

\* claim_renewals, of a subscription that is due.
Renewable(s) == Live(s) /\ sub[s].renewable /\ sub[s].attempts < MaxAttempts
Renew(c, s) ==
  /\ call[c] = Idle /\ Authorized
  /\ Renewable(s) /\ ~sub[s].claimed
  /\ sub' = [sub EXCEPT ![s].state = "renewing", ![s].claimed = TRUE]
  /\ call' = [call EXCEPT ![c].stage = "reserve", ![c].by = "renewal", ![c].old = s]
  /\ UNCHANGED <<provided, grant, stored, event, troubles>>

\* reserve_subscription: the next generation.
Reserve(c) ==
  /\ call[c].stage = "reserve"
  /\ IF ~Authorized
     THEN /\ IF call[c].by = "renewal" THEN Goes(c, "keep") ELSE Ends(c)
          /\ UNCHANGED sub
     ELSE \E s \in Generations :
            /\ s \notin Made /\ \A t \in Generations : t < s => t \in Made
            /\ sub' = [sub EXCEPT ![s].state = "pending"]
            /\ call' = [call EXCEPT ![c].stage = "watch", ![c].sub = s]
  /\ UNCHANGED <<provided, grant, stored, event, troubles>>

\* The provider starts the watch, or does not.
WatchFails(c) ==
  /\ call[c].stage = "watch" /\ Trouble(c)
  /\ Goes(c, "drop")
  /\ UNCHANGED <<provided, grant, stored, sub, event>>

\* activate_subscription, whatever became of the two meanwhile.  The first form
\* does not make the new one renewable.
WatchedOnce(row) == [row EXCEPT !.state = "active", !.claimed = FALSE]
Watched(row) == [row EXCEPT !.state = "active", !.claimed = FALSE, !.renewable = TRUE]
Replaced(row) == [row EXCEPT !.state = "superseded", !.claimed = FALSE]
Activate(c) ==
  /\ call[c].stage = "watch"
  /\ sub' = [s \in Generations |->
       IF s = call[c].sub THEN Watched(sub[s])
       ELSE IF s = call[c].old THEN Replaced(sub[s]) ELSE sub[s]]
  /\ IF call[c].by = "renewal"
     THEN call' = [call EXCEPT ![c] = [Idle EXCEPT !.stage = "sync", !.by = "renewal"]]
     ELSE Ends(c)
  /\ UNCHANGED <<provided, grant, stored, event, troubles>>

\* subscription_failed: for the one just reserved, which is tried again unless
\* it was to replace another; then for the other one.
Unwatched(row, retry) ==
  LET again == retry /\ row.attempts + 1 < MaxAttempts
  IN [row EXCEPT !.attempts = @ + 1, !.claimed = FALSE, !.renewable = again,
                 !.state = IF again THEN "pending" ELSE "failed"]
Drop(c) ==
  /\ call[c].stage = "drop"
  /\ sub' = [sub EXCEPT ![call[c].sub] = Unwatched(@, call[c].by = "request")]
  /\ IF call[c].by = "renewal" THEN Goes(c, "keep") ELSE Ends(c)
  /\ UNCHANGED <<provided, grant, stored, event, troubles>>
Keep(c) ==
  /\ call[c].stage = "keep"
  /\ sub' = [sub EXCEPT ![call[c].old] = Unwatched(@, TRUE)]
  /\ Ends(c)
  /\ UNCHANGED <<provided, grant, stored, event, troubles>>

-----------------------------------------------------------------------------
(* The end of the authority, failures, and time *)

Closed(row) ==
  IF row.state \in {"pending", "active", "renewing"}
  THEN [row EXCEPT !.state = "revoked", !.claimed = FALSE] ELSE row

\* revoke: the subscriptions first, then the grant.
Revoke(c) ==
  /\ call[c] = Idle /\ grant # "revoked"
  /\ sub' = [s \in Generations |-> Closed(sub[s])]
  /\ call' = [call EXCEPT ![c].stage = "revoke", ![c].by = "request"]
  /\ UNCHANGED <<provided, grant, stored, event, troubles>>
RevokeGrant(c) ==
  /\ call[c].stage = "revoke"
  /\ grant' = "revoked"
  /\ Ends(c)
  /\ UNCHANGED <<provided, stored, sub, event, troubles>>

\* _disconnect
Disconnect ==
  /\ grant # "revoked"
  /\ grant' = "revoked"
  /\ sub' = [s \in Generations |-> Closed(sub[s])]
  /\ UNCHANGED <<provided, stored, event, call, troubles>>

Expire ==
  /\ grant = "active"
  /\ grant' = "expired"
  /\ UNCHANGED <<provided, stored, sub, event, call, troubles>>

\* The two minutes of a claim are over, whether or not its caller lives.
EventLapses(s, n) ==
  /\ event[s][n].claimed
  /\ event' = [event EXCEPT ![s][n].claimed = FALSE]
  /\ UNCHANGED <<provided, grant, stored, sub, call, troubles>>
RenewalLapses(s) ==
  /\ sub[s].claimed
  /\ sub' = [sub EXCEPT ![s].claimed = FALSE]
  /\ UNCHANGED <<provided, grant, stored, event, call, troubles>>

Crash(c) ==
  /\ call[c] # Idle /\ Trouble(c)
  /\ Ends(c)
  /\ UNCHANGED <<provided, grant, stored, sub, event>>

SyncStep(c) ==
  \/ \E full \in BOOLEAN : Request(c, full)
  \/ Begin(c) \/ Reset(c) \/ List(c) \/ Fetch(c) \/ Invalid(c) \/ ReadFails(c) \/ Apply(c)
EventStep(c) ==
  \/ \E s \in Generations, n \in Numbers : Claim(c, s, n)
  \/ Check(c) \/ Bind(c) \/ Consume(c) \/ ConsumerFails(c) \/ Finish(c) \/ Fail(c)
WatchStep(c) ==
  \/ Subscribe(c) \/ (\E s \in Generations : Renew(c, s))
  \/ Reserve(c) \/ WatchFails(c) \/ Activate(c) \/ Drop(c) \/ Keep(c)
Environment ==
  \/ \E r \in Resources, gone \in BOOLEAN : Change(r, gone)
  \/ \E n \in Numbers : ReceiveMail(n) \/ \E s \in Generations : ReceiveChange(n, s)
  \/ \E s \in Generations, n \in Numbers : EventLapses(s, n)
  \/ \E s \in Generations : RenewalLapses(s)
  \/ Disconnect \/ Expire

Next ==
  \/ \E c \in Callers :
       SyncStep(c) \/ EventStep(c) \/ WatchStep(c) \/ Revoke(c) \/ RevokeGrant(c) \/ Crash(c)
  \/ Environment

Spec == Init /\ [][Next]_vars

-----------------------------------------------------------------------------
(* Properties *)

StoredType == [version : Nat, gone : BOOLEAN]
Stages == {"idle", "sync", "reset", "recover", "list", "fetch", "apply", "bind",
           "consume", "finish", "check", "ignore", "fail", "reserve", "watch", "drop",
           "keep", "revoke"}
CallType ==
  [stage : Stages, by : {"none", "request", "event", "renewal"},
   sub : Generations \union {0}, at : Numbers \union {0}, old : Generations \union {0},
   seen : Nat \union {None}, next : Nat, changes : [Resources -> StoredType],
   changed : SUBSET Resources]
SubType ==
  [state : {"none", "pending", "active", "renewing", "superseded", "failed", "revoked"},
   renewable : BOOLEAN, claimed : BOOLEAN, attempts : Nat, last : Numbers \union {0}]
EventType ==
  [state : {"none", "pending", "processing", "retry", "processed", "ignored", "failed"},
   claimed : BOOLEAN, attempts : 0..MaxAttempts, evidence : SUBSET Resources,
   admitted : BOOLEAN]

TypeOK ==
  /\ capability \in Capabilities
  /\ log \in Seq(Resources)
  /\ provider \in [Resources -> StoredType]
  /\ grant \in {"active", "expired", "revoked"}
  /\ cursor \in [value : Nat \union {None}, generation : Nat \ {0}]
  /\ snapshot \in [Resources -> StoredType]
  /\ sub \in [Generations -> SubType]
  /\ event \in [Generations -> [Numbers -> EventType]]
  /\ call \in [Callers -> CallType]
  /\ troubles \in 0..MaxTroubles

\* Change n is in what is stored.  A mail that was removed need not be; if it is
\* stored, then as removed, unless a full read replaced the cursor: that lists
\* the mails that are there, so a removal meanwhile goes unnoticed.
Reflected(n) ==
  LET r == log[n] IN
  \/ snapshot[r].version >= n
  \/ /\ Mail /\ provider[r].gone
     /\ snapshot[r].version = 0 \/ n < provider[r].version \/ cursor.generation > 1

\* "Never advance a history cursor while omitting unread changes": every change
\* up to the cursor is stored, although the mailbox changes while it is read,
\* synchronizations overtake each other, and the cursor is reset between the
\* steps of one (read_email, apply_sync).
CursorIsHonest ==
  cursor.value # None => \A n \in 1..History : n <= cursor.value => Reflected(n)

\* As long as the grant is good, an event that is settled, be it as processed or
\* as stale, brought what it was about into the store, and if it is said to be
\* processed the automations were told: late, repeated and overtaking events,
\* lapsed claims, crashes and replaced subscriptions lose nothing
\* (process_event, event_is_stale, finish_event).
SettledIsSynced ==
  \A s \in Generations, n \in Numbers :
    /\ event[s][n].state = "processed" => event[s][n].admitted
    /\ event[s][n].state \in {"processed", "ignored"} /\ Authorized =>
         \A m \in 1..n : Reflected(m)

\* What finishes late takes back nothing: what is stored only gets newer, and
\* the cursor goes back only when it is reset (apply_sync).
NeverGoesBack ==
  [][/\ \A r \in Resources : snapshot'[r].version >= snapshot[r].version
     /\ cursor.value # None =>
          \/ cursor'.value = None /\ cursor'.generation > cursor.generation
          \/ cursor'.value # None /\ cursor'.value >= cursor.value]_vars

\* "Retry after cursor advancement preserves the first non-empty evidence set,
\* preventing a recovered event from silently widening to unrelated mailbox
\* snapshots": what the code does not do when the retry brings other changes
\* (bind_event_snapshots).
EvidenceIsKept ==
  [][\A s \in Generations, n \in Numbers :
       event[s][n].evidence # {} => event'[s][n].evidence = event[s][n].evidence]_vars

\* Provider calls in flight cannot be recalled, "but their returned data must
\* fail current-authority validation before persistence": from the moment the
\* grant is revoked, expires or loses its account, nothing is stored for it.
RevokedIsFrozen == [][~Authorized => ~Authorized' /\ UNCHANGED stored]_vars

\* However renewals overlap, fail, or are lost, a subscription that was replaced
\* leaves one behind that is live and will be renewed in turn, unless the
\* subscriptions were revoked or all attempts of one failed (subscribe,
\* renew_subscription, claim_renewals).
WatchIsKept ==
  (\E s \in Generations : sub[s].state = "superseded") =>
    \/ \E s \in Generations : Renewable(s)
    \/ \E s \in Generations :
         sub[s].state = "revoked" \/ sub[s].attempts >= MaxAttempts
====
