---- MODULE ConnectorReadsProofs ----
(* What ConnectorReads promises, for any number of resources, callers,       *)
(* changes, events and subscriptions.                                        *)
EXTENDS ConnectorReads, TLAPS

-----------------------------------------------------------------------------
(* Types *)

StoreOK ==
  /\ capability \in Capabilities
  /\ log \in Seq(Resources)
  /\ provider \in [Resources -> StoredType]
  /\ grant \in {"active", "expired", "revoked"}
  /\ cursor \in [value : Nat \union {None}, generation : Nat \ {0}]
  /\ snapshot \in [Resources -> StoredType]
  /\ troubles \in 0..MaxTroubles
SubsOK == sub \in [Generations -> SubType]
EventsOK == event \in [Generations -> [Numbers -> EventType]]
CallsOK == call \in [Callers -> CallType]

LEMMA TypeParts == TypeOK <=> StoreOK /\ SubsOK /\ EventsOK /\ CallsOK
BY DEF TypeOK, StoreOK, SubsOK, EventsOK, CallsOK

\* A caller that gets a sound record leaves the callers sound.
LEMMA CallSet ==
  ASSUME CallsOK, NEW c \in Callers, NEW k \in CallType, call' = [call EXCEPT ![c] = k]
  PROVE  CallsOK'
BY DEF CallsOK

LEMMA NothingTyped == Nothing \in [Resources -> StoredType]
BY DEF Nothing, Absent, StoredType

LEMMA IdleTyped == Idle \in CallType
BY NothingTyped DEF Idle, CallType, Stages

LEMMA GoesTypes ==
  ASSUME CallsOK, NEW c \in Callers, NEW stage \in Stages, Goes(c, stage)
  PROVE  CallsOK'
<1>1. call' = [call EXCEPT ![c] = [call[c] EXCEPT !.stage = stage]]
  BY DEF Goes
<1>2. [call[c] EXCEPT !.stage = stage] \in CallType
  BY DEF CallsOK, CallType
<1> QED BY <1>1, <1>2, CallSet

LEMMA EndsTypes ==
  ASSUME CallsOK, NEW c \in Callers, Ends(c)
  PROVE  CallsOK'
BY IdleTyped, CallSet DEF Ends

LEMMA StopsTypes ==
  ASSUME CallsOK, NEW c \in Callers, NEW stage \in Stages, Stops(c, stage)
  PROVE  CallsOK'
<1>1. [Idle EXCEPT !.stage = stage, !.by = "event", !.sub = call[c].sub, !.at = call[c].at]
        \in CallType
  BY NothingTyped DEF Idle, CallType, CallsOK
<1> QED BY <1>1, IdleTyped, CallSet DEF Stops

\* A step of a synchronization keeps the types.
LEMMA SyncTypes ==
  ASSUME TypeOK, NEW c \in Callers, SyncStep(c)
  PROVE  TypeOK'
<1>0. StoreOK /\ SubsOK /\ EventsOK /\ CallsOK
  BY TypeParts
<1>1. SubsOK' /\ EventsOK'
  BY <1>0 DEF SubsOK, EventsOK, SyncStep, Request, Begin, Reset, List, Fetch, Invalid,
              ReadFails, Apply
<1> SUFFICES StoreOK' /\ CallsOK'
  BY <1>1 DEF TypeOK, StoreOK, SubsOK, EventsOK, CallsOK
<1> DEFINE k == call[c]
<1>k. k \in CallType
  BY <1>0 DEF CallsOK
<1>2. ASSUME NEW full \in BOOLEAN, Request(c, full)
      PROVE  StoreOK' /\ CallsOK'
  <2> DEFINE stage == IF full /\ cursor.value # None THEN "reset" ELSE "list"
             seen == IF full THEN None ELSE cursor.value
  <2>1. call' = [call EXCEPT ![c] = [k EXCEPT !.stage = stage, !.by = "request", !.seen = seen]]
    BY <1>2 DEF Request
  <2>2. [k EXCEPT !.stage = stage, !.by = "request", !.seen = seen] \in CallType
    BY ZenonT(30), <1>0, <1>k DEF StoreOK, CallType, Stages
  <2>3. StoreOK'
    BY <1>0, <1>2 DEF Request, StoreOK, provided, stored
  <2> QED BY <1>0, <2>1, <2>2, <2>3, CallSet
<1>3. CASE Begin(c)
  <2>1. StoreOK'
    BY <1>0, <1>3 DEF Begin, Revoked, StoreOK, provided, stored
  <2>2. CASE ~Authorized
    BY <1>0, <1>3, <2>1, <2>2, StopsTypes DEF Begin, Revoked, Stages
  <2>3. CASE Authorized
    <3>1. call' = [call EXCEPT ![c] = [k EXCEPT !.stage = "list", !.seen = cursor.value]]
      BY <1>3, <2>3 DEF Begin
    <3>2. [k EXCEPT !.stage = "list", !.seen = cursor.value] \in CallType
      BY <1>0, <1>k DEF StoreOK, CallType, Stages
    <3> QED BY <1>0, <2>1, <3>1, <3>2, CallSet
  <2> QED BY <2>1, <2>2, <2>3
<1>4. CASE Reset(c)
  <2>1. StoreOK'
    BY <1>0, <1>4 DEF Reset, Revoked, StoreOK, provided, stored
  <2>2. CASE ~Authorized
    BY <1>0, <1>4, <2>1, <2>2, StopsTypes DEF Reset, Revoked, Stages
  <2>3. CASE Authorized
    <3> DEFINE stage == IF k.stage = "reset" THEN "sync" ELSE "list"
    <3>1. call' = [call EXCEPT ![c] = [k EXCEPT !.stage = stage, !.seen = None]]
      BY <1>4, <2>3 DEF Reset
    <3>2. stage \in Stages
      BY DEF Stages
    <3> HIDE DEF stage
    <3>3. [k EXCEPT !.stage = stage, !.seen = None] \in CallType
      BY <1>k, <3>2 DEF CallType
    <3> QED BY <1>0, <2>1, <3>1, <3>3, CallSet
  <2> QED BY <2>1, <2>2, <2>3
<1>5. CASE List(c)
  <2>1. StoreOK'
    BY <1>0, <1>5 DEF List, StoreOK, provided, stored
  <2> DEFINE stage == IF Mail THEN "fetch" ELSE "apply"
             changes == IF Mail /\ k.seen = None THEN Nothing ELSE Listed(k.seen)
  <2>2. History \in Nat
    BY <1>0 DEF StoreOK, History
  <2>3. Listed(k.seen) \in [Resources -> StoredType]
    BY <1>0, <2>2 DEF StoreOK, StoredType, Listed, Absent
  <2>4. call' = [call EXCEPT ![c] = [k EXCEPT !.stage = stage, !.next = History,
                                              !.changes = changes]]
    BY <1>5 DEF List
  <2>5. [k EXCEPT !.stage = stage, !.next = History, !.changes = changes] \in CallType
    BY ZenonT(30), <1>k, <2>2, <2>3, NothingTyped DEF CallType, Stages
  <2> QED BY <1>0, <2>1, <2>4, <2>5, CallSet
<1>6. CASE Fetch(c)
  <2>1. StoreOK'
    BY <1>0, <1>6 DEF Fetch, Failed, StoreOK, provided, stored
  <2>2. CASE k.seen # None /\ Vanished(c)
    BY <1>0, <1>6, <2>1, <2>2, StopsTypes DEF Fetch, Failed, Stages
  <2>3. CASE ~(k.seen # None /\ Vanished(c))
    <3> DEFINE changes == IF k.seen = None THEN Mailbox ELSE k.changes
    <3>1. call' = [call EXCEPT ![c] = [k EXCEPT !.stage = "apply", !.changes = changes]]
      BY <1>6, <2>3 DEF Fetch
    <3>2. Mailbox \in [Resources -> StoredType]
      BY <1>0 DEF StoreOK, StoredType, Mailbox, Absent
    <3>3. [k EXCEPT !.stage = "apply", !.changes = changes] \in CallType
      BY <1>k, <3>2 DEF CallType, Stages
    <3> QED BY <1>0, <2>1, <3>1, <3>3, CallSet
  <2> QED BY <2>1, <2>2, <2>3
<1>7. CASE Invalid(c) \/ ReadFails(c)
  <2>1. StoreOK'
    BY <1>0, <1>7, LimitsAssumption
    DEF Invalid, ReadFails, Failed, Trouble, StoreOK, provided, stored
  <2> QED BY <1>0, <1>7, <2>1, GoesTypes, StopsTypes DEF Invalid, ReadFails, Failed, Stages
<1>8. CASE Apply(c)
  <2>1. StoreOK'
    BY <1>0, <1>8, <1>k DEF Apply, Revoked, Failed, StoreOK, CallType, provided, stored
  <2>2. CASE ~Permitted \/ ~Current(c)
    BY <1>0, <1>8, <2>1, <2>2, StopsTypes DEF Apply, Revoked, Failed, Stages
  <2>3. CASE Permitted /\ Current(c)
    <3> DEFINE to == [Idle EXCEPT !.stage = "bind", !.by = "event", !.sub = k.sub,
                                  !.at = k.at, !.changed = Changed(c)]
    <3>1. to \in CallType
      BY <1>k, NothingTyped DEF Idle, CallType, Stages, Changed
    <3>2. call' = [call EXCEPT ![c] = to] \/ Ends(c)
      BY <1>8, <2>3 DEF Apply
    <3> QED BY <1>0, <2>1, <3>1, <3>2, CallSet, EndsTypes
  <2> QED BY <2>1, <2>2, <2>3
<1> QED BY <1>2, <1>3, <1>4, <1>5, <1>6, <1>7, <1>8 DEF SyncStep

\* An event, or a subscription, that gets a sound record leaves them all sound.
LEMMA EventSet ==
  ASSUME EventsOK, NEW s, NEW n, NEW e,
         s \in Generations /\ n \in Numbers => e \in EventType,
         event' = [event EXCEPT ![s] = [event[s] EXCEPT ![n] = e]]
  PROVE  EventsOK'
BY DEF EventsOK

LEMMA SubSet ==
  ASSUME SubsOK, NEW s, NEW row, s \in Generations => row \in SubType,
         sub' = [sub EXCEPT ![s] = row]
  PROVE  SubsOK'
BY DEF SubsOK

\* The changes that events and subscriptions undergo.
LEMMA AttemptTyped ==
  ASSUME NEW e \in EventType, e.attempts < MaxAttempts
  PROVE  [e EXCEPT !.state = "processing", !.claimed = TRUE, !.attempts = e.attempts + 1]
           \in EventType
<1>1. e.attempts + 1 \in 0..MaxAttempts
  BY LimitsAssumption DEF EventType
<1> QED BY <1>1 DEF EventType

LEMMA RowTyped ==
  ASSUME NEW row \in SubType, NEW retry \in BOOLEAN
  PROVE  Closed(row) \in SubType /\ Unwatched(row, retry) \in SubType
<1>1. Closed(row) \in SubType
  BY DEF SubType, Closed
<1>2. Unwatched(row, retry) \in SubType
  <2> DEFINE again == retry /\ row.attempts + 1 < MaxAttempts
             state == IF again THEN "pending" ELSE "failed"
  <2>1. row.attempts + 1 \in Nat
    BY DEF SubType
  <2>2. [row EXCEPT !.attempts = row.attempts + 1, !.claimed = FALSE, !.renewable = again,
                    !.state = state] \in SubType
    BY <2>1 DEF SubType
  <2> QED BY <2>2 DEF Unwatched
<1> QED BY <1>1, <1>2

LEMMA StoreSame ==
  ASSUME StoreOK, UNCHANGED <<provided, grant, stored>>,
         troubles' = troubles \/ (troubles < MaxTroubles /\ troubles' = troubles + 1)
  PROVE  StoreOK'
BY LimitsAssumption DEF StoreOK, provided, stored

\* A step of the processing of an event keeps the types.
LEMMA EventTypes ==
  ASSUME TypeOK, NEW c \in Callers, EventStep(c)
  PROVE  TypeOK'
<1>0. StoreOK /\ SubsOK /\ EventsOK /\ CallsOK
  BY TypeParts
<1>1. StoreOK'
  BY ZenonT(30), <1>0, StoreSame
  DEF EventStep, Claim, Check, Bind, Consume, ConsumerFails, Trouble, Finish, Fail
<1> SUFFICES SubsOK' /\ EventsOK' /\ CallsOK'
  BY <1>1 DEF TypeOK, StoreOK, SubsOK, EventsOK, CallsOK
<1> DEFINE k == call[c]
           e == event[k.sub][k.at]
<1>k. k \in CallType /\ (k.sub \in Generations /\ k.at \in Numbers => e \in EventType)
  BY <1>0 DEF CallsOK, EventsOK
<1>2. ASSUME NEW s \in Generations, NEW n \in Numbers, Claim(c, s, n)
      PROVE  SubsOK' /\ EventsOK' /\ CallsOK'
  <2> DEFINE f == [event[s][n] EXCEPT !.state = "processing", !.claimed = TRUE,
                                      !.attempts = event[s][n].attempts + 1]
             stage == IF event[s][n].attempts = 0 THEN "check" ELSE "sync"
             to == [k EXCEPT !.stage = stage, !.by = "event", !.sub = s, !.at = n]
  <2>1. event[s][n] \in EventType /\ event[s][n].attempts < MaxAttempts
    BY <1>0, <1>2 DEF Claim, Claimable, EventsOK
  <2>2. f \in EventType
    BY <2>1, AttemptTyped
  <2>3. event' = [event EXCEPT ![s] = [event[s] EXCEPT ![n] = f]]
    BY <1>2 DEF Claim
  <2>4. to \in CallType
    BY <1>k DEF CallType, Stages
  <2>5. call' = [call EXCEPT ![c] = to]
    BY <1>2 DEF Claim
  <2>6. SubsOK'
    BY <1>0, <1>2 DEF Claim, SubsOK
  <2>7. EventsOK'
    BY <1>0, <2>2, <2>3, EventSet
  <2> QED BY <1>0, <2>4, <2>5, <2>6, <2>7, CallSet
<1>3. CASE Check(c)
  <2>1. SubsOK' /\ EventsOK'
    BY <1>0, <1>3 DEF Check, SubsOK, EventsOK
  <2> QED BY <1>0, <1>3, <2>1, GoesTypes DEF Check, Stages
<1>4. CASE Bind(c)
  <2> DEFINE evidence == IF k.changed # {} \/ e.evidence = {} THEN k.changed ELSE e.evidence
             f == [e EXCEPT !.evidence = evidence]
             to == [k EXCEPT !.stage = "consume", !.changed = {}]
  <2>1. k.sub \in Generations /\ k.at \in Numbers => f \in EventType
    BY <1>k DEF EventType, CallType
  <2>2. event' = [event EXCEPT ![k.sub] = [event[k.sub] EXCEPT ![k.at] = f]]
    BY <1>4 DEF Bind
  <2>3. EventsOK'
    BY <1>0, <2>1, <2>2, EventSet
  <2>4. to \in CallType
    BY <1>k DEF CallType, Stages
  <2>5. call' = [call EXCEPT ![c] = to]
    BY <1>4 DEF Bind
  <2>6. SubsOK'
    BY <1>0, <1>4 DEF Bind, SubsOK
  <2> QED BY <1>0, <2>3, <2>4, <2>5, <2>6, CallSet
<1>5. CASE Consume(c) \/ ConsumerFails(c)
  <2> DEFINE f == [e EXCEPT !.admitted = TRUE]
  <2>1. k.sub \in Generations /\ k.at \in Numbers => f \in EventType
    BY <1>k DEF EventType
  <2>2. \/ event' = [event EXCEPT ![k.sub] = [event[k.sub] EXCEPT ![k.at] = f]]
        \/ event' = event
    BY <1>5 DEF Consume, ConsumerFails
  <2>3. EventsOK'
    <3>1. CASE event' = event
      BY <1>0, <3>1 DEF EventsOK
    <3> QED BY <1>0, <2>1, <2>2, <3>1, EventSet
  <2>4. SubsOK'
    BY <1>0, <1>5 DEF Consume, ConsumerFails, SubsOK
  <2> QED BY <1>0, <1>5, <2>3, <2>4, GoesTypes DEF Consume, ConsumerFails, Stages
<1>6. CASE Finish(c)
  <2> DEFINE state == IF k.stage = "ignore" THEN "ignored" ELSE "processed"
             f == [e EXCEPT !.state = state, !.claimed = FALSE]
             row == [sub[k.sub] EXCEPT !.last = k.at]
  <2>1. k.sub \in Generations /\ k.at \in Numbers => f \in EventType
    BY <1>k DEF EventType
  <2>2. event' = [event EXCEPT ![k.sub] = [event[k.sub] EXCEPT ![k.at] = f]]
    BY <1>6 DEF Finish
  <2>3. EventsOK'
    BY <1>0, <2>1, <2>2, EventSet
  <2>4. k.sub \in Generations => row \in SubType
    BY <1>0, <1>k DEF SubsOK, SubType, CallType
  <2>5. sub' = [sub EXCEPT ![k.sub] = row] \/ sub' = sub
    BY <1>6 DEF Finish
  <2>6. SubsOK'
    <3>1. CASE sub' = sub
      BY <1>0, <3>1 DEF SubsOK
    <3> QED BY <1>0, <2>4, <2>5, <3>1, SubSet
  <2> QED BY <1>0, <1>6, <2>3, <2>6, EndsTypes DEF Finish
<1>7. CASE Fail(c)
  <2> DEFINE state == IF e.attempts >= MaxAttempts THEN "failed" ELSE "retry"
             f == [e EXCEPT !.state = state, !.claimed = FALSE]
  <2>1. k.sub \in Generations /\ k.at \in Numbers => f \in EventType
    BY <1>k DEF EventType
  <2>2. event' = [event EXCEPT ![k.sub] = [event[k.sub] EXCEPT ![k.at] = f]]
    BY <1>7 DEF Fail
  <2>3. EventsOK'
    BY <1>0, <2>1, <2>2, EventSet
  <2>4. SubsOK'
    BY <1>0, <1>7 DEF Fail, SubsOK
  <2> QED BY <1>0, <1>7, <2>3, <2>4, EndsTypes DEF Fail
<1> QED BY <1>2, <1>3, <1>4, <1>5, <1>6, <1>7 DEF EventStep

\* A step that makes or renews a subscription keeps the types.
LEMMA WatchTypes ==
  ASSUME TypeOK, NEW c \in Callers, WatchStep(c)
  PROVE  TypeOK'
<1>0. StoreOK /\ SubsOK /\ EventsOK /\ CallsOK
  BY TypeParts
<1>1. StoreOK' /\ EventsOK'
  <2>1. StoreOK'
    BY <1>0, StoreSame
    DEF WatchStep, Subscribe, Renew, Reserve, WatchFails, Trouble, Activate, Drop, Keep
  <2>2. event' = event
    BY DEF WatchStep, Subscribe, Renew, Reserve, WatchFails, Activate, Drop, Keep
  <2> QED BY <1>0, <2>1, <2>2 DEF EventsOK
<1> SUFFICES SubsOK' /\ CallsOK'
  BY <1>1 DEF TypeOK, StoreOK, SubsOK, EventsOK, CallsOK
<1> DEFINE k == call[c]
<1>k. k \in CallType
  BY <1>0 DEF CallsOK
<1>2. CASE Subscribe(c)
  <2>1. call' = [call EXCEPT ![c] = [k EXCEPT !.stage = "reserve", !.by = "request"]]
    BY <1>2 DEF Subscribe
  <2>2. [k EXCEPT !.stage = "reserve", !.by = "request"] \in CallType
    BY <1>k DEF CallType, Stages
  <2>3. SubsOK'
    BY <1>0, <1>2 DEF Subscribe, SubsOK
  <2> QED BY <1>0, <2>1, <2>2, <2>3, CallSet
<1>3. ASSUME NEW s \in Generations, Renew(c, s)
      PROVE  SubsOK' /\ CallsOK'
  <2> DEFINE to == [k EXCEPT !.stage = "reserve", !.by = "renewal", !.old = s]
             row == [sub[s] EXCEPT !.state = "renewing", !.claimed = TRUE]
  <2>1. call' = [call EXCEPT ![c] = to] /\ sub' = [sub EXCEPT ![s] = row]
    BY <1>3 DEF Renew
  <2>2. to \in CallType
    BY <1>k DEF CallType, Stages
  <2>3. row \in SubType
    BY <1>0 DEF SubsOK, SubType
  <2> QED BY <1>0, <2>1, <2>2, <2>3, CallSet, SubSet
<1>4. CASE Reserve(c)
  <2>1. CASE ~Authorized
    <3>1. SubsOK'
      BY <1>0, <1>4, <2>1 DEF Reserve, SubsOK
    <3> QED BY <1>0, <1>4, <2>1, <3>1, GoesTypes, EndsTypes DEF Reserve, Stages
  <2>2. CASE Authorized
    <3>1. PICK s \in Generations :
            /\ sub' = [sub EXCEPT ![s].state = "pending"]
            /\ call' = [call EXCEPT ![c].stage = "watch", ![c].sub = s]
      BY <1>4, <2>2 DEF Reserve
    <3> DEFINE to == [k EXCEPT !.stage = "watch", !.sub = s]
               row == [sub[s] EXCEPT !.state = "pending"]
    <3>2. call' = [call EXCEPT ![c] = to] /\ sub' = [sub EXCEPT ![s] = row]
      BY <3>1
    <3>3. to \in CallType
      BY <1>k DEF CallType, Stages
    <3>4. row \in SubType
      BY <1>0 DEF SubsOK, SubType
    <3> QED BY <1>0, <3>2, <3>3, <3>4, CallSet, SubSet
  <2> QED BY <2>1, <2>2
<1>5. CASE WatchFails(c)
  <2>1. SubsOK'
    BY <1>0, <1>5 DEF WatchFails, SubsOK
  <2> QED BY <1>0, <1>5, <2>1, GoesTypes DEF WatchFails, Stages
<1>6. CASE Activate(c)
  <2>1. SubsOK'
    BY ZenonT(30), <1>0, <1>6 DEF Activate, SubsOK, SubType, Watched, Replaced
  <2> DEFINE to == [Idle EXCEPT !.stage = "sync", !.by = "renewal"]
  <2>2. to \in CallType
    BY NothingTyped DEF Idle, CallType, Stages
  <2>3. call' = [call EXCEPT ![c] = to] \/ Ends(c)
    BY <1>6 DEF Activate
  <2> QED BY <1>0, <2>1, <2>2, <2>3, CallSet, EndsTypes
<1>7. CASE Drop(c) \/ Keep(c)
  <2>1. \A s \in Generations, again \in BOOLEAN : Unwatched(sub[s], again) \in SubType
    BY <1>0, RowTyped DEF SubsOK
  <2>2. \/ sub' = [sub EXCEPT ![k.sub] = Unwatched(sub[k.sub], k.by = "request")]
        \/ sub' = [sub EXCEPT ![k.old] = Unwatched(sub[k.old], TRUE)]
    BY <1>7 DEF Drop, Keep
  <2>3. SubsOK'
    BY <1>0, <2>1, <2>2, SubSet
  <2> QED BY <1>0, <1>7, <2>3, GoesTypes, EndsTypes DEF Drop, Keep, Stages
<1> QED BY <1>2, <1>3, <1>4, <1>5, <1>6, <1>7 DEF WatchStep

\* The end of the authority, the loss of a caller and the environment, too.
LEMMA OtherTypes ==
  ASSUME TypeOK, NEW c \in Callers, Revoke(c) \/ RevokeGrant(c) \/ Crash(c)
  PROVE  TypeOK'
<1>0. StoreOK /\ SubsOK /\ EventsOK /\ CallsOK
  BY TypeParts
<1>1. StoreOK' /\ EventsOK' /\ SubsOK'
  <2>1. StoreOK'
    <3>1. CASE RevokeGrant(c)
      BY <1>0, <3>1 DEF RevokeGrant, StoreOK, provided, stored
    <3> QED BY <1>0, <3>1, StoreSame DEF Revoke, Crash, Trouble
  <2>2. event' = event
    BY DEF Revoke, RevokeGrant, Crash
  <2>3. sub' = sub \/ sub' = [s \in Generations |-> Closed(sub[s])]
    BY DEF Revoke, RevokeGrant, Crash
  <2> QED BY <1>0, <2>1, <2>2, <2>3, RowTyped DEF EventsOK, SubsOK
<1>2. CASE Revoke(c)
  <2>1. call' = [call EXCEPT ![c] = [call[c] EXCEPT !.stage = "revoke", !.by = "request"]]
    BY <1>2 DEF Revoke
  <2>0. call[c] \in CallType
    BY <1>0 DEF CallsOK
  <2>2. [call[c] EXCEPT !.stage = "revoke", !.by = "request"] \in CallType
    BY <2>0 DEF CallType, Stages
  <2>3. CallsOK'
    BY <1>0, <2>1, <2>2, CallSet
  <2> QED BY <1>1, <2>3 DEF TypeOK, StoreOK, SubsOK, EventsOK, CallsOK
<1>3. CASE RevokeGrant(c) \/ Crash(c)
  <2>1. CallsOK'
    BY <1>0, <1>3, EndsTypes DEF RevokeGrant, Crash
  <2> QED BY <1>1, <2>1 DEF TypeOK, StoreOK, SubsOK, EventsOK, CallsOK
<1> QED BY <1>2, <1>3

LEMMA EnvironmentTypes ==
  ASSUME TypeOK, Environment
  PROVE  TypeOK'
<1>0. StoreOK /\ SubsOK /\ EventsOK /\ CallsOK
  BY TypeParts
<1>1. CallsOK'
  BY <1>0 DEF Environment, CallsOK, Change, ReceiveMail, ReceiveChange, Receive, EventLapses,
              RenewalLapses, Disconnect, Expire
<1> SUFFICES StoreOK' /\ SubsOK' /\ EventsOK'
  BY <1>1 DEF TypeOK, StoreOK, SubsOK, EventsOK, CallsOK
<1>2. ASSUME NEW r \in Resources, NEW gone \in BOOLEAN, Change(r, gone)
      PROVE  StoreOK' /\ SubsOK' /\ EventsOK'
  BY <1>0, <1>2 DEF StoreOK, SubsOK, EventsOK, StoredType, Change, History, stored
<1>3. ASSUME NEW n \in Numbers, NEW to, Receive(n, to)
      PROVE  StoreOK' /\ SubsOK' /\ EventsOK'
  <2> DEFINE come(s) == [event[s][n] EXCEPT !.state = "pending"]
  <2>1. ASSUME NEW s \in Generations
        PROVE  [event[s] EXCEPT ![n] = come(s)] \in [Numbers -> EventType]
    <3>1. event[s][n] \in EventType
      BY <1>0 DEF EventsOK
    <3>2. come(s) \in EventType
      BY <3>1 DEF EventType
    <3> QED BY <1>0, <3>2 DEF EventsOK
  <2>2. event' = [s \in Generations |->
                    IF s \in to THEN [event[s] EXCEPT ![n] = come(s)] ELSE event[s]]
    BY <1>3 DEF Receive
  <2> HIDE DEF come
  <2>3. EventsOK'
    BY <1>0, <2>1, <2>2 DEF EventsOK
  <2> QED BY <1>0, <1>3, <2>3, StoreSame DEF SubsOK, Receive
<1>4. ASSUME NEW s \in Generations, NEW n \in Numbers, EventLapses(s, n)
      PROVE  StoreOK' /\ SubsOK' /\ EventsOK'
  <2>1. event' = [event EXCEPT ![s] = [event[s] EXCEPT ![n] = [event[s][n] EXCEPT !.claimed = FALSE]]]
    BY <1>4 DEF EventLapses
  <2>0. event[s][n] \in EventType
    BY <1>0 DEF EventsOK
  <2>2. [event[s][n] EXCEPT !.claimed = FALSE] \in EventType
    BY <2>0 DEF EventType
  <2>3. EventsOK'
    BY <1>0, <2>1, <2>2, EventSet
  <2> QED BY <1>0, <1>4, <2>3 DEF StoreOK, SubsOK, EventLapses, provided, stored
<1>5. ASSUME NEW s \in Generations, RenewalLapses(s)
      PROVE  StoreOK' /\ SubsOK' /\ EventsOK'
  BY ZenonT(30), <1>0, <1>5 DEF StoreOK, SubsOK, EventsOK, SubType, RenewalLapses, provided, stored
<1>6. CASE Disconnect \/ Expire
  <2>1. StoreOK'
    BY <1>0, <1>6 DEF StoreOK, Disconnect, Expire, provided, stored
  <2>2. event' = event /\ (sub' = sub \/ sub' = [s \in Generations |-> Closed(sub[s])])
    BY <1>6 DEF Disconnect, Expire
  <2> QED BY <1>0, <2>1, <2>2, RowTyped DEF EventsOK, SubsOK
<1> QED BY <1>2, <1>3, <1>4, <1>5, <1>6 DEF Environment, ReceiveMail, ReceiveChange

LEMMA TypeStep == TypeOK /\ [Next]_vars => TypeOK'
<1> SUFFICES ASSUME TypeOK, [Next]_vars PROVE TypeOK'
  OBVIOUS
<1>1. CASE UNCHANGED vars
  BY <1>1 DEF TypeOK, vars
<1> QED BY <1>1, SyncTypes, EventTypes, WatchTypes, OtherTypes, EnvironmentTypes DEF Next

LEMMA TypeInit == Init => TypeOK
<1> SUFFICES ASSUME Init PROVE TypeOK
  OBVIOUS
<1>1. StoreOK
  BY LimitsAssumption, NothingTyped DEF Init, StoreOK
<1>2. SubsOK /\ EventsOK
  BY LimitsAssumption DEF Init, SubsOK, SubType, NoSub, EventsOK, EventType, NoEvent
<1>3. CallsOK
  BY IdleTyped DEF Init, CallsOK
<1> QED BY <1>1, <1>2, <1>3, TypeParts

\* Every variable keeps its type and no event is attempted more often than
\* allowed, for any instance (claim_events).
THEOREM ReadTypes == Spec => []TypeOK
<1> QED BY TypeInit, TypeStep, PTL DEF Spec

-----------------------------------------------------------------------------
(* The end of the authority *)

\* Nothing but a reset and the application of a read changes what is stored.
LEMMA StoredStays ==
  ASSUME [Next]_vars, \A c \in Callers : ~(Reset(c) /\ Authorized) /\ ~(Apply(c) /\ Permitted)
  PROVE  UNCHANGED stored
<1> USE DEF stored
<1>1. ASSUME NEW c \in Callers, SyncStep(c)
      PROVE  UNCHANGED stored
  BY <1>1 DEF SyncStep, Request, Begin, Reset, List, Fetch, Invalid, ReadFails, Apply,
              Revoked, Failed
<1>2. ASSUME NEW c \in Callers, EventStep(c)
      PROVE  UNCHANGED stored
  BY ZenonT(30), <1>2 DEF EventStep, Claim, Check, Bind, Consume, ConsumerFails, Finish, Fail
<1>3. ASSUME NEW c \in Callers, WatchStep(c)
      PROVE  UNCHANGED stored
  BY <1>3 DEF WatchStep, Subscribe, Renew, Reserve, WatchFails, Activate, Drop, Keep
<1>4. ASSUME NEW c \in Callers, Revoke(c) \/ RevokeGrant(c) \/ Crash(c)
      PROVE  UNCHANGED stored
  BY <1>4 DEF Revoke, RevokeGrant, Crash
<1>5. CASE Environment
  BY <1>5 DEF Environment, Change, ReceiveMail, ReceiveChange, Receive, EventLapses,
              RenewalLapses, Disconnect, Expire
<1>6. CASE UNCHANGED vars
  BY <1>6 DEF vars
<1> QED BY <1>1, <1>2, <1>3, <1>4, <1>5, <1>6 DEF Next

\* A grant that is over does not come back.
LEMMA AuthorityStaysLost ==
  ASSUME [Next]_vars, ~Authorized
  PROVE  ~Authorized'
<1> USE DEF Authorized
<1>1. ASSUME NEW c \in Callers, SyncStep(c) \/ EventStep(c) \/ WatchStep(c)
      PROVE  grant' = grant
  BY ZenonT(30), <1>1 DEF SyncStep, Request, Begin, Reset, List, Fetch, Invalid, ReadFails, Apply,
              EventStep, Claim, Check, Bind, Consume, ConsumerFails, Finish, Fail,
              WatchStep, Subscribe, Renew, Reserve, WatchFails, Activate, Drop, Keep
<1>2. ASSUME NEW c \in Callers, Revoke(c) \/ RevokeGrant(c) \/ Crash(c)
      PROVE  grant' \in {grant, "revoked"}
  BY <1>2 DEF Revoke, RevokeGrant, Crash
<1>3. CASE Environment
  BY <1>3 DEF Environment, Change, ReceiveMail, ReceiveChange, Receive, EventLapses,
              RenewalLapses, Disconnect, Expire
<1>4. CASE UNCHANGED vars
  BY <1>4 DEF vars
<1> QED BY <1>1, <1>2, <1>3, <1>4 DEF Next

\* Nothing is stored for a grant that was revoked, has expired or has lost its
\* account, whatever reads were under way (apply_sync, reset_cursor).
THEOREM RevokedReads == Spec => RevokedIsFrozen
<1>1. [Next]_vars => [~Authorized => ~Authorized' /\ UNCHANGED stored]_vars
  BY AuthorityStaysLost, StoredStays DEF Permitted
<1> QED BY <1>1, PTL DEF Spec, RevokedIsFrozen

-----------------------------------------------------------------------------
(* What a read brings *)

\* The provider's record of a resource is not older than any change of it.
ProviderSound ==
  /\ \A n \in 1..History : provider[log[n]].version >= n
  /\ \A r \in Resources : provider[r].version <= History

\* What a caller has read up to the number it was given has every change that
\* came after its cursor, except that a full read of a mailbox has nothing of a
\* mail that is gone.
Gone(r) == Mail /\ provider[r].gone
ReadSound(k) ==
  /\ k.seen # None => k.seen <= History
  /\ k.next <= History
  /\ k.stage = "fetch" => Mail
  /\ k.stage \in {"fetch", "apply"} /\ k.seen # None =>
       /\ k.seen <= k.next
       /\ \A r \in Resources :
            k.changes[r].version = 0 \/ k.changes[r].version > k.seen
       /\ \A n \in 1..k.next : n > k.seen => k.changes[log[n]].version >= n
  /\ k.stage = "apply" /\ k.seen = None =>
       \A n \in 1..k.next :
         \/ k.changes[log[n]].version >= n
         \/ Gone(log[n]) /\ k.changes[log[n]].version = 0
ReadsSound == \A c \in Callers : ReadSound(call[c])

\* The cursor does not run ahead; before the first read nothing is stored.
CursorSound ==
  /\ cursor.value # None => cursor.value <= History
  /\ cursor.value = None /\ cursor.generation = 1 =>
       \A r \in Resources : snapshot[r].version = 0

IInv == TypeOK /\ ProviderSound /\ ReadsSound /\ CursorSound /\ CursorIsHonest

\* A record with which no read is under way, and which knows no later number
\* than before.
Rests(k, old) ==
  /\ k.stage \notin {"fetch", "apply"}
  /\ k.seen \in {None, cursor.value, old.seen}
  /\ k.next \in {0, old.next}
Quiet == \A d \in Callers : call'[d] = call[d] \/ Rests(call'[d], call[d])

LEMMA GoesQuiet ==
  ASSUME CallsOK, NEW c \in Callers, NEW stage, stage \notin {"fetch", "apply"}, Goes(c, stage)
  PROVE  Quiet
BY DEF CallsOK, CallType, Goes, Quiet, Rests

LEMMA EndsQuiet ==
  ASSUME CallsOK, NEW c \in Callers, Ends(c)
  PROVE  Quiet
BY DEF CallsOK, Ends, Idle, Quiet, Rests

LEMMA StopsQuiet ==
  ASSUME CallsOK, NEW c \in Callers, NEW stage, stage \notin {"fetch", "apply"}, Stops(c, stage)
  PROVE  Quiet
BY DEF CallsOK, Stops, Idle, Quiet, Rests

\* So is every step of a caller that does not read.
LEMMA EventQuiet ==
  ASSUME CallsOK, NEW c \in Callers, EventStep(c)
  PROVE  Quiet /\ UNCHANGED <<provided, stored>>
<1>1. UNCHANGED <<provided, stored>>
  BY ZenonT(30) DEF EventStep, Claim, Check, Bind, Consume, ConsumerFails, Finish, Fail
<1>2. CASE \E s \in Generations, n \in Numbers : Claim(c, s, n)
  <2>1. call'[c].stage \in {"check", "sync"} /\ call'[c].seen = call[c].seen
        /\ call'[c].next = call[c].next
    BY <1>2 DEF Claim, CallsOK, CallType
  <2>2. \A d \in Callers : d # c => call'[d] = call[d]
    BY <1>2 DEF Claim, CallsOK
  <2> QED BY <1>1, <2>1, <2>2 DEF Quiet, Rests
<1>3. CASE Bind(c)
  BY <1>1, <1>3 DEF Bind, CallsOK, CallType, Quiet, Rests
<1>4. CASE Check(c) \/ Consume(c) \/ ConsumerFails(c) \/ Finish(c) \/ Fail(c)
  BY <1>1, <1>4, GoesQuiet, EndsQuiet DEF Check, Consume, ConsumerFails, Finish, Fail
<1> QED BY <1>2, <1>3, <1>4 DEF EventStep

LEMMA WatchQuiet ==
  ASSUME CallsOK, NEW c \in Callers, WatchStep(c)
  PROVE  Quiet /\ UNCHANGED <<provided, stored>>
<1>1. UNCHANGED <<provided, stored>>
  BY DEF WatchStep, Subscribe, Renew, Reserve, WatchFails, Activate, Drop, Keep
<1>2. CASE Subscribe(c) \/ \E s \in Generations : Renew(c, s)
  <2>1. CASE Subscribe(c)
    BY <1>1, <2>1 DEF Subscribe, CallsOK, CallType, Quiet, Rests
  <2>2. ASSUME NEW s \in Generations, Renew(c, s)
        PROVE  Quiet
    BY <2>2 DEF Renew, CallsOK, CallType, Quiet, Rests
  <2> QED BY <1>1, <1>2, <2>1, <2>2
<1>3. CASE Reserve(c)
  <2>1. CASE Authorized
    BY <1>1, <1>3, <2>1 DEF Reserve, CallsOK, CallType, Quiet, Rests
  <2>2. CASE ~Authorized
    BY <1>1, <1>3, <2>2, GoesQuiet, EndsQuiet DEF Reserve
  <2> QED BY <2>1, <2>2
<1>4. CASE Activate(c)
  <2>1. CASE call[c].by = "renewal"
    BY ZenonT(30), <1>1, <1>4, <2>1 DEF Activate, CallsOK, Idle, Quiet, Rests
  <2>2. CASE call[c].by # "renewal"
    BY <1>1, <1>4, <2>2, EndsQuiet DEF Activate
  <2> QED BY <2>1, <2>2
<1>5. CASE WatchFails(c) \/ Drop(c) \/ Keep(c)
  BY <1>1, <1>5, GoesQuiet, EndsQuiet DEF WatchFails, Drop, Keep
<1> QED BY <1>2, <1>3, <1>4, <1>5 DEF WatchStep

LEMMA OtherQuiet ==
  ASSUME CallsOK, NEW c \in Callers, Revoke(c) \/ RevokeGrant(c) \/ Crash(c)
  PROVE  Quiet /\ UNCHANGED <<provided, stored>>
<1>1. UNCHANGED <<provided, stored>>
  BY DEF Revoke, RevokeGrant, Crash
<1>2. CASE Revoke(c)
  BY <1>1, <1>2 DEF Revoke, CallsOK, CallType, Quiet, Rests
<1> QED BY <1>1, <1>2, EndsQuiet DEF RevokeGrant, Crash

\* Such a step keeps the invariant, as long as it leaves the store alone.
LEMMA QuietReads ==
  ASSUME IInv, Quiet, UNCHANGED provided
  PROVE  ProviderSound' /\ ReadsSound'
<1> USE DEF IInv
<1>1. History' = History /\ Mail' = Mail /\ \A r : Gone(r)' = Gone(r)
  BY DEF History, Gone, Mail, provided
<1>2. ProviderSound'
  BY <1>1 DEF ProviderSound, provided
<1>3. ASSUME NEW c \in Callers
      PROVE  ReadSound(call[c])'
  <2>0. ReadSound(call[c]) /\ History \in Nat
    BY DEF ReadsSound, TypeOK, History
  <2>1. CASE call'[c] = call[c]
    <3>1. call'[c].seen = call[c].seen /\ log' = log
      BY <2>1 DEF provided
    <3> QED BY <1>1, <2>0, <2>1, <3>1 DEF ReadSound
  <2>2. CASE Rests(call'[c], call[c])
    BY <1>1, <2>0, <2>2 DEF ReadSound, Rests, CursorSound, provided
  <2> QED BY <2>1, <2>2 DEF Quiet
<1> QED BY <1>2, <1>3 DEF ReadsSound

LEMMA QuietInv ==
  ASSUME IInv, TypeOK', Quiet, UNCHANGED <<provided, stored>>
  PROVE  IInv'
<1>1. CursorSound' /\ CursorIsHonest'
  BY DEF IInv, CursorSound, CursorIsHonest, Reflected, History, Mail, provided, stored
<1> QED BY <1>1, QuietReads DEF IInv

\* Most steps of a synchronization are quiet, too.
LEMMA SyncQuiet ==
  ASSUME IInv, NEW c \in Callers,
         \/ \E full \in BOOLEAN : Request(c, full)
         \/ Begin(c) \/ Reset(c) \/ Invalid(c) \/ ReadFails(c) \/ Apply(c)
  PROVE  Quiet /\ UNCHANGED provided
<1>0. CallsOK
  BY TypeParts DEF IInv
<1>1. UNCHANGED provided
  BY DEF Request, Begin, Reset, Invalid, ReadFails, Apply
<1>2. ASSUME NEW full \in BOOLEAN, Request(c, full)
      PROVE  Quiet
  <2>1. call'[c].stage \in {"reset", "list"} /\ call'[c].seen \in {None, cursor.value}
        /\ call'[c].next = call[c].next
    BY ZenonT(30), <1>0, <1>2 DEF Request, CallsOK, CallType
  <2>2. \A d \in Callers : d # c => call'[d] = call[d]
    BY <1>0, <1>2 DEF Request, CallsOK
  <2> QED BY <2>1, <2>2 DEF Quiet, Rests
<1>3. CASE Begin(c)
  <2>1. CASE Authorized
    BY <1>0, <1>3, <2>1 DEF Begin, CallsOK, CallType, Quiet, Rests
  <2>2. CASE ~Authorized
    BY <1>0, <1>3, <2>2, StopsQuiet DEF Begin, Revoked
  <2> QED BY <2>1, <2>2
<1>4. CASE Reset(c)
  <2>1. CASE Authorized
    BY <1>0, <1>4, <2>1 DEF Reset, CallsOK, CallType, Quiet, Rests
  <2>2. CASE ~Authorized
    BY <1>0, <1>4, <2>2, StopsQuiet DEF Reset, Revoked
  <2> QED BY <2>1, <2>2
<1>5. CASE Invalid(c) \/ ReadFails(c)
  BY <1>0, <1>5, GoesQuiet, StopsQuiet DEF Invalid, ReadFails, Failed
<1>6. CASE Apply(c)
  <2>1. CASE Permitted /\ Current(c) /\ call[c].by = "event"
    <3> DEFINE to == [Idle EXCEPT !.stage = "bind", !.by = "event", !.sub = call[c].sub,
                                  !.at = call[c].at, !.changed = Changed(c)]
    <3>1. call' = [call EXCEPT ![c] = to]
      BY <1>6, <2>1 DEF Apply
    <3>2. to.stage = "bind" /\ to.seen = None /\ to.next = 0
      BY DEF Idle
    <3>3. call'[c] = to /\ \A d \in Callers : d # c => call'[d] = call[d]
      BY <1>0, <3>1 DEF CallsOK
    <3> HIDE DEF to
    <3> QED BY <1>1, <3>2, <3>3 DEF Quiet, Rests
  <2>2. CASE ~(Permitted /\ Current(c) /\ call[c].by = "event")
    BY <1>0, <1>6, <2>2, StopsQuiet, EndsQuiet DEF Apply, Revoked, Failed
  <2> QED BY <2>1, <2>2
<1> QED BY <1>1, <1>2, <1>3, <1>4, <1>5, <1>6

\* A reset forgets the cursor, and says so by its generation.
LEMMA ResetInv ==
  ASSUME IInv, TypeOK', NEW c \in Callers, Reset(c)
  PROVE  IInv'
<1>1. Quiet /\ UNCHANGED provided
  BY SyncQuiet
<1>2. CASE UNCHANGED stored
  BY <1>1, <1>2, QuietInv
<1>3. CASE ~UNCHANGED stored
  <2>1. cursor' = [value |-> None, generation |-> cursor.generation + 1]
    BY <1>3 DEF Reset, Revoked
  <2>2. cursor.generation \in Nat \ {0}
    BY DEF IInv, TypeOK
  <2>3. cursor'.value = None /\ cursor'.generation # 1
    BY <2>1, <2>2
  <2> QED BY <1>1, <2>3, QuietReads DEF IInv, CursorSound, CursorIsHonest
<1> QED BY <1>2, <1>3

\* What the provider lists has every change that came since.
LEMMA ListInv ==
  ASSUME IInv, TypeOK', NEW c \in Callers, List(c)
  PROVE  IInv'
<1> DEFINE k == call[c]
           l == call'[c]
<1>0. k \in CallType /\ History \in Nat /\ ReadSound(k) /\ ProviderSound
  BY DEF IInv, TypeOK, History, ReadsSound
<1>1. UNCHANGED <<provided, stored>> /\ k.stage = "list"
  BY DEF List
<1>2. /\ l.stage = IF Mail THEN "fetch" ELSE "apply"
      /\ l.seen = k.seen /\ l.next = History
      /\ l.changes = IF Mail /\ k.seen = None THEN Nothing ELSE Listed(k.seen)
  BY DEF List, IInv, TypeOK, CallType
<1>3. \A d \in Callers : d # c => call'[d] = call[d]
  BY DEF List, IInv, TypeOK
<1>4. CursorSound' /\ CursorIsHonest' /\ ProviderSound'
  BY <1>1 DEF IInv, CursorSound, CursorIsHonest, ProviderSound, Reflected, History, Mail,
              provided, stored
<1>5. History' = History /\ Mail' = Mail /\ (\A r : Gone(r)' = Gone(r)) /\ log' = log
  BY <1>1 DEF History, Gone, Mail, provided
<1>6. \A n \in 1..History : log[n] \in Resources
  BY DEF IInv, TypeOK, History
<1>7. ASSUME k.seen # None
      PROVE  /\ \A r \in Resources : Listed(k.seen)[r].version = 0 \/ Listed(k.seen)[r].version > k.seen
             /\ \A n \in 1..History : n > k.seen => Listed(k.seen)[log[n]].version >= n
  <2>1. k.seen \in Nat /\ k.seen <= History
    BY <1>0, <1>7 DEF ReadSound, CallType
  <2>2. \A r \in Resources : provider[r].version \in Nat /\ provider[r].version <= History
    BY <1>0 DEF IInv, TypeOK, StoredType, ProviderSound
  <2>3. \A r \in Resources :
          Listed(k.seen)[r].version = 0 \/ Listed(k.seen)[r].version > k.seen
    BY <1>0, <1>7, <2>1, <2>2 DEF Listed, Since, Absent
  <2>4. ASSUME NEW n \in 1..History, n > k.seen
        PROVE  Listed(k.seen)[log[n]].version >= n
    <3>1. provider[log[n]].version >= n /\ log[n] \in Resources
      BY <1>0, <1>6 DEF ProviderSound
    <3> QED BY <1>0, <2>1, <2>2, <2>4, <3>1 DEF Listed, Since
  <2> QED BY <2>3, <2>4
<1>8. ASSUME ~Mail, k.seen = None
      PROVE  \A n \in 1..History : Listed(k.seen)[log[n]].version >= n
  <2>1. \A n \in 1..History : provider[log[n]].version >= n /\ log[n] \in Resources
    BY <1>0, <1>6 DEF ProviderSound
  <2> QED BY <1>8, <2>1 DEF Listed, Since
<1>9. ReadSound(call[c])'
  <2>1. CASE k.seen # None
    BY <1>0, <1>1, <1>2, <1>5, <1>7, <2>1 DEF ReadSound
  <2>2. CASE k.seen = None
    BY <1>0, <1>1, <1>2, <1>5, <1>8, <2>2 DEF ReadSound
  <2> QED BY <2>1, <2>2
<1>10. ASSUME NEW d \in Callers, d # c
       PROVE  ReadSound(call[d])'
  BY <1>3, <1>5, <1>10 DEF IInv, ReadsSound, ReadSound
<1> QED BY <1>4, <1>9, <1>10 DEF IInv, ReadsSound

\* A full read of a mailbox has every mail that is not gone.
LEMMA FetchInv ==
  ASSUME IInv, TypeOK', NEW c \in Callers, Fetch(c)
  PROVE  IInv'
<1> DEFINE k == call[c]
           l == call'[c]
<1>0. k \in CallType /\ History \in Nat /\ ReadSound(k) /\ ProviderSound /\ CallsOK
  BY TypeParts DEF IInv, TypeOK, History, ReadsSound
<1>1. UNCHANGED <<provided, stored>> /\ k.stage = "fetch"
  BY DEF Fetch, Failed
<1>2. CASE k.seen # None /\ Vanished(c)
  BY <1>0, <1>1, <1>2, StopsQuiet, QuietInv DEF Fetch, Failed
<1>3. CASE ~(k.seen # None /\ Vanished(c))
  <2>1. /\ l.stage = "apply" /\ l.seen = k.seen /\ l.next = k.next
        /\ l.changes = IF k.seen = None THEN Mailbox ELSE k.changes
    BY <1>0, <1>3 DEF Fetch, CallsOK, CallType
  <2>2. \A d \in Callers : d # c => call'[d] = call[d]
    BY <1>0, <1>3 DEF Fetch, CallsOK
  <2>3. CursorSound' /\ CursorIsHonest' /\ ProviderSound'
    BY <1>1 DEF IInv, CursorSound, CursorIsHonest, ProviderSound, Reflected, History, Mail,
                provided, stored
  <2>4. History' = History /\ Mail' = Mail /\ (\A r : Gone(r)' = Gone(r)) /\ log' = log
    BY <1>1 DEF History, Gone, Mail, provided
  <2>5. \A n \in 1..History : log[n] \in Resources /\ provider[log[n]].version >= n
    BY <1>0 DEF IInv, TypeOK, History, ProviderSound
  <2>6. ASSUME NEW n \in 1..History
        PROVE  \/ Mailbox[log[n]].version >= n
               \/ Gone(log[n]) /\ Mailbox[log[n]].version = 0
    BY <1>0, <1>1, <2>5 DEF Mailbox, Gone, Absent, ReadSound
  <2>7. ReadSound(call[c])'
    <3>1. CASE k.seen # None
      BY <1>0, <1>1, <2>1, <2>4, <3>1 DEF ReadSound
    <3>2. CASE k.seen = None
      <4>1. \A n \in 1..k.next : n \in 1..History
        BY <1>0 DEF ReadSound, CallType
      <4> QED BY <1>0, <1>1, <2>1, <2>4, <2>6, <3>2, <4>1 DEF ReadSound
    <3> QED BY <3>1, <3>2
  <2>8. ASSUME NEW d \in Callers, d # c
        PROVE  ReadSound(call[d])'
    BY <2>2, <2>4, <2>8 DEF IInv, ReadsSound, ReadSound
  <2> QED BY <2>3, <2>7, <2>8 DEF IInv, ReadsSound
<1> QED BY <1>2, <1>3

\* The application of a read stores every change up to the new cursor.
LEMMA ApplyInv ==
  ASSUME IInv, TypeOK', NEW c \in Callers, Apply(c)
  PROVE  IInv'
<1>1. Quiet /\ UNCHANGED provided
  BY SyncQuiet
<1>2. CASE UNCHANGED stored
  BY <1>1, <1>2, QuietInv
<1>3. CASE ~UNCHANGED stored
  <2> DEFINE k == call[c]
  <2>1. /\ Current(c) /\ k.stage = "apply"
        /\ snapshot' = [r \in Resources |->
                          IF r \in Changed(c) THEN k.changes[r] ELSE snapshot[r]]
        /\ cursor' = [cursor EXCEPT !.value = k.next]
    BY <1>3 DEF Apply, Revoked, Failed
  <2>2. k \in CallType /\ History \in Nat /\ ReadSound(k)
    BY DEF IInv, TypeOK, History, ReadsSound
  <2>3. cursor'.value = k.next /\ cursor'.generation = cursor.generation
        /\ cursor.value = k.seen
    BY <2>1 DEF IInv, TypeOK, Current
  <2>4. History' = History /\ Mail' = Mail /\ log' = log /\ provider' = provider
    BY <1>1 DEF History, Mail, provided
  <2>5. ASSUME NEW r \in Resources
        PROVE  /\ snapshot'[r].version >= snapshot[r].version
               /\ snapshot'[r].version >= k.changes[r].version
               /\ snapshot'[r].version \in {snapshot[r].version, k.changes[r].version}
    <3>1. snapshot[r].version \in Nat /\ k.changes[r].version \in Nat
      BY <2>2 DEF IInv, TypeOK, CallType, StoredType
    <3> QED BY <2>1, <3>1 DEF Changed, Newer
  <2>6. CursorSound'
    BY <2>2, <2>3, <2>4, NoneAssumption DEF CursorSound, ReadSound, CallType
  <2>7. ASSUME NEW n \in 1..History, n <= k.next
        PROVE  Reflected(n)'
    <3> DEFINE r == log[n]
    <3>1. r \in Resources
      BY DEF IInv, TypeOK, History
    <3>2. /\ snapshot[r].version \in Nat /\ k.changes[r].version \in Nat
          /\ n \in Nat /\ cursor.generation \in Nat \ {0}
      <4>1. snapshot[r] \in StoredType /\ k.changes[r] \in StoredType
        BY <2>2, <3>1 DEF IInv, TypeOK, CallType
      <4>2. cursor.generation \in Nat \ {0} /\ n \in Nat
        BY <2>2 DEF IInv, TypeOK
      <4> QED BY <4>1, <4>2 DEF StoredType
    <3>3. CASE k.changes[r].version >= n
      <4>1. snapshot'[r].version >= n
        BY <2>5, <3>1, <3>2, <3>3
      <4> QED BY <2>4, <4>1 DEF Reflected
    <3>4. CASE k.seen # None /\ n <= k.seen
      <4>1. Reflected(n)
        BY <2>3, <3>4 DEF IInv, CursorIsHonest
      <4>2. k.changes[r].version = 0 \/ k.changes[r].version > n
        BY <2>1, <2>2, <3>1, <3>2, <3>4, NoneAssumption DEF ReadSound, CallType
      <4>3. snapshot'[r].version \in Nat
        BY <2>5, <3>1, <3>2
      <4>4. CASE snapshot[r].version >= n \/ k.changes[r].version > n
        BY <2>4, <2>5, <3>1, <3>2, <4>3, <4>4 DEF Reflected
      <4>5. CASE ~(snapshot[r].version >= n) /\ k.changes[r].version = 0
        <5>1. snapshot[r].version = 0 => snapshot'[r].version = 0
          BY <2>5, <3>1, <4>5
        <5> QED BY <2>3, <2>4, <4>1, <4>5, <5>1 DEF Reflected
      <4> QED BY <4>2, <4>4, <4>5
    <3>5. CASE k.seen = None /\ Gone(r) /\ k.changes[r].version = 0
      <4>1. cursor.generation > 1 \/ snapshot[r].version = 0
        BY <2>3, <3>1, <3>2, <3>5 DEF IInv, CursorSound
      <4>2. snapshot[r].version = 0 => snapshot'[r].version = 0
        BY <2>5, <3>1, <3>5
      <4> QED BY <2>3, <2>4, <3>5, <4>1, <4>2 DEF Reflected, Gone
    <3>6. \/ k.changes[r].version >= n
          \/ k.seen # None /\ n <= k.seen
          \/ k.seen = None /\ Gone(r) /\ k.changes[r].version = 0
      BY <2>1, <2>2, <2>7, <3>2, NoneAssumption DEF ReadSound, CallType
    <3> QED BY <3>3, <3>4, <3>5, <3>6
  <2>8. CursorIsHonest'
    BY <2>3, <2>4, <2>7 DEF CursorIsHonest
  <2> QED BY <1>1, <2>6, <2>8, QuietReads DEF IInv
<1> QED BY <1>2, <1>3

\* A change at the provider makes nothing unread that was read, because it is
\* a new one and a mail that is gone stays so.
LEMMA ChangeReflects ==
  ASSUME IInv, NEW r \in Resources, NEW gone \in BOOLEAN, Change(r, gone),
         NEW n \in 1..History, Reflected(n)
  PROVE  Reflected(n)'
<1>1. /\ log'[n] = log[n] /\ log[n] \in Resources
      /\ snapshot' = snapshot /\ cursor' = cursor /\ Mail' = Mail
  BY DEF Change, History, IInv, TypeOK, stored, Mail
<1>2. /\ provider'[r].version = History + 1
      /\ \A q \in Resources : q # r => provider'[q] = provider[q]
      /\ ~provider[r].gone
  BY DEF Change, IInv, TypeOK
<1>3. CASE log[n] = r
  BY <1>1, <1>2, <1>3 DEF Reflected
<1>4. CASE log[n] # r
  BY <1>1, <1>2, <1>4 DEF Reflected
<1> QED BY <1>3, <1>4

\* Nor does it disturb a read that is under way.
LEMMA ChangeInv ==
  ASSUME IInv, TypeOK', NEW r \in Resources, NEW gone \in BOOLEAN, Change(r, gone)
  PROVE  IInv'
<1>0. log \in Seq(Resources) /\ History \in Nat
  BY DEF IInv, TypeOK, History
<1>1. /\ History' = History + 1
      /\ log'[History + 1] = r
      /\ \A n \in 1..History : log'[n] = log[n] /\ log[n] \in Resources
  BY <1>0 DEF Change, History
<1>2. /\ provider'[r].version = History + 1 /\ provider'[r].gone = gone
      /\ \A q \in Resources : q # r => provider'[q] = provider[q]
      /\ ~provider[r].gone
  BY DEF Change, IInv, TypeOK
<1>3. UNCHANGED <<stored, call>> /\ Mail' = Mail
  BY DEF Change, Mail
<1>4. \A q \in Resources : provider[q].version \in Nat
  BY DEF IInv, TypeOK, StoredType
<1>5. ProviderSound'
  <2>1. ASSUME NEW n \in 1..(History + 1)
        PROVE  provider'[log'[n]].version >= n
    BY <1>0, <1>1, <1>2, <1>4 DEF IInv, ProviderSound
  <2>2. \A q \in Resources : provider'[q].version <= History + 1
    BY <1>0, <1>2, <1>4 DEF IInv, ProviderSound
  <2> QED BY <1>1, <2>1, <2>2 DEF ProviderSound
<1>6. \A q \in Resources : Gone(q) => Gone(q)'
  BY <1>2, <1>3 DEF Gone
<1>7. ASSUME NEW c \in Callers
      PROVE  ReadSound(call[c])'
  <2> DEFINE k == call[c]
  <2>1. ReadSound(k) /\ call'[c] = k /\ k \in CallType
    BY <1>3 DEF IInv, ReadsSound, TypeOK
  <2>2. \A n \in 1..k.next : n \in 1..History
    BY <1>0, <2>1 DEF ReadSound, CallType
  <2> QED BY <1>0, <1>1, <1>3, <1>6, <2>1, <2>2, NoneAssumption DEF ReadSound, CallType
<1>8. CursorSound'
  <2>1. cursor.value \in Nat \union {None}
    BY DEF IInv, TypeOK
  <2> QED BY <1>0, <1>1, <1>3, <2>1, NoneAssumption DEF IInv, CursorSound, stored
<1>9. \A n \in 1..History : Reflected(n) => Reflected(n)'
  BY ChangeReflects
<1>10. CursorIsHonest'
  <2>1. cursor' = cursor /\ cursor.value \in Nat \union {None}
    BY <1>3 DEF stored, IInv, TypeOK
  <2>2. ASSUME cursor.value # None, NEW n \in 1..(History + 1), n <= cursor.value
        PROVE  Reflected(n)'
    <3>1. n \in 1..History
      BY <1>0, <2>1, <2>2 DEF IInv, CursorSound
    <3> QED BY <1>9, <2>2, <3>1 DEF IInv, CursorIsHonest
  <2> QED BY <1>1, <2>1, <2>2 DEF CursorIsHonest
<1> QED BY <1>5, <1>7, <1>8, <1>10 DEF IInv, ReadsSound

\* Every step keeps the invariant.
LEMMA StepInv == IInv /\ [Next]_vars => IInv'
<1> SUFFICES ASSUME IInv, [Next]_vars PROVE IInv'
  OBVIOUS
<1>0. TypeOK' /\ CallsOK
  BY TypeStep, TypeParts DEF IInv
<1>1. ASSUME NEW c \in Callers, SyncStep(c)
      PROVE  IInv'
  <2>1. CASE List(c)
    BY <1>0, <2>1, ListInv
  <2>2. CASE Fetch(c)
    BY <1>0, <2>2, FetchInv
  <2>3. CASE Apply(c)
    BY <1>0, <2>3, ApplyInv
  <2>4. CASE Reset(c)
    BY <1>0, <2>4, ResetInv
  <2>5. CASE (\E full \in BOOLEAN : Request(c, full)) \/ Begin(c) \/ Invalid(c) \/ ReadFails(c)
    <3>1. UNCHANGED stored
      BY <2>5 DEF Request, Begin, Invalid, ReadFails, Revoked, Failed, stored
    <3> QED BY <1>0, <2>5, <3>1, SyncQuiet, QuietInv
  <2> QED BY <1>1, <2>1, <2>2, <2>3, <2>4, <2>5 DEF SyncStep
<1>2. ASSUME NEW c \in Callers,
             EventStep(c) \/ WatchStep(c) \/ Revoke(c) \/ RevokeGrant(c) \/ Crash(c)
      PROVE  IInv'
  BY <1>0, <1>2, EventQuiet, WatchQuiet, OtherQuiet, QuietInv
<1>3. ASSUME NEW r \in Resources, NEW gone \in BOOLEAN, Change(r, gone)
      PROVE  IInv'
  BY <1>0, <1>3, ChangeInv
<1>4. CASE Environment /\ ~\E r \in Resources, gone \in BOOLEAN : Change(r, gone)
  <2>1. UNCHANGED <<provided, stored, call>>
    BY <1>4 DEF Environment, ReceiveMail, ReceiveChange, Receive, EventLapses, RenewalLapses,
                Disconnect, Expire
  <2> QED BY <1>0, <2>1, QuietInv DEF Quiet
<1>5. CASE UNCHANGED vars
  BY <1>0, <1>5, QuietInv DEF vars, provided, stored, Quiet
<1> QED BY <1>1, <1>2, <1>3, <1>4, <1>5 DEF Next, Environment

LEMMA InitInv == Init => IInv
<1> SUFFICES ASSUME Init PROVE IInv
  OBVIOUS
<1>1. TypeOK
  BY TypeInit
<1>2. History = 0
  BY DEF Init, History
<1>3. ProviderSound /\ CursorSound /\ CursorIsHonest
  BY <1>2 DEF Init, ProviderSound, CursorSound, CursorIsHonest, Nothing, Absent
<1>4. ReadsSound
  BY <1>2 DEF Init, ReadsSound, ReadSound, Idle
<1> QED BY <1>1, <1>3, <1>4 DEF IInv

\* The invariant is inductive.
THEOREM Inductive == Spec => []IInv
<1> QED BY InitInv, StepInv, PTL DEF Spec

\* No cursor ever omits an unread change, for any number of resources, changes
\* and callers (read_email, read_calendar, apply_sync, reset_cursor).
THEOREM HonestCursor == Spec => []CursorIsHonest
<1>1. IInv => CursorIsHonest
  BY DEF IInv
<1> QED BY <1>1, Inductive, PTL

\* What is stored only gets newer, and only a reset moves the cursor back.
LEMMA StoreAdvances ==
  ASSUME IInv, [Next]_vars
  PROVE  /\ \A r \in Resources : snapshot'[r].version >= snapshot[r].version
         /\ cursor.value # None =>
              \/ cursor'.value = None /\ cursor'.generation > cursor.generation
              \/ cursor'.value # None /\ cursor'.value >= cursor.value
<1>0. /\ \A r \in Resources : snapshot[r].version \in Nat
      /\ cursor.value \in Nat \union {None} /\ cursor.generation \in Nat
  BY DEF IInv, TypeOK, StoredType
<1>1. CASE UNCHANGED stored
  BY <1>0, <1>1 DEF stored
<1>2. ASSUME NEW c \in Callers, Reset(c), Authorized
      PROVE  /\ snapshot' = snapshot
             /\ cursor'.value = None /\ cursor'.generation > cursor.generation
  BY <1>0, <1>2 DEF Reset
<1>3. ASSUME NEW c \in Callers, Apply(c), ~UNCHANGED stored
      PROVE  /\ \A r \in Resources : snapshot'[r].version >= snapshot[r].version
             /\ cursor.value # None => cursor'.value # None /\ cursor'.value >= cursor.value
  <2> DEFINE k == call[c]
  <2>1. /\ Current(c) /\ k.stage = "apply"
        /\ snapshot' = [r \in Resources |->
                          IF r \in Changed(c) THEN k.changes[r] ELSE snapshot[r]]
        /\ cursor' = [cursor EXCEPT !.value = k.next]
    BY <1>3 DEF Apply, Revoked, Failed
  <2>2. k \in CallType /\ ReadSound(k)
    BY DEF IInv, TypeOK, ReadsSound
  <2>3. cursor'.value = k.next /\ cursor.value = k.seen /\ k.next \in Nat
    BY <2>1, <2>2 DEF IInv, TypeOK, Current, CallType
  <2>4. \A r \in Resources : k.changes[r].version \in Nat
    BY <2>2 DEF CallType, StoredType
  <2>5. \A r \in Resources : snapshot'[r].version >= snapshot[r].version
    BY <1>0, <2>1, <2>4 DEF Changed, Newer
  <2>6. k.seen # None => k.next >= k.seen
    BY <1>0, <2>1, <2>2, <2>3 DEF ReadSound
  <2> QED BY <2>3, <2>5, <2>6, NoneAssumption
<1>4. CASE ~UNCHANGED stored
  <2>1. PICK c \in Callers : (Reset(c) /\ Authorized) \/ (Apply(c) /\ Permitted)
    BY <1>4, StoredStays
  <2> QED BY <1>0, <1>2, <1>3, <1>4, <2>1
<1> QED BY <1>1, <1>4

\* An event stays known, and so does that it was admitted.  It
\* is new only when the provider had the change, and settled only by a caller
\* that has come to its end.
Closes(s, n, stages) ==
  \E c \in Callers : call[c].stage \in stages /\ call[c].sub = s /\ call[c].at = n
Grows(new, old, s, n) ==
  /\ old.state # "none" => new.state # "none"
  /\ old.admitted => new.admitted
  /\ new.state # "none" =>
       old.state # "none" \/ n <= History \/ Closes(s, n, {"finish", "ignore", "fail"})
  /\ new.state = "processed" => old.state = "processed" \/ Closes(s, n, {"finish"})
  /\ new.state = "ignored" => old.state = "ignored" \/ Closes(s, n, {"ignore"})
LEMMA EventStays ==
  ASSUME TypeOK, [Next]_vars, NEW s \in Generations, NEW n \in Numbers
  PROVE  Grows(event'[s][n], event[s][n], s, n)
<1>0. /\ event \in [Generations -> [Numbers -> EventType]] /\ event[s][n] \in EventType
      /\ event[s] \in [Numbers -> EventType]
  BY DEF TypeOK
<1>1. ASSUME NEW e, NEW t, NEW m, event' = [event EXCEPT ![t] = [event[t] EXCEPT ![m] = e]],
             t = s /\ m = n => Grows(e, event[s][n], s, n)
      PROVE  Grows(event'[s][n], event[s][n], s, n)
  BY <1>0, <1>1 DEF Grows
<1>2. CASE event' = event
  BY <1>2 DEF Grows
<1>3. ASSUME NEW c \in Callers, EventStep(c)
      PROVE  Grows(event'[s][n], event[s][n], s, n)
  <2> DEFINE k == call[c]
             old == event[k.sub][k.at]
  <2>1. ASSUME NEW t \in Generations, NEW m \in Numbers, Claim(c, t, m)
        PROVE  Grows(event'[s][n], event[s][n], s, n)
    <3> DEFINE e == [event[t][m] EXCEPT !.state = "processing", !.claimed = TRUE,
                                        !.attempts = event[t][m].attempts + 1]
    <3>1. event' = [event EXCEPT ![t] = [event[t] EXCEPT ![m] = e]]
      BY <2>1 DEF Claim
    <3>2. t = s /\ m = n => Grows(e, event[s][n], s, n)
      BY <1>0, <2>1 DEF Claim, Claimable, EventType, Grows
    <3> HIDE DEF e
    <3> QED BY <1>1, <3>1, <3>2
  <2>2. CASE Bind(c)
    <3> DEFINE e == [old EXCEPT !.evidence = IF k.changed # {} \/ old.evidence = {}
                                              THEN k.changed ELSE old.evidence]
    <3>1. event' = [event EXCEPT ![k.sub] = [event[k.sub] EXCEPT ![k.at] = e]]
      BY <2>2 DEF Bind
    <3>2. k.sub = s /\ k.at = n => Grows(e, event[s][n], s, n)
      BY <1>0 DEF EventType, Grows
    <3> HIDE DEF e
    <3> QED BY <1>1, <3>1, <3>2
  <2>3. CASE Consume(c)
    <3> DEFINE e == [old EXCEPT !.admitted = TRUE]
    <3>1. event' = [event EXCEPT ![k.sub] = [event[k.sub] EXCEPT ![k.at] = e]]
      BY <2>3 DEF Consume
    <3>2. k.sub = s /\ k.at = n => Grows(e, event[s][n], s, n)
      BY <1>0 DEF EventType, Grows
    <3> HIDE DEF e
    <3> QED BY <1>1, <3>1, <3>2
  <2>4. CASE Finish(c)
    <3> DEFINE e == [old EXCEPT !.state = IF k.stage = "ignore" THEN "ignored" ELSE "processed", !.claimed = FALSE]
    <3>1. event' = [event EXCEPT ![k.sub] = [event[k.sub] EXCEPT ![k.at] = e]]
      BY <2>4 DEF Finish
    <3>2. k.sub = s /\ k.at = n => Grows(e, event[s][n], s, n)
      BY <1>0, <2>4 DEF Finish, Closes, EventType, Grows
    <3> HIDE DEF e
    <3> QED BY <1>1, <3>1, <3>2
  <2>5. CASE Fail(c)
    <3> DEFINE e == [old EXCEPT !.state = IF old.attempts >= MaxAttempts THEN "failed" ELSE "retry", !.claimed = FALSE]
    <3>1. event' = [event EXCEPT ![k.sub] = [event[k.sub] EXCEPT ![k.at] = e]]
      BY <2>5 DEF Fail
    <3>2. k.sub = s /\ k.at = n => Grows(e, event[s][n], s, n)
      BY <1>0, <2>5 DEF Fail, Closes, EventType, Grows
    <3> HIDE DEF e
    <3> QED BY <1>1, <3>1, <3>2
  <2>6. CASE Check(c) \/ ConsumerFails(c)
    BY <1>2, <2>6 DEF Check, ConsumerFails
  <2> QED BY <1>3, <2>1, <2>2, <2>3, <2>4, <2>5, <2>6 DEF EventStep
<1>4. ASSUME NEW c \in Callers,
             SyncStep(c) \/ WatchStep(c) \/ Revoke(c) \/ RevokeGrant(c) \/ Crash(c)
      PROVE  event' = event
  BY <1>4 DEF SyncStep, Request, Begin, Reset, List, Fetch, Invalid, ReadFails, Apply,
              WatchStep, Subscribe, Renew, Reserve, WatchFails, Activate, Drop, Keep,
              Revoke, RevokeGrant, Crash
<1>5. ASSUME NEW m, NEW to, Receive(m, to)
      PROVE  Grows(event'[s][n], event[s][n], s, n)
  <2>1. event'[s] = event[s] \/ event'[s] = [event[s] EXCEPT ![m].state = "pending"]
    BY <1>5 DEF Receive
  <2>2. \/ event'[s][n] = event[s][n]
        \/ m = n /\ event'[s][n] = [event[s][n] EXCEPT !.state = "pending"]
    BY <1>0, <2>1
  <2>3. m <= History
    BY <1>5 DEF Receive
  <2> QED BY <1>0, <2>2, <2>3 DEF EventType, Grows
<1>6. ASSUME NEW t \in Generations, NEW m \in Numbers, EventLapses(t, m)
      PROVE  Grows(event'[s][n], event[s][n], s, n)
  <2> DEFINE e == [event[t][m] EXCEPT !.claimed = FALSE]
  <2>1. event' = [event EXCEPT ![t] = [event[t] EXCEPT ![m] = e]]
    BY <1>6 DEF EventLapses
  <2>2. t = s /\ m = n => Grows(e, event[s][n], s, n)
    BY <1>0 DEF EventType, Grows
  <2> HIDE DEF e
  <2> QED BY <1>1, <2>1, <2>2
<1>7. CASE Environment
  <2>1. CASE \E m \in Numbers : ReceiveMail(m) \/ \E t \in Generations : ReceiveChange(m, t)
    BY <1>5, <2>1 DEF ReceiveMail, ReceiveChange
  <2>2. CASE \E t \in Generations, m \in Numbers : EventLapses(t, m)
    BY <1>6, <2>2
  <2>3. CASE \/ \E r \in Resources, gone \in BOOLEAN : Change(r, gone)
             \/ \E t \in Generations : RenewalLapses(t)
             \/ Disconnect \/ Expire
    BY <1>2, <2>3 DEF Change, RenewalLapses, Disconnect, Expire
  <2> QED BY <1>7, <2>1, <2>2, <2>3 DEF Environment
<1> QED BY <1>2, <1>3, <1>4, <1>7 DEF Next, vars

\* The late take nothing back: what is stored only gets newer, and only a reset
\* moves the cursor back (apply_sync).
THEOREM NothingTakenBack == Spec => NeverGoesBack
<1>1. IInv /\ [Next]_vars =>
        [/\ \A r \in Resources : snapshot'[r].version >= snapshot[r].version
         /\ cursor.value # None =>
              \/ cursor'.value = None /\ cursor'.generation > cursor.generation
              \/ cursor'.value # None /\ cursor'.value >= cursor.value]_vars
  BY StoreAdvances DEF IInv
<1> QED BY <1>1, Inductive, PTL DEF Spec, NeverGoesBack

-----------------------------------------------------------------------------
(* What is settled *)

\* The numbers of the changes that stay stored, together with all before them,
\* as long as the grant is good: until the first reset, since the cursor is past
\* them, and a removal of a mail after a reset makes no difference.
Known(n) ==
  /\ n <= History
  /\ cursor.generation = 1 => cursor.value # None /\ n <= cursor.value
  /\ \A m \in 1..n : Reflected(m)
Settled == {n \in Numbers : Authorized => Known(n)}

\* A step that stores nothing and is not a change at the provider leaves the
\* changes and the store alone.
LEMMA ProvidedStays ==
  ASSUME IInv, [Next]_vars, \A r \in Resources, gone \in BOOLEAN : ~Change(r, gone)
  PROVE  UNCHANGED provided
<1>0. CallsOK
  BY TypeParts DEF IInv
<1>1. ASSUME NEW c \in Callers, SyncStep(c)
      PROVE  UNCHANGED provided
  BY <1>1 DEF SyncStep, Request, Begin, Reset, List, Fetch, Invalid, ReadFails, Apply
<1>2. ASSUME NEW c \in Callers,
             EventStep(c) \/ WatchStep(c) \/ Revoke(c) \/ RevokeGrant(c) \/ Crash(c)
      PROVE  UNCHANGED provided
  BY <1>0, <1>2, EventQuiet, WatchQuiet, OtherQuiet
<1>3. CASE Environment
  BY <1>3 DEF Environment, ReceiveMail, ReceiveChange, Receive, EventLapses,
              RenewalLapses, Disconnect, Expire
<1>4. CASE UNCHANGED vars
  BY <1>4 DEF vars, provided
<1> QED BY <1>1, <1>2, <1>3, <1>4 DEF Next

LEMMA KnownStays ==
  ASSUME IInv, IInv', [Next]_vars, NEW n \in Numbers, Known(n)
  PROVE  Known(n)'
<1>0. /\ History \in Nat /\ \A m \in 1..n : m \in 1..History
      /\ \A m \in 1..History : log[m] \in Resources
      /\ \A r \in Resources : snapshot[r].version \in Nat /\ snapshot'[r].version \in Nat
      /\ cursor.value \in Nat \union {None} /\ cursor'.value \in Nat \union {None}
      /\ cursor.generation \in Nat \ {0}
  <2>1. History \in Nat /\ n \in Nat /\ n <= History
    BY DEF IInv, TypeOK, History, Known, Numbers
  <2>2. \A m \in 1..n : m \in 1..History
    BY <2>1
  <2>3. \A m \in 1..History : log[m] \in Resources
    BY DEF IInv, TypeOK, History
  <2>4. snapshot \in [Resources -> StoredType] /\ snapshot' \in [Resources -> StoredType]
    BY DEF IInv, TypeOK
  <2>5. /\ cursor.value \in Nat \union {None} /\ cursor'.value \in Nat \union {None}
        /\ cursor.generation \in Nat \ {0}
    BY DEF IInv, TypeOK
  <2> QED BY <2>1, <2>2, <2>3, <2>4, <2>5 DEF StoredType
<1>1. CASE UNCHANGED <<provided, stored>>
  BY <1>1 DEF Known, Reflected, History, Mail, provided, stored
<1>2. ASSUME NEW r \in Resources, NEW gone \in BOOLEAN, Change(r, gone)
      PROVE  Known(n)'
  <2>1. UNCHANGED stored /\ History' = History + 1
    BY <1>2 DEF Change, IInv, TypeOK, History
  <2>2. \A m \in 1..n : Reflected(m)'
    BY <1>0, <1>2, ChangeReflects DEF Known
  <2> QED BY <1>0, <2>1, <2>2 DEF Known, stored, Numbers
<1>3. CASE UNCHANGED provided /\ ~UNCHANGED stored
  <2>0. History' = History /\ Mail' = Mail /\ log' = log /\ provider' = provider
    BY <1>3 DEF History, Mail, provided
  <2>1. PICK c \in Callers : (Reset(c) /\ Authorized) \/ (Apply(c) /\ Permitted)
    BY <1>3, StoredStays
  <2>2. CASE Reset(c)
    <3>1. cursor'.generation = cursor.generation + 1 /\ snapshot' = snapshot
      BY <1>3, <2>2 DEF Reset, Revoked
    <3> QED BY <1>0, <2>0, <3>1 DEF Known, Reflected
  <2>3. CASE Apply(c)
    <3>1. cursor'.value # None /\ cursor'.generation = cursor.generation
      BY <1>3, <2>3, NoneAssumption DEF Apply, Revoked, Failed, IInv, TypeOK, CallType
    <3>2. CASE cursor.generation = 1
      <4>1. n <= cursor'.value
        BY <1>0, <3>1, <3>2, StoreAdvances DEF Known, Numbers
      <4>2. \A m \in 1..n : Reflected(m)'
        BY <1>0, <2>0, <3>1, <4>1 DEF IInv, CursorIsHonest, Numbers
      <4> QED BY <2>0, <3>1, <4>1, <4>2 DEF Known
    <3>3. CASE cursor.generation # 1
      <4>1. ASSUME NEW m \in 1..n
            PROVE  Reflected(m)'
        <5>1. Reflected(m) /\ log[m] \in Resources /\ m \in Nat
          BY <1>0 DEF Known
        <5>2. snapshot'[log[m]].version >= snapshot[log[m]].version
          BY <5>1, StoreAdvances
        <5> QED BY <1>0, <2>0, <3>1, <3>3, <5>1, <5>2 DEF Reflected
      <4> QED BY <2>0, <3>1, <3>3, <4>1 DEF Known
    <3> QED BY <3>2, <3>3
  <2> QED BY <2>1, <2>2, <2>3
<1> QED BY <1>1, <1>2, <1>3, ProvidedStays

LEMMA SettledStays ==
  ASSUME IInv, IInv', [Next]_vars
  PROVE  Settled \subseteq Settled'
BY KnownStays, AuthorityStaysLost DEF Settled, Numbers

\* What a caller that works for an event is about to write is so: it has the
\* event, it has read up to the event's change, and it has stored what it read
\* or found it stored.
CallSound(k) ==
  /\ k.stage \in {"check", "bind", "consume", "finish", "ignore", "fail"} => k.by = "event"
  /\ k.stage \in {"reserve", "watch", "drop", "keep"} => k.by # "event"
  /\ k.by = "event" =>
       k.sub \in Generations /\ k.at \in Numbers /\ event[k.sub][k.at].state # "none"
  /\ k.by = "event" /\ k.stage \in {"fetch", "apply"} => k.at <= k.next
  /\ k.stage \in {"bind", "consume", "finish", "ignore"} => k.at \in Settled
  /\ k.stage = "finish" => event[k.sub][k.at].admitted
CallsSound == \A c \in Callers : CallSound(call[c])
EventsSound ==
  \A s \in Generations, n \in Numbers :
    /\ event[s][n].state # "none" => n <= History
    /\ event[s][n].state = "processed" => event[s][n].admitted
    /\ event[s][n].state \in {"processed", "ignored"} => n \in Settled
SubsSound == \A s \in Generations : sub[s].last # 0 => sub[s].last \in Settled
SettledInv == IInv /\ CallsSound /\ EventsSound /\ SubsSound

\* The history only grows.
LEMMA HistoryGrows ==
  ASSUME IInv, [Next]_vars
  PROVE  History' >= History /\ History \in Nat /\ History' \in Nat
<1>0. History \in Nat
  BY DEF IInv, TypeOK, History
<1>1. ASSUME NEW r \in Resources, NEW gone \in BOOLEAN, Change(r, gone)
      PROVE  History' = History + 1
  BY <1>1 DEF Change, IInv, TypeOK, History
<1>2. CASE UNCHANGED provided
  BY <1>2 DEF provided, History
<1> QED BY <1>0, <1>1, <1>2, ProvidedStays

LEMMA EventsSettled ==
  ASSUME SettledInv, IInv', [Next]_vars
  PROVE  EventsSound'
<1> SUFFICES ASSUME NEW s \in Generations, NEW n \in Numbers
             PROVE  /\ event'[s][n].state # "none" => n <= History'
                    /\ event'[s][n].state = "processed" => event'[s][n].admitted
                    /\ event'[s][n].state \in {"processed", "ignored"} => n \in Settled'
  BY DEF EventsSound
<1>1. /\ History' >= History /\ History \in Nat /\ History' \in Nat
      /\ Settled \subseteq Settled' /\ n \in Nat
      /\ TypeOK
  BY HistoryGrows, SettledStays DEF SettledInv, IInv, Numbers
<1>2. Grows(event'[s][n], event[s][n], s, n)
  BY <1>1, EventStays
<1>3. /\ event[s][n].state # "none" => n <= History
      /\ event[s][n].state = "processed" => event[s][n].admitted
      /\ event[s][n].state \in {"processed", "ignored"} => n \in Settled
  BY DEF SettledInv, EventsSound
<1>4. Closes(s, n, {"finish", "ignore", "fail"}) => n <= History
  BY <1>3 DEF SettledInv, CallsSound, CallSound, Closes
<1>5. Closes(s, n, {"finish"}) => n \in Settled /\ event[s][n].admitted
  BY DEF SettledInv, CallsSound, CallSound, Closes
<1>6. Closes(s, n, {"ignore"}) => n \in Settled
  BY DEF SettledInv, CallsSound, CallSound, Closes
<1>7. event'[s][n].state # "none" => n <= History'
  BY <1>1, <1>2, <1>3, <1>4 DEF Grows
<1>8. event'[s][n].state = "processed" => event'[s][n].admitted /\ n \in Settled'
  BY <1>1, <1>2, <1>3, <1>5 DEF Grows
<1>9. event'[s][n].state = "ignored" => n \in Settled'
  BY <1>1, <1>2, <1>3, <1>6 DEF Grows
<1> QED BY <1>7, <1>8, <1>9

\* The last number of a subscription is that of an event that was finished.
LEMMA SubsSettled ==
  ASSUME SettledInv, IInv', [Next]_vars
  PROVE  SubsSound'
<1>0. SubsOK /\ Settled \subseteq Settled'
  BY SettledStays DEF SettledInv, IInv, TypeOK, SubsOK
<1>1. ASSUME \A s \in Generations : sub'[s].last = sub[s].last
      PROVE  SubsSound'
  BY <1>0, <1>1 DEF SettledInv, SubsSound
<1>2. ASSUME NEW s \in Generations, NEW row, row.last = sub[s].last,
             sub' = [sub EXCEPT ![s] = row]
      PROVE  \A t \in Generations : sub'[t].last = sub[t].last
  BY <1>0, <1>2 DEF SubsOK
<1>3. ASSUME NEW c \in Callers, EventStep(c)
      PROVE  SubsSound'
  <2>1. CASE Finish(c)
    <3> DEFINE k == call[c]
    <3>1. k.at \in Settled /\ k.sub \in Generations
      BY <2>1 DEF Finish, SettledInv, CallsSound, CallSound
    <3>2. sub' = sub \/ sub' = [sub EXCEPT ![k.sub].last = k.at]
      BY <2>1 DEF Finish
    <3>3. CASE sub' = [sub EXCEPT ![k.sub].last = k.at]
      <4>1. \A s \in Generations : sub'[s].last \in {sub[s].last, k.at}
        BY <1>0, <3>1, <3>3 DEF SubsOK, SubType
      <4> QED BY <1>0, <3>1, <4>1 DEF SettledInv, SubsSound
    <3> QED BY <1>1, <3>2, <3>3
  <2>2. CASE ~Finish(c)
    <3>1. sub' = sub
      BY ZenonT(30), <1>3, <2>2 DEF EventStep, Claim, Check, Bind, Consume, ConsumerFails, Fail
    <3> QED BY <1>1, <3>1
  <2> QED BY <2>1, <2>2
<1>4. ASSUME NEW c \in Callers, WatchStep(c)
      PROVE  SubsSound'
  <2>1. CASE Subscribe(c) \/ WatchFails(c)
    BY <1>1, <2>1 DEF Subscribe, WatchFails
  <2>2. ASSUME NEW s \in Generations, Renew(c, s)
        PROVE  SubsSound'
    <3> DEFINE row == [sub[s] EXCEPT !.state = "renewing", !.claimed = TRUE]
    <3>1. sub' = [sub EXCEPT ![s] = row]
      BY <2>2 DEF Renew
    <3>2. row.last = sub[s].last
      BY <1>0 DEF SubsOK, SubType
    <3> HIDE DEF row
    <3> QED BY <1>1, <1>2, <3>1, <3>2
  <2>3. CASE Reserve(c)
    <3>1. sub' = sub \/ \E s \in Generations : sub' = [sub EXCEPT ![s].state = "pending"]
      BY <2>3 DEF Reserve
    <3>2. \A s \in Generations : sub'[s].last = sub[s].last
      BY <1>0, <3>1 DEF SubsOK, SubType
    <3> QED BY <1>1, <3>2
  <2>4. CASE Activate(c)
    <3>1. \A s \in Generations : sub'[s] \in {Watched(sub[s]), Replaced(sub[s]), sub[s]}
      BY <2>4 DEF Activate
    <3>2. \A s \in Generations : sub'[s].last = sub[s].last
      BY <1>0, <3>1 DEF Watched, Replaced, SubsOK, SubType
    <3> QED BY <1>1, <3>2
  <2>5. ASSUME NEW s, NEW retry, sub' = [sub EXCEPT ![s] = Unwatched(sub[s], retry)]
        PROVE  SubsSound'
    <3>1. \A t \in Generations : sub'[t] \in {sub[t], Unwatched(sub[t], retry)}
      BY <1>0, <2>5 DEF SubsOK
    <3>2. \A t \in Generations : Unwatched(sub[t], retry).last = sub[t].last
      BY <1>0 DEF Unwatched, SubsOK, SubType
    <3> QED BY <1>1, <3>1, <3>2
  <2>6. CASE Drop(c) \/ Keep(c)
    BY <2>5, <2>6 DEF Drop, Keep
  <2> QED BY <1>4, <2>1, <2>2, <2>3, <2>4, <2>6 DEF WatchStep
<1>5. ASSUME \A s \in Generations : sub'[s] = Closed(sub[s])
      PROVE  SubsSound'
  <2>1. \A s \in Generations : Closed(sub[s]).last = sub[s].last
    BY <1>0 DEF Closed, SubsOK, SubType
  <2> QED BY <1>1, <1>5, <2>1
<1>6. ASSUME NEW s \in Generations, RenewalLapses(s)
      PROVE  SubsSound'
  <2>1. \A t \in Generations : sub'[t].last = sub[t].last
    BY <1>0, <1>6 DEF RenewalLapses, SubsOK, SubType
  <2> QED BY <1>1, <2>1
<1>7. CASE \/ \E c \in Callers : SyncStep(c) \/ RevokeGrant(c) \/ Crash(c)
           \/ UNCHANGED vars
  <2>1. sub' = sub
    BY <1>7 DEF SyncStep, Request, Begin, Reset, List, Fetch, Invalid, ReadFails, Apply,
                RevokeGrant, Crash, vars
  <2> QED BY <1>1, <2>1
<1>8. CASE \E c \in Callers : Revoke(c)
  BY <1>5, <1>8 DEF Revoke
<1>9. CASE Environment
  <2>1. CASE Disconnect
    BY <1>5, <2>1 DEF Disconnect
  <2>2. CASE ~Disconnect /\ ~\E s \in Generations : RenewalLapses(s)
    <3>1. sub' = sub
      BY <1>9, <2>2 DEF Environment, Change, ReceiveMail, ReceiveChange, Receive, EventLapses,
                        Expire
    <3> QED BY <1>1, <3>1
  <2> QED BY <1>6, <2>1, <2>2
<1> QED BY <1>3, <1>4, <1>7, <1>8, <1>9 DEF Next

\* A caller that works for no event writes none; one that works for an event
\* still has it.
Free(k) ==
  k.by # "event" /\ k.stage \notin {"check", "bind", "consume", "finish", "ignore", "fail"}
Carries(k, old) ==
  /\ old.by = "event" /\ k.by = "event" /\ k.sub = old.sub /\ k.at = old.at
  /\ k.stage \notin {"reserve", "watch", "drop", "keep"}
  /\ k.stage \in {"fetch", "apply"} => k.at <= k.next

LEMMA CarriesOn ==
  ASSUME SettledInv, IInv', [Next]_vars, NEW c \in Callers,
         \/ Free(call'[c])
         \/ /\ Carries(call'[c], call[c])
            /\ call'[c].stage \in {"bind", "consume", "finish", "ignore"} =>
                 call[c].at \in Settled'
            /\ call'[c].stage = "finish" => event'[call[c].sub][call[c].at].admitted
  PROVE  CallSound(call[c])'
<1>1. CASE Free(call'[c])
  BY <1>1 DEF Free, CallSound
<1>2. CASE Carries(call'[c], call[c])
  <2> DEFINE k == call[c]
  <2>1. k.sub \in Generations /\ k.at \in Numbers /\ event[k.sub][k.at].state # "none"
    BY <1>2 DEF Carries, SettledInv, CallsSound, CallSound
  <2>2. event'[k.sub][k.at].state # "none"
    BY <2>1, EventStays DEF Grows, SettledInv, IInv
  <2>3. CASE Free(call'[c])
    BY <2>3 DEF Free, CallSound
  <2> QED BY <1>2, <2>1, <2>2, <2>3 DEF Carries, CallSound
<1> QED BY <1>1, <1>2

LEMMA CallKept ==
  ASSUME SettledInv, IInv', [Next]_vars, NEW c \in Callers, call'[c] = call[c]
  PROVE  CallSound(call[c])'
<1> DEFINE k == call[c]
<1>1. CallSound(k) /\ Settled \subseteq Settled'
  BY SettledStays DEF SettledInv, CallsSound
<1>2. CASE k.by # "event"
  <2>1. Free(call'[c])
    BY <1>1, <1>2 DEF Free, CallSound
  <2> QED BY <2>1, CarriesOn
<1>3. CASE k.by = "event"
  <2>1. Carries(call'[c], call[c])
    BY <1>1, <1>3 DEF Carries, CallSound
  <2>2. event[k.sub][k.at].admitted => event'[k.sub][k.at].admitted
    BY <1>1, <1>3, EventStays DEF Grows, SettledInv, IInv, CallSound
  <2> QED BY <1>1, <2>1, <2>2, CarriesOn DEF CallSound
<1> QED BY <1>2, <1>3

\* The stages that promise nothing but the event.
LEMMA GoesSound ==
  ASSUME SettledInv, IInv', [Next]_vars, NEW c \in Callers,
         NEW stage \in {"sync", "list", "recover", "fail"},
         Goes(c, stage), stage = "fail" => call[c].by = "event",
         call[c].stage \notin {"check", "bind", "consume", "finish", "ignore", "fail"}
           \/ call[c].by = "event"
  PROVE  CallSound(call[c])'
<1>1. /\ call'[c].stage = stage /\ call'[c].by = call[c].by
      /\ call'[c].sub = call[c].sub /\ call'[c].at = call[c].at
  BY DEF Goes, SettledInv, IInv, TypeOK, CallType
<1>2. CASE call[c].by = "event"
  BY <1>1, <1>2, CarriesOn DEF Carries
<1>3. CASE call[c].by # "event"
  BY <1>1, <1>3, CarriesOn DEF Free
<1> QED BY <1>2, <1>3

LEMMA EndsSound ==
  ASSUME SettledInv, IInv', [Next]_vars, NEW c \in Callers, Ends(c)
  PROVE  CallSound(call[c])'
<1>1. call'[c] = Idle
  BY DEF Ends, SettledInv, IInv, TypeOK
<1> QED BY <1>1, CarriesOn DEF Free, Idle

LEMMA StopsSound ==
  ASSUME SettledInv, IInv', [Next]_vars, NEW c \in Callers,
         NEW stage \in {"ignore", "fail"}, Stops(c, stage),
         stage = "ignore" => ~Authorized'
  PROVE  CallSound(call[c])'
<1> DEFINE k == call[c]
<1>1. CASE k.by = "event"
  <2>1. call'[c] = [Idle EXCEPT !.stage = stage, !.by = "event", !.sub = k.sub, !.at = k.at]
    BY <1>1 DEF Stops, SettledInv, IInv, TypeOK
  <2>2. Carries(call'[c], k) /\ call'[c].stage = stage
    BY <1>1, <2>1 DEF Carries, Idle
  <2>3. stage = "ignore" => k.at \in Settled'
    <3>1. k.at \in Numbers
      BY <1>1 DEF SettledInv, CallsSound, CallSound
    <3> QED BY <3>1 DEF Settled, Numbers
  <2> QED BY <2>2, <2>3, CarriesOn
<1>2. CASE k.by # "event"
  <2>1. Ends(c)
    BY <1>2 DEF Stops, Ends
  <2> QED BY <2>1, EndsSound
<1> QED BY <1>1, <1>2

\* A synchronization for an event reads up to the event, and stores it.
LEMMA SyncSound ==
  ASSUME SettledInv, IInv', [Next]_vars, NEW c \in Callers, SyncStep(c)
  PROVE  CallSound(call[c])'
<1> DEFINE k == call[c]
           l == call'[c]
<1>0. /\ CallsOK /\ k \in CallType /\ CallSound(k) /\ Settled \subseteq Settled'
      /\ History \in Nat
  BY SettledStays DEF SettledInv, IInv, TypeOK, CallsOK, CallsSound, History
<1>1. ASSUME NEW full \in BOOLEAN, Request(c, full)
      PROVE  CallSound(call[c])'
  <2>1. l.stage \in {"reset", "list"} /\ l.by = "request"
    BY <1>0, <1>1 DEF Request, CallsOK, CallType
  <2> QED BY <2>1, CarriesOn DEF Free
<1>2. ASSUME Revoked(c), UNCHANGED grant, ~Authorized
      PROVE  CallSound(call[c])'
  BY <1>2, StopsSound DEF Revoked, Authorized
<1>3. ASSUME Failed(c)
      PROVE  CallSound(call[c])'
  BY <1>3, StopsSound DEF Failed
<1>4. ASSUME k.by = "event" \/ k.stage \notin {"check", "bind", "consume", "finish", "ignore", "fail"},
             l.by = k.by, l.sub = k.sub, l.at = k.at,
             \/ l.stage \in {"sync", "list", "recover"}
             \/ l.stage \in {"fetch", "apply"} /\ (k.by = "event" => k.at <= l.next)
      PROVE  CallSound(call[c])'
  BY <1>4, CarriesOn DEF Free, Carries
<1>5. CASE Begin(c)
  <2>1. CASE ~Authorized
    BY <1>2, <1>5, <2>1 DEF Begin
  <2>2. CASE Authorized
    <3>1. l.stage = "list" /\ l.by = k.by /\ l.sub = k.sub /\ l.at = k.at
      BY <1>0, <1>5, <2>2 DEF Begin, CallsOK, CallType
    <3> QED BY <1>4, <1>5, <3>1 DEF Begin
  <2> QED BY <2>1, <2>2
<1>6. CASE Reset(c)
  <2>1. CASE ~Authorized
    BY <1>2, <1>6, <2>1 DEF Reset
  <2>2. CASE Authorized
    <3>1. l.stage \in {"sync", "list"} /\ l.by = k.by /\ l.sub = k.sub /\ l.at = k.at
      BY <1>0, <1>6, <2>2 DEF Reset, CallsOK, CallType
    <3> QED BY <1>4, <1>6, <3>1 DEF Reset
  <2> QED BY <2>1, <2>2
<1>7. CASE List(c)
  <2>1. /\ l.stage \in {"fetch", "apply"} /\ l.by = k.by /\ l.sub = k.sub /\ l.at = k.at
        /\ l.next = History
    BY <1>0, <1>7 DEF List, CallsOK, CallType
  <2>2. k.by = "event" => k.at <= History
    BY <1>0 DEF CallSound, SettledInv, EventsSound
  <2> QED BY <1>4, <1>7, <2>1, <2>2 DEF List
<1>8. CASE Fetch(c)
  <2>1. CASE Failed(c)
    BY <1>3, <2>1
  <2>2. CASE ~Failed(c)
    <3>1. /\ l.stage = "apply" /\ l.by = k.by /\ l.sub = k.sub /\ l.at = k.at
          /\ l.next = k.next
      BY <1>0, <1>8, <2>2 DEF Fetch, CallsOK, CallType
    <3> QED BY <1>0, <1>4, <1>8, <3>1 DEF Fetch, CallSound
  <2> QED BY <2>1, <2>2
<1>9. CASE Invalid(c) \/ ReadFails(c)
  BY <1>3, <1>9, GoesSound DEF Invalid, ReadFails
<1>10. CASE Apply(c)
  <2>1. CASE ~Permitted
    BY <1>2, <1>10, <2>1 DEF Apply, Permitted
  <2>2. CASE Permitted /\ ~Current(c)
    BY <1>3, <1>10, <2>2 DEF Apply
  <2>3. CASE Permitted /\ Current(c) /\ k.by # "event"
    BY <1>10, <2>3, EndsSound DEF Apply
  <2>4. CASE Permitted /\ Current(c) /\ k.by = "event"
    <3> DEFINE to == [Idle EXCEPT !.stage = "bind", !.by = "event", !.sub = k.sub,
                                  !.at = k.at, !.changed = Changed(c)]
    <3>1. call' = [call EXCEPT ![c] = to]
      BY <1>10, <2>4 DEF Apply
    <3>2. to.stage = "bind" /\ to.by = "event" /\ to.sub = k.sub /\ to.at = k.at
      BY DEF Idle
    <3>3. call'[c] = to
      BY <1>0, <3>1 DEF CallsOK
    <3>4. Carries(l, k) /\ l.stage = "bind"
      BY <2>4, <3>2, <3>3 DEF Carries
    <3>5. cursor'.value = k.next /\ k.next \in Nat /\ k.at \in Numbers /\ k.at <= k.next
      BY <1>0, <1>10, <2>4 DEF Apply, SettledInv, IInv, TypeOK, CallType, CallSound
    <3>6. cursor'.value # None /\ k.next <= History /\ UNCHANGED provided
      BY <1>0, <1>10, <3>5, NoneAssumption DEF Apply, SettledInv, IInv, ReadsSound, ReadSound
    <3>7. ASSUME NEW n \in Numbers, n = k.at
          PROVE  Known(n)'
      <4>1. History' = History
        BY <3>6 DEF provided, History
      <4>2. \A m \in 1..n : m \in 1..History /\ m <= k.next
        BY <1>0, <3>5, <3>6, <3>7 DEF Numbers
      <4>3. \A m \in 1..n : Reflected(m)'
        BY <3>5, <3>6, <4>1, <4>2 DEF IInv, CursorIsHonest
      <4>4. n <= History
        BY <1>0, <3>5, <3>6, <3>7 DEF Numbers
      <4> QED BY <3>5, <3>6, <3>7, <4>1, <4>3, <4>4 DEF Known
    <3>8. k.at \in Settled'
      BY <3>5, <3>7 DEF Settled, Numbers
    <3> QED BY <3>4, <3>8, CarriesOn
  <2> QED BY <2>1, <2>2, <2>3, <2>4
<1> QED BY <1>1, <1>5, <1>6, <1>7, <1>8, <1>9, <1>10 DEF SyncStep

\* What is stale was read already: the cursor of a mailbox is past it, and a
\* later change of a calendar was settled.
LEMMA StaleIsSettled ==
  ASSUME SettledInv, NEW s \in Generations, NEW n \in Numbers, Stale(s, n), n <= History
  PROVE  n \in Settled
<1>0. /\ cursor.value \in Nat \union {None} /\ sub[s].last \in Numbers \union {0}
      /\ n \in Nat \ {0} /\ History \in Nat
  BY DEF SettledInv, IInv, TypeOK, SubType, History, Numbers
<1>1. CASE Mail
  <2>1. cursor.value # None /\ n <= cursor.value
    BY <1>1 DEF Stale
  <2>2. \A m \in 1..n : m \in 1..History /\ m <= cursor.value
    BY <1>0, <2>1, NoneAssumption
  <2>3. \A m \in 1..n : Reflected(m)
    BY <2>1, <2>2 DEF SettledInv, IInv, CursorIsHonest
  <2> QED BY <2>1, <2>3 DEF Settled, Known
<1>2. CASE ~Mail
  <2> DEFINE last == sub[s].last
  <2>1. n <= last /\ last \in Numbers /\ last \in Settled
    BY <1>0, <1>2 DEF Stale, SettledInv, SubsSound
  <2>2. \A m \in 1..n : m \in 1..last
    BY <1>0, <2>1 DEF Numbers
  <2>3. Known(last) => Known(n)
    BY <1>0, <2>1, <2>2, NoneAssumption DEF Known, Numbers
  <2> QED BY <2>1, <2>3 DEF Settled
<1> QED BY <1>1, <1>2

\* A caller that works for an event settles it only when it is stored.
LEMMA EventSound ==
  ASSUME SettledInv, IInv', [Next]_vars, NEW c \in Callers, EventStep(c)
  PROVE  CallSound(call[c])'
<1> DEFINE k == call[c]
           l == call'[c]
<1>0. /\ CallsOK /\ k \in CallType /\ CallSound(k) /\ Settled \subseteq Settled'
      /\ event \in [Generations -> [Numbers -> EventType]]
  BY SettledStays DEF SettledInv, IInv, TypeOK, CallsOK, CallsSound
<1>1. ASSUME NEW s \in Generations, NEW n \in Numbers, Claim(c, s, n)
      PROVE  CallSound(call[c])'
  <2>1. l.stage \in {"check", "sync"} /\ l.by = "event" /\ l.sub = s /\ l.at = n
    BY <1>0, <1>1 DEF Claim, CallsOK, CallType
  <2>2. event'[s][n].state = "processing"
    BY <1>0, <1>1 DEF Claim, EventType
  <2> QED BY <2>1, <2>2 DEF CallSound
<1>2. CASE Check(c)
  <2>1. k.stage = "check" /\ k.by = "event" /\ k.at \in Numbers /\ k.sub \in Generations
    BY <1>0, <1>2 DEF Check, CallSound
  <2>2. CASE Stale(k.sub, k.at)
    <3>1. Goes(c, "ignore")
      BY <1>2, <2>2 DEF Check
    <3>2. k.at \in Settled'
      <4>1. k.at <= History
        BY <1>0, <2>1 DEF SettledInv, EventsSound, CallSound
      <4> QED BY <1>0, <2>1, <2>2, <4>1, StaleIsSettled
    <3>3. Carries(l, k) /\ l.stage = "ignore"
      BY <1>0, <2>1, <3>1 DEF Goes, Carries, CallsOK, CallType
    <3> QED BY <3>2, <3>3, CarriesOn
  <2>3. CASE ~Stale(k.sub, k.at)
    BY <1>2, <2>1, <2>3, GoesSound DEF Check
  <2> QED BY <2>2, <2>3
<1>3. CASE Bind(c) \/ Consume(c)
  <2>1. k.stage \in {"bind", "consume"} /\ k.by = "event" /\ k.at \in Settled'
        /\ k.sub \in Generations /\ k.at \in Numbers
    BY <1>0, <1>3 DEF Bind, Consume, CallSound
  <2>2. CASE Bind(c)
    <3>1. Carries(l, k) /\ l.stage = "consume"
      BY <1>0, <2>1, <2>2 DEF Bind, Carries, CallsOK, CallType
    <3> QED BY <2>1, <3>1, CarriesOn
  <2>3. CASE Consume(c)
    <3>1. Carries(l, k) /\ l.stage = "finish"
      BY <1>0, <2>1, <2>3 DEF Consume, Goes, Carries, CallsOK, CallType
    <3>2. event'[k.sub][k.at].admitted
      BY <1>0, <2>1, <2>3 DEF Consume, EventType
    <3> QED BY <2>1, <3>1, <3>2, CarriesOn
  <2> QED BY <1>3, <2>2, <2>3
<1>4. CASE ConsumerFails(c)
  BY <1>0, <1>4, GoesSound DEF ConsumerFails, CallSound
<1>5. CASE Finish(c) \/ Fail(c)
  BY <1>5, EndsSound DEF Finish, Fail
<1> QED BY <1>1, <1>2, <1>3, <1>4, <1>5 DEF EventStep

LEMMA WatchSound ==
  ASSUME SettledInv, IInv', [Next]_vars, NEW c \in Callers,
         WatchStep(c) \/ Revoke(c) \/ RevokeGrant(c) \/ Crash(c)
  PROVE  CallSound(call[c])'
<1> DEFINE k == call[c]
           l == call'[c]
<1>0. CallsOK /\ k \in CallType /\ CallSound(k)
  BY DEF SettledInv, IInv, TypeOK, CallsOK, CallsSound
<1>1. CASE Free(l)
  BY <1>1, CarriesOn
<1>2. CASE Ends(c)
  BY <1>2, EndsSound
<1>3. CASE Subscribe(c)
  BY <1>0, <1>1, <1>3 DEF Subscribe, Free, CallsOK, CallType
<1>4. ASSUME NEW s \in Generations, Renew(c, s)
      PROVE  CallSound(call[c])'
  BY <1>0, <1>1, <1>4 DEF Renew, Free, CallsOK, CallType
<1>5. CASE Revoke(c)
  BY <1>0, <1>1, <1>5 DEF Revoke, Free, CallsOK, CallType
<1>6. ASSUME NEW stage \in {"drop", "keep"}, Goes(c, stage), k.by # "event"
      PROVE  CallSound(call[c])'
  BY <1>0, <1>1, <1>6 DEF Goes, Free, CallsOK, CallType
<1>7. CASE Reserve(c)
  <2>1. k.by # "event"
    BY <1>0, <1>7 DEF Reserve, CallSound
  <2>2. CASE Authorized
    <3>1. l.stage = "watch" /\ l.by = k.by
      BY <1>0, <1>7, <2>2 DEF Reserve, CallsOK, CallType
    <3> QED BY <1>1, <2>1, <3>1 DEF Free
  <2>3. CASE ~Authorized
    BY <1>2, <1>6, <1>7, <2>1, <2>3 DEF Reserve
  <2> QED BY <2>2, <2>3
<1>8. CASE WatchFails(c)
  BY <1>0, <1>6, <1>8 DEF WatchFails, CallSound
<1>9. CASE Activate(c)
  <2>1. CASE k.by = "renewal"
    <3>1. l = [Idle EXCEPT !.stage = "sync", !.by = "renewal"]
      BY <1>0, <1>9, <2>1 DEF Activate, CallsOK
    <3> QED BY <1>1, <3>1 DEF Idle, Free
  <2>2. CASE k.by # "renewal"
    BY <1>2, <1>9, <2>2 DEF Activate
  <2> QED BY <2>1, <2>2
<1>10. CASE Drop(c)
  BY <1>0, <1>2, <1>6, <1>10 DEF Drop, CallSound
<1>11. CASE Keep(c) \/ RevokeGrant(c) \/ Crash(c)
  BY <1>2, <1>11 DEF Keep, RevokeGrant, Crash
<1> QED BY <1>3, <1>4, <1>5, <1>7, <1>8, <1>9, <1>10, <1>11 DEF WatchStep

\* A step is that of one caller, or of none.
LEMMA OthersRest ==
  ASSUME TypeOK, NEW c \in Callers, NEW d \in Callers, d # c,
         SyncStep(c) \/ EventStep(c) \/ WatchStep(c) \/ Revoke(c) \/ RevokeGrant(c) \/ Crash(c)
  PROVE  call'[d] = call[d]
<1>0. CallsOK
  BY TypeParts
<1>1. ASSUME NEW k, call' = [call EXCEPT ![c] = k]
      PROVE  call'[d] = call[d]
  BY <1>0, <1>1 DEF CallsOK
<1>2. ASSUME NEW stage, Goes(c, stage) \/ Stops(c, stage) \/ Ends(c)
      PROVE  call'[d] = call[d]
  BY <1>1, <1>2 DEF Goes, Stops, Ends
<1>3. CASE SyncStep(c)
  BY <1>1, <1>2, <1>3 DEF SyncStep, Request, Begin, Reset, List, Fetch, Invalid, ReadFails,
                          Apply, Revoked, Failed
<1>4. CASE EventStep(c)
  <2>1. ASSUME NEW s \in Generations, NEW n \in Numbers, Claim(c, s, n)
        PROVE  call'[d] = call[d]
    BY <1>0, <2>1 DEF Claim, CallsOK
  <2>2. CASE Bind(c)
    BY <1>0, <2>2 DEF Bind, CallsOK
  <2>3. CASE Check(c) \/ Consume(c) \/ ConsumerFails(c) \/ Finish(c) \/ Fail(c)
    BY <1>2, <2>3 DEF Check, Consume, ConsumerFails, Finish, Fail
  <2> QED BY <1>4, <2>1, <2>2, <2>3 DEF EventStep
<1>5. CASE WatchStep(c)
  BY <1>1, <1>2, <1>5 DEF WatchStep, Subscribe, Renew, Reserve, WatchFails, Activate, Drop,
                          Keep
<1>6. CASE Revoke(c) \/ RevokeGrant(c) \/ Crash(c)
  BY <1>1, <1>2, <1>6 DEF Revoke, RevokeGrant, Crash
<1> QED BY <1>3, <1>4, <1>5, <1>6

LEMMA SettledStep == SettledInv /\ [Next]_vars => SettledInv'
<1> SUFFICES ASSUME SettledInv, [Next]_vars PROVE SettledInv'
  OBVIOUS
<1>0. IInv' /\ TypeOK
  BY StepInv DEF SettledInv, IInv
<1>1. CASE \E c \in Callers : \/ SyncStep(c) \/ EventStep(c) \/ WatchStep(c)
                              \/ Revoke(c) \/ RevokeGrant(c) \/ Crash(c)
  <2>1. PICK c \in Callers : \/ SyncStep(c) \/ EventStep(c) \/ WatchStep(c)
                             \/ Revoke(c) \/ RevokeGrant(c) \/ Crash(c)
    BY <1>1
  <2>2. CallSound(call[c])'
    BY <1>0, <2>1, SyncSound, EventSound, WatchSound
  <2>3. ASSUME NEW d \in Callers, d # c
        PROVE  CallSound(call[d])'
    BY <1>0, <2>1, <2>3, OthersRest, CallKept
  <2>4. CallsSound'
    BY <2>2, <2>3 DEF CallsSound
  <2> QED BY <1>0, <2>4, EventsSettled, SubsSettled DEF SettledInv
<1>2. CASE Environment \/ UNCHANGED vars
  <2>1. call' = call
    BY <1>2 DEF Environment, Change, ReceiveMail, ReceiveChange, Receive, EventLapses,
                RenewalLapses, Disconnect, Expire, vars
  <2>2. CallsSound'
    BY <1>0, <2>1, CallKept DEF CallsSound
  <2> QED BY <1>0, <2>2, EventsSettled, SubsSettled DEF SettledInv
<1> QED BY <1>1, <1>2 DEF Next

LEMMA SettledInit == Init => SettledInv
<1> SUFFICES ASSUME Init PROVE SettledInv
  OBVIOUS
<1>1. IInv
  BY InitInv
<1>2. CallsSound
  BY DEF Init, CallsSound, CallSound, Idle
<1>3. EventsSound /\ SubsSound
  BY DEF Init, EventsSound, SubsSound, NoEvent, NoSub
<1> QED BY <1>1, <1>2, <1>3 DEF SettledInv

\* For any number of callers, events, subscriptions and changes, an event that is
\* settled while the grant is good has everything up to its change in the store,
\* and one that is processed was shown to the automations (process_event,
\* event_is_stale, finish_event).
THEOREM NothingLost == Spec => []SettledIsSynced
<1>1. SettledInv => SettledIsSynced
  BY DEF SettledInv, EventsSound, SettledIsSynced, Settled, Known
<1> QED BY <1>1, SettledInit, SettledStep, PTL DEF Spec

-----------------------------------------------------------------------------
(* Subscriptions *)

\* A caller holds the subscription it has reserved; nobody else reserves,
\* replaces or renews it.
Reserving(k) == k.stage \in {"watch", "drop"}
ReservedApart ==
  \A c \in Callers : Reserving(call[c]) =>
    /\ call[c].sub \in Made
    /\ ~sub[call[c].sub].renewable
    /\ \A d \in Callers :
         /\ call[d].old # call[c].sub
         /\ d # c /\ Reserving(call[d]) => call[d].sub # call[c].sub
OldMade == \A c \in Callers : call[c].old # 0 => call[c].old \in Made
UnmadeIsFresh == \A s \in Generations : s \notin Made => ~sub[s].renewable

\* A subscription that goes on.  That it was revoked does not take its turn to be
\* renewed from it: a renewal that fails afterwards makes it pending again.
Lasting(row) ==
  \/ row.attempts >= MaxAttempts
  \/ row.renewable /\ row.state \in {"pending", "active", "renewing", "revoked"}
Lasts ==
  (\E s \in Generations : sub[s].state = "superseded") =>
    \E s \in Generations : Lasting(sub[s])

WatchInv == TypeOK /\ ReservedApart /\ OldMade /\ UnmadeIsFresh /\ Lasts

\* What a caller may become without reserving or replacing anything.
Follows(k, old) ==
  /\ k.old \in {0, old.old}
  /\ Reserving(k) => Reserving(old) /\ k.sub = old.sub

LEMMA GoesFollows ==
  ASSUME CallsOK, NEW c \in Callers, NEW stage, Goes(c, stage),
         stage \in {"watch", "drop"} => Reserving(call[c])
  PROVE  \A d \in Callers : Follows(call'[d], call[d])
BY DEF Goes, Follows, Reserving, CallsOK, CallType

LEMMA EndsFollows ==
  ASSUME CallsOK, NEW c \in Callers, Ends(c)
  PROVE  \A d \in Callers : Follows(call'[d], call[d])
BY DEF Ends, Idle, Follows, Reserving, CallsOK

LEMMA StopsFollows ==
  ASSUME CallsOK, NEW c \in Callers, NEW stage \in {"ignore", "fail"}, Stops(c, stage)
  PROVE  \A d \in Callers : Follows(call'[d], call[d])
<1>1. CASE call[c].by = "event"
  BY <1>1 DEF Stops, Idle, Follows, Reserving, CallsOK
<1>2. CASE call[c].by # "event"
  BY <1>2, EndsFollows DEF Stops, Ends
<1> QED BY <1>1, <1>2

\* Synchronizations and events reserve nothing.
LEMMA SyncFollows ==
  ASSUME CallsOK, NEW c \in Callers, SyncStep(c)
  PROVE  \A d \in Callers : Follows(call'[d], call[d])
<1> USE DEF CallsOK, CallType
<1>1. ASSUME NEW full \in BOOLEAN, Request(c, full)
      PROVE  \A d \in Callers : Follows(call'[d], call[d])
  BY <1>1 DEF Request, Follows, Reserving
<1>2. CASE Begin(c)
  <2>1. CASE ~Authorized
    BY <1>2, <2>1, StopsFollows DEF Begin, Revoked
  <2>2. CASE Authorized
    <3>1. call'[c].stage \in {"sync", "list"} /\ call'[c].old = call[c].old
          /\ \A d \in Callers : d # c => call'[d] = call[d]
      BY <1>2, <2>2 DEF Begin
    <3> QED BY <3>1 DEF Follows, Reserving
  <2> QED BY <2>1, <2>2
<1>3. CASE Reset(c)
  <2>1. CASE ~Authorized
    BY <1>3, <2>1, StopsFollows DEF Reset, Revoked
  <2>2. CASE Authorized
    <3>1. call'[c].stage \in {"sync", "list"} /\ call'[c].old = call[c].old
          /\ \A d \in Callers : d # c => call'[d] = call[d]
      BY <1>3, <2>2 DEF Reset
    <3> QED BY <3>1 DEF Follows, Reserving
  <2> QED BY <2>1, <2>2
<1>4. CASE List(c)
  BY <1>4 DEF List, Follows, Reserving
<1>5. CASE Fetch(c)
  BY <1>5, StopsFollows DEF Fetch, Failed, Follows, Reserving
<1>6. CASE Invalid(c) \/ ReadFails(c)
  BY <1>6, StopsFollows, GoesFollows DEF Invalid, ReadFails, Failed
<1>7. CASE Apply(c)
  <2>1. CASE Permitted /\ Current(c) /\ call[c].by = "event"
    <3>1. call' = [call EXCEPT ![c] = [Idle EXCEPT !.stage = "bind", !.by = "event",
                     !.sub = call[c].sub, !.at = call[c].at, !.changed = Changed(c)]]
      BY <1>7, <2>1 DEF Apply
    <3>2. call'[c].old = 0 /\ call'[c].stage = "bind"
      BY <3>1 DEF Idle
    <3>3. \A d \in Callers : d # c => call'[d] = call[d]
      BY <3>1
    <3> QED BY <3>2, <3>3 DEF Follows, Reserving
  <2>2. CASE ~(Permitted /\ Current(c) /\ call[c].by = "event")
    BY <1>7, <2>2, StopsFollows, EndsFollows DEF Apply, Revoked, Failed
  <2> QED BY <2>1, <2>2
<1> QED BY <1>1, <1>2, <1>3, <1>4, <1>5, <1>6, <1>7 DEF SyncStep

LEMMA EventFollows ==
  ASSUME CallsOK, NEW c \in Callers, EventStep(c)
  PROVE  \A d \in Callers : Follows(call'[d], call[d])
<1> USE DEF CallsOK, CallType
<1>1. ASSUME NEW s \in Generations, NEW n \in Numbers, Claim(c, s, n)
      PROVE  \A d \in Callers : Follows(call'[d], call[d])
  <2>1. call'[c].stage \in {"check", "sync"} /\ call'[c].old = call[c].old
    BY <1>1 DEF Claim
  <2>2. \A d \in Callers : d # c => call'[d] = call[d]
    BY <1>1 DEF Claim
  <2> QED BY <2>1, <2>2 DEF Follows, Reserving
<1>2. CASE Bind(c)
  BY <1>2 DEF Bind, Follows, Reserving
<1>3. CASE Check(c) \/ Consume(c) \/ ConsumerFails(c) \/ Finish(c) \/ Fail(c)
  BY <1>3, GoesFollows, EndsFollows DEF Check, Consume, ConsumerFails, Finish, Fail
<1> QED BY <1>1, <1>2, <1>3 DEF EventStep

\* Callers that follow keep what they hold apart, as long as what they hold does
\* not become renewable.
LEMMA FollowsApart ==
  ASSUME ReservedApart, OldMade,
         \A d \in Callers : Follows(call'[d], call[d]),
         \A s \in Generations : s \in Made => s \in Made',
         \A c \in Callers : Reserving(call'[c]) => ~sub'[call[c].sub].renewable
  PROVE  ReservedApart' /\ OldMade'
<1>1. OldMade'
  BY DEF OldMade, Follows, Made
<1>2. ASSUME NEW c \in Callers, Reserving(call'[c])
      PROVE  /\ call'[c].sub \in Made'
             /\ ~sub'[call'[c].sub].renewable
             /\ \A d \in Callers :
                  /\ call'[d].old # call'[c].sub
                  /\ d # c /\ Reserving(call'[d]) => call'[d].sub # call'[c].sub
  <2>1. Reserving(call[c]) /\ call'[c].sub = call[c].sub /\ call[c].sub \in Made
    BY <1>2 DEF Follows, ReservedApart
  <2>2. call[c].sub # 0
    BY <2>1 DEF Made, Generations
  <2>3. ASSUME NEW d \in Callers
        PROVE  /\ call'[d].old # call'[c].sub
               /\ d # c /\ Reserving(call'[d]) => call'[d].sub # call'[c].sub
    BY <2>1, <2>2 DEF Follows, ReservedApart
  <2> QED BY <1>2, <2>1, <2>3 DEF Made
<1> QED BY <1>1, <1>2 DEF ReservedApart

\* Rows that are left alone, claimed, revoked or told of an event.
Alters(new, old) ==
  /\ new.renewable = old.renewable /\ new.attempts = old.attempts
  /\ \/ new.state = old.state
     \/ /\ old.state \in {"pending", "active", "renewing"}
        /\ new.state \in {"renewing", "revoked"}

LEMMA AltersWatch ==
  ASSUME WatchInv, TypeOK', \A d \in Callers : Follows(call'[d], call[d]),
         \A s \in Generations : Alters(sub'[s], sub[s])
  PROVE  WatchInv'
<1>1. Made' = Made
  BY DEF Made, Alters
<1>2. Lasts'
  <2>1. \A s \in Generations : Lasting(sub[s]) => Lasting(sub'[s])
    BY DEF Alters, Lasting
  <2>2. \A s \in Generations : sub'[s].state = "superseded" => sub[s].state = "superseded"
    BY DEF Alters
  <2> QED BY <2>1, <2>2 DEF WatchInv, Lasts
<1>3. \A c \in Callers : Reserving(call'[c]) => ~sub'[call[c].sub].renewable
  BY DEF WatchInv, Follows, ReservedApart, Made, Alters
<1>4. UnmadeIsFresh'
  BY <1>1 DEF WatchInv, UnmadeIsFresh, Alters
<1> QED BY <1>1, <1>2, <1>3, <1>4, FollowsApart DEF WatchInv

\* A renewal of a subscription, which nobody has reserved because that would not
\* be due.
LEMMA RenewWatch ==
  ASSUME WatchInv, TypeOK', NEW c \in Callers, NEW s \in Generations, Renew(c, s)
  PROVE  WatchInv'
<1>0. CallsOK /\ SubsOK
  BY TypeParts DEF WatchInv
<1>1. /\ call'[c].old = s /\ call'[c].stage = "reserve"
      /\ \A d \in Callers : d # c => call'[d] = call[d]
      /\ \A t \in Generations : Alters(sub'[t], sub[t])
  BY <1>0 DEF Renew, Renewable, Live, Alters, CallsOK, CallType, SubsOK, SubType
<1>2. Made' = Made /\ s \in Made /\ sub[s].renewable
  <2>1. \A t \in Generations : sub'[t].state = "none" <=> sub[t].state = "none"
    BY <1>1 DEF Alters
  <2>2. sub[s].state # "none" /\ sub[s].renewable
    BY DEF Renew, Renewable, Live
  <2> QED BY <2>1, <2>2 DEF Made
<1>3. OldMade'
  BY <1>1, <1>2 DEF WatchInv, OldMade
<1>4. ReservedApart'
  BY <1>1, <1>2 DEF WatchInv, ReservedApart, Reserving, Alters, Made
<1>5. Lasts'
  <2>1. \A t \in Generations : Lasting(sub[t]) => Lasting(sub'[t])
    BY <1>1 DEF Alters, Lasting
  <2>2. \A t \in Generations : sub'[t].state = "superseded" => sub[t].state = "superseded"
    BY <1>1 DEF Alters
  <2> QED BY <2>1, <2>2 DEF WatchInv, Lasts
<1>6. UnmadeIsFresh'
  BY <1>1, <1>2 DEF WatchInv, UnmadeIsFresh, Alters
<1> QED BY <1>3, <1>4, <1>5, <1>6 DEF WatchInv

\* A reserved subscription is a new one.
LEMMA ReserveWatch ==
  ASSUME WatchInv, TypeOK', NEW c \in Callers, Reserve(c)
  PROVE  WatchInv'
<1>0. CallsOK /\ SubsOK
  BY TypeParts DEF WatchInv
<1>1. CASE ~Authorized
  <2>1. \A d \in Callers : Follows(call'[d], call[d])
    BY <1>0, <1>1, GoesFollows, EndsFollows DEF Reserve
  <2>2. \A s \in Generations : Alters(sub'[s], sub[s])
    BY <1>1 DEF Reserve, Alters
  <2> QED BY <2>1, <2>2, AltersWatch
<1>2. CASE Authorized
  <2>1. PICK s \in Generations :
          /\ s \notin Made
          /\ sub' = [sub EXCEPT ![s].state = "pending"]
          /\ call' = [call EXCEPT ![c].stage = "watch", ![c].sub = s]
    BY <1>2 DEF Reserve
  <2>2. /\ call'[c].sub = s /\ call'[c].old = call[c].old
        /\ \A d \in Callers : d # c => call'[d] = call[d]
        /\ \A t \in Generations : t # s => sub'[t] = sub[t]
        /\ sub'[s].state = "pending" /\ sub'[s].renewable = sub[s].renewable
        /\ sub'[s].attempts = sub[s].attempts
    BY <1>0, <2>1 DEF CallsOK, CallType, SubsOK, SubType
  <2>3. Made' = Made \union {s}
    BY <2>1, <2>2 DEF Made
  <2>4. OldMade'
    BY <2>2, <2>3 DEF WatchInv, OldMade
  <2>5. \A d \in Callers : call[d].old # s
    <3>1. s # 0
      BY DEF Generations
    <3> QED BY <2>1, <3>1 DEF WatchInv, OldMade
  <2>6. ~sub'[s].renewable
    BY <2>1, <2>2 DEF WatchInv, UnmadeIsFresh
  <2>7. ReservedApart'
    <3>1. ASSUME NEW b \in Callers, Reserving(call'[b]), b # c
          PROVE  /\ call[b].sub \in Made /\ call[b].sub \in Generations
                 /\ call[b].sub # s /\ Reserving(call[b])
                 /\ ~sub[call[b].sub].renewable
      BY <2>1, <2>2, <3>1 DEF WatchInv, ReservedApart, Made
    <3>2. ASSUME NEW b \in Callers, Reserving(call'[b])
          PROVE  call'[b].sub \in Made' /\ ~sub'[call'[b].sub].renewable
      BY <2>2, <2>3, <2>6, <3>1, <3>2
    <3>3. ASSUME NEW b \in Callers, Reserving(call'[b]), NEW d \in Callers
          PROVE  call'[d].old # call'[b].sub
      <4>1. call'[d].old = call[d].old
        BY <2>2
      <4>2. CASE b = c
        BY <2>2, <2>5, <4>1, <4>2
      <4>3. CASE b # c
        BY <2>2, <3>1, <3>3, <4>1, <4>3 DEF WatchInv, ReservedApart
      <4> QED BY <4>2, <4>3
    <3>4. ASSUME NEW b \in Callers, Reserving(call'[b]),
                 NEW d \in Callers, Reserving(call'[d]), d # b
          PROVE  call'[d].sub # call'[b].sub
      <4>1. CASE b # c /\ d # c
        BY <2>2, <3>1, <3>4, <4>1 DEF WatchInv, ReservedApart
      <4>2. CASE b = c \/ d = c
        BY <2>2, <3>1, <3>4, <4>2
      <4> QED BY <4>1, <4>2
    <3> QED BY <3>2, <3>3, <3>4 DEF ReservedApart
  <2>8. Lasts'
    BY <2>1, <2>2, <2>3 DEF WatchInv, Lasts, Lasting
  <2>9. UnmadeIsFresh'
    BY <2>2, <2>3 DEF WatchInv, UnmadeIsFresh
  <2> QED BY <2>4, <2>7, <2>8, <2>9 DEF WatchInv
<1> QED BY <1>1, <1>2

\* The new subscription takes the place of the old one.
LEMMA ActivateWatch ==
  ASSUME WatchInv, TypeOK', NEW c \in Callers, Activate(c)
  PROVE  WatchInv'
<1> DEFINE s == call[c].sub
<1>0. CallsOK /\ SubsOK
  BY TypeParts DEF WatchInv
<1>1. s \in Made /\ s \in Generations
  BY DEF Activate, WatchInv, ReservedApart, Reserving, Made
<1>2. \A d \in Callers : Follows(call'[d], call[d])
  <2>1. CASE call[c].by = "renewal"
    BY ZenonT(30), <1>0, <2>1 DEF Activate, Idle, Follows, Reserving, CallsOK
  <2>2. CASE call[c].by # "renewal"
    BY <1>0, <2>2, EndsFollows DEF Activate
  <2> QED BY <2>1, <2>2
<1>3. /\ sub'[s] = Watched(sub[s])
      /\ \A t \in Generations :
           t # s => sub'[t] \in {sub[t], Replaced(sub[t])}
      /\ \A t \in Generations :
           sub'[t] = Replaced(sub[t]) /\ sub'[t] # sub[t] /\ t # s => t = call[c].old
  BY <1>1 DEF Activate
<1>4. \A t \in Generations \ {s} :
        sub'[t].renewable = sub[t].renewable /\ (t \in Made <=> t \in Made')
  <2>1. ASSUME NEW t \in Generations, t # s
        PROVE  sub'[t].renewable = sub[t].renewable
    BY <1>0, <1>3, <2>1 DEF Replaced, SubsOK, SubType
  <2>2. ASSUME NEW t \in Generations, t # s
        PROVE  t \in Made <=> t \in Made'
    <3>1. CASE sub'[t] = sub[t]
      BY <3>1 DEF Made
    <3>2. CASE sub'[t] # sub[t]
      <4>1. t = call[c].old /\ sub'[t].state = "superseded"
        BY ZenonT(30), <1>0, <1>3, <2>2, <3>2 DEF Replaced, SubsOK, SubType
      <4>2. t # 0
        BY DEF Generations
      <4> QED BY <4>1, <4>2 DEF WatchInv, OldMade, Made
    <3> QED BY <3>1, <3>2
  <2> QED BY <2>1, <2>2
<1>5. sub'[s].state = "active" /\ sub'[s].renewable
  BY <1>0, <1>1, <1>3 DEF Watched, SubsOK, SubType
<1>6. s \in Made'
  BY <1>1, <1>5 DEF Made
<1>7. ~Reserving(call'[c])
  <2>1. \/ call'[c] = [Idle EXCEPT !.stage = "sync", !.by = "renewal"]
        \/ call'[c] = Idle
    BY <1>0 DEF Activate, Ends, CallsOK
  <2>2. call'[c].stage \in {"sync", "idle"}
    <3>1. Idle.stage = "idle" /\ [Idle EXCEPT !.stage = "sync", !.by = "renewal"].stage = "sync"
      BY DEF Idle
    <3> QED BY <2>1, <3>1
  <2> QED BY <2>2 DEF Reserving
<1> HIDE DEF s
<1>8. \A d \in Callers : Reserving(call'[d]) => ~sub'[call[d].sub].renewable
  <2> SUFFICES ASSUME NEW d \in Callers, Reserving(call'[d])
               PROVE  ~sub'[call[d].sub].renewable
    OBVIOUS
  <2>1. d # c /\ Reserving(call[d]) /\ Reserving(call[c])
    BY <1>2, <1>7 DEF Follows, Activate, Reserving
  <2>2. call[d].sub # s /\ call[d].sub \in Generations /\ ~sub[call[d].sub].renewable
    BY <2>1 DEF WatchInv, ReservedApart, Made, s
  <2> QED BY <1>4, <2>2
<1>9. ReservedApart' /\ OldMade'
  <2>1. \A t \in Generations : t \in Made => t \in Made'
    BY <1>4, <1>6
  <2> QED BY <1>2, <1>8, <2>1, FollowsApart DEF WatchInv
<1>10. UnmadeIsFresh'
  BY <1>4, <1>6 DEF WatchInv, UnmadeIsFresh
<1>11. Lasts'
  BY <1>1, <1>5 DEF Lasts, Lasting
<1> QED BY <1>9, <1>10, <1>11 DEF WatchInv

\* An attempt that failed counts, and leaves another one unless it was the last.
LEMMA UnwatchedRow ==
  ASSUME NEW row \in SubType, NEW retry \in BOOLEAN
  PROVE  /\ Unwatched(row, retry).state \in {"pending", "failed"}
         /\ row.attempts >= MaxAttempts => Unwatched(row, retry).attempts >= MaxAttempts
         /\ retry => Lasting(Unwatched(row, retry))
<1> DEFINE again == retry /\ row.attempts + 1 < MaxAttempts
           new == Unwatched(row, retry)
<1>1. row.attempts \in Nat /\ MaxAttempts \in Nat
  BY LimitsAssumption DEF SubType
<1>2. /\ new.attempts = row.attempts + 1 /\ new.renewable = again
      /\ new.state = IF again THEN "pending" ELSE "failed"
  BY DEF Unwatched, SubType
<1> HIDE DEF new
<1>3. retry /\ ~again => row.attempts + 1 >= MaxAttempts
  BY <1>1
<1> QED BY <1>1, <1>2, <1>3 DEF Lasting, new

\* The reserved subscription is given up; it was not the one that lasts.
LEMMA DropWatch ==
  ASSUME WatchInv, TypeOK', NEW c \in Callers, Drop(c)
  PROVE  WatchInv'
<1> DEFINE s == call[c].sub
           retry == call[c].by = "request"
<1>0. CallsOK /\ SubsOK
  BY TypeParts DEF WatchInv
<1>1. s \in Made /\ s \in Generations /\ ~sub[s].renewable
  BY DEF Drop, WatchInv, ReservedApart, Reserving, Made
<1>2. \A d \in Callers : Follows(call'[d], call[d])
  BY <1>0, GoesFollows, EndsFollows DEF Drop
<1>3. sub' = [sub EXCEPT ![s] = Unwatched(sub[s], retry)]
  BY DEF Drop
<1>4. /\ sub'[s] = Unwatched(sub[s], retry) /\ retry \in BOOLEAN /\ sub[s] \in SubType
      /\ \A t \in Generations : t # s => sub'[t] = sub[t]
  BY <1>0, <1>1, <1>3 DEF SubsOK
<1> HIDE DEF retry
<1>5. /\ sub'[s].state \in {"pending", "failed"}
      /\ sub[s].attempts >= MaxAttempts => sub'[s].attempts >= MaxAttempts
  BY <1>4, UnwatchedRow
<1>6. Made' = Made
  BY <1>1, <1>4, <1>5 DEF Made
<1>7. ~Reserving(call'[c])
  BY <1>0 DEF Drop, Goes, Ends, Idle, Reserving, CallsOK, CallType
<1> HIDE DEF s
<1>8. \A d \in Callers : Reserving(call'[d]) => ~sub'[call[d].sub].renewable
  <2> SUFFICES ASSUME NEW d \in Callers, Reserving(call'[d])
               PROVE  ~sub'[call[d].sub].renewable
    OBVIOUS
  <2>1. d # c /\ Reserving(call[d]) /\ Reserving(call[c])
    BY <1>2, <1>7 DEF Follows, Drop, Reserving
  <2>2. call[d].sub # s /\ call[d].sub \in Generations /\ ~sub[call[d].sub].renewable
    BY <2>1 DEF WatchInv, ReservedApart, Made, s
  <2> QED BY <1>4, <2>2
<1>9. ReservedApart' /\ OldMade'
  BY <1>2, <1>6, <1>8, FollowsApart DEF WatchInv
<1>10. UnmadeIsFresh'
  BY <1>1, <1>4, <1>6 DEF WatchInv, UnmadeIsFresh
<1>11. Lasts'
  <2>1. \A t \in Generations : Lasting(sub[t]) => Lasting(sub'[t])
    BY <1>1, <1>4, <1>5 DEF Lasting
  <2>2. \A t \in Generations : sub'[t].state = "superseded" => sub[t].state = "superseded"
    BY <1>4, <1>5
  <2> QED BY <2>1, <2>2 DEF WatchInv, Lasts
<1> QED BY <1>9, <1>10, <1>11 DEF WatchInv

\* The one that was to be replaced is tried again, or was tried often enough.
LEMMA KeepWatch ==
  ASSUME WatchInv, TypeOK', NEW c \in Callers, Keep(c)
  PROVE  WatchInv'
<1> DEFINE s == call[c].old
<1>0. CallsOK /\ SubsOK
  BY TypeParts DEF WatchInv
<1>1. \A d \in Callers : Follows(call'[d], call[d])
  BY <1>0, EndsFollows DEF Keep
<1>2. sub' = [sub EXCEPT ![s] = Unwatched(sub[s], TRUE)]
  BY DEF Keep
<1>3. CASE s = 0
  <2>1. s \notin Generations
    BY <1>3 DEF Generations
  <2>2. sub' = sub
    BY <1>0, <1>2, <2>1 DEF SubsOK
  <2> QED BY <1>1, <2>2, AltersWatch DEF Alters
<1>4. CASE s # 0
  <2>1. s \in Made /\ s \in Generations
    BY <1>4 DEF WatchInv, OldMade, Made
  <2>2. /\ sub'[s] = Unwatched(sub[s], TRUE) /\ sub[s] \in SubType
        /\ \A t \in Generations : t # s => sub'[t] = sub[t]
    BY <1>0, <1>2, <2>1 DEF SubsOK
  <2>3. sub'[s].state \in {"pending", "failed"} /\ Lasting(sub'[s])
    BY <2>2, UnwatchedRow
  <2>4. Made' = Made
    BY <2>1, <2>2, <2>3 DEF Made
  <2>5. \A d \in Callers : Reserving(call'[d]) => ~sub'[call[d].sub].renewable
    BY <1>1, <2>2 DEF Follows, WatchInv, ReservedApart, Made
  <2>6. ReservedApart' /\ OldMade'
    BY <1>1, <2>4, <2>5, FollowsApart DEF WatchInv
  <2>7. UnmadeIsFresh'
    BY <2>1, <2>2, <2>4 DEF WatchInv, UnmadeIsFresh
  <2>8. Lasts'
    BY <2>1, <2>3 DEF Lasts
  <2> QED BY <2>6, <2>7, <2>8 DEF WatchInv
<1> QED BY <1>3, <1>4

\* Every other step leaves the subscriptions as they are, closes them, ends a
\* claim or counts an event.
LEMMA CallerRows ==
  ASSUME SubsOK, NEW c \in Callers,
         \/ SyncStep(c) \/ EventStep(c) \/ Subscribe(c) \/ WatchFails(c)
         \/ Revoke(c) \/ RevokeGrant(c) \/ Crash(c)
  PROVE  \A s \in Generations : Alters(sub'[s], sub[s])
<1>1. CASE sub' = sub
  BY <1>1 DEF Alters
<1>2. CASE Finish(c)
  BY <1>2 DEF Finish, Alters, SubsOK, SubType
<1>3. CASE Revoke(c)
  BY <1>3 DEF Revoke, Closed, Alters, SubsOK, SubType
<1>4. SyncStep(c) => sub' = sub
  BY DEF SyncStep, Request, Begin, Reset, List, Fetch, Invalid, ReadFails, Apply
<1>5. EventStep(c) => sub' = sub \/ Finish(c)
  BY ZenonT(30) DEF EventStep, Claim, Check, Bind, Consume, ConsumerFails, Finish, Fail
<1> QED BY <1>1, <1>2, <1>3, <1>4, <1>5 DEF Subscribe, WatchFails, RevokeGrant, Crash

LEMMA EnvironmentRows ==
  ASSUME SubsOK, Environment \/ UNCHANGED vars
  PROVE  \A s \in Generations : Alters(sub'[s], sub[s])
<1>1. CASE sub' = sub
  BY <1>1 DEF Alters
<1>2. CASE Disconnect
  BY <1>2 DEF Disconnect, Closed, Alters, SubsOK, SubType
<1>3. ASSUME NEW s \in Generations, RenewalLapses(s)
      PROVE  \A t \in Generations : Alters(sub'[t], sub[t])
  BY <1>3 DEF RenewalLapses, Alters, SubsOK, SubType
<1>4. Environment =>
        sub' = sub \/ Disconnect \/ \E s \in Generations : RenewalLapses(s)
  BY DEF Environment, Change, ReceiveMail, ReceiveChange, Receive, EventLapses, Expire
<1> QED BY <1>1, <1>2, <1>3, <1>4 DEF vars

LEMMA WatchStays == WatchInv /\ [Next]_vars => WatchInv'
<1> SUFFICES ASSUME WatchInv, [Next]_vars PROVE WatchInv'
  OBVIOUS
<1>0. TypeOK' /\ CallsOK /\ SubsOK
  BY TypeStep, TypeParts DEF WatchInv
<1>1. ASSUME NEW c \in Callers,
             \/ SyncStep(c) \/ EventStep(c) \/ Subscribe(c) \/ WatchFails(c)
             \/ Revoke(c) \/ RevokeGrant(c) \/ Crash(c)
      PROVE  WatchInv'
  <2>1. \A s \in Generations : Alters(sub'[s], sub[s])
    BY <1>0, <1>1, CallerRows
  <2>2. CASE Subscribe(c) \/ Revoke(c)
    <3>1. \A d \in Callers : Follows(call'[d], call[d])
      <4>1. \E stage \in {"reserve", "revoke"} :
              call' = [call EXCEPT ![c].stage = stage, ![c].by = "request"]
        BY <2>2 DEF Subscribe, Revoke
      <4> QED BY <1>0, <4>1 DEF Follows, Reserving, CallsOK, CallType
    <3> QED BY <1>0, <2>1, <3>1, AltersWatch
  <2>3. CASE WatchFails(c)
    <3>1. Reserving(call[c]) /\ Goes(c, "drop")
      BY <2>3 DEF WatchFails, Reserving
    <3>2. \A d \in Callers : Follows(call'[d], call[d])
      BY <1>0, <3>1, GoesFollows
    <3> QED BY <1>0, <2>1, <3>2, AltersWatch
  <2>4. CASE RevokeGrant(c) \/ Crash(c)
    <3>1. \A d \in Callers : Follows(call'[d], call[d])
      BY <1>0, <2>4, EndsFollows DEF RevokeGrant, Crash
    <3> QED BY <1>0, <2>1, <3>1, AltersWatch
  <2>5. CASE SyncStep(c) \/ EventStep(c)
    <3>1. \A d \in Callers : Follows(call'[d], call[d])
      BY <1>0, <2>5, SyncFollows, EventFollows
    <3> QED BY <1>0, <2>1, <3>1, AltersWatch
  <2> QED BY <1>1, <2>2, <2>3, <2>4, <2>5
<1>2. CASE Environment \/ UNCHANGED vars
  <2>1. call' = call
    BY <1>2 DEF Environment, Change, ReceiveMail, ReceiveChange, Receive, EventLapses,
                RenewalLapses, Disconnect, Expire, vars
  <2>2. \A d \in Callers : Follows(call'[d], call[d])
    BY <2>1 DEF Follows
  <2>3. \A s \in Generations : Alters(sub'[s], sub[s])
    BY <1>0, <1>2, EnvironmentRows
  <2> QED BY <1>0, <2>2, <2>3, AltersWatch
<1>3. ASSUME NEW c \in Callers, WatchStep(c), ~Subscribe(c), ~WatchFails(c)
      PROVE  WatchInv'
  BY <1>0, <1>3, RenewWatch, ReserveWatch, ActivateWatch, DropWatch, KeepWatch DEF WatchStep
<1> QED BY <1>1, <1>2, <1>3 DEF Next

LEMMA WatchStarts == Init => WatchInv
<1> SUFFICES ASSUME Init PROVE WatchInv
  OBVIOUS
<1>1. TypeOK
  BY TypeInit
<1>2. \A c \in Callers : call[c].old = 0 /\ ~Reserving(call[c])
  BY DEF Init, Idle, Reserving
<1>3. \A s \in Generations : sub[s].state = "none" /\ ~sub[s].renewable
  BY DEF Init, NoSub
<1> QED BY <1>1, <1>2, <1>3 DEF WatchInv, ReservedApart, OldMade, UnmadeIsFresh, Lasts

\* For any number of subscriptions and of callers whose renewals overlap, fail or
\* are lost, once a subscription has been replaced there is one that is live and
\* will be renewed, unless the subscriptions were revoked or one has used up its
\* attempts (subscribe, renew_subscription, claim_renewals).
THEOREM WatchStaysOn == Spec => []WatchIsKept
<1>1. WatchInv => WatchIsKept
  <2> SUFFICES ASSUME WatchInv, NEW s \in Generations, Lasting(sub[s])
               PROVE  \/ Renewable(s)
                      \/ sub[s].state = "revoked" \/ sub[s].attempts >= MaxAttempts
    BY DEF WatchInv, Lasts, WatchIsKept
  <2>1. sub[s].attempts \in Nat /\ MaxAttempts \in Nat
    BY LimitsAssumption DEF WatchInv, TypeOK, SubType
  <2> QED BY <2>1 DEF Lasting, Renewable, Live
<1> QED BY <1>1, WatchStarts, WatchStays, PTL DEF Spec
====
