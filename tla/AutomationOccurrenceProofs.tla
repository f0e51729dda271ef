---- MODULE AutomationOccurrenceProofs ----
(* Theorems of AutomationOccurrence, for any occurrences, callers, profiles   *)
(* and bounds.                                                                *)
EXTENDS AutomationOccurrence, TLAPS

\* An occurrence: it has a row only once it is due; a run, notices and a link
\* come with a row; and a reminder's row leads nowhere else.
RowSound(o) ==
  /\ row[o].state = "none" <=> row[o].kind = "none"
  /\ row[o].state = "none" => run[o] = "none" /\ notices[o] = 0 /\ ~row[o].linked
  /\ row[o].state # "none" => due[o].revision # 0
  /\ due[o].revision <= automation.revision
  /\ created[o] = IF run[o] = "none" THEN 0 ELSE 1
  /\ notices[o] \in {0, 1}
  /\ row[o].state = "accepted" => row[o].linked
  /\ row[o].linked => run[o] # "none" /\ notices[o] = 1
  /\ row[o].kind = "reminder" =>
       run[o] = "none" /\ ~row[o].linked /\ row[o].state \in {"notified", "skipped", "blocked"}
  /\ row[o].state = "notified" =>
       /\ row[o].kind = "reminder"
       /\ due[o].revision = automation.revision => automation.profile = "reminder"

\* A call: only one is in its admission; what it is there for fits what the
\* automation is, as long as that has not changed; what it has read can be out
\* of date, but tells whether there is a row, and of which kind; and one that is
\* past its admission has a row that is no reminder's.
CallSound(c) ==
  /\ call[c].stage = "locked" <=> lock = c
  /\ call[c].stage # "idle" => call[c].on \in Occurrences /\ due[call[c].on].revision # 0
  /\ call[c].stage \in {"routed", "locked"} =>
       /\ call[c].path # "none"
       /\ due[call[c].on].revision = automation.revision =>
            /\ call[c].path = "goal" => automation.profile # "reminder"
            /\ call[c].path = "reminder" => automation.profile = "reminder"
  /\ call[c].stage = "locked" =>
       /\ call[c].seen.state = "none" <=> row[call[c].on].state = "none"
       /\ call[c].seen.kind = row[call[c].on].kind
       /\ (call[c].seen.state = "notified" /\ due[call[c].on].revision = automation.revision) =>
            automation.profile = "reminder"
       /\ call[c].seen.kind = "reminder" => call[c].seen.state \in {"notified", "skipped", "blocked"}
  /\ call[c].stage \in {"admitted", "started", "no_capacity", "refused"} =>
       row[call[c].on].state # "none" /\ row[call[c].on].kind # "reminder"
  /\ call[c].stage = "started" => run[call[c].on] # "none"

RowsSound == \A o \in Occurrences : RowSound(o)
CallsSound == \A c \in Callers : CallSound(c)
IInv == TypeOK /\ RowsSound /\ CallsSound

-----------------------------------------------------------------------------
(* The initial states and the owner *)

\* The invariant holds before anything is due.
LEMMA InitInv == Init => IInv
<1> SUFFICES ASSUME Init PROVE IInv
  OBVIOUS
<1>1. TypeOK
  <2>1. NoRow \in RowType /\ Idle \in CallType
    BY DEF NoRow, RowType, Idle, Doing, CallType
  <2>2. NotDue \in [revision : 0..MaxRevision, event : BOOLEAN] /\ 1 \in 1..MaxRevision
        /\ 0 \in 0..MaxTroubles
    BY LimitsAssumption DEF NotDue
  <2>3. automation \in [revision : 1..MaxRevision, state : {"active", "paused", "cancelled"},
                        profile : Profiles, overlap : {"skip", "buffer_one"}]
    BY <2>2 DEF Init
  <2> QED BY <2>1, <2>2, <2>3 DEF Init, TypeOK
<1>2. RowsSound
  <2>1. automation.revision = 1
    BY DEF Init
  <2>2. ASSUME NEW o \in Occurrences
        PROVE  RowSound(o)
    <3>1. row[o] = NoRow /\ due[o] = NotDue /\ run[o] = "none" /\ created[o] = 0 /\ notices[o] = 0
      BY DEF Init
    <3>2. /\ NoRow.state = "none" /\ NoRow.kind = "none" /\ NoRow.linked = FALSE
          /\ NotDue.revision = 0
      BY DEF NoRow, NotDue
    <3> QED BY <2>1, <3>1, <3>2 DEF RowSound
  <2> QED BY <2>2 DEF RowsSound
<1>3. CallsSound
  BY NoneAssumption DEF Init, CallsSound, CallSound, Idle, Doing, NoRow
<1> QED BY <1>1, <1>2, <1>3 DEF IInv

\* A change of the automation makes every call for it out of date.
LEMMA ChangeInv ==
  ASSUME IInv, NEW value \in [revision : 1..MaxRevision, state : {"active", "paused", "cancelled"},
                              profile : Profiles, overlap : {"skip", "buffer_one"}],
         Change(value)
  PROVE  IInv'
<1> USE DEF IInv, Change
<1>1. automation'.revision = automation.revision + 1 /\ automation.revision \in 1..MaxRevision
      /\ automation.revision < MaxRevision
  BY DEF TypeOK
<1>2. TypeOK'
  BY <1>1, LimitsAssumption DEF TypeOK
<1>3. RowsSound'
  BY <1>1, LimitsAssumption DEF TypeOK, RowsSound, RowSound
<1>4. CallsSound'
  <2> SUFFICES ASSUME NEW c \in Callers PROVE CallSound(c)'
    BY DEF CallsSound
  <2>1. call[c].stage # "locked"
    BY NoneAssumption DEF CallsSound, CallSound
  <2>2. call[c].stage # "idle" => due[call[c].on].revision <= automation.revision
    BY DEF RowsSound, RowSound, CallsSound, CallSound
  <2>3. call[c].stage # "idle" => due[call[c].on].revision \in Nat
    BY LimitsAssumption DEF TypeOK, CallsSound, CallSound
  <2>4. call[c].stage # "idle" => due[call[c].on].revision # automation'.revision
    BY <1>1, <2>2, <2>3, LimitsAssumption
  <2> QED BY <2>1, <2>4 DEF CallsSound, CallSound
<1> QED BY <1>2, <1>3, <1>4

\* The owner's commands and the operator's switch keep the invariant.
LEMMA OwnerInv ==
  ASSUME IInv, Owner
  PROVE  IInv'
<1>1. ASSUME NEW profile \in Profiles, NEW overlap \in {"skip", "buffer_one"},
             Update(profile, overlap)
      PROVE  IInv'
  BY <1>1, ChangeInv DEF Update, IInv, TypeOK
<1>2. ASSUME NEW target \in {"paused", "active", "cancelled"}, Transition(target)
      PROVE  IInv'
  BY <1>2, ChangeInv DEF Transition, IInv, TypeOK
<1>3. CASE SwitchOff
  BY <1>3 DEF SwitchOff, IInv, TypeOK, RowsSound, RowSound, CallsSound, CallSound
<1> QED BY <1>1, <1>2, <1>3 DEF Owner

-----------------------------------------------------------------------------
(* What a step leaves alone *)

\* An occurrence that a step does not touch stays sound.
LEMMA OtherRows ==
  ASSUME RowsSound, NEW p \in Occurrences, automation' = automation, due'[p] = due[p],
         row'[p] = row[p], run'[p] = run[p], created'[p] = created[p], notices'[p] = notices[p]
  PROVE  RowSound(p)'
BY DEF RowsSound, RowSound

\* A call that a step does not make stays sound: rows keep their kinds, and no
\* row is added under the lock of another.
LEMMA OtherCalls ==
  ASSUME IInv, NEW d \in Callers, call'[d] = call[d], automation' = automation,
         lock' = d <=> lock = d,
         \A o \in Occurrences : due[o].revision # 0 => due'[o] = due[o],
         \A o \in Occurrences : row[o].state # "none" =>
            row'[o].state # "none" /\ row'[o].kind = row[o].kind,
         lock = d => \A o \in Occurrences : row[o].state = "none" => row'[o] = row[o],
         \A o \in Occurrences : run[o] # "none" => run'[o] # "none"
  PROVE  CallSound(d)'
<1> USE DEF IInv
<1>1. call[d].stage # "idle" =>
        call[d].on \in Occurrences /\ due[call[d].on].revision # 0
        /\ due'[call[d].on] = due[call[d].on]
  BY DEF CallsSound, CallSound
<1>2. call[d].stage = "locked" =>
        /\ row'[call[d].on].kind = row[call[d].on].kind
        /\ row'[call[d].on].state = "none" <=> row[call[d].on].state = "none"
  BY <1>1 DEF CallsSound, CallSound
<1> QED BY <1>1, <1>2 DEF CallsSound, CallSound

\* A call that has come to its end, and holds no lock, is sound.
LEMMA EndedCall ==
  ASSUME NEW c \in Callers, call'[c] = Idle, lock' # c
  PROVE  CallSound(c)'
BY DEF CallSound, Idle, Doing

\* A call with a place, a path and a row that it has read is a call.
LEMMA DoingType ==
  ASSUME NEW stage \in {"idle", "called", "routed", "locked", "admitted", "started",
                        "no_capacity", "refused"},
         NEW o \in Occurrences, NEW path \in Paths \union {"none"}, NEW seen \in RowType
  PROVE  /\ Doing(stage, o, path, seen) \in CallType
         /\ Doing(stage, o, path, seen).stage = stage /\ Doing(stage, o, path, seen).on = o
         /\ Doing(stage, o, path, seen).path = path /\ Doing(stage, o, path, seen).seen = seen
BY DEF Doing, CallType

\* An idle caller, and one that does not hold the lock, is in no admission.
LEMMA LockHolder ==
  ASSUME IInv, NEW c \in Callers
  PROVE  /\ lock = c <=> call[c].stage = "locked"
         /\ call[c] = Idle => lock # c
         /\ lock = None => lock # c
BY NoneAssumption DEF IInv, CallsSound, CallSound, Idle, Doing

\* What the stages of a call say of it.
LEMMA CallFacts ==
  ASSUME IInv, NEW c \in Callers
  PROVE  /\ call[c] \in CallType /\ Idle \in CallType /\ NoRow \in RowType
         /\ call[c].stage # "idle" => call[c].on \in Occurrences
BY DEF IInv, TypeOK, CallsSound, CallSound, Idle, Doing, NoRow, CallType, RowType

-----------------------------------------------------------------------------
(* The calls *)

\* A call that is put on its way fits the automation of the time.
LEMMA RoutedCall ==
  ASSUME IInv, NEW o \in Occurrences, NEW revision
  PROVE  /\ Routed(o, revision) \in CallType
         /\ Routed(o, revision).stage \in {"idle", "routed"}
         /\ Routed(o, revision).stage = "routed" =>
              /\ Routed(o, revision).on = o
              /\ Routed(o, revision).path # "none"
              /\ Routed(o, revision).path = "goal" => automation.profile # "reminder"
              /\ Routed(o, revision).path = "reminder" => automation.profile = "reminder"
<1>1. automation.profile \in Paths
  BY ProfilesAssumption DEF IInv, TypeOK, Paths
<1>2. PathNow \in Paths /\ PathNow # "none"
      /\ (PathNow = "goal" => automation.profile # "reminder")
      /\ (PathNow = "reminder" => automation.profile = "reminder")
  BY <1>1 DEF PathNow, Paths
<1>3. Idle \in CallType /\ Idle.stage = "idle"
  BY DEF Idle, Doing, NoRow, CallType, RowType
<1>4. Doing("routed", o, PathNow, NoRow) \in CallType
  BY <1>2 DEF Doing, NoRow, CallType, RowType
<1>5. /\ Doing("routed", o, PathNow, NoRow).stage = "routed"
      /\ Doing("routed", o, PathNow, NoRow).on = o
      /\ Doing("routed", o, PathNow, NoRow).path = PathNow
  BY DEF Doing
<1>6. Routed(o, revision) \in {Idle, Doing("routed", o, PathNow, NoRow)}
  BY DEF Routed
<1> QED BY <1>2, <1>3, <1>4, <1>5, <1>6

\* Temporal's calls keep the invariant.
LEMMA FireInv ==
  ASSUME IInv, NEW c \in Callers, NEW o \in Occurrences, Fire(c, o)
  PROVE  IInv'
<1> USE DEF IInv, ownerVars
<1>1. due[o].revision # 0 \/ due[o] = NotDue
  BY DEF Fire, NotDue, TypeOK
<1>2. /\ due' \in [Occurrences -> [revision : 0..MaxRevision, event : BOOLEAN]]
      /\ due'[o].revision # 0
      /\ due'[o].revision <= automation.revision
      /\ \A p \in Occurrences : due[p].revision # 0 => due'[p] = due[p]
      /\ \A p \in Occurrences \ {o} : due'[p] = due[p]
  <2>1. /\ automation.revision \in 1..MaxRevision
        /\ due[o].revision <= automation.revision
        /\ due[o].event = FALSE
    BY DEF Fire, TypeOK, RowsSound, RowSound
  <2>2. CASE due[o] = NotDue
    <3>1. PICK revision \in 1..automation.revision : due' = [due EXCEPT ![o].revision = revision]
      BY <2>2 DEF Fire
    <3>2. due'[o] = [revision |-> revision, event |-> FALSE]
      <4>1. due'[o] = [NotDue EXCEPT !.revision = revision]
        BY <2>2, <3>1 DEF TypeOK
      <4> QED BY <4>1 DEF NotDue
    <3>3. NotDue.revision = 0
      BY DEF NotDue
    <3>4. \A p \in Occurrences \ {o} : due'[p] = due[p]
      BY <3>1 DEF TypeOK
    <3>5. revision \in 0..MaxRevision /\ revision # 0 /\ revision <= automation.revision
      BY <2>1, LimitsAssumption
    <3>6. due'[o] \in [revision : 0..MaxRevision, event : BOOLEAN]
      BY <3>2, <3>5
    <3>7. due' \in [Occurrences -> [revision : 0..MaxRevision, event : BOOLEAN]]
      BY <3>1, <3>4, <3>6 DEF TypeOK
    <3>8. due[o].revision = 0 /\ due'[o].revision = revision
      BY <2>2, <3>2, <3>3
    <3> QED BY <3>4, <3>5, <3>7, <3>8
  <2>3. CASE due[o] # NotDue
    BY <1>1, <2>1, <2>3 DEF Fire, TypeOK
  <2> QED BY <2>2, <2>3
<1>3. PICK revision : call' = [call EXCEPT ![c] = Routed(o, revision)]
  BY DEF Fire
<1>4. TypeOK'
  BY <1>2, <1>3, RoutedCall DEF Fire, TypeOK
<1>5. RowsSound'
  BY <1>2 DEF Fire, RowsSound, RowSound
<1>6. CallsSound'
  <2> SUFFICES ASSUME NEW d \in Callers PROVE CallSound(d)'
    BY DEF CallsSound
  <2>1. CASE d # c
    <3>1. call'[d] = call[d]
      BY <1>3, <2>1 DEF TypeOK
    <3>2. call[d].stage # "idle" => due'[call[d].on] = due[call[d].on]
      BY <1>2 DEF CallsSound, CallSound
    <3> QED BY <3>1, <3>2 DEF Fire, CallsSound, CallSound
  <2>2. CASE d = c
    <3>1. call'[c] = Routed(o, revision)
      BY <1>3 DEF TypeOK
    <3>2. lock # c
      BY DEF Fire, CallsSound, CallSound, Idle, Doing
    <3> QED BY <1>2, <2>2, <3>1, <3>2, RoutedCall DEF Fire, CallSound
  <2> QED BY <2>1, <2>2
<1> QED BY <1>4, <1>5, <1>6

\* A connector's event keeps the invariant.
LEMMA NoticeInv ==
  ASSUME IInv, NEW c \in Callers, NEW o \in Occurrences, Notice(c, o)
  PROVE  IInv'
<1> USE DEF IInv, ownerVars
<1>1. /\ automation.revision \in 1..MaxRevision
      /\ due[o] = NotDue \/ due[o].revision = automation.revision
  BY DEF Notice, TypeOK
<1>2. due'[o] = [revision |-> automation.revision, event |-> TRUE]
      /\ \A p \in Occurrences \ {o} : due'[p] = due[p]
  BY DEF Notice, TypeOK
<1>3. due' \in [Occurrences -> [revision : 0..MaxRevision, event : BOOLEAN]]
  BY <1>1, LimitsAssumption DEF Notice, TypeOK
<1>4. due[o].revision # 0 => due'[o].revision = due[o].revision
  BY <1>1, <1>2 DEF NotDue
<1>5. call'[c] = Doing("routed", o, "event", NoRow)
      /\ \A d \in Callers \ {c} : call'[d] = call[d]
  BY DEF Notice, TypeOK
<1>6. TypeOK'
  <2>1. Doing("routed", o, "event", NoRow) \in CallType
    BY DEF Doing, NoRow, CallType, RowType, Paths
  <2> QED BY <1>3, <2>1 DEF Notice, TypeOK
<1>7. RowsSound'
  <2> SUFFICES ASSUME NEW p \in Occurrences PROVE RowSound(p)'
    BY DEF RowsSound
  <2>1. CASE p # o
    BY <1>2, <2>1, OtherRows DEF Notice
  <2>2. CASE p = o
    <3>1. due'[o].revision = automation.revision /\ automation.revision # 0
          /\ automation.revision <= automation.revision
      BY <1>1, <1>2, LimitsAssumption
    <3>2. row[o].state # "none" => due[o].revision = automation.revision
      BY <1>1 DEF RowsSound, RowSound, NotDue
    <3> QED BY <2>2, <3>1, <3>2 DEF Notice, RowsSound, RowSound
  <2> QED BY <2>1, <2>2
<1>8. CallsSound'
  <2> SUFFICES ASSUME NEW d \in Callers PROVE CallSound(d)'
    BY DEF CallsSound
  <2>1. \A p \in Occurrences : due[p].revision # 0 => due'[p].revision = due[p].revision
    BY <1>2, <1>4
  <2>2. CASE d # c
    <3>1. call'[d] = call[d]
      BY <1>5, <2>2
    <3> QED BY <2>1, <3>1 DEF Notice, CallsSound, CallSound
  <2>3. CASE d = c
    <3>1. lock # c
      BY LockHolder DEF Notice
    <3>2. due'[o].revision # 0
      BY <1>1, <1>2, LimitsAssumption
    <3> QED BY <1>5, <2>3, <3>1, <3>2 DEF Notice, CallSound, Doing
  <2> QED BY <2>2, <2>3
<1> QED BY <1>6, <1>7, <1>8

\* A tick that calls again keeps the invariant.
LEMMA ReleaseInv ==
  ASSUME IInv, NEW c \in Callers, NEW o \in Occurrences, Release(c, o)
  PROVE  IInv'
<1> USE DEF IInv, ownerVars
<1>1. /\ row[o] \in RowType /\ row'[o] = [row[o] EXCEPT !.state = "accepting"]
      /\ row[o].state \in {"buffered", "accepting"}
      /\ \A p \in Occurrences \ {o} : row'[p] = row[p]
  BY DEF Release, Releasable, TypeOK
<1>2. /\ row'[o].state = "accepting" /\ row'[o].kind = row[o].kind
      /\ row'[o].linked = row[o].linked /\ row'[o] \in RowType
  BY <1>1 DEF RowType
<1>3. PICK next \in {Doing("routed", o, "event", NoRow), Doing("routed", o, "meeting", NoRow),
                     Doing("called", o, "none", NoRow)} : call' = [call EXCEPT ![c] = next]
  BY DEF Release
<1>4. /\ next \in CallType /\ next.on = o /\ next.stage \in {"routed", "called"}
      /\ next.stage = "routed" => next.path \in {"event", "meeting"}
  <2>1. {"event", "meeting", "none"} \subseteq Paths \union {"none"} /\ NoRow \in RowType
    BY DEF Paths, NoRow, RowType
  <2>2. /\ Doing("routed", o, "event", NoRow) \in CallType
        /\ Doing("routed", o, "event", NoRow).on = o
        /\ Doing("routed", o, "event", NoRow).stage = "routed"
        /\ Doing("routed", o, "event", NoRow).path = "event"
    BY <2>1, DoingType
  <2>3. /\ Doing("routed", o, "meeting", NoRow) \in CallType
        /\ Doing("routed", o, "meeting", NoRow).on = o
        /\ Doing("routed", o, "meeting", NoRow).stage = "routed"
        /\ Doing("routed", o, "meeting", NoRow).path = "meeting"
    BY <2>1, DoingType
  <2>4. /\ Doing("called", o, "none", NoRow) \in CallType
        /\ Doing("called", o, "none", NoRow).on = o
        /\ Doing("called", o, "none", NoRow).stage = "called"
    BY <2>1, DoingType
  <2> QED BY <2>2, <2>3, <2>4
<1>5. call'[c] = next /\ \A d \in Callers \ {c} : call'[d] = call[d]
  BY <1>3 DEF TypeOK
<1>6. TypeOK'
  BY <1>2, <1>3, <1>4 DEF Release, TypeOK
<1>7. RowsSound'
  <2> SUFFICES ASSUME NEW p \in Occurrences PROVE RowSound(p)'
    BY DEF RowsSound
  <2>1. CASE p # o
    BY <1>1, <2>1, OtherRows DEF Release
  <2>2. CASE p = o
    BY <1>1, <1>2, <2>2 DEF Release, RowsSound, RowSound
  <2> QED BY <2>1, <2>2
<1>8. CallsSound'
  <2> SUFFICES ASSUME NEW d \in Callers PROVE CallSound(d)'
    BY DEF CallsSound
  <2>1. CASE d # c
    <3>1. call'[d] = call[d]
      BY <1>5, <2>1
    <3>2. \A p \in Occurrences : row[p].state # "none" =>
            row'[p].state # "none" /\ row'[p].kind = row[p].kind
      BY <1>1, <1>2
    <3>3. \A p \in Occurrences : row[p].state = "none" => row'[p] = row[p]
      BY <1>1
    <3> QED BY <3>1, <3>2, <3>3, OtherCalls DEF Release
  <2>2. CASE d = c
    <3>1. lock # c
      BY LockHolder DEF Release
    <3>2. due[o].revision # 0
      BY <1>1 DEF RowsSound, RowSound
    <3> QED BY <1>4, <1>5, <2>2, <3>1, <3>2 DEF Release, CallSound
  <2> QED BY <2>1, <2>2
<1> QED BY <1>6, <1>7, <1>8

\* Finding the path keeps the invariant.
LEMMA RouteInv ==
  ASSUME IInv, NEW c \in Callers, Route(c)
  PROVE  IInv'
<1> USE DEF IInv, ownerVars
<1> DEFINE o == call[c].on
<1>1. o \in Occurrences /\ due[o].revision # 0
  BY DEF Route, CallsSound, CallSound
<1>2. PICK revision : call' = [call EXCEPT ![c] = Routed(o, revision)]
  BY DEF Route
<1>3. call'[c] = Routed(o, revision) /\ \A d \in Callers \ {c} : call'[d] = call[d]
  BY <1>2 DEF TypeOK
<1>4. TypeOK'
  BY <1>1, <1>2, RoutedCall DEF Route, TypeOK
<1>5. RowsSound'
  BY OtherRows DEF Route, RowsSound
<1>6. CallsSound'
  <2> SUFFICES ASSUME NEW d \in Callers PROVE CallSound(d)'
    BY DEF CallsSound
  <2>1. CASE d # c
    BY <1>3, <2>1, OtherCalls DEF Route
  <2>2. CASE d = c
    <3>1. lock # c
      BY LockHolder DEF Route
    <3> HIDE DEF o
    <3>2. /\ Routed(o, revision).stage \in {"idle", "routed"}
          /\ Routed(o, revision).stage = "routed" =>
               /\ Routed(o, revision).on = o
               /\ Routed(o, revision).path # "none"
               /\ Routed(o, revision).path = "goal" => automation.profile # "reminder"
               /\ Routed(o, revision).path = "reminder" => automation.profile = "reminder"
      BY <1>1, RoutedCall
    <3> QED BY <1>1, <1>3, <2>2, <3>1, <3>2 DEF Route, CallSound
  <2> QED BY <2>1, <2>2
<1> QED BY <1>4, <1>5, <1>6

-----------------------------------------------------------------------------
(* The admission *)

\* Locking the automation and reading the row keep the invariant.
LEMMA LockInv ==
  ASSUME IInv, NEW c \in Callers, Lock(c)
  PROVE  IInv'
<1> USE DEF IInv, ownerVars
<1>1. /\ call[c] \in CallType /\ call[c].on \in Occurrences
      /\ due[call[c].on].revision # 0 /\ row[call[c].on] \in RowType
  BY DEF Lock, TypeOK, CallsSound, CallSound
<1>2. call'[c] = [call[c] EXCEPT !.stage = "locked", !.seen = row[call[c].on]]
      /\ \A d \in Callers \ {c} : call'[d] = call[d]
  BY DEF Lock, TypeOK
<1>3. /\ call'[c] \in CallType /\ call'[c].stage = "locked" /\ call'[c].on = call[c].on
      /\ call'[c].path = call[c].path /\ call'[c].seen = row[call[c].on]
  BY <1>1, <1>2 DEF CallType
<1>4. TypeOK'
  BY <1>2, <1>3 DEF Lock, TypeOK
<1>5. RowsSound'
  BY OtherRows DEF Lock, RowsSound
<1>6. CallsSound'
  <2> SUFFICES ASSUME NEW d \in Callers PROVE CallSound(d)'
    BY DEF CallsSound
  <2>1. CASE d # c
    <3>1. lock' # d /\ lock # d
      BY <2>1, LockHolder DEF Lock
    <3> QED BY <1>2, <2>1, <3>1, OtherCalls DEF Lock
  <2>2. CASE d = c
    <3>1. RowSound(call[c].on) /\ CallSound(c)
      BY <1>1 DEF RowsSound, CallsSound
    <3> QED BY <1>1, <1>3, <2>2, <3>1 DEF Lock, RowSound, CallSound
  <2> QED BY <2>1, <2>2
<1> QED BY <1>4, <1>5, <1>6

\* What the admission of a call rests on.
LEMMA Admission ==
  ASSUME IInv, NEW c \in Callers, call[c].stage = "locked"
  PROVE  /\ lock = c /\ call[c] \in CallType /\ call[c].on \in Occurrences
         /\ due[call[c].on].revision # 0 /\ row[call[c].on] \in RowType
         /\ call[c].path \in Paths
         /\ Seen(c) \in RowType
         /\ Seen(c).state = "none" <=> row[call[c].on].state = "none"
         /\ Seen(c).kind = row[call[c].on].kind
         /\ Seen(c).kind = "reminder" => Seen(c).state \in {"notified", "skipped", "blocked"}
         /\ Decides(c) /\ InTime(c) /\ call[c].path # "reminder" =>
              row[call[c].on].kind # "reminder"
<1> USE DEF IInv
<1>1. /\ lock = c /\ call[c] \in CallType /\ call[c].on \in Occurrences
      /\ due[call[c].on].revision # 0 /\ row[call[c].on] \in RowType
  BY DEF TypeOK, CallsSound, CallSound
<1>2. CallSound(c) /\ RowSound(call[c].on)
  BY <1>1 DEF CallsSound, RowsSound
<1>3. call[c].path \in Paths /\ call[c].seen \in RowType
  BY <1>1, <1>2 DEF CallSound, CallType
<1>4. /\ Seen(c) \in RowType
      /\ Seen(c).state = "none" <=> row[call[c].on].state = "none"
      /\ Seen(c).kind = row[call[c].on].kind
      /\ Seen(c).kind = "reminder" => Seen(c).state \in {"notified", "skipped", "blocked"}
      /\ (Seen(c).state = "notified" /\ due[call[c].on].revision = automation.revision) =>
           automation.profile = "reminder"
  BY <1>1, <1>2, <1>3 DEF Seen, CallSound, RowSound
<1>5. ASSUME Decides(c), InTime(c), call[c].path # "reminder", row[call[c].on].kind = "reminder"
      PROVE  FALSE
  <2>1. Seen(c).state = "notified" /\ call[c].path \in {"goal", "deadline"}
        /\ call[c].path # "deadline"
    BY <1>4, <1>5 DEF Decides, Decided, Finds
  <2>2. due[call[c].on].revision = automation.revision
    BY <1>5 DEF InTime, Current
  <2> QED BY <1>2, <1>4, <2>1, <2>2 DEF CallSound, Decides
<1> QED BY <1>1, <1>3, <1>4, <1>5

\* What the admission writes: its state, and all of a new row.
LEMMA WrittenRow ==
  ASSUME IInv, NEW c \in Callers, call[c].stage = "locked",
         NEW state \in {"accepting", "buffered", "skipped", "blocked", "notified"},
         row' = Written(c, state)
  PROVE  /\ \A p \in Occurrences \ {call[c].on} : row'[p] = row[p]
         /\ row' \in [Occurrences -> RowType]
         /\ row'[call[c].on].state = state
         /\ row[call[c].on].state # "none" =>
              /\ row'[call[c].on].kind = row[call[c].on].kind
              /\ row'[call[c].on].linked = row[call[c].on].linked
         /\ row[call[c].on].state = "none" =>
              row'[call[c].on].kind = call[c].path /\ row'[call[c].on].linked = FALSE
<1> USE DEF IInv
<1> DEFINE o == call[c].on
<1>1. /\ o \in Occurrences /\ row[o] \in RowType /\ call[c].path \in Paths
      /\ Seen(c).state = "none" <=> row[o].state = "none"
  BY Admission
<1>2. row \in [Occurrences -> RowType]
  BY DEF TypeOK
<1> HIDE DEF o
<1>3. CASE row[o].state = "none"
  <2>1. row' = [row EXCEPT ![o] = New(state, call[c].path)]
    BY <1>1, <1>3 DEF Written, o
  <2>2. /\ New(state, call[c].path) \in RowType /\ New(state, call[c].path).state = state
        /\ New(state, call[c].path).kind = call[c].path
        /\ New(state, call[c].path).linked = FALSE
    BY <1>1 DEF New, RowType
  <2>3. row'[o] = New(state, call[c].path)
        /\ \A p \in Occurrences \ {o} : row'[p] = row[p]
    BY <1>1, <1>2, <2>1
  <2>4. row' \in [Occurrences -> RowType]
    BY <1>1, <1>2, <2>1, <2>2
  <2> QED BY <1>3, <2>2, <2>3, <2>4 DEF o
<1>4. CASE row[o].state # "none"
  <2>1. row' = [row EXCEPT ![o] = [row[o] EXCEPT !.state = state]]
    BY <1>1, <1>2, <1>4 DEF Written, o
  <2>2. DEFINE r == [row[o] EXCEPT !.state = state]
  <2>3. r \in RowType /\ r.state = state /\ r.kind = row[o].kind /\ r.linked = row[o].linked
    BY <1>1 DEF RowType
  <2>4. row'[o] = r /\ \A p \in Occurrences \ {o} : row'[p] = row[p]
    BY <1>1, <1>2, <2>1
  <2> HIDE DEF r
  <2>5. row' \in [Occurrences -> RowType]
    <3>1. row' = [row EXCEPT ![o] = r]
      BY <2>1 DEF r
    <3> QED BY <1>1, <1>2, <2>3, <3>1
  <2> QED BY <1>4, <2>3, <2>4, <2>5 DEF o
<1> QED BY <1>3, <1>4

\* The end of an admission leaves the other calls sound.
LEMMA CommitCalls ==
  ASSUME IInv, NEW c \in Callers, call[c].stage = "locked", Commits,
         \A d \in Callers \ {c} : call'[d] = call[d], CallSound(c)',
         \A o \in Occurrences : row[o].state # "none" =>
            row'[o].state # "none" /\ row'[o].kind = row[o].kind
  PROVE  CallsSound'
<1> SUFFICES ASSUME NEW d \in Callers PROVE CallSound(d)'
  BY DEF CallsSound
<1>1. CASE d = c
  BY <1>1
<1>2. CASE d # c
  <2>1. lock # d /\ lock' # d
    BY <1>2, Admission, LockHolder, NoneAssumption DEF Commits
  <2> QED BY <1>2, <2>1, OtherCalls DEF Commits, ownerVars
<1> QED BY <1>1, <1>2

\* An admission that ends with a decision, or with nothing, keeps the invariant.
LEMMA DecisionInv ==
  ASSUME IInv, NEW c \in Callers, call[c].stage = "locked", Ends(c), Commits, UNCHANGED notices,
         row' = row \/ \E state \in {"skipped", "blocked", "buffered"} :
            /\ row' = Written(c, state)
            /\ state = "buffered" =>
                 row[call[c].on].kind # "reminder" /\ call[c].path # "reminder"
  PROVE  IInv'
<1> USE DEF IInv, ownerVars
<1> DEFINE o == call[c].on
<1>1. o \in Occurrences /\ due[o].revision # 0 /\ call[c].path \in Paths /\ lock = c
  BY Admission
<1>2. call'[c] = Idle /\ \A d \in Callers \ {c} : call'[d] = call[d]
  BY DEF Ends, TypeOK
<1>3. lock' # c /\ lock' = None /\ call' \in [Callers -> CallType]
  BY CallFacts, NoneAssumption DEF Commits, Ends, TypeOK
<1>4. CallSound(c)'
  BY <1>2, <1>3, EndedCall
<1>5. CASE row' = row
  <2>1. TypeOK'
    BY <1>3, <1>5 DEF Commits, TypeOK
  <2>2. RowsSound'
    BY <1>5, OtherRows DEF Commits, RowsSound
  <2>3. CallsSound'
    BY <1>2, <1>4, <1>5, CommitCalls
  <2> QED BY <2>1, <2>2, <2>3
<1>6. ASSUME NEW state \in {"skipped", "blocked", "buffered"}, row' = Written(c, state),
             state = "buffered" => row[o].kind # "reminder" /\ call[c].path # "reminder"
      PROVE  IInv'
  <2>1. /\ \A p \in Occurrences \ {o} : row'[p] = row[p]
        /\ row' \in [Occurrences -> RowType]
        /\ row'[o].state = state
        /\ row[o].state # "none" =>
             row'[o].kind = row[o].kind /\ row'[o].linked = row[o].linked
        /\ row[o].state = "none" => row'[o].kind = call[c].path /\ row'[o].linked = FALSE
    BY <1>6, WrittenRow
  <2> HIDE DEF o
  <2>2. TypeOK'
    BY <1>3, <2>1 DEF Commits, TypeOK
  <2>3. RowsSound'
    <3> SUFFICES ASSUME NEW p \in Occurrences PROVE RowSound(p)'
      BY DEF RowsSound
    <3>1. CASE p # o
      BY <2>1, <3>1, OtherRows DEF Commits
    <3>2. CASE p = o
      <4>1. RowSound(o)
        BY <1>1 DEF RowsSound
      <4>2. call[c].path # "none"
        BY <1>1 DEF Paths
      <4>3. /\ due' = due /\ automation' = automation /\ run' = run /\ created' = created
            /\ notices' = notices
        BY DEF Commits
      <4>4. CASE row[o].state = "none"
        BY <1>1, <1>6, <2>1, <3>2, <4>1, <4>2, <4>3, <4>4 DEF RowSound
      <4>5. CASE row[o].state # "none"
        BY <1>1, <1>6, <2>1, <3>2, <4>1, <4>3, <4>5 DEF RowSound
      <4> QED BY <4>4, <4>5
    <3> QED BY <3>1, <3>2
  <2>4. CallsSound'
    BY <1>2, <1>4, <1>6, <2>1, CommitCalls
  <2> QED BY <2>2, <2>3, <2>4
<1> QED BY <1>5, <1>6

\* Finding the occurrence decided, suppressing it, and finding another run in
\* its way keep the invariant.
LEMMA RefusalInv ==
  ASSUME IInv, NEW c \in Callers, Replay(c) \/ Suppress(c) \/ Overlap(c)
  PROVE  IInv'
<1>1. CASE Replay(c)
  BY <1>1, DecisionInv DEF Replay
<1>2. CASE Suppress(c)
  <2>1. call[c].stage = "locked"
    BY <1>2 DEF Suppress, Decides
  <2> QED BY <1>2, <2>1, DecisionInv DEF Suppress, Settles
<1>3. CASE Overlap(c)
  <2>1. call[c].stage = "locked"
    BY <1>3 DEF Overlap, Decides
  <2>2. CASE call[c].path = "deadline"
    BY <1>3, <2>1, <2>2, DecisionInv DEF Overlap
  <2>3. CASE call[c].path # "deadline"
    <3>1. call[c].path # "reminder" /\ row[call[c].on].kind # "reminder"
      BY <1>3, <2>1, <2>3, Admission DEF Overlap
    <3>2. PICK state \in {"skipped", "buffered"} : Settles(c, state)
      BY <1>3, <2>3 DEF Overlap, Buffered
    <3> QED BY <2>1, <3>1, <3>2, DecisionInv DEF Settles
  <2> QED BY <2>2, <2>3
<1> QED BY <1>1, <1>2, <1>3

\* Admitting a call to a run keeps the invariant.
LEMMA AdmitInv ==
  ASSUME IInv, NEW c \in Callers, Admit(c)
  PROVE  IInv'
<1> USE DEF IInv, ownerVars
<1> DEFINE o == call[c].on
<1>1. call[c].stage = "locked" /\ call[c].path # "reminder"
  BY DEF Admit, Decides
<1>2. /\ o \in Occurrences /\ due[o].revision # 0 /\ call[c].path \in Paths
      /\ Seen(c).state = "none" <=> row[o].state = "none"
      /\ row[o].kind # "reminder"
  BY <1>1, Admission DEF Admit
<1>3. /\ call' = [call EXCEPT ![c] = Doing("admitted", o, call[c].path, NoRow)]
      /\ Doing("admitted", o, call[c].path, NoRow) \in CallType
      /\ Doing("admitted", o, call[c].path, NoRow).stage = "admitted"
      /\ Doing("admitted", o, call[c].path, NoRow).on = o
  BY <1>2, DoingType, CallFacts DEF Admit
<1>4. /\ \A p \in Occurrences \ {o} : row'[p] = row[p]
      /\ row' \in [Occurrences -> RowType]
      /\ (row'[o] = row[o] /\ row[o].state # "none") \/
           /\ row'[o].state = "accepting" /\ row'[o].kind # "reminder" /\ row'[o].kind # "none"
           /\ row[o].state # "none" =>
                row'[o].kind = row[o].kind /\ row'[o].linked = row[o].linked
           /\ row[o].state = "none" => row'[o].linked = FALSE
  <2>1. CASE row' = row /\ row[o].state # "none"
    BY <2>1 DEF TypeOK
  <2>2. CASE row' = Written(c, "accepting")
    <3>1. /\ \A p \in Occurrences \ {o} : row'[p] = row[p]
          /\ row' \in [Occurrences -> RowType]
          /\ row'[o].state = "accepting"
          /\ row[o].state # "none" =>
               row'[o].kind = row[o].kind /\ row'[o].linked = row[o].linked
          /\ row[o].state = "none" => row'[o].kind = call[c].path /\ row'[o].linked = FALSE
      BY <1>1, <2>2, WrittenRow
    <3>2. row[o].state # "none" => row[o].kind # "none"
      BY <1>2 DEF RowsSound, RowSound
    <3> HIDE DEF o
    <3>3. call[c].path # "none"
      BY <1>2 DEF Paths
    <3> QED BY <1>1, <1>2, <3>1, <3>2, <3>3
  <2>3. (row' = row /\ row[o].state # "none") \/ row' = Written(c, "accepting")
    BY <1>2 DEF Admit
  <2> QED BY <2>1, <2>2, <2>3
<1> HIDE DEF o
<1>5. call'[c] = Doing("admitted", o, call[c].path, NoRow)
      /\ \A d \in Callers \ {c} : call'[d] = call[d]
  BY <1>3 DEF TypeOK
<1>6. TypeOK'
  BY <1>3, <1>4 DEF Admit, Commits, TypeOK
<1>7. /\ due' = due /\ automation' = automation /\ run' = run /\ created' = created
      /\ notices' = notices /\ lock' = None
  BY DEF Admit, Commits
<1>8. RowsSound'
  <2> SUFFICES ASSUME NEW p \in Occurrences PROVE RowSound(p)'
    BY DEF RowsSound
  <2>1. CASE p # o
    BY <1>4, <1>7, <2>1, OtherRows
  <2>2. CASE p = o
    <3>1. RowSound(o)
      BY <1>2 DEF RowsSound
    <3>2. CASE row'[o] = row[o]
      BY <1>2, <1>7, <2>2, <3>2, OtherRows
    <3>3. CASE row'[o] # row[o]
      BY <1>2, <1>4, <1>7, <2>2, <3>1, <3>3 DEF RowSound
    <3> QED BY <3>2, <3>3
  <2> QED BY <2>1, <2>2
<1>9. CallsSound'
  <2>1. row'[o].state # "none" /\ row'[o].kind # "reminder"
    BY <1>2, <1>4
  <2>2. c # None
    BY NoneAssumption
  <2>3. CallSound(c)'
    BY <1>2, <1>3, <1>5, <1>7, <2>1, <2>2 DEF CallSound
  <2>4. \A p \in Occurrences : row[p].state # "none" =>
          row'[p].state # "none" /\ row'[p].kind = row[p].kind
    BY <1>4
  <2> QED BY <1>1, <1>5, <2>3, <2>4, CommitCalls DEF Admit
<1> QED BY <1>6, <1>8, <1>9

\* A reminder keeps the invariant.
LEMMA RemindInv ==
  ASSUME IInv, NEW c \in Callers, Remind(c)
  PROVE  IInv'
<1> USE DEF IInv, ownerVars
<1> DEFINE o == call[c].on
<1>1. call[c].stage = "locked" /\ call[c].path = "reminder" /\ Seen(c).state = "none"
  BY DEF Remind, Decides, Decided
<1>2. o \in Occurrences /\ due[o].revision # 0 /\ row[o].state = "none"
  BY <1>1, Admission
<1>3. /\ \A p \in Occurrences \ {o} : row'[p] = row[p]
      /\ row' \in [Occurrences -> RowType]
      /\ row'[o].state = "notified" /\ row'[o].kind = "reminder" /\ row'[o].linked = FALSE
  BY <1>1, <1>2, WrittenRow DEF Remind
<1>4. automation.profile = "reminder" \/ due[o].revision # automation.revision
  BY <1>1 DEF CallsSound, CallSound
<1>5. call'[c] = Idle /\ \A d \in Callers \ {c} : call'[d] = call[d]
  BY DEF Remind, Ends, TypeOK
<1> HIDE DEF o
<1>6. /\ due' = due /\ automation' = automation /\ run' = run /\ created' = created
      /\ lock' = None /\ notices' = [notices EXCEPT ![o] = @ + 1]
  BY DEF Remind, Commits, o
<1>7. TypeOK'
  <2>1. notices' \in [Occurrences -> Nat] /\ call' \in [Callers -> CallType]
    BY <1>2, <1>6, CallFacts DEF Remind, Ends, TypeOK
  <2> QED BY <1>3, <2>1 DEF Remind, Commits, TypeOK
<1>8. RowsSound'
  <2> SUFFICES ASSUME NEW p \in Occurrences PROVE RowSound(p)'
    BY DEF RowsSound
  <2>1. CASE p # o
    BY <1>3, <1>6, <2>1, OtherRows DEF TypeOK
  <2>2. CASE p = o
    <3>1. RowSound(o)
      BY <1>2 DEF RowsSound
    <3>2. notices[o] = 0 /\ notices'[o] = 1
      BY <1>2, <1>6, <3>1 DEF RowSound, TypeOK
    <3> QED BY <1>2, <1>3, <1>4, <1>6, <2>2, <3>1, <3>2 DEF RowSound
  <2> QED BY <2>1, <2>2
<1>9. CallsSound'
  <2>1. CallSound(c)'
    BY <1>5, <1>6, EndedCall, NoneAssumption
  <2>2. \A p \in Occurrences : row[p].state # "none" =>
          row'[p].state # "none" /\ row'[p].kind = row[p].kind
    BY <1>2, <1>3
  <2> QED BY <1>1, <1>5, <2>1, <2>2, CommitCalls DEF Remind
<1> QED BY <1>7, <1>8, <1>9

-----------------------------------------------------------------------------
(* The run and the link *)

\* Creating the run, or finding it, keeps the invariant.
LEMMA CreateInv ==
  ASSUME IInv, NEW c \in Callers, Create(c)
  PROVE  IInv'
<1> USE DEF IInv, ownerVars
<1> DEFINE o == call[c].on
<1>1. /\ call[c] \in CallType /\ o \in Occurrences /\ due[o].revision # 0
      /\ row[o].state # "none" /\ row[o].kind # "reminder"
      /\ call[c].stage = "admitted" /\ lock # c
  BY CallFacts DEF Create, CallsSound, CallSound
<1>2. call'[c] = [call[c] EXCEPT !.stage = "started"]
      /\ \A d \in Callers \ {c} : call'[d] = call[d]
  BY DEF Create, TypeOK
<1>3. call'[c] \in CallType /\ call'[c].stage = "started" /\ call'[c].on = o
  BY <1>1, <1>2 DEF CallType
<1> HIDE DEF o
<1>4. /\ due' = due /\ automation' = automation /\ lock' = lock /\ row' = row
      /\ notices' = notices
  BY DEF Create
<1>5. /\ \A p \in Occurrences \ {o} : run'[p] = run[p] /\ created'[p] = created[p]
      /\ run'[o] # "none" /\ created'[o] = 1
      /\ run' \in [Occurrences -> {"none", "active", "over"}]
      /\ created' \in [Occurrences -> Nat]
  <2>1. created[o] = IF run[o] = "none" THEN 0 ELSE 1
    BY <1>1 DEF RowsSound, RowSound
  <2> QED BY SMTT(20), <1>1, <2>1 DEF Create, Creates, TypeOK, o
<1>6. TypeOK'
  BY <1>2, <1>3, <1>5 DEF Create, TypeOK
<1>7. RowsSound'
  <2> SUFFICES ASSUME NEW p \in Occurrences PROVE RowSound(p)'
    BY DEF RowsSound
  <2>1. CASE p # o
    BY <1>4, <1>5, <2>1, OtherRows
  <2>2. CASE p = o
    BY <1>1, <1>4, <1>5, <2>2 DEF RowsSound, RowSound
  <2> QED BY <2>1, <2>2
<1>8. CallsSound'
  <2> SUFFICES ASSUME NEW d \in Callers PROVE CallSound(d)'
    BY DEF CallsSound
  <2>1. CASE d # c
    <3>1. \A p \in Occurrences : run[p] # "none" => run'[p] # "none"
      BY <1>5
    <3> QED BY <1>2, <1>4, <2>1, <3>1, OtherCalls
  <2>2. CASE d = c
    BY <1>1, <1>3, <1>4, <1>5, <2>2 DEF CallSound
  <2> QED BY <2>1, <2>2
<1> QED BY <1>6, <1>7, <1>8

\* Being refused a run keeps the invariant.
LEMMA RefuseInv ==
  ASSUME IInv, NEW c \in Callers, NEW retryable \in BOOLEAN, Refuse(c, retryable)
  PROVE  IInv'
<1> USE DEF IInv, ownerVars
<1>1. /\ call[c] \in CallType /\ call[c].stage = "admitted" /\ lock # c
      /\ CallSound(c)
  BY CallFacts DEF Refuse, CallsSound, CallSound
<1>2. PICK stage \in {"no_capacity", "refused"} : call' = [call EXCEPT ![c].stage = stage]
  BY DEF Refuse
<1>3. call'[c] = [call[c] EXCEPT !.stage = stage]
      /\ \A d \in Callers \ {c} : call'[d] = call[d]
  BY <1>2 DEF TypeOK
<1>4. call'[c] \in CallType /\ call'[c].stage = stage /\ call'[c].on = call[c].on
  BY <1>1, <1>3 DEF CallType
<1>5. TypeOK'
  BY <1>2, <1>4, LimitsAssumption DEF Refuse, TypeOK
<1>6. RowsSound'
  BY OtherRows DEF Refuse, RowsSound
<1>7. CallsSound'
  <2> SUFFICES ASSUME NEW d \in Callers PROVE CallSound(d)'
    BY DEF CallsSound
  <2>1. CASE d # c
    BY <1>3, <2>1, OtherCalls DEF Refuse
  <2>2. CASE d = c
    BY <1>1, <1>4, <2>2 DEF Refuse, CallSound
  <2> QED BY <2>1, <2>2
<1> QED BY <1>5, <1>6, <1>7

\* Recording why there is no run keeps the invariant.
LEMMA RecordErrorInv ==
  ASSUME IInv, NEW c \in Callers, RecordError(c)
  PROVE  IInv'
<1> USE DEF IInv, ownerVars
<1> DEFINE o == call[c].on
<1>1. /\ o \in Occurrences /\ row[o] \in RowType /\ due[o].revision # 0
      /\ row[o].state # "none" /\ row[o].kind # "reminder" /\ lock # c
  BY DEF RecordError, CallsSound, CallSound, TypeOK
<1>2. call'[c] = Idle /\ \A d \in Callers \ {c} : call'[d] = call[d]
  BY DEF RecordError, Ends, TypeOK
<1> HIDE DEF o
<1>3. /\ due' = due /\ automation' = automation /\ lock' = lock /\ run' = run
      /\ created' = created /\ notices' = notices
  BY DEF RecordError
<1>4. /\ \A p \in Occurrences \ {o} : row'[p] = row[p]
      /\ row' \in [Occurrences -> RowType]
      /\ row'[o].kind = row[o].kind /\ row'[o].linked = row[o].linked
      /\ row'[o].state \in {"accepting", "blocked"} \/ row'[o].state = row[o].state
      /\ row'[o].state # "none"
  <2>1. CASE row' = row
    BY <1>1, <2>1 DEF TypeOK
  <2>2. ASSUME NEW state \in {"accepting", "blocked"},
               row' = [row EXCEPT ![o] = [row[o] EXCEPT !.state = state]]
        PROVE  <1>4
    <3> DEFINE r == [row[o] EXCEPT !.state = state]
    <3>1. r \in RowType /\ r.state = state /\ r.kind = row[o].kind /\ r.linked = row[o].linked
      BY <1>1 DEF RowType
    <3>2. row' = [row EXCEPT ![o] = r]
      BY <2>2
    <3> HIDE DEF r
    <3>3. row'[o] = r /\ \A p \in Occurrences \ {o} : row'[p] = row[p]
      BY <1>1, <3>2 DEF TypeOK
    <3>4. row' \in [Occurrences -> RowType]
      BY <1>1, <3>1, <3>2 DEF TypeOK
    <3> QED BY <3>1, <3>3, <3>4
  <2>3. row' = row \/ \E state \in {"accepting", "blocked"} :
           row' = [row EXCEPT ![o] = [row[o] EXCEPT !.state = state]]
    <3>1. Refused(call[c].stage = "no_capacity") \in {"accepting", "blocked"}
      BY DEF Refused
    <3> QED BY <1>1, <3>1 DEF RecordError, o, TypeOK
  <2> QED BY <2>1, <2>2, <2>3
<1>5. TypeOK'
  BY <1>4, CallFacts DEF RecordError, Ends, TypeOK
<1>6. RowsSound'
  <2> SUFFICES ASSUME NEW p \in Occurrences PROVE RowSound(p)'
    BY DEF RowsSound
  <2>1. CASE p # o
    BY <1>3, <1>4, <2>1, OtherRows
  <2>2. CASE p = o
    BY <1>1, <1>3, <1>4, <2>2 DEF RowsSound, RowSound
  <2> QED BY <2>1, <2>2
<1>7. CallsSound'
  <2> SUFFICES ASSUME NEW d \in Callers PROVE CallSound(d)'
    BY DEF CallsSound
  <2>1. CASE d # c
    <3>1. \A p \in Occurrences : row[p].state # "none" =>
            row'[p].state # "none" /\ row'[p].kind = row[p].kind
      BY <1>4
    <3>2. \A p \in Occurrences : row[p].state = "none" => row'[p] = row[p]
      BY <1>1, <1>4
    <3> QED BY <1>2, <1>3, <2>1, <3>1, <3>2, OtherCalls
  <2>2. CASE d = c
    BY <1>1, <1>2, <1>3, <2>2, EndedCall
  <2> QED BY <2>1, <2>2
<1> QED BY <1>5, <1>6, <1>7

\* Linking the run to its occurrence keeps the invariant.
LEMMA LinkInv ==
  ASSUME IInv, NEW c \in Callers, Link(c)
  PROVE  IInv'
<1> USE DEF IInv, ownerVars
<1> DEFINE o == call[c].on
<1>1. /\ o \in Occurrences /\ row[o] \in RowType /\ due[o].revision # 0
      /\ row[o].state # "none" /\ row[o].kind # "reminder" /\ lock # c /\ run[o] # "none"
  BY DEF Link, CallsSound, CallSound, TypeOK
<1>2. call'[c] = Idle /\ \A d \in Callers \ {c} : call'[d] = call[d]
  BY DEF Link, Ends, TypeOK
<1>3. /\ due' = due /\ automation' = automation /\ lock' = lock /\ run' = run
      /\ created' = created
  BY DEF Link
<1>4. CASE Superseded(c)
  <2>1. row' = row /\ notices' = notices
    BY <1>4 DEF Link
  <2>2. TypeOK'
    BY <2>1, CallFacts DEF Link, Ends, TypeOK
  <2>3. RowsSound'
    BY <1>3, <2>1, OtherRows DEF RowsSound
  <2>4. CallsSound'
    <3> SUFFICES ASSUME NEW d \in Callers PROVE CallSound(d)'
      BY DEF CallsSound
    <3>1. CASE d # c
      BY <1>2, <1>3, <2>1, <3>1, OtherCalls
    <3>2. CASE d = c
      BY <1>1, <1>2, <1>3, <3>2, EndedCall
    <3> QED BY <3>1, <3>2
  <2> QED BY <2>2, <2>3, <2>4
<1>5. CASE ~Superseded(c)
  <2> DEFINE r == [row[o] EXCEPT !.state = "accepted", !.linked = TRUE]
  <2>1. r \in RowType /\ r.state = "accepted" /\ r.kind = row[o].kind /\ r.linked = TRUE
    BY <1>1 DEF RowType
  <2>2. row' = [row EXCEPT ![o] = r]
    BY <1>1, <1>5 DEF Link, TypeOK
  <2>3. notices' = [notices EXCEPT ![o] = IF @ = 0 THEN 1 ELSE @]
    BY <1>5 DEF Link
  <2> HIDE DEF o, r
  <2>4. /\ row'[o] = r /\ \A p \in Occurrences \ {o} : row'[p] = row[p]
        /\ row' \in [Occurrences -> RowType]
    BY <1>1, <2>1, <2>2 DEF TypeOK
  <2>5. /\ notices'[o] = 1 /\ \A p \in Occurrences \ {o} : notices'[p] = notices[p]
        /\ notices' \in [Occurrences -> Nat]
    <3>1. notices[o] \in {0, 1}
      BY <1>1 DEF RowsSound, RowSound
    <3> QED BY <1>1, <2>3, <3>1 DEF TypeOK
  <2>6. TypeOK'
    BY <2>4, <2>5, CallFacts DEF Link, Ends, TypeOK
  <2>7. RowsSound'
    <3> SUFFICES ASSUME NEW p \in Occurrences PROVE RowSound(p)'
      BY DEF RowsSound
    <3>1. CASE p # o
      BY <1>3, <2>4, <2>5, <3>1, OtherRows
    <3>2. CASE p = o
      BY <1>1, <1>3, <2>1, <2>4, <2>5, <3>2 DEF RowsSound, RowSound
    <3> QED BY <3>1, <3>2
  <2>8. CallsSound'
    <3> SUFFICES ASSUME NEW d \in Callers PROVE CallSound(d)'
      BY DEF CallsSound
    <3>1. CASE d # c
      <4>1. \A p \in Occurrences : row[p].state # "none" =>
              row'[p].state # "none" /\ row'[p].kind = row[p].kind
        BY <2>1, <2>4
      <4>2. \A p \in Occurrences : row[p].state = "none" => row'[p] = row[p]
        BY <1>1, <2>4 DEF o
      <4> QED BY <1>2, <1>3, <3>1, <4>1, <4>2, OtherCalls
    <3>2. CASE d = c
      BY <1>1, <1>2, <1>3, <3>2, EndedCall
    <3> QED BY <3>1, <3>2
  <2> QED BY <2>6, <2>7, <2>8
<1> QED BY <1>4, <1>5

-----------------------------------------------------------------------------
(* Failures, and the runs *)

\* A call that is lost keeps the invariant.
LEMMA CrashInv ==
  ASSUME IInv, NEW c \in Callers, Crash(c)
  PROVE  IInv'
<1> USE DEF IInv, ownerVars
<1>1. call'[c] = Idle /\ \A d \in Callers \ {c} : call'[d] = call[d]
  BY DEF Crash, Ends, TypeOK
<1>2. lock' # c /\ \A d \in Callers \ {c} : lock' = d <=> lock = d
  BY NoneAssumption DEF Crash
<1>3. TypeOK'
  BY CallFacts, LimitsAssumption DEF Crash, Ends, TypeOK
<1>4. RowsSound'
  BY OtherRows DEF Crash, RowsSound
<1>5. CallsSound'
  <2> SUFFICES ASSUME NEW d \in Callers PROVE CallSound(d)'
    BY DEF CallsSound
  <2>1. CASE d # c
    BY <1>1, <1>2, <2>1, OtherCalls DEF Crash
  <2>2. CASE d = c
    BY <1>1, <1>2, <2>2, EndedCall
  <2> QED BY <2>1, <2>2
<1> QED BY <1>3, <1>4, <1>5

\* The end of a run keeps the invariant.
LEMMA RunEndsInv ==
  ASSUME IInv, NEW o \in Occurrences, RunEnds(o)
  PROVE  IInv'
<1> USE DEF IInv, ownerVars
<1>1. TypeOK'
  BY DEF RunEnds, TypeOK
<1>2. run'[o] = "over" /\ \A p \in Occurrences \ {o} : run'[p] = run[p]
  BY DEF RunEnds, TypeOK
<1>3. RowsSound'
  <2> SUFFICES ASSUME NEW p \in Occurrences PROVE RowSound(p)'
    BY DEF RowsSound
  <2>1. CASE p # o
    BY <1>2, <2>1, OtherRows DEF RunEnds
  <2>2. CASE p = o
    BY <1>2, <2>2 DEF RunEnds, RowsSound, RowSound
  <2> QED BY <2>1, <2>2
<1>4. CallsSound'
  <2>1. \A p \in Occurrences : run[p] # "none" => run'[p] # "none"
    BY <1>2
  <2> SUFFICES ASSUME NEW d \in Callers PROVE CallSound(d)'
    BY DEF CallsSound
  <2> QED BY <2>1, OtherCalls DEF RunEnds
<1> QED BY <1>1, <1>3, <1>4

\* Every step keeps the invariant.
LEMMA StepInv == IInv /\ [Next]_vars => IInv'
<1> SUFFICES ASSUME IInv, [Next]_vars PROVE IInv'
  OBVIOUS
<1>1. CASE Owner
  BY <1>1, OwnerInv
<1>2. ASSUME NEW c \in Callers, NEW o \in Occurrences, Fire(c, o) \/ Notice(c, o) \/ Release(c, o)
      PROVE  IInv'
  BY <1>2, FireInv, NoticeInv, ReleaseInv
<1>3. ASSUME NEW c \in Callers, Lock(c) \/ Crash(c)
      PROVE  IInv'
  BY <1>3, LockInv, CrashInv
<1>4. ASSUME NEW c \in Callers, Proceed(c)
      PROVE  IInv'
  BY <1>4, RouteInv, RefusalInv, AdmitInv, RemindInv, CreateInv, RefuseInv, RecordErrorInv,
     LinkInv DEF Proceed
<1>5. ASSUME NEW o \in Occurrences, RunEnds(o)
      PROVE  IInv'
  BY <1>5, RunEndsInv
<1>6. CASE UNCHANGED vars
  <2>1. TypeOK'
    BY <1>6 DEF vars, IInv, TypeOK
  <2>2. RowsSound'
    BY <1>6, OtherRows DEF vars, IInv, RowsSound
  <2>3. CallsSound'
    BY <1>6, OtherCalls DEF vars, IInv, CallsSound
  <2> QED BY <2>1, <2>2, <2>3 DEF IInv
<1> QED BY <1>1, <1>2, <1>3, <1>4, <1>5, <1>6 DEF Next

\* The buffer takes an occurrence in only when it is empty.
LEMMA BufferStep == IInv /\ BufferHoldsOne /\ [Next]_vars => BufferHoldsOne'
<1> SUFFICES ASSUME IInv, BufferHoldsOne, [Next]_vars PROVE BufferHoldsOne'
  OBVIOUS
<1>1. ASSUME \A o \in Occurrences : row'[o].state = "buffered" => row[o].state = "buffered"
      PROVE  BufferHoldsOne'
  BY <1>1 DEF BufferHoldsOne
<1>2. ASSUME NEW c \in Callers, Overlap(c)
      PROVE  BufferHoldsOne'
  <2>1. call[c].stage = "locked" /\ call[c].on \in Occurrences
    BY <1>2, Admission DEF Overlap, Decides
  <2>2. CASE row' = row
    BY <1>1, <2>2
  <2>3. CASE row' # row
    <3>1. PICK state \in {"skipped", "buffered"} : row' = Written(c, state)
            /\ (state = "buffered" =>
                  \A p \in Occurrences \ {call[c].on} : row[p].state # "buffered")
      BY <1>2, <2>3 DEF Overlap, Settles, Buffered
    <3>2. row'[call[c].on].state = state
          /\ \A p \in Occurrences \ {call[c].on} : row'[p] = row[p]
      BY <2>1, <3>1, WrittenRow
    <3> QED BY <2>1, <3>1, <3>2 DEF BufferHoldsOne
  <2> QED BY <2>2, <2>3
<1>3. ASSUME NEW c \in Callers, NEW state \in {"accepting", "skipped", "blocked", "notified"},
             call[c].stage = "locked", row' = Written(c, state)
      PROVE  BufferHoldsOne'
  <2>1. row'[call[c].on].state = state
        /\ \A p \in Occurrences \ {call[c].on} : row'[p] = row[p]
    BY <1>3, WrittenRow
  <2> QED BY <1>1, <2>1
<1>4. ASSUME NEW c \in Callers, Suppress(c) \/ Admit(c) \/ Remind(c)
      PROVE  BufferHoldsOne'
  <2>1. row' = row \/ \E state \in {"accepting", "skipped", "blocked", "notified"} :
          row' = Written(c, state)
    BY <1>4 DEF Suppress, Settles, Admit, Remind
  <2>2. call[c].stage = "locked"
    BY <1>4 DEF Suppress, Admit, Remind, Decides
  <2> QED BY <1>1, <1>3, <2>1, <2>2
<1>5. ASSUME NEW c \in Callers, NEW o \in Occurrences, Release(c, o)
      PROVE  BufferHoldsOne'
  BY <1>1, <1>5 DEF Release, IInv, TypeOK, RowType
<1>6. ASSUME NEW c \in Callers, RecordError(c)
      PROVE  BufferHoldsOne'
  BY <1>1, <1>6 DEF RecordError, Refused, IInv, TypeOK, RowType
<1>7. ASSUME NEW c \in Callers, Link(c)
      PROVE  BufferHoldsOne'
  BY <1>1, <1>7 DEF Link, IInv, TypeOK, RowType
<1>8. CASE UNCHANGED row
  BY <1>1, <1>8
<1>9. UNCHANGED row \/ \E c \in Callers :
        \/ Overlap(c) \/ Suppress(c) \/ Admit(c) \/ Remind(c) \/ RecordError(c) \/ Link(c)
        \/ \E o \in Occurrences : Release(c, o)
  <2>1. Owner \/ UNCHANGED vars => UNCHANGED row
    BY DEF Owner, Update, Transition, Change, SwitchOff, vars
  <2>2. ASSUME NEW c \in Callers, NEW o \in Occurrences, Fire(c, o) \/ Notice(c, o)
        PROVE  UNCHANGED row
    BY <2>2 DEF Fire, Notice
  <2>3. ASSUME NEW c \in Callers, Lock(c) \/ Crash(c) \/ Route(c) \/ Replay(c) \/ Create(c)
        PROVE  UNCHANGED row
    BY <2>3 DEF Lock, Crash, Route, Replay, Create
  <2>4. ASSUME NEW c \in Callers, NEW retryable \in BOOLEAN, Refuse(c, retryable)
        PROVE  UNCHANGED row
    BY <2>4 DEF Refuse
  <2>5. ASSUME NEW o \in Occurrences, RunEnds(o)
        PROVE  UNCHANGED row
    BY <2>5 DEF RunEnds
  <2> QED BY <2>1, <2>2, <2>3, <2>4, <2>5 DEF Next, Proceed
<1> QED BY <1>2, <1>4, <1>5, <1>6, <1>7, <1>8, <1>9

-----------------------------------------------------------------------------
(* Theorems *)

\* The invariant holds throughout.
LEMMA Invariance == Spec => []IInv
BY InitInv, StepInv, PTL DEF Spec

\* Every variable keeps its type.
THEOREM OccurrenceTypes == Spec => []TypeOK
<1>1. IInv => TypeOK
  BY DEF IInv
<1> QED BY <1>1, Invariance, PTL

\* An occurrence gets one run and one notice at most, however many calls,
\* losses and changes there are, for any automation and any callers.
THEOREM OccurrencesRunOnce == Spec => []OneRunEach
<1>1. IInv => OneRunEach
  <2>1. ASSUME IInv, NEW o \in Occurrences
        PROVE  /\ created[o] <= 1 /\ notices[o] <= 1
               /\ row[o].state = "accepted" => row[o].linked
               /\ row[o].linked => created[o] = 1 /\ notices[o] = 1
               /\ row[o].kind = "reminder" => created[o] = 0
    <3>1. RowSound(o)
      BY <2>1 DEF IInv, RowsSound
    <3>2. created[o] = IF run[o] = "none" THEN 0 ELSE 1
      BY <3>1 DEF RowSound
    <3>3. notices[o] \in {0, 1}
      BY <3>1 DEF RowSound
    <3>4. created[o] <= 1 /\ notices[o] <= 1
      BY <3>2, <3>3
    <3> QED BY <3>1, <3>2, <3>4 DEF RowSound
  <2> QED BY <2>1 DEF OneRunEach
<1> QED BY <1>1, Invariance, PTL

\* The buffer of an automation never holds two occurrences.
THEOREM BufferIsSingle == Spec => []BufferHoldsOne
<1>1. Init => BufferHoldsOne
  <2>1. NoRow.state # "buffered"
    BY DEF NoRow
  <2> QED BY <2>1 DEF Init, BufferHoldsOne
<1> QED BY <1>1, BufferStep, Invariance, PTL DEF Spec

-----------------------------------------------------------------------------
(* What is never taken back *)

\* An occurrence that was recorded stays so, as what it is; its link, its run and
\* its notice stay.  Its state need not: an admission that has read the row before
\* the link was made may still write what it has decided.
RowStays(o) ==
  /\ row[o].state # "none" =>
       /\ row'[o].state # "none" /\ row'[o].kind = row[o].kind
       /\ row[o].linked => row'[o].linked
  /\ run[o] # "none" => run'[o] # "none"
  /\ notices[o] <= notices'[o]
NothingIsForgotten == [][\A o \in Occurrences : RowStays(o)]_vars

\* What an admission writes over a row that is there leaves kind and link alone.
LEMMA AdmissionStays ==
  ASSUME IInv, NEW c \in Callers, NEW o \in Occurrences,
         Replay(c) \/ Suppress(c) \/ Overlap(c) \/ Admit(c) \/ Remind(c)
  PROVE  RowStays(o)
<1>1. call[c].stage = "locked" /\ run' = run
  BY DEF Replay, Suppress, Overlap, Admit, Remind, Decides, Settles, Commits
<1>2. row' = row \/ \E state \in {"accepting", "buffered", "skipped", "blocked", "notified"} :
        row' = Written(c, state)
  BY DEF Replay, Suppress, Overlap, Admit, Remind, Settles, Buffered
<1>3. row[o].state # "none" =>
        row'[o].state # "none" /\ row'[o].kind = row[o].kind /\ row'[o].linked = row[o].linked
  BY <1>1, <1>2, WrittenRow
<1>4. notices[o] \in Nat /\ notices'[o] \in {notices[o], notices[o] + 1}
  BY DEF IInv, TypeOK, Replay, Suppress, Overlap, Admit, Remind, Settles
<1>5. notices[o] <= notices'[o]
  BY <1>4
<1> QED BY <1>1, <1>3, <1>5 DEF RowStays

\* No step takes anything back.
LEMMA StaysStep ==
  ASSUME IInv, [Next]_vars, NEW o \in Occurrences
  PROVE  RowStays(o)
<1>0. /\ notices[o] \in Nat /\ row \in [Occurrences -> RowType]
      /\ notices \in [Occurrences -> Nat] /\ run \in [Occurrences -> {"none", "active", "over"}]
  BY DEF IInv, TypeOK
<1>1. CASE UNCHANGED <<row, run, notices>>
  BY <1>0, <1>1 DEF RowStays
<1>2. CASE Owner \/ UNCHANGED vars
  BY <1>1, <1>2 DEF Owner, Update, Transition, Change, SwitchOff, vars
<1>3. ASSUME NEW c \in Callers, NEW p \in Occurrences, Fire(c, p) \/ Notice(c, p) \/ Release(c, p)
      PROVE  RowStays(o)
  BY <1>0, <1>3 DEF Fire, Notice, Release, RowType, RowStays
<1>4. ASSUME NEW c \in Callers, Proceed(c)
      PROVE  RowStays(o)
  <2>1. CASE Replay(c) \/ Suppress(c) \/ Overlap(c) \/ Admit(c) \/ Remind(c)
    BY <2>1, AdmissionStays
  <2>2. CASE Route(c) \/ \E retryable \in BOOLEAN : Refuse(c, retryable)
    BY <1>1, <2>2 DEF Route, Refuse
  <2>3. CASE Create(c)
    BY <1>0, <2>3 DEF Create, RowStays
  <2>4. CASE RecordError(c)
    BY <1>0, <2>4 DEF RecordError, Refused, RowType, RowStays
  <2>5. CASE Link(c)
    <3>1. row'[o] = row[o]
          \/ (row'[o].state = "accepted" /\ row'[o].kind = row[o].kind /\ row'[o].linked)
      BY <1>0, <2>5 DEF Link, RowType
    <3>2. notices[o] <= notices'[o] /\ run' = run
      BY <1>0, <2>5 DEF Link
    <3> QED BY <3>1, <3>2 DEF RowStays
  <2> QED BY <1>4, <2>1, <2>2, <2>3, <2>4, <2>5 DEF Proceed
<1>5. ASSUME NEW c \in Callers, Lock(c) \/ Crash(c)
      PROVE  RowStays(o)
  BY <1>1, <1>5 DEF Lock, Crash
<1>6. ASSUME NEW p \in Occurrences, RunEnds(p)
      PROVE  RowStays(o)
  BY <1>0, <1>6 DEF RunEnds, RowStays
<1> QED BY <1>2, <1>3, <1>4, <1>5, <1>6 DEF Next

\* No call for an occurrence, however late, and nothing that was read before a
\* lock or a link, makes the automation forget the occurrence, its run or its notice
\* (accept_occurrence and its relatives, _record_occurrence_admission_error).
THEOREM OccurrencesStay == Spec => NothingIsForgotten
<1>1. IInv /\ [Next]_vars => [\A o \in Occurrences : RowStays(o)]_vars
  BY StaysStep
<1> QED BY <1>1, Invariance, PTL DEF Spec, NothingIsForgotten
====
