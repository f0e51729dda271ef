---- MODULE BrowserSessionProofs ----
(* Theorems of BrowserSession, for any workers, views and limits.  The       *)
(* invariant has two halves: the ledger of the commands with what their      *)
(* workers are doing, and the session with the commands that are open.       *)
EXTENDS BrowserSession, TLAPS

-----------------------------------------------------------------------------
(* The ledger *)

Busy == {"claimed", "acted", "failing"}
Missing == {"context_missing", "frame_stale"}

\* A command and the number of its clicks.
CommandOK(c, k) ==
  /\ k \in Nat
  /\ c.state = "none" => c.error = "none" /\ k = 0
  /\ c.live => c.kind \in AffinityKinds
  /\ c.kind = "takeover_interaction" =>
       /\ c.live
       /\ c.state \in {"none", "prepared"} => c.attempts = 0 /\ k = 0 /\ c.error = "none"
       /\ c.state = "running" => c.attempts # 0
       /\ k <= 1
       /\ c.state = "succeeded" => k = 1
       /\ c.error \in Missing => k = 0

\* A busy worker and its command: what it will do or report fits the clicks.
WorkOK(x, c, k) ==
  /\ c.state \notin {"none", "prepared"}
  /\ x.stage = "acted" /\ c.kind \in AffinityKinds => x.shot \in Views
  /\ c.kind = "takeover_interaction" =>
       /\ c.attempts # 0
       /\ x.stage = "claimed" => k = 0 /\ c.error \notin Missing /\ c.state # "succeeded"
       /\ x.stage = "acted" => k = 1
       /\ x.stage = "failing" /\ x.error \in Missing => k = 0

LedgerInv(cs, wk, cl) ==
  /\ cs \in [Commands -> CommandType]
  /\ wk \in [Workers -> WorkType]
  /\ cl \in [Commands -> Nat]
  /\ \A n \in Commands : CommandOK(cs[n], cl[n])
  /\ \A w \in Workers : wk[w].stage \in Busy =>
       wk[w].on \in Commands /\ WorkOK(wk[w], cs[wk[w].on], cl[wk[w].on])
  /\ \A v, w \in Workers :
       /\ wk[v].stage \in Busy /\ wk[w].stage \in Busy /\ wk[v].on = wk[w].on
       /\ cs[wk[v].on].kind = "takeover_interaction"
       => v = w

\* Some commands end without success; an interaction that a worker may have
\* under way ends in no way that denies it.
Ends(c, d) ==
  /\ Open(c)
  /\ \E state \in {"failed", "cancelled"}, error \in Errors :
       /\ d = End(c, state, error)
       /\ c.kind = "takeover_interaction" /\ c.state = "running" => error \notin Missing
SomeEnd(cs, ds) ==
  /\ ds = [n \in Commands |-> ds[n]]
  /\ \A n \in Commands : ds[n] = cs[n] \/ Ends(cs[n], ds[n])

\* Ending commands keeps the ledger.
LEMMA SomeEndLedger ==
  ASSUME NEW cs, NEW ds, NEW wk, NEW cl, LedgerInv(cs, wk, cl), SomeEnd(cs, ds)
  PROVE  LedgerInv(ds, wk, cl)
<1> USE DEF LedgerInv
<1>1. \A n \in Commands :
        /\ ds[n] \in CommandType
        /\ ds[n].kind = cs[n].kind /\ ds[n].live = cs[n].live
        /\ ds[n].attempts = cs[n].attempts
        /\ CommandOK(ds[n], cl[n])
        /\ cs[n].state \notin {"none", "prepared"} => ds[n].state \notin {"none", "prepared"}
        /\ cs[n].state \in {"none", "prepared"} /\ ds[n].state \in {"none", "prepared"}
             => ds[n] = cs[n]
        /\ \/ ds[n] = cs[n]
           \/ /\ ds[n].state \in {"failed", "cancelled"}
              /\ cs[n].state = "prepared"
                 \/ (cs[n].kind = "takeover_interaction" => ds[n].error \notin Missing)
  <2> SUFFICES ASSUME NEW n \in Commands, ds[n] # cs[n]
               PROVE  /\ ds[n] \in CommandType
                      /\ ds[n].kind = cs[n].kind /\ ds[n].live = cs[n].live
                      /\ ds[n].attempts = cs[n].attempts
                      /\ CommandOK(ds[n], cl[n])
                      /\ ds[n].state \in {"failed", "cancelled"}
                      /\ cs[n].state = "prepared"
                         \/ (cs[n].kind = "takeover_interaction" => ds[n].error \notin Missing)
    OBVIOUS
  <2>1. PICK state \in {"failed", "cancelled"}, error \in Errors :
          /\ ds[n] = End(cs[n], state, error)
          /\ cs[n].kind = "takeover_interaction" /\ cs[n].state = "running"
               => error \notin Missing
    BY DEF SomeEnd, Ends
  <2>2. Open(cs[n]) /\ cs[n] \in CommandType
    BY DEF SomeEnd, Ends
  <2>3. /\ ds[n] \in CommandType
        /\ ds[n].kind = cs[n].kind /\ ds[n].live = cs[n].live
        /\ ds[n].attempts = cs[n].attempts
        /\ ds[n].state = state /\ ds[n].error = error
    BY <2>1, <2>2 DEF End, CommandType
  <2> QED BY <2>1, <2>2, <2>3 DEF Open, CommandOK, Missing
<1>2. ds \in [Commands -> CommandType]
  BY <1>1 DEF SomeEnd
<1>3. ASSUME NEW w \in Workers, wk[w].stage \in Busy
      PROVE  wk[w].on \in Commands /\ WorkOK(wk[w], ds[wk[w].on], cl[wk[w].on])
  BY <1>1, <1>3 DEF WorkOK
<1> QED BY <1>1, <1>2, <1>3

\* The ways in which the broker ends commands are all of that kind.
LEMMA EndOpenEnds ==
  ASSUME NEW cs, NEW state \in {"failed", "cancelled"}, NEW error \in Errors \ Missing
  PROVE  SomeEnd(cs, EndOpen(cs, state, error))
BY DEF SomeEnd, EndOpen, Ends

\* The sweep of lost live pages is of that kind too ...
LEMMA SweptEnds ==
  ASSUME NEW s, NEW cs, cs \in [Commands -> CommandType]
  PROVE  SomeEnd(cs, SweptCommands(s, cs))
BY DEF SomeEnd, SweptCommands, Ends, Open, Missing, Errors

\* ... and so is the sweep of abandoned commands.
LEMMA AbandonedEnds ==
  ASSUME NEW s, NEW cs, cs \in [Commands -> CommandType]
  PROVE  SomeEnd(cs, AbandonedCommands(s, cs))
BY DEF SomeEnd, AbandonedCommands, Ends, Open, Missing, Errors, Lost, Abandoned, SingleAttempt

\* A worker that is stopped, or forgets, or reports something that denies
\* nothing, keeps the ledger.
LetsGo(x, y) ==
  /\ y \in WorkType
  /\ \/ y = x
     \/ y.stage \notin Busy
     \/ /\ x.stage \in Busy /\ y.stage = "failing" /\ y.on = x.on
        /\ y.error \notin Missing

\* What a worker lets go of, it no longer has to account for.
LEMMA LetsGoLedger ==
  ASSUME NEW cs, NEW wk, NEW vk, NEW cl, LedgerInv(cs, wk, cl),
         vk \in [Workers -> WorkType], \A w \in Workers : LetsGo(wk[w], vk[w])
  PROVE  LedgerInv(cs, vk, cl)
BY DEF LedgerInv, LetsGo, WorkOK

\* So does the preparation of a command.
LEMMA AppendLedger ==
  ASSUME NEW cs, LedgerInv(cs, work, clicks),
         NEW kind \in Kinds, NEW live \in BOOLEAN, NEW view \in Views \union {None},
         live => kind \in AffinityKinds, kind = "takeover_interaction" => live,
         Append(cs, kind, live, view)
  PROVE  LedgerInv(command', work, clicks)
<1> DEFINE new == Row(kind, "prepared", live, view)
<1>1. PICK n \in Commands : cs[n].state = "none" /\ command' = [cs EXCEPT ![n] = new]
  BY DEF Append
<1>2. /\ new \in CommandType /\ new.kind = kind /\ new.state = "prepared"
      /\ new.live = live /\ new.attempts = 0 /\ new.error = "none"
  BY LimitsAssumption DEF Row, CommandType, Errors
<1> HIDE DEF new
<1>3. clicks[n] = 0
  BY <1>1 DEF LedgerInv, CommandOK
<1>4. CommandOK(new, clicks[n])
  BY <1>2, <1>3 DEF CommandOK, Missing
<1>5. \A w \in Workers : work[w].stage \in Busy => work[w].on # n
  BY <1>1 DEF LedgerInv, WorkOK
<1> QED BY <1>1, <1>2, <1>4, <1>5 DEF LedgerInv

-----------------------------------------------------------------------------
(* The session *)

LiveOpen(c) == Open(c) /\ c.live
AffinityOpen(c) == Open(c) /\ c.kind \in AffinityKinds

\* There is one open command on the live page at most; while a frame is being
\* taken there is no other; and a command that needs the live page has it.
SessionInv(s, cs) ==
  /\ s \in SessionType
  /\ s.cancelled => s.state \in Terminal
  /\ s.warm => s.holder # None
  /\ s.frame # None => s.holder = s.frame.by
  /\ Closed(s) => ~s.stored /\ s.frame = None
  /\ \A m, n \in Commands : AffinityOpen(cs[m]) /\ AffinityOpen(cs[n]) => m = n
  /\ \A n \in Commands : Open(cs[n]) /\ cs[n].kind = "takeover_frame" => s.frame = None
  /\ s.required /\ s.state = "takeover" =>
       \A n \in Commands : LiveOpen(cs[n]) => s.holder # None

Fewer(cs, ds) ==
  \A n \in Commands :
    Open(ds[n]) => Open(cs[n]) /\ ds[n].kind = cs[n].kind /\ ds[n].live = cs[n].live

\* Ending commands leaves fewer of them open ...
LEMMA SomeEndFewer ==
  ASSUME NEW cs, NEW ds, SomeEnd(cs, ds), cs \in [Commands -> CommandType]
  PROVE  Fewer(cs, ds)
<1> SUFFICES ASSUME NEW n \in Commands, Ends(cs[n], ds[n]), cs[n] \in CommandType
             PROVE  ~Open(ds[n])
  BY DEF Fewer, SomeEnd
<1> QED BY DEF Ends, End, Open, CommandType

\* ... which the session does not mind.
LEMMA FewerInv ==
  ASSUME NEW s, NEW cs, NEW ds, SessionInv(s, cs), Fewer(cs, ds)
  PROVE  SessionInv(s, ds)
BY DEF SessionInv, Fewer, AffinityOpen, LiveOpen

\* A session that is closed, in each of the ways, has nothing to lose.
LEMMA CloseInv ==
  ASSUME NEW s, NEW cs, NEW ds, SessionInv(s, cs), Fewer(cs, ds),
         NEW state \in Terminal, NEW cancelled \in BOOLEAN
  PROVE  /\ SessionInv(Close(s, state, cancelled), ds)
         /\ Closed(Close(s, state, cancelled))
<1>1. s \in SessionType
  BY DEF SessionInv
<1>2. /\ Close(s, state, cancelled) \in SessionType
      /\ Close(s, state, cancelled).state = state
      /\ Close(s, state, cancelled).frame = None
      /\ Close(s, state, cancelled).stored = FALSE
      /\ Close(s, state, cancelled).warm = FALSE
      /\ Close(s, state, cancelled).required = FALSE
  BY <1>1 DEF Close, Bare, NoFrame, NoAffinity, SessionType
<1> HIDE DEF Close
<1> QED BY <1>2 DEF SessionInv, Fewer, AffinityOpen, LiveOpen, Closed

\* So has the session of an agent that may read no more.
LEMMA RevokeInv ==
  ASSUME NEW s, NEW cs, NEW ds, SessionInv(s, cs), Fewer(cs, ds)
  PROVE  SessionInv(Revoke(s), ds) /\ Closed(Revoke(s))
<1>1. s \in SessionType
  BY DEF SessionInv
<1>2. /\ Revoke(s) \in SessionType
      /\ Revoke(s).state = "failed"
      /\ Revoke(s).frame = None
      /\ Revoke(s).stored = FALSE
      /\ Revoke(s).warm = FALSE
  BY <1>1 DEF Revoke, Bare, NoFrame, NoAffinity, SessionType, Terminal
<1> HIDE DEF Revoke
<1> QED BY <1>2 DEF SessionInv, Fewer, AffinityOpen, LiveOpen, Closed, Terminal

\* The live page can be given up when no open command needs it, with the frame
\* that was taken of it.
LEMMA GiveUpInv ==
  ASSUME NEW s, NEW cs, NEW ds, SessionInv(s, cs), Fewer(cs, ds),
         \A n \in Commands : ~LiveOpen(ds[n])
  PROVE  SessionInv(NoFrame(NoAffinity(s)), ds)
<1>1. s \in SessionType
  BY DEF SessionInv
<1>2. /\ NoFrame(NoAffinity(s)) \in SessionType
      /\ NoFrame(NoAffinity(s)).state = s.state
      /\ NoFrame(NoAffinity(s)).cancelled = s.cancelled
      /\ NoFrame(NoAffinity(s)).frame = None
      /\ NoFrame(NoAffinity(s)).stored = s.stored
      /\ NoFrame(NoAffinity(s)).warm = FALSE
  BY <1>1 DEF NoFrame, NoAffinity, SessionType
<1> QED BY <1>2 DEF SessionInv, Fewer, AffinityOpen, LiveOpen, Closed

\* The sweep of lost live pages gives the page up with its commands.
LEMMA SweptInv ==
  ASSUME NEW s, NEW cs, SessionInv(s, cs), cs \in [Commands -> CommandType]
  PROVE  SessionInv(SweptSession(s), SweptCommands(s, cs))
<1>1. Fewer(cs, SweptCommands(s, cs))
  BY SweptEnds, SomeEndFewer
<1>2. CASE AffinityStale(s)
  <2>1. \A n \in Commands : ~LiveOpen(SweptCommands(s, cs)[n])
    BY <1>2 DEF SweptCommands, LiveOpen, Open, End, CommandType
  <2> QED BY <1>1, <1>2, <2>1, GiveUpInv DEF SweptSession
<1>3. CASE ~AffinityStale(s)
  BY <1>1, <1>3, FewerInv DEF SweptSession
<1> QED BY <1>2, <1>3

\* Only a command for the live page needs the live page.
LiveIsAffinity(cs) == \A n \in Commands : cs[n].live => cs[n].kind \in AffinityKinds

\* The sweep of abandoned commands keeps the session's invariant.
LEMMA AbandonedInv ==
  ASSUME NEW s, NEW cs, SessionInv(s, cs), cs \in [Commands -> CommandType],
         LiveIsAffinity(cs)
  PROVE  SessionInv(AbandonedSession(s, cs), AbandonedCommands(s, cs))
<1> DEFINE ds == AbandonedCommands(s, cs)
<1>1. Fewer(cs, ds)
  BY AbandonedEnds, SomeEndFewer
<1>2. \A n \in Commands :
        ds[n] = IF Lost(s, cs[n])
                THEN End(cs[n], "failed",
                         IF SingleAttempt(cs[n]) THEN "uncertain" ELSE "context_missing")
                ELSE cs[n]
  BY DEF AbandonedCommands
<1> HIDE DEF ds
<1>3. \A n \in Commands : ds[n] = cs[n] \/ (Lost(s, cs[n]) /\ ~Open(ds[n]))
  BY ZenonT(30), <1>2 DEF End, Open, CommandType
<1>4. CASE \E n \in Commands : Lost(s, cs[n])
  <2>1. PICK m \in Commands : Lost(s, cs[m])
    BY <1>4
  <2>2. AffinityOpen(cs[m]) /\ ~Open(ds[m])
    BY <1>2, <2>1 DEF Lost, Abandoned, AffinityOpen, Open, End, CommandType
  <2>3. \A n \in Commands : ~LiveOpen(ds[n])
    BY <1>1, <2>2 DEF SessionInv, Fewer, AffinityOpen, LiveOpen, LiveIsAffinity
  <2>4. AbandonedSession(s, cs) = NoFrame(NoAffinity(s))
    BY <1>4 DEF AbandonedSession
  <2> QED BY <1>1, <2>3, <2>4, GiveUpInv DEF ds
<1>5. CASE /\ ~\E n \in Commands : Lost(s, cs[n])
           /\ \E n \in Commands : Abandoned(s, cs[n])
  <2>1. PICK m \in Commands : Abandoned(s, cs[m]) /\ ~Lost(s, cs[m])
    BY <1>5
  <2>2. AffinityOpen(cs[m]) /\ ~cs[m].live /\ cs[m].kind = "takeover_frame"
    BY <2>1 DEF Lost, Abandoned, AffinityOpen, Open, SingleAttempt, AffinityKinds
  <2>3. s.frame = None /\ s \in SessionType
    BY <2>2 DEF SessionInv, AffinityOpen
  <2>4. NoFrame(NoAffinity(s)) = NoAffinity(s)
    BY <2>3 DEF NoFrame, NoAffinity, SessionType
  <2>5. \A n \in Commands : ~LiveOpen(ds[n])
    BY <1>1, <2>2 DEF SessionInv, Fewer, AffinityOpen, LiveOpen, LiveIsAffinity
  <2>6. AbandonedSession(s, cs) = NoAffinity(s)
    BY <1>5 DEF AbandonedSession
  <2> QED BY <1>1, <2>4, <2>5, <2>6, GiveUpInv DEF ds
<1>6. CASE ~\E n \in Commands : Abandoned(s, cs[n])
  <2>1. AbandonedSession(s, cs) = s
    BY <1>6 DEF AbandonedSession, Lost
  <2> QED BY <1>1, <2>1, FewerInv DEF ds
<1> QED BY <1>4, <1>5, <1>6

-----------------------------------------------------------------------------
(* What may become of a command *)

\* What may become of a command in one step: it is prepared, claimed, ends with or
\* without success, or stays as it is but for its lease.
Ended(c) == c.state \in {"succeeded", "failed", "cancelled"}
Alike(c, d) ==
  d.kind = c.kind /\ d.state = c.state /\ d.error = c.error /\ d.attempts = c.attempts
Course(c, d) ==
  \/ Alike(c, d)
  \/ c.state = "none" /\ d.state = "prepared"
  \/ Open(c) /\ d.kind = c.kind /\ d.state = "running"
  \/ c.state = "running" /\ d.kind = c.kind /\ d.state = "succeeded"
  \/ /\ Open(c) /\ d.kind = c.kind /\ d.attempts = c.attempts
     /\ d.state \in {"failed", "cancelled"}
Stays(cs, ds) == \A n \in Commands : Course(cs[n], ds[n])

\* Ending open commands is one of them.
LEMMA SomeEndKeeps ==
  ASSUME NEW cs, NEW ds, SomeEnd(cs, ds), cs \in [Commands -> CommandType]
  PROVE  /\ Stays(cs, ds)
         /\ \A n \in Commands : ds[n] = cs[n] \/ Ended(ds[n])
<1> SUFFICES ASSUME NEW n \in Commands, Ends(cs[n], ds[n]), cs[n] \in CommandType
             PROVE  Course(cs[n], ds[n]) /\ Ended(ds[n])
  BY DEF SomeEnd, Stays, Course, Alike
<1> QED BY DEF Ends, End, Course, Ended, CommandType

\* So is leaving all commands alone ...
LEMMA StaysSame == \A cs : Stays(cs, cs)
BY DEF Stays, Course, Alike

\* ... and what is done to some commands after something was done to others.
LEMMA StaysThen ==
  ASSUME NEW cs, NEW ds, NEW es, Stays(cs, ds), Stays(ds, es),
         \A n \in Commands : ds[n] = cs[n] \/ es[n] = ds[n]
  PROVE  Stays(cs, es)
BY DEF Stays

-----------------------------------------------------------------------------
(* The invariant *)

IInv ==
  /\ LedgerInv(command, work, clicks)
  /\ SessionInv(session, command)
  /\ due \in BOOLEAN /\ enabled \in BOOLEAN
  /\ page \in [Workers -> Views \union {None}]

\* Both sweeps of claim_commands keep it, and what they leave fits.
LEMMA TidyInv ==
  ASSUME IInv
  PROVE  /\ LedgerInv(TidyCommands, work, clicks)
         /\ SessionInv(TidySession, TidyCommands)
         /\ Fewer(command, TidyCommands)
         /\ ~AffinityStale(TidySession)
         /\ TidySession.state = session.state
         /\ TidySession.cancelled = session.cancelled
         /\ Stays(command, TidyCommands)
         /\ \A n \in Commands : TidyCommands[n] = command[n] \/ Ended(TidyCommands[n])
<1> DEFINE s == AbandonedSession(session, command)
           cs == AbandonedCommands(session, command)
<1>1. command \in [Commands -> CommandType] /\ LiveIsAffinity(command)
  BY DEF IInv, LedgerInv, CommandOK, LiveIsAffinity
<1>2. LedgerInv(cs, work, clicks)
  BY <1>1, AbandonedEnds, SomeEndLedger DEF IInv
<1>3. SessionInv(s, cs)
  BY <1>1, AbandonedInv DEF IInv
<1>4. cs \in [Commands -> CommandType]
  BY <1>2 DEF LedgerInv
<1>5. LedgerInv(TidyCommands, work, clicks)
  BY <1>2, <1>4, SweptEnds, SomeEndLedger DEF TidyCommands
<1>6. SessionInv(TidySession, TidyCommands)
  BY <1>3, <1>4, SweptInv DEF TidyCommands, TidySession
<1>7. Fewer(command, TidyCommands)
  <2>1. Fewer(command, cs) /\ Fewer(cs, TidyCommands)
    BY <1>1, <1>4, AbandonedEnds, SweptEnds, SomeEndFewer DEF TidyCommands
  <2> QED BY <2>1 DEF Fewer
<1>8. s \in SessionType /\ s.state = session.state /\ s.cancelled = session.cancelled
  <2>1. session \in SessionType
    BY DEF IInv, SessionInv
  <2> QED BY ZenonT(30), <2>1 DEF AbandonedSession, NoFrame, NoAffinity, SessionType
<1>9. /\ Stays(command, cs) /\ Stays(cs, TidyCommands)
      /\ \A n \in Commands : cs[n] = command[n] \/ Ended(cs[n])
      /\ \A n \in Commands : TidyCommands[n] = cs[n] \/ Ended(TidyCommands[n])
  BY <1>1, <1>4, AbandonedEnds, SweptEnds, SomeEndKeeps DEF TidyCommands
<1>10. \A n \in Commands : Ended(cs[n]) => TidyCommands[n] = cs[n]
  BY DEF TidyCommands, SweptCommands, Open, Ended
<1>11. Stays(command, TidyCommands)
  BY <1>9, <1>10, StaysThen
<1> HIDE DEF s, cs
<1>12. /\ TidySession.state = s.state /\ TidySession.cancelled = s.cancelled
       /\ ~AffinityStale(TidySession)
  BY <1>8 DEF TidySession, SweptSession, AffinityStale, NoFrame, NoAffinity, SessionType, s
<1> QED BY <1>5, <1>6, <1>7, <1>8, <1>9, <1>10, <1>11, <1>12

\* What is said of every step, beside the invariant.
Final ==
  /\ Closed(session) => Closed(session')
  /\ Stays(command, command')

\* A new command: nothing else is open when it needs the live page.
LEMMA AppendSession ==
  ASSUME NEW s, NEW cs, SessionInv(s, cs), cs \in [Commands -> CommandType],
         NEW kind \in Kinds, NEW live \in BOOLEAN, NEW view, Append(cs, kind, live, view),
         kind \in AffinityKinds => NoOpen(cs),
         kind = "takeover_frame" => s.frame = None,
         live => s.holder # None
  PROVE  SessionInv(s, command') /\ Stays(cs, command')
<1> DEFINE new == Row(kind, "prepared", live, view)
<1>1. PICK n \in Commands : cs[n].state = "none" /\ command' = [cs EXCEPT ![n] = new]
  BY DEF Append
<1>2. new.kind = kind /\ new.live = live /\ new.state = "prepared"
  BY DEF Row
<1> HIDE DEF new
<1>3. \A m \in Commands : command'[m] = IF m = n THEN new ELSE cs[m]
  BY <1>1
<1>4. Stays(cs, command')
  BY <1>1, <1>2, <1>3 DEF Stays, Course, Alike
<1>5. \A m, k \in Commands :
        AffinityOpen(command'[m]) /\ AffinityOpen(command'[k]) => m = k
  BY <1>2, <1>3 DEF SessionInv, AffinityOpen, NoOpen
<1> QED BY <1>2, <1>3, <1>4, <1>5 DEF SessionInv, LiveOpen

\* A new command that has nothing to do with the live page.
LEMMA AppendPlain ==
  ASSUME SessionInv(session, command), command \in [Commands -> CommandType],
         NEW kind \in Kinds, kind \notin AffinityKinds,
         Append(command, kind, FALSE, None)
  PROVE  SessionInv(session, command') /\ Stays(command, command')
<1>1. kind # "takeover_frame"
  BY DEF AffinityKinds
<1> QED BY <1>1, AppendSession

\* The steps of the owner.
LEMMA OwnerInv ==
  ASSUME IInv, Owner
  PROVE  IInv' /\ Final
<1> USE DEF OwnerStep, workerVars
<1>0. /\ command \in [Commands -> CommandType] /\ session \in SessionType
      /\ LedgerInv(command, work, clicks) /\ SessionInv(session, command)
  BY DEF IInv, LedgerInv, SessionInv
<1>1. ASSUME Look PROVE IInv' /\ Final
  <2>1. CASE SessionStale /\ ExpireSession
    <3>1. SomeEnd(command, command')
      BY <2>1, EndOpenEnds DEF ExpireSession, Errors, Missing
    <3>2. LedgerInv(command', work, clicks) /\ Fewer(command, command') /\ Stays(command, command')
      BY <1>0, <3>1, SomeEndLedger, SomeEndFewer, SomeEndKeeps
    <3>3. SessionInv(session', command') /\ Closed(session')
      BY <1>0, <2>1, <3>2, CloseInv DEF ExpireSession, Terminal
    <3> QED BY <1>1, <3>2, <3>3 DEF IInv, Look, Final
  <2>2. CASE /\ session' = SweptSession(session)
             /\ command' = SweptCommands(session, command)
    <3>1. SomeEnd(command, command')
      BY <1>0, <2>2, SweptEnds
    <3>2. LedgerInv(command', work, clicks) /\ Stays(command, command')
      BY <1>0, <3>1, SomeEndLedger, SomeEndKeeps
    <3>3. SessionInv(session', command')
      BY <1>0, <2>2, SweptInv
    <3>4. Closed(session) => Closed(session')
      BY <1>0, <2>2 DEF SweptSession, NoFrame, NoAffinity, SessionType, Closed
    <3> QED BY <1>1, <3>2, <3>3, <3>4 DEF IInv, Look, Final
  <2> QED BY <1>1, <2>1, <2>2 DEF Look
<1>2. ASSUME NEW kind \in Kinds, Prepare(kind) PROVE IInv' /\ Final
  <2>1. LedgerInv(command', work, clicks)
    BY <1>0, <1>2, AppendLedger DEF Prepare, Kinds
  <2>2. kind \notin AffinityKinds
    BY <1>2 DEF Prepare, AffinityKinds
  <2>3. SessionInv(session, command') /\ Stays(command, command')
    BY <1>0, <1>2, <2>2, AppendPlain DEF Prepare
  <2> QED BY <1>2, <2>1, <2>3 DEF IInv, Prepare, Final
<1>3. ASSUME PrepareAgentRead PROVE IInv' /\ Final
  <2>1. LedgerInv(command', work, clicks)
    BY <1>0, <1>3, AppendLedger DEF PrepareAgentRead, Kinds
  <2>2. "agent_read" \in Kinds /\ "agent_read" \notin AffinityKinds
    BY DEF Kinds, AffinityKinds
  <2>3. SessionInv(session, command') /\ Stays(command, command')
    BY <1>0, <1>3, <2>2, AppendPlain DEF PrepareAgentRead
  <2> QED BY <1>3, <2>1, <2>3 DEF IInv, PrepareAgentRead, Final
<1>4. ASSUME RequestFrame PROVE IInv' /\ Final
  <2> DEFINE cs == SweptCommands(session, command)
             s == SweptSession(session)
  <2>1. SomeEnd(command, cs)
    BY <1>0, SweptEnds
  <2>2. LedgerInv(cs, work, clicks) /\ Stays(command, cs)
    BY <1>0, <2>1, SomeEndLedger, SomeEndKeeps
  <2>3. SessionInv(s, cs) /\ cs \in [Commands -> CommandType]
    BY <1>0, <2>2, SweptInv DEF LedgerInv
  <2>4. s \in SessionType /\ (s.warm => s.holder # None)
    BY <2>3 DEF SessionInv
  <2> HIDE DEF cs, s
  <2>5. /\ NoFrame(s) \in SessionType /\ NoFrame(s).warm = s.warm
        /\ NoFrame(s).holder = s.holder /\ NoFrame(s).frame = None
        /\ NoFrame(s).state = s.state /\ NoFrame(s).required = s.required
        /\ NoFrame(s).cancelled = s.cancelled /\ NoFrame(s).stored = s.stored
    BY <2>4 DEF NoFrame, SessionType
  <2>6. SessionInv(NoFrame(s), cs)
    BY <2>3, <2>5 DEF SessionInv, Closed
  <2>7. /\ NoOpen(cs) /\ session' = NoFrame(s)
        /\ Append(cs, "takeover_frame", s.warm, None)
    BY <1>4 DEF RequestFrame, cs, s
  <2>8. SessionInv(session', command') /\ Stays(cs, command')
    BY <2>3, <2>4, <2>5, <2>6, <2>7, AppendSession
       DEF Kinds, TakeoverKinds, AffinityKinds, SessionType
  <2>9. LedgerInv(command', work, clicks)
    BY <2>2, <2>4, <2>7, AppendLedger DEF SessionType, Kinds, TakeoverKinds, AffinityKinds
  <2>10. ~Closed(session)
    BY <1>0, <1>4 DEF RequestFrame, Waiting, SessionInv, Closed, Terminal
  <2>11. Stays(command, command')
    <3>1. \A n \in Commands : cs[n] = command[n] \/ Ended(cs[n])
      BY <1>0, <2>1, SomeEndKeeps
    <3>2. \A n \in Commands : Ended(cs[n]) => command'[n] = cs[n]
      BY <2>3, <2>7 DEF Append, Ended
    <3> QED BY <2>2, <2>8, <3>1, <3>2, StaysThen
  <2> QED BY <1>4, <2>8, <2>9, <2>10, <2>11 DEF IInv, RequestFrame, Final
<1>5. ASSUME RequestInteraction PROVE IInv' /\ Final
  <2>1. session.frame.view \in Views /\ session.holder # None
    BY <1>0, <1>5 DEF RequestInteraction, SessionType, SessionInv
  <2>2. LedgerInv(command', work, clicks)
    BY <1>0, <1>5, <2>1, AppendLedger
       DEF RequestInteraction, Kinds, TakeoverKinds, AffinityKinds
  <2> DEFINE kind == "takeover_interaction"
             view == session.frame.view
  <2>3. kind \in Kinds /\ kind # "takeover_frame"
    BY DEF Kinds, TakeoverKinds, AffinityKinds
  <2>4. NoOpen(command) /\ Append(command, kind, TRUE, view) /\ UNCHANGED session
    BY <1>5 DEF RequestInteraction
  <2> HIDE DEF kind, view
  <2>5. SessionInv(session, command') /\ Stays(command, command')
    BY <1>0, <2>1, <2>3, <2>4, AppendSession
  <2> QED BY <1>5, <2>2, <2>5 DEF IInv, RequestInteraction, Final
<1>6. ASSUME RequestInput PROVE IInv' /\ Final
  <2>1. LedgerInv(command', work, clicks)
    BY <1>0, <1>6, AppendLedger DEF RequestInput, Kinds, TakeoverKinds
  <2>2. "takeover_input" \in Kinds /\ "takeover_input" \notin AffinityKinds
    BY DEF Kinds, TakeoverKinds, AffinityKinds
  <2>3. SessionInv(session, command') /\ Stays(command, command')
    BY <1>0, <1>6, <2>2, AppendPlain DEF RequestInput
  <2> QED BY <1>6, <2>1, <2>3 DEF IInv, RequestInput, Final
<1>7. ASSUME Resume PROVE IInv' /\ Final
  <2>1. /\ session' \in SessionType /\ session'.state = "prepared"
        /\ session'.cancelled = session.cancelled /\ session'.required = FALSE
        /\ session'.frame = None /\ session'.warm = FALSE
    BY <1>0, <1>7 DEF Resume, NoFrame, NoAffinity, SessionType
  <2>2. ~Closed(session) /\ ~Closed(session')
    BY <1>0, <1>7, <2>1 DEF Resume, Waiting, SessionInv, Closed, Terminal
  <2>3. SessionInv(session', command)
    BY <1>0, <2>1, <2>2 DEF SessionInv, Closed
  <2> QED BY <1>7, <2>2, <2>3, StaysSame DEF IInv, Resume, Final
<1>8. ASSUME Cancel \/ \E completed \in BOOLEAN : Settle(completed)
      PROVE IInv' /\ Final
  <2>1. command' = EndOpen(command, "cancelled", "session_cancelled")
    BY <1>8 DEF Cancel, Settle
  <2>2. SomeEnd(command, command')
    BY <2>1, EndOpenEnds DEF Errors, Missing
  <2>3. LedgerInv(command', work, clicks) /\ Fewer(command, command') /\ Stays(command, command')
    BY <1>0, <2>2, SomeEndLedger, SomeEndFewer, SomeEndKeeps
  <2>4. PICK state \in Terminal, cancelled \in BOOLEAN :
          session' = Close(session, state, cancelled)
    BY <1>8 DEF Cancel, Settle, Terminal
  <2>5. SessionInv(session', command') /\ Closed(session')
    BY <1>0, <2>3, <2>4, CloseInv
  <2> QED BY <1>8, <2>3, <2>5 DEF IInv, Cancel, Settle, Final
<1>9. ASSUME NEW reason \in Reasons, RequestTakeover(reason) PROVE IInv' /\ Final
  <2>1. SomeEnd(command, command')
    BY <1>9, EndOpenEnds DEF RequestTakeover, Errors, Missing
  <2>2. LedgerInv(command', work, clicks) /\ Fewer(command, command') /\ Stays(command, command')
    BY <1>0, <2>1, SomeEndLedger, SomeEndFewer, SomeEndKeeps
  <2>3. /\ session' \in SessionType /\ session'.state = "takeover"
        /\ session'.cancelled = session.cancelled
        /\ session'.frame = None /\ session'.warm = FALSE
    BY <1>0, <1>9 DEF RequestTakeover, NoFrame, NoAffinity, SessionType
  <2>4. ~Closed(session) /\ ~Closed(session')
    BY <1>0, <1>9, <2>3 DEF RequestTakeover, SessionInv, Closed, Terminal
  <2>5. \A n \in Commands : ~Open(command'[n])
    BY <1>0, <1>9 DEF RequestTakeover, EndOpen, End, Open, CommandType
  <2>6. SessionInv(session', command')
    BY <2>3, <2>4, <2>5 DEF SessionInv, Closed, AffinityOpen, LiveOpen
  <2> QED BY <1>9, <2>2, <2>4, <2>6 DEF IInv, RequestTakeover, Final
<1> QED BY <1>1, <1>2, <1>3, <1>4, <1>5, <1>6, <1>7, <1>8, <1>9 DEF Owner

\* A command that needs the live page is claimed only while there is one, so
\* claim_commands never has to fail it then: the guard of ClaimCommand to that
\* effect excludes nothing.
LEMMA LivePageIsThere ==
  ASSUME IInv, NEW w \in Workers, NEW n \in Commands, FirstClaimable(n, w),
         TidyCommands[n].live
  PROVE  TidySession.warm
<1>1. /\ SessionInv(TidySession, TidyCommands) /\ ~AffinityStale(TidySession)
      /\ LedgerInv(TidyCommands, work, clicks)
  BY TidyInv
<1>2. Open(TidyCommands[n]) /\ Claimable(TidySession, TidyCommands[n], w)
  BY DEF FirstClaimable, IsFirst
<1>3. TidyCommands[n].kind \in TakeoverKinds
  BY <1>1 DEF LedgerInv, CommandOK, TakeoverKinds
<1>4. TidySession.required /\ TidySession.state = "takeover"
  BY <1>2, <1>3 DEF Claimable
<1> QED BY <1>1, <1>2, <1>4 DEF SessionInv, LiveOpen, AffinityStale

\* claim_commands hands out a command.
LEMMA ClaimInv ==
  ASSUME IInv, NEW w \in Workers, NEW n \in Commands, NEW received \in BOOLEAN,
         ClaimCommand(w, n, received)
  PROVE  IInv' /\ Final
<1> DEFINE s == TidySession
           cs == TidyCommands
           c == TidyCommands[n]
<1>1. /\ LedgerInv(cs, work, clicks) /\ SessionInv(s, cs) /\ ~AffinityStale(s)
      /\ s.state = session.state /\ s.cancelled = session.cancelled
      /\ Stays(command, cs)
      /\ \A m \in Commands : cs[m] = command[m] \/ Ended(cs[m])
      /\ Fewer(command, cs)
  BY TidyInv
<1>2. /\ Open(c) /\ Claimable(s, c, w) /\ ~due
      /\ Claim(s, w, n, received) /\ MayPoll(w)
      /\ c.live => s.warm
  BY DEF ClaimCommand, FirstClaimable, IsFirst
<1>3. s \in SessionType /\ cs \in [Commands -> CommandType] /\ c \in CommandType
  BY <1>1 DEF SessionInv, LedgerInv
<1>4. work[w].stage \notin Busy
  BY <1>2 DEF MayPoll, Busy
<1> HIDE DEF s, cs, c
<1>5. /\ session' = [s EXCEPT
           !.state = IF c.kind \in TakeoverKinds THEN @ ELSE "running",
           !.holder = IF c.kind \in AffinityKinds /\ ~s.warm THEN w ELSE @,
           !.warm = @ \/ c.kind \in AffinityKinds]
      /\ command' = [cs EXCEPT
           ![n].state = "running", ![n].attempts = @ + 1, ![n].by = w, ![n].lease = "held"]
      /\ work' = [work EXCEPT ![w] = IF received THEN Doing("claimed", n) ELSE Resting]
      /\ UNCHANGED <<due, enabled, page, clicks>>
  BY <1>2 DEF Claim, s, cs, c
<1>6. /\ cs[n] = c
      /\ command'[n] \in CommandType /\ command' \in [Commands -> CommandType]
      /\ command'[n].kind = c.kind /\ command'[n].live = c.live
      /\ command'[n].state = "running" /\ command'[n].error = c.error
      /\ command'[n].attempts # 0
      /\ \A m \in Commands \ {n} : command'[m] = cs[m]
  <2>1. c.attempts \in Nat /\ c.attempts + 1 \in 0..MaxAttempts
    BY <1>2, <1>3, LimitsAssumption DEF Claimable, CommandType
  <2>2. cs[n] = c
    BY DEF cs, c
  <2> QED BY <1>3, <1>5, <2>1, <2>2 DEF CommandType
<1>7. c.kind = "takeover_interaction" => c.state = "prepared"
  BY <1>2 DEF Claimable, SingleAttempt
<1>8. LedgerInv(command', work', clicks')
  <2>1. CommandOK(command'[n], clicks[n])
    BY <1>1, <1>6, <1>7 DEF LedgerInv, CommandOK, Missing
  <2>2. \A v \in Workers : work[v].stage \in Busy /\ work[v].on = n => c.state # "prepared"
    BY <1>1, <1>6 DEF LedgerInv, WorkOK
  <2>3. /\ Doing("claimed", n) \in WorkType /\ Resting \in WorkType
        /\ Doing("claimed", n).on = n /\ Doing("claimed", n).stage = "claimed"
        /\ Resting.stage \notin Busy
    BY DEF Doing, Resting, WorkType, Errors, Busy
  <2>4. WorkOK(Doing("claimed", n), command'[n], clicks[n])
    BY <1>1, <1>6, <1>7, <2>3 DEF LedgerInv, CommandOK, WorkOK, Missing
  <2>5. ASSUME NEW v \in Workers, work'[v].stage \in Busy
        PROVE  work'[v].on \in Commands
               /\ WorkOK(work'[v], command'[work'[v].on], clicks[work'[v].on])
    <3>1. CASE v = w
      BY <1>1, <1>5, <2>3, <2>4, <2>5, <3>1 DEF LedgerInv
    <3>2. CASE v # w
      <4>1. /\ work'[v] = work[v] /\ work[v].on \in Commands
            /\ WorkOK(work[v], cs[work[v].on], clicks[work[v].on])
        BY <1>1, <1>5, <2>5, <3>2 DEF LedgerInv
      <4>2. CASE work[v].on # n
        BY <1>6, <4>1, <4>2
      <4>3. CASE work[v].on = n
        BY <1>6, <1>7, <2>2, <2>5, <4>1, <4>3 DEF WorkOK
      <4> QED BY <4>2, <4>3
    <3> QED BY <3>1, <3>2
  <2>6. work' \in [Workers -> WorkType]
    BY <1>1, <1>5, <2>3 DEF LedgerInv
  <2>7. ASSUME NEW u \in Workers, NEW v \in Workers,
               work'[u].stage \in Busy, work'[v].stage \in Busy,
               work'[u].on = work'[v].on,
               command'[work'[u].on].kind = "takeover_interaction"
        PROVE  u = v
    <3>1. \A x \in Workers : work'[x] = IF x = w
              THEN IF received THEN Doing("claimed", n) ELSE Resting ELSE work[x]
      BY <1>1, <1>5 DEF LedgerInv
    <3>2. \A m \in Commands : command'[m].kind = cs[m].kind
      BY <1>6
    <3>3. \A x \in Workers \ {w} : work'[x].stage \in Busy /\ work'[x].on = n
              => c.kind # "takeover_interaction"
      BY <1>7, <2>2, <3>1
    <3> QED BY <1>1, <1>6, <2>3, <2>5, <2>7, <3>1, <3>2, <3>3 DEF LedgerInv
  <2> QED BY <1>1, <1>5, <1>6, <2>1, <2>5, <2>6, <2>7 DEF LedgerInv
<1>9. SessionInv(session', command') /\ ~Closed(session')
  <2>1. /\ ~s.cancelled /\ s.state \notin Terminal
        /\ c.kind \in AffinityKinds => s.required /\ s.state = "takeover"
    BY <1>2 DEF Claimable, Terminal, TakeoverKinds
  <2>2. /\ session' \in SessionType
        /\ session'.state = (IF c.kind \in TakeoverKinds THEN s.state ELSE "running")
        /\ session'.holder = (IF c.kind \in AffinityKinds /\ ~s.warm THEN w ELSE s.holder)
        /\ session'.warm = (s.warm \/ c.kind \in AffinityKinds)
        /\ session'.frame = s.frame /\ session'.stored = s.stored
        /\ session'.cancelled = s.cancelled /\ session'.required = s.required
    BY ZenonT(30), <1>3, <1>5 DEF SessionType
  <2>3. w # None
    BY NoneAssumption
  <2>4. c.kind \in AffinityKinds /\ ~s.warm => s.holder = None /\ s.frame = None
    BY <1>1, <1>3, <2>1, NoneAssumption DEF AffinityStale, SessionInv, SessionType
  <2>5. Fewer(cs, command')
    BY <1>2, <1>6 DEF Fewer, Open
  <2> QED BY ZenonT(30), <1>1, <2>1, <2>2, <2>3, <2>4, <2>5
          DEF SessionInv, Fewer, AffinityOpen, LiveOpen, Closed, Terminal
<1>10. Final
  <2>1. ~Closed(session)
    BY <1>1, <1>2 DEF Claimable, Closed, Terminal
  <2>2. Stays(cs, command')
    BY <1>2, <1>6 DEF Stays, Course, Alike
  <2>3. \A m \in Commands : Ended(cs[m]) => command'[m] = cs[m]
    BY <1>2, <1>6 DEF Ended, Open
  <2> QED BY <1>1, <2>1, <2>2, <2>3, StaysThen DEF Final
<1> QED BY <1>5, <1>8, <1>9, <1>10 DEF IInv

\* A poll that hands out nothing, and the heartbeat before it.
LEMMA PollInv ==
  ASSUME IInv, NEW w \in Workers,
         \/ \E received \in BOOLEAN : Heartbeat(w, received)
         \/ \E n \in Commands : Refuse(w, n)
         \/ ClaimNothing(w)
  PROVE  IInv' /\ Final
<1>0. /\ command \in [Commands -> CommandType] /\ session \in SessionType
      /\ work \in [Workers -> WorkType]
      /\ LedgerInv(command, work, clicks) /\ SessionInv(session, command)
  BY DEF IInv, LedgerInv, SessionInv
<1>1. /\ work' \in [Workers -> WorkType]
      /\ \A v \in Workers : LetsGo(work[v], work'[v])
      /\ page' \in [Workers -> Views \union {None}]
      /\ UNCHANGED <<due, enabled, clicks>>
  <2>1. Resting \in WorkType /\ Resting.stage \notin Busy
    BY DEF Resting, Doing, WorkType, Errors, Busy
  <2>2. CASE work' = [work EXCEPT ![w] = Resting] /\ UNCHANGED <<due, enabled, page, clicks>>
    BY <1>0, <2>1, <2>2 DEF LetsGo, IInv
  <2>3. CASE \E received \in BOOLEAN : Heartbeat(w, received)
    <3>1. CASE UNCHANGED <<work, page>>
      BY <1>0, <2>3, <3>1 DEF LetsGo, IInv, Heartbeat
    <3>2. CASE work' = [work EXCEPT ![w].stage = "polled"]
      <4>1. /\ work' \in [Workers -> WorkType] /\ work'[w].stage = "polled"
            /\ \A v \in Workers \ {w} : work'[v] = work[v]
        BY <1>0, <3>2 DEF WorkType
      <4> QED BY <2>3, <4>1 DEF LetsGo, Busy, Heartbeat, IInv
    <3> QED BY <2>3, <3>1, <3>2 DEF Heartbeat
  <2> QED BY <2>2, <2>3 DEF Refuse, ClaimNothing
<1>2. CASE SessionStale /\ ExpireSession
  <2>1. SomeEnd(command, command')
    BY <1>2, EndOpenEnds DEF ExpireSession, Errors, Missing
  <2>2. LedgerInv(command', work, clicks) /\ Fewer(command, command') /\ Stays(command, command')
    BY <1>0, <2>1, SomeEndLedger, SomeEndFewer, SomeEndKeeps
  <2>3. SessionInv(session', command') /\ Closed(session')
    BY <1>0, <1>2, <2>2, CloseInv DEF ExpireSession, Terminal
  <2> QED BY <1>1, <2>2, <2>3, LetsGoLedger DEF IInv, Final
<1>3. CASE ~SessionStale /\ \E received \in BOOLEAN : Heartbeat(w, received)
  <2> DEFINE s == SweptSession(session)
  <2>1. /\ command' = SweptCommands(session, command)
        /\ session' = IF Keeps(s, w) THEN [s EXCEPT !.warm = TRUE] ELSE s
    BY <1>3 DEF Heartbeat
  <2>2. LedgerInv(command', work, clicks) /\ Stays(command, command')
    BY <1>0, <2>1, SweptEnds, SomeEndLedger, SomeEndKeeps
  <2>3. SessionInv(s, command') /\ s \in SessionType
    BY <1>0, <2>1, SweptInv DEF SessionInv
  <2>4. Closed(s) <=> Closed(session)
    BY <1>0 DEF SweptSession, NoFrame, NoAffinity, SessionType, Closed
  <2> HIDE DEF s
  <2>5. CASE Keeps(s, w)
    <3>1. /\ session' \in SessionType /\ session'.holder = s.holder
          /\ session'.frame = s.frame /\ session'.stored = s.stored
          /\ session'.state = s.state /\ session'.required = s.required
          /\ session'.cancelled = s.cancelled
      BY <2>1, <2>3, <2>5 DEF SessionType
    <3>2. s.holder # None
      BY <2>5, NoneAssumption DEF Keeps
    <3>3. SessionInv(session', command')
      BY <2>3, <3>1, <3>2 DEF SessionInv, Closed
    <3> QED BY <1>1, <2>2, <2>4, <3>1, <3>3, LetsGoLedger DEF IInv, Final, Closed
  <2>6. CASE ~Keeps(s, w)
    BY <1>1, <2>1, <2>2, <2>3, <2>4, <2>6, LetsGoLedger DEF IInv, Final
  <2> QED BY <2>5, <2>6
<1>4. CASE ~SessionStale /\ ClaimNothing(w)
  <2>1. session' = TidySession /\ command' = TidyCommands
    BY <1>4 DEF ClaimNothing
  <2>2. Stays(command, command')
    BY <2>1, TidyInv
  <2>3. Closed(session) => Closed(session')
    BY <2>1, TidyInv DEF Closed
  <2> QED BY <1>1, <2>1, <2>2, <2>3, TidyInv, LetsGoLedger DEF IInv, Final
<1>5. ASSUME NEW n \in Commands, Refuse(w, n) PROVE IInv' /\ Final
  <2>1. /\ session' = Revoke(TidySession) /\ Open(TidyCommands[n])
        /\ command' = [TidyCommands EXCEPT
             ![n] = End(TidyCommands[n], "failed", "read_disabled")]
    BY <1>5 DEF Refuse, FirstClaimable, IsFirst
  <2>2. TidyCommands \in [Commands -> CommandType]
    BY TidyInv DEF LedgerInv
  <2>3. SomeEnd(TidyCommands, command')
    BY <2>1, <2>2 DEF SomeEnd, Ends, Errors, Missing
  <2>4. LedgerInv(command', work, clicks) /\ Fewer(TidyCommands, command')
        /\ Stays(TidyCommands, command')
    BY <2>2, <2>3, SomeEndLedger, SomeEndFewer, SomeEndKeeps, TidyInv
  <2>5. SessionInv(session', command') /\ Closed(session')
    BY <2>1, <2>4, RevokeInv, TidyInv
  <2>6. Stays(command, command')
    <3>1. \A m \in Commands : Ended(TidyCommands[m]) => command'[m] = TidyCommands[m]
      BY <2>1, <2>2 DEF Ended, Open
    <3> QED BY <2>4, <3>1, TidyInv, StaysThen
  <2> QED BY <1>1, <2>4, <2>5, <2>6, LetsGoLedger DEF IInv, Final
<1> QED BY <1>2, <1>3, <1>4, <1>5 DEF Heartbeat, ClaimNothing

\* The worker asks whether it may go on, or its report is refused.
LEMMA StopInv ==
  ASSUME IInv, NEW w \in Workers, ControlStops(w) \/ RejectRead(w) \/ CompleteRefused(w)
  PROVE  IInv' /\ Final
<1> DEFINE n == work[w].on
<1>0. /\ command \in [Commands -> CommandType] /\ session \in SessionType
      /\ work \in [Workers -> WorkType]
      /\ LedgerInv(command, work, clicks) /\ SessionInv(session, command)
  BY DEF IInv, LedgerInv, SessionInv
<1>1. work[w].stage \in Busy /\ n \in Commands
  BY <1>0 DEF ControlStops, RejectRead, CompleteRefused, LedgerInv, Busy
<1>2. /\ work' \in [Workers -> WorkType]
      /\ \A v \in Workers : LetsGo(work[v], work'[v])
      /\ page' \in [Workers -> Views \union {None}]
      /\ UNCHANGED <<due, enabled, clicks>>
  <2>1. PICK error \in {"interrupted", "other"} :
          work' = [work EXCEPT ![w].stage = "failing", ![w].error = error]
    BY DEF ControlStops, Stopped, RejectRead, CompleteRefused
  <2>2. /\ work' \in [Workers -> WorkType]
        /\ work'[w].stage = "failing" /\ work'[w].error = error /\ work'[w].on = n
        /\ \A v \in Workers \ {w} : work'[v] = work[v]
    <3> DEFINE x == [work[w] EXCEPT !.stage = "failing", !.error = error]
    <3>1. x \in WorkType /\ x.stage = "failing" /\ x.error = error /\ x.on = work[w].on
      BY <1>0 DEF WorkType, Errors
    <3>2. work' = [work EXCEPT ![w] = x]
      BY <2>1
    <3> HIDE DEF x
    <3> QED BY <1>0, <3>1, <3>2
  <2>3. \A v \in Workers : LetsGo(work[v], work'[v])
    BY <1>1, <2>2 DEF LetsGo, Missing
  <2> QED BY <2>2, <2>3 DEF ControlStops, Stopped, RejectRead, CompleteRefused, IInv
<1>3. ASSUME NEW error \in Errors \ Missing, NEW state \in {"failed", "cancelled"},
             Open(command[n]), command' = [command EXCEPT ![n] = End(command[n], state, error)]
      PROVE  LedgerInv(command', work', clicks') /\ Fewer(command, command')
             /\ Stays(command, command')
  <2>1. SomeEnd(command, command')
    BY <1>0, <1>3 DEF SomeEnd, Ends
  <2> QED BY <1>0, <1>2, <2>1, SomeEndLedger, SomeEndFewer, SomeEndKeeps, LetsGoLedger
<1>4. ASSUME UNCHANGED command
      PROVE  LedgerInv(command', work', clicks') /\ Fewer(command, command')
             /\ Stays(command, command')
  BY <1>0, <1>2, <1>4, LetsGoLedger, StaysSame DEF Fewer
<1> HIDE DEF n
<1>5. LedgerInv(command', work', clicks') /\ Fewer(command, command')
      /\ Stays(command, command')
  <2>1. "session_cancelled" \in Errors \ Missing /\ "read_disabled" \in Errors \ Missing
        /\ "takeover_requested" \in Errors \ Missing /\ "session_expired" \in Errors \ Missing
        /\ "read_rejected" \in Errors \ Missing
    BY DEF Errors, Missing
  <2>2. CASE RejectRead(w)
    BY <1>3, <2>1, <2>2 DEF RejectRead, Open, n
  <2>3. CASE CompleteRefused(w)
    BY <1>4, <2>3 DEF CompleteRefused, brokerVars
  <2>4. CASE ControlStops(w)
    <3>1. ControlCancelled(n) \/ ControlRevoked(n) \/ ControlPaused(n)
          \/ ControlExpired(n) \/ ControlClosed(n) \/ ClaimLost(w, n)
      BY <2>4 DEF ControlStops, n
    <3>2. CASE ControlCancelled(n)
      <4>1. CASE Open(command[n])
        BY <1>3, <2>1, <3>2, <4>1 DEF ControlCancelled
      <4>2. CASE ~Open(command[n])
        BY <1>0, <1>4, <3>2, <4>2 DEF ControlCancelled
      <4> QED BY <4>1, <4>2
    <3>3. CASE ControlRevoked(n)
      BY <1>3, <1>4, <2>1, <3>3 DEF ControlRevoked, brokerVars
    <3>4. CASE ControlPaused(n)
      <4>1. CASE command[n].state = "running"
        BY <1>3, <2>1, <3>4, <4>1 DEF ControlPaused, Open
      <4>2. CASE command[n].state # "running"
        BY <1>0, <1>4, <3>4, <4>2 DEF ControlPaused
      <4> QED BY <4>1, <4>2
    <3>5. CASE ControlExpired(n)
      <4>1. CASE Open(command[n])
        BY <1>3, <2>1, <3>5, <4>1 DEF ControlExpired
      <4>2. CASE ~Open(command[n])
        BY <1>0, <1>4, <3>5, <4>2 DEF ControlExpired
      <4> QED BY <4>1, <4>2
    <3>6. CASE ControlClosed(n) \/ ClaimLost(w, n)
      BY <1>4, <3>6 DEF ControlClosed, ClaimLost, brokerVars
    <3> QED BY <3>1, <3>2, <3>3, <3>4, <3>5, <3>6
  <2> QED BY <2>2, <2>3, <2>4
<1>6. SessionInv(session', command') /\ (Closed(session) => Closed(session'))
  <2>1. CASE session' = session
    BY <1>0, <1>5, <2>1, FewerInv
  <2>2. CASE session' = Revoke(session)
    BY <1>0, <1>5, <2>2, RevokeInv
  <2>3. CASE \E state \in Terminal, cancelled \in BOOLEAN :
               session' = Close(session, state, cancelled)
    BY <1>0, <1>5, <2>3, CloseInv
  <2>4. CASE /\ session' = NoFrame(NoAffinity(session))
             /\ session.state \in Terminal
    <3>1. /\ session' \in SessionType /\ session'.state = session.state
          /\ session'.frame = None /\ session'.warm = FALSE
          /\ session'.cancelled = session.cancelled /\ session'.stored = session.stored
      BY <1>0, <2>4 DEF NoFrame, NoAffinity, SessionType
    <3> QED BY <1>0, <1>5, <2>4, <3>1
            DEF SessionInv, Fewer, Closed, AffinityOpen, LiveOpen, Terminal
  <2> QED BY <2>1, <2>2, <2>3, <2>4
          DEF ControlStops, ControlCancelled, ControlRevoked, ControlPaused, ControlExpired,
              ControlClosed, ClaimLost, RejectRead, CompleteRefused, brokerVars, Terminal
<1> QED BY <1>2, <1>5, <1>6 DEF IInv, Final

\* A command ends by the report of its worker, which has nothing to do then: a
\* worker that works on the same command does not know it yet.
LEMMA ReportLedger ==
  ASSUME LedgerInv(command, work, clicks), NEW w \in Workers, work[w].stage \in Busy,
         NEW state \in {"succeeded", "failed"}, NEW error \in Errors, NEW done \in WorkType,
         command[work[w].on].kind = "takeover_interaction" =>
           /\ state = "succeeded" => clicks[work[w].on] = 1
           /\ error \in Missing => clicks[work[w].on] = 0,
         command' = [command EXCEPT ![work[w].on] = End(command[work[w].on], state, error)],
         work' = [work EXCEPT ![w] = done],
         LetsGo(work[w], done), done # work[w],
         clicks' = clicks
  PROVE  LedgerInv(command', work', clicks')
<1> DEFINE n == work[w].on
<1>1. /\ n \in Commands /\ command[n] \in CommandType
      /\ WorkOK(work[w], command[n], clicks[n]) /\ CommandOK(command[n], clicks[n])
      /\ work \in [Workers -> WorkType]
  BY DEF LedgerInv
<1>2. /\ command' \in [Commands -> CommandType]
      /\ command'[n].kind = command[n].kind /\ command'[n].live = command[n].live
      /\ command'[n].state = state /\ command'[n].error = error
      /\ command'[n].attempts = command[n].attempts
      /\ \A m \in Commands \ {n} : command'[m] = command[m]
  <2>1. End(command[n], state, error) \in CommandType
    BY <1>1 DEF End, CommandType
  <2> QED BY <1>1, <2>1 DEF LedgerInv, End, CommandType
<1>3. CommandOK(command'[n], clicks[n])
  BY <1>1, <1>2 DEF CommandOK
<1>4. /\ work' \in [Workers -> WorkType] /\ work'[w] = done
      /\ \A v \in Workers \ {w} : work'[v] = work[v]
  BY <1>1
<1>5. \A v \in Workers \ {w} : work[v].stage \in Busy /\ work[v].on = n
        => command[n].kind # "takeover_interaction"
  BY DEF LedgerInv
<1> HIDE DEF n
<1>6. done.stage \in Busy => done.stage = "failing" /\ done.on = n /\ done.error \notin Missing
  BY DEF LetsGo, n
<1>7. ASSUME NEW v \in Workers, work'[v].stage \in Busy
      PROVE  work'[v].on \in Commands
             /\ WorkOK(work'[v], command'[work'[v].on], clicks[work'[v].on])
  <2>1. CASE v = w
    BY <1>1, <1>2, <1>4, <1>6, <1>7, <2>1 DEF WorkOK
  <2>2. CASE v # w /\ work[v].on = n
    BY <1>1, <1>2, <1>4, <1>5, <1>7, <2>2 DEF WorkOK, LedgerInv
  <2>3. CASE v # w /\ work[v].on # n
    BY <1>2, <1>4, <1>7, <2>3 DEF LedgerInv
  <2> QED BY <2>1, <2>2, <2>3
<1>8. ASSUME NEW u \in Workers, NEW v \in Workers,
             work'[u].stage \in Busy, work'[v].stage \in Busy, work'[u].on = work'[v].on,
             command'[work'[u].on].kind = "takeover_interaction"
      PROVE  u = v
  <2>1. \A m \in Commands : command'[m].kind = command[m].kind
    BY <1>2
  <2>2. work[u].stage \in Busy /\ work[v].stage \in Busy
        /\ work'[u].on = work[u].on /\ work'[v].on = work[v].on
    BY <1>4, <1>6, <1>8 DEF n
  <2> QED BY <1>7, <1>8, <2>1, <2>2 DEF LedgerInv
<1> QED BY <1>2, <1>3, <1>4, <1>7, <1>8 DEF LedgerInv

\* The command is the only one on the live page, and is over.
LEMMA OverFewer ==
  ASSUME IInv, NEW n \in Commands, command[n].state = "running",
         NEW state \in {"succeeded", "failed"}, NEW error,
         command' = [command EXCEPT ![n] = End(command[n], state, error)]
  PROVE  /\ Fewer(command, command') /\ Stays(command, command')
         /\ command[n].kind \in AffinityKinds =>
              \A m \in Commands : ~AffinityOpen(command'[m]) /\ ~LiveOpen(command'[m])
<1>1. command[n] \in CommandType /\ LiveIsAffinity(command)
      /\ \A m \in Commands : command'[m] = IF m = n THEN End(command[n], state, error)
                                           ELSE command[m]
  BY DEF IInv, LedgerInv, CommandOK, LiveIsAffinity
<1>2. ~Open(End(command[n], state, error)) /\ Course(command[n], End(command[n], state, error))
  BY <1>1 DEF End, Open, Course, CommandType
<1>3. SessionInv(session, command) /\ Open(command[n])
  BY DEF IInv, Open
<1>4. Stays(command, command')
  BY <1>1, <1>2 DEF Stays, Course, Alike
<1> QED BY <1>1, <1>2, <1>3, <1>4
        DEF SessionInv, Fewer, AffinityOpen, LiveOpen, LiveIsAffinity, Open

\* complete_command accepts the report.
LEMMA CompleteInv ==
  ASSUME IInv, NEW w \in Workers, NEW received \in BOOLEAN, Complete(w, received)
  PROVE  IInv' /\ Final
<1> DEFINE n == work[w].on
           kind == command[n].kind
<1>1. /\ work[w].stage = "acted" /\ n \in Commands /\ Accepted(w, n)
      /\ session' = Completed(session, w, kind, work[w].shot)
      /\ command' = [command EXCEPT ![n] = End(command[n], "succeeded", "none")]
  BY DEF Complete
<1>2. /\ LedgerInv(command, work, clicks) /\ SessionInv(session, command)
      /\ session \in SessionType /\ work \in [Workers -> WorkType]
      /\ WorkOK(work[w], command[n], clicks[n])
      /\ command[n] \in CommandType
  BY <1>1 DEF IInv, LedgerInv, SessionInv, Busy
<1>3. PICK done \in WorkType :
        /\ work' = [work EXCEPT ![w] = done] /\ LetsGo(work[w], done) /\ done # work[w]
  <2>1. CASE received
    <3>1. /\ work' = [work EXCEPT ![w] = Resting] /\ Resting \in WorkType
          /\ Resting.stage = "idle"
      BY <2>1 DEF Complete, Resting, Doing, WorkType, Errors
    <3> QED BY <1>1, <3>1 DEF LetsGo, Busy
  <2>2. CASE ~received
    <3> DEFINE done == [work[w] EXCEPT !.stage = "failing", !.error = "other"]
    <3>1. /\ work' = [work EXCEPT ![w] = done] /\ done \in WorkType
          /\ done.stage = "failing" /\ done.error = "other" /\ done.on = work[w].on
      BY <1>2, <2>2 DEF Complete, WorkType, Errors
    <3> HIDE DEF done
    <3> QED BY <1>1, <3>1 DEF LetsGo, Busy, Missing
  <2> QED BY <2>1, <2>2
<1>4. LedgerInv(command', work', clicks')
  <2>1. "none" \in Errors /\ "none" \notin Missing /\ work[w].stage \in Busy
    BY <1>1 DEF Errors, Missing, Busy
  <2>2. kind = "takeover_interaction" => clicks[n] = 1
    BY <1>1, <1>2 DEF WorkOK
  <2>3. clicks' = clicks
    BY DEF Complete
  <2> QED BY <1>1, <1>2, <1>3, <2>1, <2>2, <2>3, ReportLedger
<1>5. /\ Fewer(command, command') /\ Stays(command, command')
      /\ kind \in AffinityKinds =>
           \A m \in Commands : ~AffinityOpen(command'[m]) /\ ~LiveOpen(command'[m])
  BY <1>1, OverFewer DEF Accepted
<1>6. work[w].shot \in Views \/ kind \notin AffinityKinds
  BY <1>1, <1>2 DEF WorkOK
<1>7. ~Closed(session)
  BY <1>1 DEF Accepted
<1> HIDE DEF kind
<1>8. SessionInv(session', command')
  <2>1. CASE kind \in AffinityKinds
    <3>1. session' = [session EXCEPT !.state = "takeover", !.holder = w, !.warm = TRUE,
                        !.stored = TRUE, !.frame = [by |-> w, view |-> work[w].shot]]
      BY <1>1, <2>1 DEF Completed, AffinityKinds
    <3>2. /\ session' \in SessionType /\ session'.state = "takeover"
          /\ session'.holder = w /\ session'.frame.by = w
          /\ session'.cancelled = session.cancelled
      BY <1>2, <1>6, <2>1, <3>1 DEF SessionType
    <3> QED BY <1>2, <1>5, <1>7, <2>1, <3>2, NoneAssumption
            DEF SessionInv, Closed, Terminal, AffinityOpen, AffinityKinds
  <2>2. CASE kind = "takeover_input"
    <3>1. session' = [NoFrame(NoAffinity(session)) EXCEPT
            !.state = "prepared", !.required = FALSE, !.reason = None, !.stored = TRUE]
      BY <1>1, <2>2 DEF Completed, AffinityKinds
    <3>2. /\ session' \in SessionType /\ session'.state = "prepared"
          /\ session'.frame = None /\ session'.warm = FALSE
          /\ session'.cancelled = session.cancelled
      BY <1>2, <3>1 DEF NoFrame, NoAffinity, SessionType
    <3> QED BY <1>2, <1>5, <1>7, <3>2
            DEF SessionInv, Fewer, Closed, Terminal, AffinityOpen, LiveOpen
  <2>3. CASE kind \notin TakeoverKinds
    <3>1. session' = [session EXCEPT !.state = "prepared"]
          \/ session' = [session EXCEPT !.state = "prepared", !.stored = TRUE]
      BY <1>1, <2>3 DEF Completed, TakeoverKinds
    <3>2. /\ session' \in SessionType /\ session'.state = "prepared"
          /\ session'.frame = session.frame /\ session'.warm = session.warm
          /\ session'.holder = session.holder /\ session'.required = session.required
          /\ session'.cancelled = session.cancelled
      BY <1>2, <3>1 DEF SessionType
    <3> QED BY <1>2, <1>5, <1>7, <3>2
            DEF SessionInv, Fewer, Closed, Terminal, AffinityOpen, LiveOpen
  <2> QED BY <2>1, <2>2, <2>3 DEF TakeoverKinds
<1>9. page' \in [Workers -> Views \union {None}] /\ UNCHANGED <<due, enabled>>
  BY <1>2 DEF Complete, IInv, WorkType
<1> QED BY <1>4, <1>5, <1>7, <1>8, <1>9 DEF IInv, Final

\* fail_command, or a report that gets lost.
LEMMA FailInv ==
  ASSUME IInv, NEW w \in Workers, Fail(w)
  PROVE  IInv' /\ Final
<1> DEFINE n == work[w].on
           kind == command[n].kind
           error == work[w].error
<1>1. work[w].stage = "failing" /\ n \in Commands /\ work' = [work EXCEPT ![w] = Resting]
      /\ UNCHANGED <<due, enabled, clicks>>
  BY DEF Fail
<1>2. /\ LedgerInv(command, work, clicks) /\ SessionInv(session, command)
      /\ session \in SessionType /\ work \in [Workers -> WorkType]
      /\ WorkOK(work[w], command[n], clicks[n])
      /\ command[n] \in CommandType
  BY <1>1 DEF IInv, LedgerInv, SessionInv, Busy
<1>3. /\ Resting \in WorkType /\ Resting.stage = "idle"
      /\ LetsGo(work[w], Resting) /\ Resting # work[w]
  BY <1>1 DEF Resting, Doing, WorkType, Errors, LetsGo, Busy
<1>4. page' \in [Workers -> Views \union {None}]
  BY DEF Fail, IInv
<1>5. CASE UNCHANGED brokerVars
  <2>1. work' \in [Workers -> WorkType] /\ \A v \in Workers : LetsGo(work[v], work'[v])
    BY <1>1, <1>2, <1>3 DEF LetsGo
  <2> QED BY <1>1, <1>2, <1>4, <1>5, <2>1, LetsGoLedger, StaysSame DEF IInv, Final, brokerVars
<1>6. CASE /\ command[n].state = "running" /\ command[n].by = w
           /\ session' = Failed(session, kind, error)
           /\ command' = [command EXCEPT ![n] = End(command[n], "failed", error)]
  <2>1. LedgerInv(command', work', clicks')
    <3>1. error \in Errors /\ work[w].stage \in Busy
      BY <1>1, <1>2 DEF WorkType, Busy
    <3>2. kind = "takeover_interaction" /\ error \in Missing => clicks[n] = 0
      BY <1>1, <1>2 DEF WorkOK
    <3> QED BY <1>1, <1>2, <1>3, <1>6, <3>1, <3>2, ReportLedger
  <2>2. /\ Fewer(command, command') /\ Stays(command, command')
        /\ kind \in AffinityKinds =>
             \A m \in Commands : ~AffinityOpen(command'[m]) /\ ~LiveOpen(command'[m])
    BY <1>1, <1>6, OverFewer
  <2>3. kind = "takeover_frame" => session.frame = None
    BY <1>1, <1>2, <1>6 DEF SessionInv, Open
  <2> HIDE DEF kind, error
  <2>4. SessionInv(session', command') /\ (Closed(session) => Closed(session'))
    <3>1. CASE session.state \in Terminal
      <4>1. session' = session
        BY <1>6, <3>1 DEF Failed
      <4> QED BY <1>2, <2>2, <4>1, FewerInv
    <3>2. CASE session.state \notin Terminal /\ kind \in AffinityKinds
      <4>1. \/ session' = [session EXCEPT !.state = "takeover"] /\ kind = "takeover_frame"
            \/ session' = [NoAffinity(session) EXCEPT !.state = "takeover"]
               /\ kind = "takeover_frame"
            \/ session' = [NoFrame(session) EXCEPT !.state = "takeover"]
            \/ session' = [NoAffinity(NoFrame(session)) EXCEPT !.state = "takeover"]
        BY <1>6, <3>2 DEF Failed, AffinityKinds
      <4>2. /\ session' \in SessionType /\ session'.state = "takeover"
            /\ session'.frame = None /\ session'.cancelled = session.cancelled
            /\ (session'.warm => session'.holder # None)
        BY <1>2, <2>3, <4>1 DEF NoFrame, NoAffinity, SessionType, SessionInv
      <4>3. ~Closed(session) /\ ~Closed(session')
        BY <1>2, <3>2, <4>2 DEF SessionInv, Closed, Terminal
      <4> QED BY <2>2, <3>2, <4>2, <4>3 DEF SessionInv, Closed
    <3>3. CASE session.state \notin Terminal /\ kind \notin AffinityKinds
      <4>1. session' = [NoFrame(session) EXCEPT !.state = "failed", !.required = FALSE,
                          !.reason = None, !.stored = FALSE]
        BY <1>6, <3>3 DEF Failed, AffinityKinds
      <4>2. /\ session' \in SessionType /\ session'.state = "failed"
            /\ session'.frame = None /\ session'.stored = FALSE
            /\ session'.holder = session.holder /\ session'.warm = session.warm
        BY <1>2, <4>1 DEF NoFrame, SessionType, Terminal
      <4> QED BY <1>2, <2>2, <4>2 DEF SessionInv, Fewer, Closed, Terminal, AffinityOpen, LiveOpen
    <3> QED BY <3>1, <3>2, <3>3
  <2> QED BY <1>1, <1>4, <2>1, <2>2, <2>4 DEF IInv, Final
<1> QED BY <1>5, <1>6 DEF Fail

\* A worker gets on with its command, and may have clicked.
LEMMA WorkLedger ==
  ASSUME LedgerInv(command, work, clicks), NEW w \in Workers, work[w].stage = "claimed",
         NEW n, n = work[w].on,
         NEW x \in WorkType, x.stage \in {"acted", "failing"}, x.on = n,
         NEW k \in Nat, CommandOK(command[n], k), WorkOK(x, command[n], k),
         command[n].kind # "takeover_interaction" => k = clicks[n],
         work' = [work EXCEPT ![w] = x],
         clicks' = [clicks EXCEPT ![n] = k]
  PROVE  LedgerInv(command, work', clicks')
<1>1. /\ n \in Commands /\ x.on = n /\ work[w].stage \in Busy /\ x.stage \in Busy
      /\ clicks' \in [Commands -> Nat] /\ clicks'[n] = k
      /\ \A m \in Commands \ {n} : clicks'[m] = clicks[m]
      /\ work' \in [Workers -> WorkType] /\ work'[w] = x
      /\ \A v \in Workers \ {w} : work'[v] = work[v]
  BY DEF LedgerInv, Busy
<1>2. ASSUME NEW v \in Workers, work'[v].stage \in Busy
      PROVE  work'[v].on \in Commands
             /\ WorkOK(work'[v], command[work'[v].on], clicks'[work'[v].on])
  <2>1. CASE v = w
    BY <1>1, <2>1
  <2>2. CASE v # w /\ work[v].on = n
    <3>1. command[n].kind # "takeover_interaction"
      BY <1>1, <1>2, <2>2 DEF LedgerInv
    <3> QED BY <1>1, <1>2, <2>2, <3>1 DEF LedgerInv
  <2>3. CASE v # w /\ work[v].on # n
    BY <1>1, <1>2, <2>3 DEF LedgerInv
  <2> QED BY <2>1, <2>2, <2>3
<1>3. \A m \in Commands : CommandOK(command[m], clicks'[m])
  BY <1>1 DEF LedgerInv
<1>4. ASSUME NEW u \in Workers, NEW v \in Workers,
             work'[u].stage \in Busy, work'[v].stage \in Busy, work'[u].on = work'[v].on,
             command[work'[u].on].kind = "takeover_interaction"
      PROVE  u = v
  BY <1>1, <1>4 DEF LedgerInv
<1> QED BY <1>1, <1>2, <1>3, <1>4 DEF LedgerInv

\* The steps of the worker alone.
LEMMA WorkerAloneInv ==
  ASSUME IInv, NEW w \in Workers,
         \/ Browse(w) \/ MissPage(w) \/ FindChanged(w) \/ GoWrong(w) \/ Crash(w)
         \/ \E view \in Views :
              \/ Capture(w, view)
              \/ \E error \in {"none", "uncertain", "other"} : Click(w, view, error)
  PROVE  IInv' /\ Final
<1> DEFINE n == work[w].on
<1>0. /\ LedgerInv(command, work, clicks) /\ work \in [Workers -> WorkType]
      /\ clicks \in [Commands -> Nat] /\ work[w] \in WorkType
  BY DEF IInv, LedgerInv
<1>1. UNCHANGED <<brokerVars, due, enabled>>
  BY DEF Browse, MissPage, FindChanged, GoWrong, Crash, Capture, Click, WorkerAlone
<1>2. page' \in [Workers -> Views \union {None}]
  BY DEF Browse, MissPage, FindChanged, GoWrong, Crash, Capture, Click, IInv
<1>3. ASSUME work[w].stage = "claimed"
      PROVE  /\ n \in Commands /\ CommandOK(command[n], clicks[n])
             /\ WorkOK(work[w], command[n], clicks[n])
             /\ clicks = [clicks EXCEPT ![n] = clicks[n]]
  BY <1>0, <1>3 DEF LedgerInv, Busy
<1>4. LedgerInv(command, work', clicks')
  <2>1. CASE Crash(w)
    <3>1. Resting \in WorkType /\ Resting.stage \notin Busy
      BY DEF Resting, Doing, WorkType, Errors, Busy
    <3>2. /\ work' \in [Workers -> WorkType] /\ clicks' = clicks
          /\ \A v \in Workers : LetsGo(work[v], work'[v])
      BY <1>0, <2>1, <3>1 DEF Crash, LetsGo
    <3> QED BY <1>0, <3>2, LetsGoLedger
  <2>2. ASSUME NEW stage \in {"acted", "failing"}, NEW shot \in Views \union {None},
               NEW error \in Errors, work[w].stage = "claimed",
               work' = [work EXCEPT ![w].stage = stage, ![w].shot = shot, ![w].error = error],
               clicks' = clicks,
               command[n].kind = "takeover_interaction" => stage = "failing",
               stage = "acted" /\ command[n].kind \in AffinityKinds => shot \in Views
        PROVE  LedgerInv(command, work', clicks')
    <3> DEFINE x == [work[w] EXCEPT !.stage = stage, !.shot = shot, !.error = error]
    <3>1. /\ x \in WorkType /\ x.stage = stage /\ x.shot = shot /\ x.error = error
          /\ x.on = n /\ work' = [work EXCEPT ![w] = x]
      BY <1>0, <2>2 DEF WorkType
    <3> HIDE DEF x
    <3>2. PICK k \in Nat : k = clicks[n] /\ clicks' = [clicks EXCEPT ![n] = k]
      BY <1>0, <1>3, <2>2
    <3>3. CommandOK(command[n], k) /\ WorkOK(x, command[n], k)
      BY <1>3, <2>2, <3>1, <3>2 DEF WorkOK
    <3>4. n = work[w].on /\ work[w].stage = "claimed" /\ x.stage \in {"acted", "failing"}
      BY <2>2, <3>1
    <3> QED BY <1>0, <3>1, <3>2, <3>3, <3>4, WorkLedger
  <2>3. CASE Browse(w)
    <3>1. /\ work' = [work EXCEPT ![w].stage = "acted", ![w].shot = work[w].shot,
                                  ![w].error = work[w].error]
          /\ work[w].shot \in Views \union {None} /\ work[w].error \in Errors
          /\ work[w].stage = "claimed" /\ clicks' = clicks
          /\ command[n].kind \notin AffinityKinds
      BY <1>0, <2>3 DEF Browse, WorkType
    <3>2. command[n].kind # "takeover_interaction"
      BY <3>1 DEF AffinityKinds
    <3> QED BY <2>2, <3>1, <3>2
  <2>4. ASSUME NEW view \in Views, Capture(w, view)
        PROVE  LedgerInv(command, work', clicks')
    <3>1. /\ work' = [work EXCEPT ![w].stage = "acted", ![w].shot = view,
                                  ![w].error = work[w].error]
          /\ work[w].error \in Errors
          /\ work[w].stage = "claimed" /\ clicks' = clicks
          /\ command[n].kind = "takeover_frame"
      BY <1>0, <2>4 DEF Capture, WorkType
    <3> QED BY <2>2, <3>1
  <2>5. CASE MissPage(w) \/ FindChanged(w) \/ GoWrong(w)
    <3>1. PICK error \in {"context_missing", "frame_stale", "other"} : Report(w, error)
      BY <2>5 DEF MissPage, FindChanged, GoWrong
    <3>2. /\ work' = [work EXCEPT ![w].stage = "failing", ![w].shot = work[w].shot,
                                  ![w].error = error]
          /\ work[w].shot \in Views \union {None} /\ error \in Errors
          /\ work[w].stage = "claimed" /\ clicks' = clicks
      BY <1>0, <2>5, <3>1 DEF MissPage, FindChanged, GoWrong, Report, WorkType, Errors
    <3> QED BY <2>2, <3>2
  <2>6. ASSUME NEW view \in Views, NEW error \in {"none", "uncertain", "other"},
               Click(w, view, error)
        PROVE  LedgerInv(command, work', clicks')
    <3> DEFINE stage == IF error = "none" THEN "acted" ELSE "failing"
               shot == IF error = "none" THEN view ELSE None
               x == [work[w] EXCEPT !.stage = stage, !.shot = shot, !.error = error]
    <3>1. /\ work[w].stage = "claimed" /\ command[n].kind = "takeover_interaction"
          /\ work' = [work EXCEPT ![w].stage = stage, ![w].shot = shot, ![w].error = error]
          /\ clicks' = [clicks EXCEPT ![n] = clicks[n] + 1]
      BY <2>6 DEF Click
    <3>2. clicks[n] + 1 = 1
      BY <1>3, <3>1 DEF WorkOK
    <3>3. /\ error \in Errors /\ error \notin Missing /\ stage \in {"acted", "failing"}
          /\ shot \in Views \union {None} /\ (stage = "acted" => shot \in Views)
      BY DEF Errors, Missing
    <3> HIDE DEF stage, shot
    <3>4. /\ x \in WorkType /\ x.stage = stage /\ x.shot = shot /\ x.error = error
          /\ x.on = n /\ work' = [work EXCEPT ![w] = x]
      BY <1>0, <3>1, <3>3 DEF WorkType
    <3> HIDE DEF x
    <3>5. CommandOK(command[n], 1) /\ WorkOK(x, command[n], 1)
      BY <1>3, <3>1, <3>3, <3>4 DEF CommandOK, WorkOK
    <3>6. clicks' = [clicks EXCEPT ![n] = 1]
      BY <3>1, <3>2
    <3>7. /\ work[w].stage = "claimed" /\ x.stage \in {"acted", "failing"} /\ 1 \in Nat
          /\ command[n].kind # "takeover_interaction" => 1 = clicks[n]
      BY <3>1, <3>3, <3>4
    <3>8. x \in WorkType /\ x.on = n /\ work' = [work EXCEPT ![w] = x]
      BY <3>4
    <3> QED BY <1>0, <3>5, <3>6, <3>7, <3>8, WorkLedger
  <2> QED BY <2>1, <2>3, <2>4, <2>5, <2>6
<1> QED BY <1>1, <1>2, <1>4, StaysSame DEF IInv, Final, brokerVars

\* Time, and what the pages do by themselves.
LEMMA EnvironmentInv ==
  ASSUME IInv, Environment
  PROVE  IInv' /\ Final
<1>0. /\ LedgerInv(command, work, clicks) /\ SessionInv(session, command)
      /\ session \in SessionType /\ command \in [Commands -> CommandType]
  BY DEF IInv, LedgerInv, SessionInv
<1>1. CASE SessionDue \/ AffinityEnds
  <2>1. /\ session' \in SessionType /\ session'.state = session.state
        /\ session'.cancelled = session.cancelled /\ session'.warm = FALSE
        /\ session'.holder = session.holder /\ session'.frame = session.frame
        /\ session'.stored = session.stored /\ session'.required = session.required
        /\ due' \in BOOLEAN
        /\ UNCHANGED <<command, enabled, work, page, clicks>>
    BY <1>0, <1>1 DEF SessionDue, AffinityEnds, SessionType, workerVars, IInv
  <2>2. SessionInv(session', command)
    BY <1>0, <2>1 DEF SessionInv, Closed
  <2> QED BY <2>1, <2>2, StaysSame DEF IInv, Final, Closed
<1>2. CASE DisableReads
  BY <1>2, StaysSame DEF DisableReads, workerVars, IInv, Final
<1>3. CASE \E w \in Workers : PageChanges(w)
  BY <1>3, StaysSame DEF PageChanges, IInv, Final
<1>4. ASSUME NEW n \in Commands, LeaseEnds(n)
      PROVE  IInv' /\ Final
  <2>1. /\ command' = [command EXCEPT ![n].lease = "lapsed"]
        /\ UNCHANGED <<session, due, enabled, work, page, clicks>>
    BY <1>4 DEF LeaseEnds, workerVars
  <2>2. /\ command' \in [Commands -> CommandType]
        /\ \A m \in Commands :
             /\ command'[m].kind = command[m].kind /\ command'[m].live = command[m].live
             /\ command'[m].state = command[m].state
             /\ command'[m].error = command[m].error
             /\ command'[m].attempts = command[m].attempts
    BY <1>0, <2>1 DEF CommandType
  <2>3. LedgerInv(command', work, clicks)
    BY <1>0, <2>2 DEF LedgerInv, CommandOK, WorkOK, Busy
  <2>4. SessionInv(session, command') /\ Stays(command, command')
    BY <1>0, <2>2, FewerInv DEF Fewer, Stays, Course, Alike, Open
  <2> QED BY <2>1, <2>3, <2>4 DEF IInv, Final
<1> QED BY <1>1, <1>2, <1>3, <1>4 DEF Environment

-----------------------------------------------------------------------------
(* The theorems *)

\* The promise, as what it says of the state: no click is done twice, it was done
\* when it succeeded, and it was not done when the owner may try again.
InteractionIsHonest ==
  \A n \in Commands :
    command[n].kind = "takeover_interaction" =>
      /\ clicks[n] <= 1
      /\ command[n].state = "succeeded" => clicks[n] = 1
      /\ command[n].error \in Missing => clicks[n] = 0

\* A new session has no commands and nothing to show.
LEMMA InitInv == Init => IInv
<1> SUFFICES ASSUME Init PROVE IInv
  OBVIOUS
<1>1. session \in SessionType /\ ~Closed(session) /\ session.frame = None
      /\ session.warm = FALSE /\ session.required = FALSE
  BY DEF Init, SessionType, Closed, Terminal
<1>2. NoCommand \in CommandType /\ NoCommand.state = "none" /\ NoCommand.error = "none"
      /\ NoCommand.live = FALSE /\ NoCommand.kind = "navigate" /\ ~Open(NoCommand)
  BY LimitsAssumption DEF NoCommand, Row, CommandType, Kinds, Errors, Open
<1>3. CommandOK(NoCommand, 0)
  BY <1>2 DEF CommandOK
<1>4. Resting \in WorkType /\ Resting.stage \notin Busy
  BY DEF Resting, Doing, WorkType, Errors, Busy
<1> HIDE DEF NoCommand
<1>5. LedgerInv(command, work, clicks)
  BY <1>2, <1>3, <1>4 DEF Init, LedgerInv
<1>6. SessionInv(session, command)
  BY <1>1, <1>2 DEF Init, SessionInv, AffinityOpen, LiveOpen, Closed
<1> QED BY <1>5, <1>6 DEF Init, IInv

\* Every step keeps the invariant, and what is final.
LEMMA StepInv == IInv /\ [Next]_vars => IInv' /\ Final
<1> SUFFICES ASSUME IInv, [Next]_vars PROVE IInv' /\ Final
  OBVIOUS
<1>1. CASE Owner
  BY <1>1, OwnerInv
<1>2. CASE Environment
  BY <1>2, EnvironmentInv
<1>3. ASSUME NEW w \in Workers, Worker(w)
      PROVE  IInv' /\ Final
  <2>1. CASE \/ \E received \in BOOLEAN : Heartbeat(w, received)
             \/ \E n \in Commands : Refuse(w, n)
             \/ ClaimNothing(w)
    BY <2>1, PollInv
  <2>2. CASE \E received \in BOOLEAN, n \in Commands : ClaimCommand(w, n, received)
    BY <2>2, ClaimInv
  <2>3. CASE \E received \in BOOLEAN : Complete(w, received)
    BY <2>3, CompleteInv
  <2>4. CASE ControlStops(w) \/ RejectRead(w) \/ CompleteRefused(w)
    BY <2>4, StopInv
  <2>5. CASE Fail(w)
    BY <2>5, FailInv
  <2>6. CASE \/ Browse(w) \/ MissPage(w) \/ FindChanged(w) \/ GoWrong(w) \/ Crash(w)
             \/ \E view \in Views :
                  \/ Capture(w, view)
                  \/ \E error \in {"none", "uncertain", "other"} : Click(w, view, error)
    BY <2>6, WorkerAloneInv
  <2> QED BY <1>3, <2>1, <2>2, <2>3, <2>4, <2>5, <2>6 DEF Worker
<1>4. CASE UNCHANGED vars
  BY <1>4, StaysSame DEF vars, IInv, Final, LedgerInv, SessionInv
<1> QED BY <1>1, <1>2, <1>3, <1>4 DEF Next

\* What the invariant says of the state.
LEMMA InvImplies ==
  IInv => TypeOK /\ InteractionIsHonest /\ FrameIsFromHolder /\ ClosedKeepsNothing
<1> SUFFICES ASSUME IInv
             PROVE  TypeOK /\ InteractionIsHonest /\ FrameIsFromHolder /\ ClosedKeepsNothing
  OBVIOUS
<1>1. TypeOK
  BY DEF IInv, LedgerInv, SessionInv, TypeOK
<1>2. InteractionIsHonest
  BY DEF IInv, LedgerInv, CommandOK, Missing, InteractionIsHonest
<1>3. FrameIsFromHolder /\ ClosedKeepsNothing
  BY DEF IInv, SessionInv, FrameIsFromHolder, ClosedKeepsNothing
<1> QED BY <1>1, <1>2, <1>3

\* The invariant holds in every behaviour.
LEMMA Invariance == Spec => []IInv
BY InitInv, StepInv, PTL DEF Spec

\* The state of the broker and of its workers is well formed.
THEOREM BrowserTypes == Spec => []TypeOK
BY Invariance, InvImplies, PTL

\* An owner's click is carried out once at most, and what the broker says of it
\* is what happened to the page (claim_commands, complete_command,
\* fail_command, performTakeoverInteraction).
THEOREM BrowserInteractions == Spec => []InteractionIsHonest
BY Invariance, InvImplies, PTL

\* The frame that is shown comes from the worker that holds the live page.
THEOREM BrowserFrames == Spec => []FrameIsFromHolder
BY Invariance, InvImplies, PTL

\* A closed session keeps no authenticated state and no frame.
THEOREM BrowserClosed == Spec => []ClosedKeepsNothing
BY Invariance, InvImplies, PTL

\* A closed session stays closed, and an ended command keeps its outcome.
THEOREM BrowserEnded == Spec => EndedIsFinal
<1>1. IInv /\ [Next]_vars =>
        [/\ Closed(session) => Closed(session')
         /\ \A n \in Commands :
              command[n].state \in {"succeeded", "failed", "cancelled"} =>
                /\ command'[n].state = command[n].state
                /\ command'[n].error = command[n].error]_vars
  BY StepInv DEF Final, Stays, Course, Alike, Open
<1> QED BY <1>1, Invariance, PTL DEF Spec, EndedIsFinal

-----------------------------------------------------------------------------
(* The promise *)

\* Only a click counts as one, and it changes nothing that the broker has.
Clicks(n) ==
  /\ \E w \in Workers : work[w].stage = "claimed" /\ work[w].on = n
  /\ command[n].kind = "takeover_interaction"
  /\ clicks' = [clicks EXCEPT ![n] = @ + 1]
  /\ UNCHANGED command
LEMMA ClickStep ==
  ASSUME IInv, [Next]_vars
  PROVE  UNCHANGED clicks \/ \E n \in Commands : Clicks(n)
<1> USE DEF workerVars, WorkerAlone
<1>1. CASE Owner
  BY <1>1 DEF Owner, OwnerStep, Look, PrepareAgentRead, RequestFrame, RequestInteraction,
              RequestInput, Resume, Cancel, Prepare, RequestTakeover, Settle
<1>2. CASE Environment
  BY <1>2 DEF Environment, SessionDue, AffinityEnds, DisableReads, LeaseEnds, PageChanges
<1>3. ASSUME NEW w \in Workers, Worker(w)
      PROVE  UNCHANGED clicks \/ \E n \in Commands : Clicks(n)
  <2>1. ASSUME NEW view \in Views, NEW error \in {"none", "uncertain", "other"},
               Click(w, view, error)
        PROVE  \E n \in Commands : Clicks(n)
    <3>1. work[w].on \in Commands
      BY <2>1 DEF Click, IInv, LedgerInv, Busy
    <3>2. Clicks(work[w].on)
      BY <2>1 DEF Click, Clicks, brokerVars
    <3> QED BY <3>1, <3>2
  <2>2. CASE \E received \in BOOLEAN :
               \/ Heartbeat(w, received) \/ Complete(w, received)
               \/ \E n \in Commands : ClaimCommand(w, n, received)
    BY <2>2 DEF Heartbeat, Complete, ClaimCommand, Claim
  <2>3. CASE \/ \E n \in Commands : Refuse(w, n)
             \/ ClaimNothing(w)
             \/ RejectRead(w) \/ CompleteRefused(w) \/ Fail(w) \/ ControlStops(w)
    BY <2>3 DEF Refuse, ClaimNothing, RejectRead, CompleteRefused, Fail, ControlStops
  <2>4. CASE \/ \E view \in Views : Capture(w, view)
             \/ Browse(w) \/ MissPage(w) \/ FindChanged(w) \/ GoWrong(w) \/ Crash(w)
    BY <2>4 DEF Capture, Browse, MissPage, FindChanged, GoWrong, Crash
  <2> QED BY <1>3, <2>1, <2>2, <2>3, <2>4 DEF Worker
<1>4. CASE UNCHANGED vars
  BY <1>4 DEF vars
<1> QED BY <1>1, <1>2, <1>3, <1>4 DEF Next

\* Every step is one of the promise, for every command, or none.  What may become
\* of the command leaves the choice, and the invariant rules out the wrong ones.
LEMMA PromiseStep ==
  ASSUME IInv, [Next]_vars, NEW n \in Commands
  PROVE  UNCHANGED Promise(n)!vars \/ Promise(n)!Next
<1> DEFINE c == command[n]
           d == command'[n]
           k == clicks[n]
<1>1. /\ Course(c, d) /\ CommandOK(c, k) /\ CommandOK(d, clicks'[n])
      /\ c \in CommandType /\ d \in CommandType /\ k \in Nat /\ clicks'[n] \in Nat
  BY StepInv DEF Final, Stays, IInv, LedgerInv
<1>2. CASE clicks'[n] = k
  <2>1. CASE Alike(c, d) \/ d.kind # "takeover_interaction"
    <3>1. CASE Alike(c, d)
      BY <1>2, <3>1 DEF Alike, OutcomeOf, Promise!vars
    <3>2. CASE d.kind # "takeover_interaction"
      <4>1. c.kind # "takeover_interaction" \/ c.state = "none"
        BY <1>1, <3>2 DEF Course, Alike
      <4> QED BY <1>2, <3>2, <4>1 DEF OutcomeOf, Promise!vars
    <3> QED BY <2>1, <3>1, <3>2
  <2>2. CASE c.state = "none" /\ d.state = "prepared" /\ d.kind = "takeover_interaction"
    BY <1>2, <2>2 DEF OutcomeOf, Promise!Next, Promise!Authorize
  <2>3. CASE c.kind = "takeover_interaction" /\ d.kind = c.kind /\ Open(c)
             /\ d.state = "running"
    BY <1>2, <2>3 DEF Open, OutcomeOf, Promise!Next, Promise!Commit, Promise!vars
  <2>4. CASE c.kind = "takeover_interaction" /\ d.kind = c.kind /\ c.state = "running"
             /\ d.state = "succeeded"
    BY <1>1, <1>2, <2>4 DEF CommandOK, OutcomeOf, Promise!Next, Promise!Confirm
  <2>5. CASE c.kind = "takeover_interaction" /\ d.kind = c.kind /\ Open(c)
             /\ d.attempts = c.attempts /\ d.state \in {"failed", "cancelled"}
    BY <1>1, <1>2, <2>5
       DEF Open, CommandOK, CommandType, Missing, OutcomeOf, Promise!Next,
           Promise!Withdraw, Promise!Reject, Promise!Doubt
  <2> QED BY <1>1, <2>1, <2>2, <2>3, <2>4, <2>5 DEF Course
<1>3. CASE clicks'[n] # k
  <2>1. Clicks(n) /\ clicks'[n] = k + 1 /\ d = c
    BY <1>3, ClickStep DEF Clicks, IInv, LedgerInv
  <2>2. PICK w \in Workers : work[w].stage = "claimed" /\ work[w].on = n
    BY <2>1 DEF Clicks
  <2>3. WorkOK(work[w], c, k)
    BY <2>2 DEF IInv, LedgerInv, Busy
  <2>4. k = 0 /\ OutcomeOf(n) \in {"committed", "uncertain"}
    BY <1>1, <2>1, <2>2, <2>3 DEF WorkOK, Clicks, OutcomeOf, CommandType, Missing
  <2>5. OutcomeOf(n)' = OutcomeOf(n) /\ clicks'[n] = 1
    BY <1>1, <2>1, <2>4 DEF OutcomeOf
  <2> QED BY <2>4, <2>5 DEF Promise!Next, Promise!Apply
<1> QED BY <1>2, <1>3

\* The broker and its workers keep the one-shot promise for every click of the
\* owner.
THEOREM ClicksKeepPromise == Spec => KeepsPromise
<1>1. Init => \A n \in Commands : Promise(n)!Init
  BY DEF Init, OutcomeOf, NoCommand, Row, Promise!Init
<1>2. IInv /\ [Next]_vars =>
        [\A n \in Commands : UNCHANGED Promise(n)!vars \/ Promise(n)!Next]_vars
  BY PromiseStep
<1> QED
  BY <1>1, <1>2, Invariance, PTL DEF Spec, KeepsPromise

-----------------------------------------------------------------------------
(* The contract with the agent *)

\* What an agent that started the session can see of it, by the state of the
\* session and of the command it has prepared (agent_repository.py reads both).
Asked == \E n \in Commands : command[n].kind = "agent_read" /\ command[n].state # "none"
Answered ==
  \E n \in Commands : command[n].kind = "agent_read" /\ command[n].state = "succeeded"
StageOf ==
  IF session.state = "completed" THEN "settled"
  ELSE IF Closed(session) THEN "closed"
  ELSE IF Answered THEN "read"
  ELSE IF Asked THEN "reading"
  ELSE "open"

Contract == INSTANCE AgentSession WITH stage <- StageOf

\* A session is completed only by the agent, and only on an answer.
LEMMA OnlySettled ==
  ASSUME IInv, [Next]_vars, session.state # "completed", session'.state = "completed"
  PROVE  ~Closed(session) /\ Answered
<1>0. session \in SessionType
  BY DEF IInv, SessionInv
<1> USE <1>0 DEF SessionType, Terminal, NoFrame, NoAffinity, Bare, Close
<1>1. CASE Owner
  <2>1. ASSUME NEW completed \in BOOLEAN, Settle(completed)
        PROVE  ~Closed(session) /\ Answered
    BY <2>1 DEF Settle, Answered
  <2>2. CASE Look \/ RequestFrame
    BY <2>2 DEF Look, RequestFrame, ExpireSession, SweptSession
  <2>3. CASE \/ PrepareAgentRead \/ RequestInteraction \/ RequestInput \/ Resume \/ Cancel
             \/ \E kind \in Kinds : Prepare(kind)
             \/ \E reason \in Reasons : RequestTakeover(reason)
    BY <2>3 DEF PrepareAgentRead, RequestInteraction, RequestInput, Resume, Cancel,
                Prepare, RequestTakeover
  <2> QED BY <1>1, <2>1, <2>2, <2>3 DEF Owner
<1>2. CASE Environment
  BY <1>2 DEF Environment, SessionDue, AffinityEnds, DisableReads, LeaseEnds, PageChanges
<1>3. ASSUME NEW w \in Workers, Worker(w)
      PROVE  FALSE
  <2>0. TidySession \in SessionType /\ TidySession.state = session.state
    BY TidyInv DEF SessionInv
  <2>1. CASE \E received \in BOOLEAN : Heartbeat(w, received)
    BY <2>1 DEF Heartbeat, ExpireSession, SweptSession
  <2>2. CASE \E received \in BOOLEAN : Complete(w, received)
    BY <2>2 DEF Complete, Completed
  <2>3. CASE \E received \in BOOLEAN, n \in Commands : ClaimCommand(w, n, received)
    BY <2>0, <2>3 DEF ClaimCommand, Claim
  <2>4. CASE (\E n \in Commands : Refuse(w, n)) \/ ClaimNothing(w)
    BY <2>0, <2>4 DEF Refuse, ClaimNothing, Revoke, ExpireSession
  <2>5. CASE RejectRead(w) \/ CompleteRefused(w) \/ Fail(w)
    BY <2>5 DEF RejectRead, CompleteRefused, Fail, Failed, Revoke, brokerVars
  <2>6. CASE ControlStops(w)
    BY <2>6 DEF ControlStops, ControlCancelled, ControlRevoked, ControlPaused,
                ControlExpired, ControlClosed, ClaimLost, Revoke, brokerVars
  <2>7. CASE \/ Browse(w) \/ MissPage(w) \/ FindChanged(w) \/ GoWrong(w) \/ Crash(w)
             \/ \E view \in Views :
                  \/ Capture(w, view)
                  \/ \E error \in {"none", "uncertain", "other"} : Click(w, view, error)
    BY <2>7 DEF Browse, MissPage, FindChanged, GoWrong, Crash, Capture, Click, WorkerAlone,
                brokerVars
  <2> QED BY <1>3, <2>1, <2>2, <2>3, <2>4, <2>5, <2>6, <2>7 DEF Worker
<1>4. CASE UNCHANGED vars
  BY <1>4 DEF vars
<1> QED BY <1>1, <1>2, <1>3, <1>4 DEF Next

\* What was asked and what was answered stays so, and nothing is answered that
\* was not asked before.
LEMMA AnswersStay ==
  ASSUME Stays(command, command')
  PROVE  /\ Asked => Asked'
         /\ Answered => Answered'
         /\ Answered' => Asked
BY DEF Asked, Answered, Stays, Course, Alike, Open

\* The broker keeps the contract with the agent: a read is asked for once, an
\* answer comes only to what was asked, a session is settled only on an answer, and
\* one that was closed answers no more (prepare_agent_read, complete_command,
\* _settle_agent_browser_session, and all ways in which a session ends).
THEOREM BrokerKeepsContract == Spec => Contract!Spec
<1>1. Init => Contract!Init
  <2> SUFFICES ASSUME Init PROVE StageOf = "open"
    BY DEF Contract!Init
  <2>1. session.state = "prepared" /\ ~Closed(session)
    BY DEF Init, Closed, Terminal
  <2>2. ~Asked /\ ~Answered
    BY DEF Init, Asked, Answered, NoCommand, Row
  <2> QED BY <2>1, <2>2 DEF StageOf
<1>2. IInv /\ [Next]_vars => [Contract!Next]_StageOf
  <2> SUFFICES ASSUME IInv, [Next]_vars
               PROVE  UNCHANGED StageOf \/ Contract!Next
    OBVIOUS
  <2>1. /\ Closed(session) => Closed(session')
        /\ Asked => Asked'
        /\ Answered => Asked /\ Answered'
        /\ Answered' => Asked
    BY StepInv, AnswersStay DEF Final, Asked, Answered
  <2>2. session'.state = "completed" /\ session.state # "completed" =>
          ~Closed(session) /\ Answered
    BY OnlySettled
  <2>3. session.state = "completed" => Closed(session)
    BY DEF Closed, Terminal
  <2>4. CASE session.state = "completed"
    BY <2>1, <2>3, <2>4 DEF StageOf, Contract!Next, Contract!Outlive
  <2>5. CASE session.state # "completed" /\ Closed(session)
    BY <2>1, <2>2, <2>5 DEF StageOf
  <2>6. CASE ~Closed(session) /\ session'.state = "completed"
    BY <2>1, <2>2, <2>3, <2>6 DEF StageOf, Contract!Next, Contract!Settle
  <2>7. CASE ~Closed(session) /\ session'.state # "completed" /\ Closed(session')
    BY <2>3, <2>7 DEF StageOf, Contract!Next, Contract!Live, Contract!Close
  <2>8. CASE ~Closed(session) /\ ~Closed(session')
    <3>1. session.state # "completed" /\ session'.state # "completed"
      BY <2>3, <2>8 DEF Closed, Terminal
    <3> QED BY <2>1, <2>8, <3>1 DEF StageOf, Contract!Next, Contract!Ask, Contract!Answer
  <2> QED BY <2>3, <2>4, <2>5, <2>6, <2>7, <2>8
<1> QED BY <1>1, <1>2, Invariance, PTL DEF Spec, Contract!Spec
====
