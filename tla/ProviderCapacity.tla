---- MODULE ProviderCapacity ----
(* Admission of model calls: short-lived leases that bound the calls in      *)
(* flight, a token allocation per UTC day shared by everybody, and one per   *)
(* account (services/coworker/provider_capacity.py and the pairs of reserve_ *)
(* and settle_ functions that use it).                                       *)
(*                                                                           *)
(* Two locks are involved.  A reservation holds the account's row lock from  *)
(* the moment it reads the account's usage; the lease and both counters are  *)
(* written under one advisory lock, which is held until the commit.  What is *)
(* read before the advisory lock may be stale when it is written.            *)
(*                                                                           *)
(* Limits per task, run or conversation only make a reservation refuse, which*)
(* is a reservation not made here.  A retried call is another call.          *)
EXTENDS Integers, FiniteSets, Functions

CONSTANTS
  Calls,              \* model calls
  Keys,               \* lease keys
  KeyOf,              \* the lease key of a call
  Accounts,           \* workspaces
  AccountOf,          \* the account a lease key belongs to
  Drafts,             \* calls settled by CoworkerRepository.settle_model
  Bare,               \* calls settled by a model service's own _settle
  Reserved,           \* tokens reserved for a call under a lease key
  Reports,            \* token totals the provider may report
  MaxCalls,           \* provider_max_concurrent_calls
  MaxCallsPerAccount, \* provider_max_concurrent_per_workspace
  MaxTokens,          \* provider_max_reserved_tokens
  MaxTokensPerAccount,\* provider_max_reserved_tokens_per_workspace
  DailyBudget,        \* provider_daily_token_budget
  AccountBudget,      \* daily_token_budget
  LastDay             \* bound on the days that pass

ASSUME KeyAssumption == KeyOf \in [Calls -> Keys] /\ AccountOf \in [Keys -> Accounts]
ASSUME KindAssumption == Drafts \subseteq Calls /\ Bare \subseteq Calls \ Drafts
ASSUME TokensAssumption == Reserved \in [Keys -> Nat \ {0}] /\ Reports \subseteq Nat
ASSUME LimitAssumption ==
  /\ {MaxCalls, MaxCallsPerAccount, MaxTokens, MaxTokensPerAccount} \subseteq Nat
  /\ {DailyBudget, AccountBudget, LastDay} \subseteq Nat

VARIABLES
  today,    \* the UTC day
  held,     \* lease keys that have a row
  expired,  \* those of them whose expires_at has passed
  created,  \* the day in created_at of each lease
  tracked,  \* days that have a row of provider usage
  provider, \* tokens allocated of the provider's budget, by day
  usage,    \* tokens allocated of each account's budget, by day
  pc,       \* where each call stands
  day,      \* the day each call charges its account
  seen,     \* the account's usage as the transaction of a call read it
  result    \* tokens reported for each call

leaseVars == <<held, expired, created>>
allocationVars == <<tracked, provider>>
callVars == <<day, seen, result>>
vars == <<today, held, expired, created, tracked, provider, usage, pc, day,
          seen, result>>

Days == 0 .. LastDay
Owner(c) == AccountOf[KeyOf[c]]
Tokens(c) == Reserved[KeyOf[c]]

\* An outcome without a token count: a timeout, a lost or malformed answer.
Unknown == -1

Init ==
  /\ today = 0
  /\ held = {} /\ expired = {} /\ tracked = {}
  /\ created = [k \in Keys |-> 0]
  /\ provider = [d \in Days |-> 0]
  /\ usage = [o \in Accounts |-> [d \in Days |-> 0]]
  /\ pc = [c \in Calls |-> "idle"]
  /\ day = [c \in Calls |-> 0]
  /\ seen = [c \in Calls |-> 0]
  /\ result = [c \in Calls |-> Unknown]

GoTo(c, step) == pc' = [pc EXCEPT ![c] = step]
SetUsage(c, tokens) == usage' = [usage EXCEPT ![Owner(c)][day[c]] = tokens]

\* A transaction ends, and with it what it read.
Forget(c) == seen' = [seen EXCEPT ![c] = 0]

\* The account's row is locked by a transaction that waits for the advisory lock.
AccountLocked(o) == \E c \in Calls : Owner(c) = o /\ pc[c] \in {"admitting", "settling"}

-----------------------------------------------------------------------------
(* Admission *)

\* reserve_model, reserve_planner, claim or _reserve, up to the advisory lock.
Reserve(c) ==
  /\ pc[c] = "idle"
  /\ ~AccountLocked(Owner(c))
  /\ usage[Owner(c)][today] + Tokens(c) <= AccountBudget
  /\ day' = [day EXCEPT ![c] = today]
  /\ seen' = [seen EXCEPT ![c] = usage[Owner(c)][today]]
  /\ GoTo(c, "admitting")
  /\ UNCHANGED <<today, leaseVars, allocationVars, usage, result>>

LeasedTo(keys, o) == {k \in keys : AccountOf[k] = o}
TokensOf(keys) == SumFunctionOnSet(Reserved, keys)

\* Room for one more lease of key `k` next to the leases `keys`; off by one
\* first.
RoomInclusive(keys, k) ==
  /\ Cardinality(keys) <= MaxCalls
  /\ TokensOf(keys) + Reserved[k] <= MaxTokens
  /\ Cardinality(LeasedTo(keys, AccountOf[k])) < MaxCallsPerAccount
  /\ TokensOf(LeasedTo(keys, AccountOf[k])) + Reserved[k] <= MaxTokensPerAccount
Room(keys, k) ==
  /\ Cardinality(keys) < MaxCalls
  /\ TokensOf(keys) + Reserved[k] <= MaxTokens
  /\ Cardinality(LeasedTo(keys, AccountOf[k])) < MaxCallsPerAccount
  /\ TokensOf(LeasedTo(keys, AccountOf[k])) + Reserved[k] <= MaxTokensPerAccount

\* acquire_provider_lease under the advisory lock, and the commit.  The clock
\* was read before the lock was obtained, so the day that is charged may be
\* over, and leases that expired since then are not reaped; created_at is read
\* when the row is written.  A row that already has the key answers.
Acquire(c, now, reaped) ==
  LET k == KeyOf[c]
      kept == held \ reaped
  IN IF k \in kept
     THEN /\ held' = kept /\ expired' = expired \ reaped
          /\ UNCHANGED <<created, allocationVars>>
     ELSE /\ provider[now] + Reserved[k] <= DailyBudget
          /\ Room(kept, k)
          /\ held' = kept \union {k}
          /\ expired' = expired \ reaped
          /\ created' = [created EXCEPT ![k] = today]
          /\ tracked' = tracked \union {now}
          /\ provider' = [provider EXCEPT ![now] = @ + Reserved[k]]
Admit(c) ==
  /\ pc[c] = "admitting"
  /\ \E now \in day[c] .. today, reaped \in SUBSET expired :
       /\ now = today => reaped = expired
       /\ Acquire(c, now, reaped)
  /\ SetUsage(c, seen[c] + Tokens(c))
  /\ GoTo(c, "running")
  /\ Forget(c)
  /\ UNCHANGED <<today, day, result>>

\* The reservation is refused, or its process dies: nothing was written.
TurnAway(c) ==
  /\ pc[c] = "admitting"
  /\ GoTo(c, "idle")
  /\ day' = [day EXCEPT ![c] = 0]
  /\ Forget(c)
  /\ UNCHANGED <<today, leaseVars, allocationVars, usage, result>>

\* The provider answers, or the call ends without a token count.
Answer(c) ==
  /\ pc[c] = "running"
  /\ \E r \in Reports \union {Unknown} : result' = [result EXCEPT ![c] = r]
  /\ GoTo(c, "answered")
  /\ UNCHANGED <<today, leaseVars, allocationVars, usage, day, seen>>

-----------------------------------------------------------------------------
(* Settlement *)

\* What a call is charged.  The first forms are plausible slips: an unknown
\* outcome is not charged, or its marker is taken for a count.
ChargeFree(c) == IF result[c] = Unknown THEN 0 ELSE result[c]
ChargeRaw(c) == result[c]
Charge(c) == IF result[c] = Unknown THEN Tokens(c) ELSE result[c]

\* settle_provider_lease.  A lease that is gone was reaped, or settled by
\* another call under its key, and leaves the allocation as it is.  A day
\* without a row is taken to have allocated this lease.
SettleLease(c) ==
  LET k == KeyOf[c]
      d == created[k]
      allocated == IF d \in tracked THEN provider[d] ELSE Reserved[k]
  IN IF k \in held
     THEN /\ held' = held \ {k}
          /\ expired' = expired \ {k}
          /\ tracked' = tracked \union {d}
          /\ provider' = [provider EXCEPT ![d] = allocated + Charge(c) - Reserved[k]]
          /\ GoTo(c, "settled")
          /\ UNCHANGED created
     ELSE GoTo(c, "late") /\ UNCHANGED <<leaseVars, allocationVars>>

\* settle_model reads the account's usage under the account lock ...
BeginSettle(c) ==
  /\ pc[c] = "answered" /\ c \in Drafts
  /\ ~AccountLocked(Owner(c))
  /\ seen' = [seen EXCEPT ![c] = usage[Owner(c)][day[c]]]
  /\ GoTo(c, "settling")
  /\ UNCHANGED <<today, leaseVars, allocationVars, usage, day, result>>

\* ... and writes it, with the lease, under the advisory lock.
SettleModel(c) ==
  /\ pc[c] = "settling"
  /\ SetUsage(c, seen[c] + Charge(c) - Tokens(c))
  /\ SettleLease(c)
  /\ Forget(c)
  /\ UNCHANGED <<today, day, result>>

\* _settle of the suggestion and negotiation services takes the advisory lock
\* only, and reads the account's usage under it.
SettleBare(c) ==
  /\ pc[c] = "answered" /\ c \in Bare
  /\ SetUsage(c, usage[Owner(c)][day[c]] + Charge(c) - Tokens(c))
  /\ SettleLease(c)
  /\ UNCHANGED <<today, callVars>>

\* settle_planner_capacity, and the release of a chat reply, which never knows
\* a count: the account keeps the whole reservation.
SettlePlanner(c) ==
  /\ pc[c] = "answered" /\ c \notin Drafts \union Bare
  /\ SettleLease(c)
  /\ UNCHANGED <<today, usage, callVars>>

\* The process dies before the settlement is committed.
Lose(c) ==
  /\ pc[c] \in {"running", "answered", "settling"}
  /\ GoTo(c, "lost")
  /\ Forget(c)
  /\ UNCHANGED <<today, leaseVars, allocationVars, usage, day, result>>

-----------------------------------------------------------------------------
(* Time *)

\* A lease expires; not while its call is in flight, since the configuration
\* makes a lease last longer than the timeout of the call.
Expire(k) ==
  /\ k \in held \ expired
  /\ \A c \in Calls : KeyOf[c] = k => pc[c] # "running"
  /\ expired' = expired \union {k}
  /\ UNCHANGED <<today, held, created, allocationVars, usage, pc, callVars>>

\* provider_capacity_snapshot reaps on its way.
Snapshot ==
  /\ expired # {}
  /\ held' = held \ expired
  /\ expired' = {}
  /\ UNCHANGED <<today, created, allocationVars, usage, pc, callVars>>

Midnight ==
  /\ today < LastDay
  /\ today' = today + 1
  /\ UNCHANGED <<leaseVars, allocationVars, usage, pc, callVars>>

-----------------------------------------------------------------------------

AdmissionStep == \E c \in Calls : Reserve(c) \/ Admit(c) \/ TurnAway(c)
CallStep == \E c \in Calls : Answer(c) \/ Lose(c)
SettlementStep ==
  \E c \in Calls :
    BeginSettle(c) \/ SettleModel(c) \/ SettleBare(c) \/ SettlePlanner(c)
TimePasses == Snapshot \/ Midnight \/ \E k \in Keys : Expire(k)

Next == AdmissionStep \/ CallStep \/ SettlementStep \/ TimePasses

Spec == Init /\ [][Next]_vars

-----------------------------------------------------------------------------
(* Properties *)

\* Usage of an account never goes below zero, whatever order it is settled in;
\* the other variables have their types.
TypeOK ==
  /\ today \in Days
  /\ held \subseteq Keys /\ expired \subseteq held /\ tracked \subseteq Days
  /\ created \in [Keys -> Days]
  /\ provider \in [Days -> Int]
  /\ usage \in [Accounts -> [Days -> Nat]]
  /\ pc \in [Calls -> {"idle", "admitting", "running", "answered", "settling",
                       "settled", "late", "lost"}]
  /\ day \in [Calls -> Days]
  /\ seen \in [Calls -> Nat]
  /\ result \in [Calls -> Reports \union {Unknown}]

\* The calls in flight, not only the rows, respect the limits on concurrency
\* and on reserved tokens, through expiry, reaping and crashes
\* (acquire_provider_lease; docs/PROVIDER_CAPACITY_GOVERNOR.md).
InFlight == {c \in Calls : pc[c] = "running"}
Estimate == [c \in Calls |-> Tokens(c)]
InFlightOf(o) == {c \in InFlight : Owner(c) = o}
InFlightBounded ==
  /\ Cardinality(InFlight) <= MaxCalls
  /\ SumFunctionOnSet(Estimate, InFlight) <= MaxTokens
  /\ \A o \in Accounts :
       /\ Cardinality(InFlightOf(o)) <= MaxCallsPerAccount
       /\ SumFunctionOnSet(Estimate, InFlightOf(o)) <= MaxTokensPerAccount

\* What a call costs its account: the count the provider reported once that is
\* settled, the reservation until then, or for ever if nobody knows, and for
\* planner and chat calls; the reservation also if its settlement is one of
\* `lost`.
ChargedTo(o, d) ==
  {c \in Calls : Owner(c) = o /\ day[c] = d /\ pc[c] \notin {"idle", "admitting"}}
Known(c) == result[c] # Unknown
AccountDue(lost) ==
  [c \in Calls |->
     IF pc[c] \in {"settled", "late"} /\ c \in (Drafts \union Bare) \ lost /\ Known(c)
     THEN result[c] ELSE Tokens(c)]
SpentBy(o, d, lost) == SumFunctionOnSet(AccountDue(lost), ChargedTo(o, d))

\* What the provider reported above the reservations.
Excess ==
  [c \in Calls |->
     IF AccountDue({})[c] > Tokens(c) THEN AccountDue({})[c] - Tokens(c) ELSE 0]
Overrun(o, d) == SumFunctionOnSet(Excess, ChargedTo(o, d))

\* At the provider a lease charges its reservation, and only its settlement
\* replaces that by the reported count.
ProviderDue ==
  [c \in Calls |-> IF pc[c] = "settled" /\ Known(c) THEN result[c] ELSE Tokens(c)]
Charged == {c \in Calls : pc[c] \notin {"idle", "admitting"}}

\* No model work is free.  The usage of an account is exactly what its calls
\* cost, except that the settlement of a bare call, downward or upward, may be
\* overwritten as a whole by a concurrent reservation or settlement; no other
\* write is ever lost.  Only what the provider reports above a reservation takes
\* an account above its budget.  Nor is the provider's count too low: that is
\* taken over all days, because a reservation made around midnight may be
\* settled on another one.
WorkIsCharged ==
  /\ \A o \in Accounts, d \in Days :
       /\ \E lost \in SUBSET Bare : usage[o][d] = SpentBy(o, d, lost)
       /\ usage[o][d] <= AccountBudget + Overrun(o, d)
  /\ SumFunctionOnSet(ProviderDue, Charged) <= SumFunctionOnSet(provider, Days)
====
