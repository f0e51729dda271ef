---- MODULE ProviderCapacityProofs ----
(* The limits hold for the calls in flight, and no model work is free, for   *)
(* every number of calls, accounts, days and tokens.  The first part says of *)
(* sums over finite sets what the rest needs: the library has no such facts. *)
EXTENDS ProviderCapacity, FiniteSetTheorems, WellFoundedInduction, TLAPS

-----------------------------------------------------------------------------
(* Sums over finite sets.  SumFunctionOnSet is a recursive function on the   *)
(* subsets of a set; what holds of it is shown by way of a counterexample    *)
(* that has no smaller one, since induction theorems take an operator.       *)

\* `g` is the function that the sum of `f` over `S` is defined by.
Pick(T) == CHOOSE x \in T : TRUE
Sums(g, f, S) ==
  g = [T \in SUBSET S |->
         IF T = {} THEN 0 ELSE f[Pick(T)] + g[T \ {Pick(T)}]]

LEMMA SumIs ==
  ASSUME NEW f, NEW S
  PROVE  SumFunctionOnSet(f, S) = (CHOOSE g : Sums(g, f, S))[S]
BY DEF SumFunctionOnSet, FoldFunctionOnSet, MapThenFoldSet, Sums, Pick

LEMMA PickIn == ASSUME NEW T, T # {} PROVE Pick(T) \in T
BY DEF Pick

\* A set of subsets of a finite set has one that contains no other.
LEMMA Smallest ==
  ASSUME NEW S, IsFiniteSet(S), NEW B, B \subseteq SUBSET S, B # {}
  PROVE  \E T \in B : \A U \in B : ~(U \subseteq T /\ U # T)
<1>1. IsWellFoundedOn(StrictSubsetOrdering(S), FiniteSubsetsOf(S))
  BY FS_StrictSubsetOrderingWellFounded
<1>2. B \subseteq FiniteSubsetsOf(S)
  BY FS_Subset DEF FiniteSubsetsOf
<1>3. PICK T \in B : \A U \in B : <<U, T>> \notin StrictSubsetOrdering(S)
  BY <1>1, <1>2, WFMin
<1> QED
  BY <1>3 DEF StrictSubsetOrdering

\* The recursion depends on the summed function only, and only below the set.
LEMMA SumsAgree ==
  ASSUME NEW S, IsFiniteSet(S), NEW A, NEW B, S \subseteq A, S \subseteq B,
         NEW f, NEW e, \A x \in S : f[x] = e[x],
         NEW g, NEW h, Sums(g, f, A), Sums(h, e, B)
  PROVE  g[S] = h[S]
<1> DEFINE Bad == {T \in SUBSET S : g[T] # h[T]}
<1> SUFFICES ASSUME Bad # {} PROVE FALSE
  BY S \in SUBSET S
<1>1. PICK T \in Bad : \A U \in Bad : ~(U \subseteq T /\ U # T)
  <2>1. Bad \subseteq SUBSET S
    OBVIOUS
  <2> HIDE DEF Bad
  <2> QED
    BY <2>1, Smallest
<1>2. /\ T \in SUBSET A /\ T \in SUBSET B /\ T \in SUBSET S
      /\ T # {} => T \ {Pick(T)} \in SUBSET S /\ T \ {Pick(T)} # T /\ Pick(T) \in S
  BY PickIn
<1>3. g[T] = IF T = {} THEN 0 ELSE f[Pick(T)] + g[T \ {Pick(T)}]
  BY <1>2 DEF Sums
<1>4. h[T] = IF T = {} THEN 0 ELSE e[Pick(T)] + h[T \ {Pick(T)}]
  BY <1>2 DEF Sums
<1>5. T # {} => g[T \ {Pick(T)}] = h[T \ {Pick(T)}]
  BY <1>1, <1>2
<1> QED
  BY <1>1, <1>2, <1>3, <1>4, <1>5

\* The recursion defines a function.
LEMMA SumsExist ==
  ASSUME NEW S, IsFiniteSet(S), NEW f
  PROVE  \E g : Sums(g, f, S)
<1> DEFINE Bad == {T \in SUBSET S : ~\E g : Sums(g, f, T)}
           The(T) == CHOOSE g : Sums(g, f, T)
<1> SUFFICES ASSUME Bad # {} PROVE FALSE
  BY S \in SUBSET S
<1>1. PICK T \in Bad : \A U \in Bad : ~(U \subseteq T /\ U # T)
  <2>1. Bad \subseteq SUBSET S
    OBVIOUS
  <2> HIDE DEF Bad
  <2> QED
    BY <2>1, Smallest
<1>2. ASSUME NEW U \in SUBSET T, U # T PROVE Sums(The(U), f, U)
  <2>1. U \in SUBSET S /\ U \notin Bad
    BY <1>1, <1>2
  <2> QED
    BY <2>1
<1> DEFINE g == [U \in SUBSET T |->
                   IF U = {} THEN 0
                   ELSE f[Pick(U)] + The(U \ {Pick(U)})[U \ {Pick(U)}]]
<1>3. ASSUME NEW U \in SUBSET T, U # T PROVE g[U] = The(U)[U]
  <2>1. CASE U = {}
    <3>1. Sums(The(U), f, U)
      BY <1>2, <1>3
    <3> HIDE DEF The
    <3>2. The(U)[U] = 0
      BY <2>1, <3>1 DEF Sums
    <3> QED
      BY <2>1, <3>2
  <2>2. CASE U # {}
    <3> DEFINE V == U \ {Pick(U)}
    <3>1. V \in SUBSET T /\ V # T /\ V \subseteq U /\ IsFiniteSet(V)
      BY <2>2, PickIn, FS_Subset, <1>3, <1>1
    <3>2. Sums(The(U), f, U) /\ Sums(The(V), f, V)
      BY <1>2, <1>3, <3>1
    <3> HIDE DEF The
    <3>3. The(U)[V] = The(V)[V]
      BY <3>1, <3>2, SumsAgree
    <3>4. The(U)[U] = f[Pick(U)] + The(U)[V]
      BY <3>2, <2>2, U \in SUBSET U DEF Sums
    <3>5. g[U] = f[Pick(U)] + The(V)[V]
      BY <2>2
    <3> QED
      BY <3>3, <3>4, <3>5
  <2> QED
    BY <2>1, <2>2
<1>4. ASSUME NEW U \in SUBSET T, U # {}
      PROVE  The(U \ {Pick(U)})[U \ {Pick(U)}] = g[U \ {Pick(U)}]
  <2>1. U \ {Pick(U)} \in SUBSET T /\ U \ {Pick(U)} # T
    BY <1>4, PickIn
  <2> HIDE DEF g, The
  <2> QED
    BY <2>1, <1>3
<1> DEFINE body(k) == [U \in SUBSET T |->
                         IF U = {} THEN 0 ELSE f[Pick(U)] + k[U \ {Pick(U)}]]
<1>5. g = body(g)
  <2>1. \A U \in SUBSET T : g[U] = body(g)[U]
    <3> SUFFICES ASSUME NEW U \in SUBSET T PROVE g[U] = body(g)[U]
      OBVIOUS
    <3>1. body(g)[U] = IF U = {} THEN 0 ELSE f[Pick(U)] + g[U \ {Pick(U)}]
      <4> HIDE DEF g
      <4> QED OBVIOUS
    <3>2. g[U] = IF U = {} THEN 0 ELSE f[Pick(U)] + The(U \ {Pick(U)})[U \ {Pick(U)}]
      <4> HIDE DEF The
      <4> QED OBVIOUS
    <3> HIDE DEF g, The, body
    <3> QED BY <3>1, <3>2, <1>4
  <2>2. g = [U \in SUBSET T |-> g[U]]
    <3> HIDE DEF The
    <3> QED OBVIOUS
  <2>3. body(g) = [U \in SUBSET T |-> body(g)[U]]
    <3> HIDE DEF g
    <3> QED OBVIOUS
  <2> HIDE DEF g, body
  <2> QED BY <2>1, <2>2, <2>3
<1>6. Sums(g, f, T)
  <2> HIDE DEF g
  <2> QED BY <1>5 DEF Sums
<1> QED
  BY <1>1, <1>6

\* How a sum is defined ...
LEMMA SumPick ==
  ASSUME NEW S, IsFiniteSet(S), NEW f
  PROVE  SumFunctionOnSet(f, S) = IF S = {} THEN 0 ELSE f[Pick(S)] + SumFunctionOnSet(f, S \ {Pick(S)})
<1> DEFINE The(T) == CHOOSE g : Sums(g, f, T)
           R == S \ {Pick(S)}
<1>1. SumFunctionOnSet(f, S) = The(S)[S] /\ SumFunctionOnSet(f, R) = The(R)[R]
  BY SumIs
<1>2. IsFiniteSet(R) /\ R \subseteq S
  BY FS_Subset
<1>3. Sums(The(S), f, S) /\ Sums(The(R), f, R)
  BY <1>2, SumsExist
<1> HIDE DEF The
<1>4. The(S)[R] = The(R)[R]
  BY <1>2, <1>3, SumsAgree
<1>5. The(S)[S] = IF S = {} THEN 0 ELSE f[Pick(S)] + The(S)[R]
  BY <1>3, S \in SUBSET S DEF Sums
<1> QED
  BY <1>1, <1>4, <1>5

\* Integers sum up to an integer.
LEMMA SumType ==
  ASSUME NEW S, IsFiniteSet(S), NEW f, \A x \in S : f[x] \in Int
  PROVE  SumFunctionOnSet(f, S) \in Int
<1> DEFINE Bad == {T \in SUBSET S : SumFunctionOnSet(f, T) \notin Int}
<1> SUFFICES ASSUME Bad # {} PROVE FALSE
  BY S \in SUBSET S
<1>1. PICK T \in Bad : \A U \in Bad : ~(U \subseteq T /\ U # T)
  <2>1. Bad \subseteq SUBSET S
    OBVIOUS
  <2> HIDE DEF Bad
  <2> QED
    BY <2>1, Smallest
<1>2. IsFiniteSet(T) /\ T \in SUBSET S
  BY FS_Subset, <1>1
<1>3. SumFunctionOnSet(f, T) = IF T = {} THEN 0 ELSE f[Pick(T)] + SumFunctionOnSet(f, T \ {Pick(T)})
  BY <1>2, SumPick
<1>4. T # {} => SumFunctionOnSet(f, T \ {Pick(T)}) \in Int /\ f[Pick(T)] \in Int
  BY <1>1, <1>2, PickIn
<1> QED
  BY <1>1, <1>3, <1>4

\* ... and that the order in which elements are taken does not matter.
LEMMA SumRemove ==
  ASSUME NEW S, IsFiniteSet(S), NEW f, \A x \in S : f[x] \in Int, NEW x \in S
  PROVE  SumFunctionOnSet(f, S) = f[x] + SumFunctionOnSet(f, S \ {x})
<1> DEFINE Bad == {T \in SUBSET S : \E y \in T : SumFunctionOnSet(f, T) # f[y] + SumFunctionOnSet(f, T \ {y})}
<1> SUFFICES ASSUME Bad # {} PROVE FALSE
  BY S \in SUBSET S
<1>1. PICK T \in Bad : \A U \in Bad : ~(U \subseteq T /\ U # T)
  <2>1. Bad \subseteq SUBSET S
    OBVIOUS
  <2> HIDE DEF Bad
  <2> QED
    BY <2>1, Smallest
<1>2. PICK y \in T : SumFunctionOnSet(f, T) # f[y] + SumFunctionOnSet(f, T \ {y})
  BY <1>1
<1> DEFINE p == Pick(T)
           P == T \ {p}
           Y == T \ {y}
           R == (T \ {p}) \ {y}
<1>3. p \in T /\ T \in SUBSET S /\ R = Y \ {p} /\ P # T /\ Y # T
  BY <1>1, <1>2, PickIn
<1>4. /\ IsFiniteSet(T) /\ IsFiniteSet(P) /\ IsFiniteSet(Y) /\ IsFiniteSet(R)
      /\ P \in SUBSET S /\ Y \in SUBSET S
  BY <1>3, FS_Subset
<1>5. SumFunctionOnSet(f, T) = f[p] + SumFunctionOnSet(f, P)
  BY <1>2, <1>4, SumPick
<1>6. p # y
  BY <1>2, <1>5
<1>7. SumFunctionOnSet(f, P) = f[y] + SumFunctionOnSet(f, R)
  BY <1>1, <1>2, <1>3, <1>4, <1>6
<1>8. SumFunctionOnSet(f, Y) = f[p] + SumFunctionOnSet(f, R)
  BY <1>1, <1>2, <1>3, <1>4, <1>6
<1>9. f[p] \in Int /\ f[y] \in Int /\ SumFunctionOnSet(f, R) \in Int
  BY <1>3, <1>4, SumType
<1> QED
  BY <1>2, <1>5, <1>7, <1>8, <1>9

\* One finite set mapped into another one, without two elements of the same
\* image, sums up to no more.
LEMMA SumInjected ==
  ASSUME NEW S, IsFiniteSet(S), NEW T, IsFiniteSet(T), NEW h,
         \A x \in S : h[x] \in T,
         \A x, y \in S : h[x] = h[y] => x = y,
         NEW f, NEW e, \A x \in S : f[x] \in Int /\ f[x] <= e[h[x]],
         \A y \in T : e[y] \in Nat
  PROVE  SumFunctionOnSet(f, S) <= SumFunctionOnSet(e, T)
<1> DEFINE Image(U) == {h[x] : x \in U}
           Bad == {U \in SUBSET S : \E V \in SUBSET T :
                     Image(U) \subseteq V /\ ~(SumFunctionOnSet(f, U) <= SumFunctionOnSet(e, V))}
<1> SUFFICES ASSUME Bad # {} PROVE FALSE
  BY S \in SUBSET S, T \in SUBSET T, Image(S) \subseteq T
<1>1. PICK U \in Bad : \A W \in Bad : ~(W \subseteq U /\ W # U)
  <2>1. Bad \subseteq SUBSET S
    OBVIOUS
  <2> HIDE DEF Bad
  <2> QED
    BY <2>1, Smallest
<1>2. PICK V \in SUBSET T : Image(U) \subseteq V /\ ~(SumFunctionOnSet(f, U) <= SumFunctionOnSet(e, V))
  BY <1>1
<1>3. IsFiniteSet(U) /\ IsFiniteSet(V) /\ U \in SUBSET S
  BY <1>1, FS_Subset
<1>4. CASE U = {}
  <2>1. SumFunctionOnSet(f, U) = 0
    BY <1>3, <1>4, SumPick
  <2>2. 0 <= SumFunctionOnSet(e, V)
    <3> DEFINE Neg == {W \in SUBSET V : ~(0 <= SumFunctionOnSet(e, W))}
    <3> SUFFICES ASSUME Neg # {} PROVE FALSE
      BY V \in SUBSET V
    <3>1. PICK W \in Neg : \A X \in Neg : ~(X \subseteq W /\ X # W)
      <4>1. Neg \subseteq SUBSET V
        OBVIOUS
      <4> HIDE DEF Neg
      <4> QED
        BY <4>1, <1>3, Smallest
    <3>2. IsFiniteSet(W) /\ W \in SUBSET V /\ \A y \in W : e[y] \in Nat
      BY <3>1, <1>2, <1>3, FS_Subset
    <3>3. SumFunctionOnSet(e, W) = IF W = {} THEN 0 ELSE e[Pick(W)] + SumFunctionOnSet(e, W \ {Pick(W)})
      BY <3>2, SumPick
    <3>4. W # {} => 0 <= SumFunctionOnSet(e, W \ {Pick(W)}) /\ e[Pick(W)] \in Nat
      BY <3>1, <3>2, PickIn
    <3>5. W # {} => SumFunctionOnSet(e, W \ {Pick(W)}) \in Int
      <4>1. IsFiniteSet(W \ {Pick(W)})
        BY <3>2, FS_Subset
      <4> QED
        BY <3>2, <4>1, SumType
    <3> QED
      BY <3>1, <3>3, <3>4, <3>5
  <2> QED
    BY <1>2, <2>1, <2>2
<1>5. CASE U # {}
  <2> DEFINE x == Pick(U)
             y == h[x]
             A == U \ {x}
             B == V \ {y}
  <2>1. x \in U /\ x \in S /\ y \in V /\ A \in SUBSET S /\ B \in SUBSET T /\ A # U /\ A \subseteq U
    BY <1>2, <1>3, <1>5, PickIn
  <2>2. Image(A) \subseteq B
    BY <1>2, <1>3, <2>1
  <2>3. SumFunctionOnSet(f, A) <= SumFunctionOnSet(e, B)
    BY <1>1, <2>1, <2>2
  <2>4. SumFunctionOnSet(f, U) = f[x] + SumFunctionOnSet(f, A)
    BY <1>3, <1>5, SumPick
  <2>5. SumFunctionOnSet(e, V) = e[y] + SumFunctionOnSet(e, B)
    BY <1>2, <1>3, <2>1, SumRemove
  <2>6. IsFiniteSet(A) /\ IsFiniteSet(B)
    BY <1>3, FS_Subset
  <2>7. SumFunctionOnSet(f, A) \in Int /\ SumFunctionOnSet(e, B) \in Int /\ f[x] \in Int /\ e[y] \in Nat /\ f[x] <= e[y]
    BY <2>1, <2>6, SumType
  <2> HIDE DEF x, y, A, B
  <2> QED
    BY <1>2, <2>3, <2>4, <2>5, <2>7
<1> QED
  BY <1>4, <1>5

\* A part of a set sums up to no more, of values that are no greater.
LEMMA SumMonotone ==
  ASSUME NEW T, IsFiniteSet(T), NEW S, S \subseteq T, NEW f, NEW e,
         \A x \in S : f[x] \in Int /\ f[x] <= e[x], \A y \in T : e[y] \in Nat
  PROVE  SumFunctionOnSet(f, S) <= SumFunctionOnSet(e, T)
<1> DEFINE h == [x \in S |-> x]
<1>1. IsFiniteSet(S)
  BY FS_Subset
<1>2. \A x \in S : h[x] = x
  OBVIOUS
<1> HIDE DEF h
<1> QED
  BY <1>1, <1>2, SumInjected

\* Functions that agree on a set have the same sum over it.
LEMMA SumSame ==
  ASSUME NEW S, IsFiniteSet(S), NEW f, NEW e, \A x \in S : f[x] = e[x]
  PROVE  SumFunctionOnSet(f, S) = SumFunctionOnSet(e, S)
<1>1. Sums(CHOOSE g : Sums(g, f, S), f, S) /\ Sums(CHOOSE g : Sums(g, e, S), e, S)
  BY SumsExist
<1> QED
  BY <1>1, SumsAgree, SumIs

\* An element is added or changes its value.
LEMMA SumChange ==
  ASSUME NEW S, IsFiniteSet(S), NEW x \in S, NEW f, NEW e,
         \A y \in S : f[y] \in Int /\ e[y] \in Int,
         \A y \in S \ {x} : f[y] = e[y]
  PROVE  SumFunctionOnSet(e, S) = SumFunctionOnSet(f, S) + e[x] - f[x]
<1>1. IsFiniteSet(S \ {x})
  BY FS_Subset
<1>2. SumFunctionOnSet(f, S \ {x}) = SumFunctionOnSet(e, S \ {x})
  BY <1>1, SumSame
<1>3. SumFunctionOnSet(f, S) = f[x] + SumFunctionOnSet(f, S \ {x}) /\ SumFunctionOnSet(e, S) = e[x] + SumFunctionOnSet(e, S \ {x})
  BY SumRemove
<1>4. SumFunctionOnSet(f, S \ {x}) \in Int
  BY <1>1, SumType
<1> QED
  BY <1>2, <1>3, <1>4

-----------------------------------------------------------------------------
(* Types *)

States == {"idle", "admitting", "running", "answered", "settling", "settled",
           "late", "lost"}
Types ==
  /\ today \in Days
  /\ held \subseteq Keys /\ expired \subseteq held /\ tracked \subseteq Days
  /\ created \in [Keys -> Days]
  /\ provider \in [Days -> Int]
  /\ usage \in [Accounts -> [Days -> Int]]
  /\ pc \in [Calls -> States]
  /\ day \in [Calls -> Days]
  /\ seen \in [Calls -> Int]
  /\ result \in [Calls -> Reports \union {Unknown}]

\* What the assumptions on the constants come to.
Constants ==
  /\ Days \subseteq Nat /\ 0 \in Days /\ IsFiniteSet(Days)
  /\ \A c \in Calls : KeyOf[c] \in Keys /\ Owner(c) \in Accounts /\ Tokens(c) \in Nat \ {0}
  /\ \A k \in Keys : Reserved[k] \in Nat \ {0} /\ AccountOf[k] \in Accounts
  /\ Reports \subseteq Nat /\ Unknown \in Int \ Nat

LEMMA ConstantsHold == Constants
<1>1. IsFiniteSet(Days)
  BY LimitAssumption, FS_Interval DEF Days
<1>2. Days \subseteq Nat /\ 0 \in Days
  BY LimitAssumption DEF Days
<1> QED
  BY <1>1, <1>2, KeyAssumption, TokensAssumption DEF Constants, Owner, Tokens, Unknown

LEMMA ChargeType ==
  ASSUME Types, NEW c \in Calls
  PROVE  Charge(c) \in Nat
BY ConstantsHold DEF Constants, Types, Charge

LEMMA SetUsageType ==
  ASSUME Types, NEW c \in Calls, NEW tokens \in Int, SetUsage(c, tokens)
  PROVE  usage' \in [Accounts -> [Days -> Int]]
<1>1. [usage[Owner(c)] EXCEPT ![day[c]] = tokens] \in [Days -> Int]
  BY ConstantsHold DEF Constants, Types
<1> QED
  BY <1>1 DEF SetUsage, Types

LEMMA TypesStep == Types /\ [Next]_vars => Types'
<1> SUFFICES ASSUME Types, [Next]_vars PROVE Types'
  OBVIOUS
<1>0. /\ Days \subseteq Nat /\ 0 \in Days
      /\ \A c \in Calls : KeyOf[c] \in Keys /\ Owner(c) \in Accounts /\ Tokens(c) \in Nat \ {0}
      /\ \A k \in Keys : Reserved[k] \in Nat \ {0} /\ AccountOf[k] \in Accounts
  BY ConstantsHold DEF Constants
<1>1. ASSUME NEW c \in Calls, Reserve(c) PROVE Types'
  BY <1>1, <1>0 DEF Types, Reserve, GoTo, States, leaseVars, allocationVars
<1>2. ASSUME NEW c \in Calls, Admit(c) PROVE Types'
  <2>1. PICK now \in day[c] .. today, reaped \in SUBSET expired : Acquire(c, now, reaped)
    BY <1>2 DEF Admit
  <2>2. now \in Days
    BY <2>1, LimitAssumption DEF Types, Days
  <2>3. /\ held' \subseteq Keys /\ expired' \subseteq held' /\ tracked' \subseteq Days
        /\ created' \in [Keys -> Days] /\ provider' \in [Days -> Int]
    <3>1. KeyOf[c] \in Keys /\ Reserved[KeyOf[c]] \in Int
      BY <1>0
    <3>2. CASE KeyOf[c] \in held \ reaped
      BY <2>1, <3>2 DEF Types, Acquire, allocationVars
    <3>3. CASE KeyOf[c] \notin held \ reaped
      <4>1. provider[now] + Reserved[KeyOf[c]] \in Int
        BY <2>2, <3>1 DEF Types
      <4>2. provider' = [provider EXCEPT ![now] = provider[now] + Reserved[KeyOf[c]]]
        BY <2>1, <2>2, <3>3 DEF Types, Acquire
      <4>3. provider' \in [Days -> Int]
        BY <4>1, <4>2 DEF Types
      <4> QED
        BY <2>1, <2>2, <3>1, <3>3, <4>3 DEF Types, Acquire
    <3> QED
      BY <3>2, <3>3
  <2>4. usage' \in [Accounts -> [Days -> Int]] /\ seen' \in [Calls -> Int]
    BY <1>0, <1>2 DEF Types, Admit, SetUsage, Forget
  <2> QED
    BY <1>2, <2>3, <2>4 DEF Types, Admit, GoTo, States
<1>3. ASSUME NEW c \in Calls, TurnAway(c) PROVE Types'
  BY <1>3, <1>0 DEF Types, TurnAway, GoTo, Forget, States, leaseVars, allocationVars
<1>4. ASSUME NEW c \in Calls, Answer(c) PROVE Types'
  BY <1>4 DEF Types, Answer, GoTo, States, leaseVars, allocationVars
<1>5. ASSUME NEW c \in Calls, Lose(c) PROVE Types'
  BY <1>5 DEF Types, Lose, GoTo, Forget, States, leaseVars, allocationVars
<1>6. ASSUME NEW c \in Calls, SettleLease(c)
      PROVE  /\ held' \subseteq Keys /\ expired' \subseteq held' /\ tracked' \subseteq Days
             /\ created' \in [Keys -> Days] /\ provider' \in [Days -> Int]
             /\ pc' \in [Calls -> States]
  <2>1. KeyOf[c] \in Keys /\ Reserved[KeyOf[c]] \in Int /\ Charge(c) \in Int
    BY <1>0, ChargeType
  <2>2. CASE KeyOf[c] \in held
    <3> DEFINE d == created[KeyOf[c]]
               allocated == IF d \in tracked THEN provider[d] ELSE Reserved[KeyOf[c]]
    <3>1. d \in Days /\ allocated \in Int
      BY <2>1 DEF Types
    <3>2. /\ held' = held \ {KeyOf[c]} /\ expired' = expired \ {KeyOf[c]}
          /\ tracked' = tracked \union {d} /\ created' = created
          /\ provider' = [provider EXCEPT ![d] = allocated + Charge(c) - Reserved[KeyOf[c]]]
          /\ pc' = [pc EXCEPT ![c] = "settled"]
      BY <1>6, <2>2 DEF SettleLease, GoTo
    <3> HIDE DEF d, allocated
    <3>3. provider' \in [Days -> Int]
      BY <2>1, <3>1, <3>2 DEF Types
    <3> QED
      BY <3>1, <3>2, <3>3 DEF Types, States
  <2>3. CASE KeyOf[c] \notin held
    BY <1>6, <2>3 DEF Types, SettleLease, GoTo, States, leaseVars, allocationVars
  <2> QED
    BY <2>2, <2>3
<1>7. ASSUME NEW c \in Calls, BeginSettle(c) PROVE Types'
  BY <1>7, <1>0 DEF Types, BeginSettle, GoTo, States, leaseVars, allocationVars
<1>8. ASSUME NEW c \in Calls, SettleModel(c) PROVE Types'
  <2>1. usage' \in [Accounts -> [Days -> Int]] /\ seen' \in [Calls -> Int]
    BY <1>0, <1>8, ChargeType DEF Types, SettleModel, SetUsage, Forget
  <2> QED
    BY <1>6, <1>8, <2>1 DEF Types, SettleModel
<1>9. ASSUME NEW c \in Calls, SettleBare(c) PROVE Types'
  <2>1. usage' \in [Accounts -> [Days -> Int]]
    <3>1. usage[Owner(c)][day[c]] \in Int
      <4>1. usage[Owner(c)] \in [Days -> Int] /\ day[c] \in Days
        BY <1>0 DEF Types
      <4> QED
        BY <4>1
    <3>2. Charge(c) \in Int /\ Tokens(c) \in Int
      BY <1>0, ChargeType
    <3> QED
      BY <1>9, <3>1, <3>2, SetUsageType DEF SettleBare
  <2> QED
    BY <1>6, <1>9, <2>1 DEF Types, SettleBare, callVars
<1>10. ASSUME NEW c \in Calls, SettlePlanner(c) PROVE Types'
  BY <1>6, <1>10 DEF Types, SettlePlanner, callVars
<1>11. ASSUME TimePasses PROVE Types'
  <2>1. CASE Snapshot
    BY <2>1 DEF Types, Snapshot, allocationVars, callVars
  <2>2. CASE Midnight
    BY <2>2, LimitAssumption DEF Types, Midnight, Days, leaseVars, allocationVars, callVars
  <2>3. CASE \E k \in Keys : Expire(k)
    BY <2>3 DEF Types, Expire, allocationVars, callVars
  <2> QED
    BY <1>11, <2>1, <2>2, <2>3 DEF TimePasses
<1>12. ASSUME UNCHANGED vars PROVE Types'
  BY <1>12 DEF Types, vars
<1> QED
  BY <1>1, <1>2, <1>3, <1>4, <1>5, <1>7, <1>8, <1>9, <1>10, <1>11, <1>12
     DEF Next, AdmissionStep, CallStep, SettlementStep

LEMMA TypesInit == Init => Types
BY ConstantsHold DEF Constants, Init, Types, States, Unknown

-----------------------------------------------------------------------------
(* Leases *)

\* Calls have lease keys of their own, as with all callers but the ones that
\* take the key from a client.
OwnKeys == \A c, e \in Calls : KeyOf[c] = KeyOf[e] => c = e

Limits(keys) ==
  /\ IsFiniteSet(keys)
  /\ Cardinality(keys) <= MaxCalls /\ TokensOf(keys) <= MaxTokens
  /\ \A o \in Accounts :
       /\ Cardinality(LeasedTo(keys, o)) <= MaxCallsPerAccount
       /\ TokensOf(LeasedTo(keys, o)) <= MaxTokensPerAccount

\* A call holds no lease before it is admitted, and an unexpired one while it
\* is in flight.
HolderSound(c) ==
  /\ pc[c] \in {"idle", "admitting"} => KeyOf[c] \notin held
  /\ pc[c] = "running" => KeyOf[c] \in held \ expired
LeaseInv == Limits(held) /\ \A c \in Calls : HolderSound(c)

LEMMA TokensOfType ==
  ASSUME NEW S, S \subseteq Keys, IsFiniteSet(S)
  PROVE  TokensOf(S) \in Int
BY ConstantsHold, SumType DEF Constants, TokensOf

LEMMA TokensOfFewer ==
  ASSUME NEW T, T \subseteq Keys, IsFiniteSet(T), NEW S, S \subseteq T
  PROVE  TokensOf(S) <= TokensOf(T)
<1>1. \A x \in T : Reserved[x] \in Nat /\ Reserved[x] \in Int /\ Reserved[x] <= Reserved[x]
  BY ConstantsHold DEF Constants
<1> QED
  BY <1>1, SumMonotone DEF TokensOf

LEMMA TokensOfMore ==
  ASSUME NEW S, S \subseteq Keys, IsFiniteSet(S), NEW k \in Keys, k \notin S
  PROVE  TokensOf(S \union {k}) = TokensOf(S) + Reserved[k]
<1>1. IsFiniteSet(S \union {k}) /\ \A x \in S \union {k} : Reserved[x] \in Int
  BY FS_AddElement, ConstantsHold DEF Constants
<1>2. (S \union {k}) \ {k} = S
  OBVIOUS
<1>3. TokensOf(S \union {k}) = Reserved[k] + TokensOf(S)
  BY <1>1, <1>2, SumRemove DEF TokensOf
<1> QED
  BY <1>3, TokensOfType, ConstantsHold DEF Constants

\* The limits bind fewer leases less, and admission keeps them.
LEMMA FewerKeys ==
  ASSUME NEW T, T \subseteq Keys, Limits(T), NEW S, S \subseteq T
  PROVE  Limits(S)
<1>1. IsFiniteSet(T) /\ IsFiniteSet(S) /\ Cardinality(S) <= Cardinality(T)
  BY FS_Subset DEF Limits
<1>2. Cardinality(S) \in Nat /\ Cardinality(T) \in Nat
  BY <1>1, FS_CardinalityType
<1>3. TokensOf(S) <= TokensOf(T) /\ TokensOf(S) \in Int /\ TokensOf(T) \in Int
  BY <1>1, TokensOfFewer, TokensOfType
<1>4. ASSUME NEW o \in Accounts
      PROVE  /\ Cardinality(LeasedTo(S, o)) <= MaxCallsPerAccount
             /\ TokensOf(LeasedTo(S, o)) <= MaxTokensPerAccount
  <2>1. LeasedTo(S, o) \subseteq LeasedTo(T, o) /\ LeasedTo(T, o) \subseteq T
    BY DEF LeasedTo
  <2>2. IsFiniteSet(LeasedTo(T, o)) /\ IsFiniteSet(LeasedTo(S, o))
    BY <1>1, <2>1, FS_Subset
  <2>3. Cardinality(LeasedTo(S, o)) <= Cardinality(LeasedTo(T, o))
    BY <2>1, <2>2, FS_Subset
  <2>4. Cardinality(LeasedTo(S, o)) \in Nat /\ Cardinality(LeasedTo(T, o)) \in Nat
    BY <2>2, FS_CardinalityType
  <2>5. TokensOf(LeasedTo(S, o)) <= TokensOf(LeasedTo(T, o))
    BY <2>1, <2>2, TokensOfFewer
  <2>6. TokensOf(LeasedTo(S, o)) \in Int /\ TokensOf(LeasedTo(T, o)) \in Int
    BY <2>1, <2>2, TokensOfType
  <2>7. Cardinality(LeasedTo(T, o)) <= MaxCallsPerAccount /\ TokensOf(LeasedTo(T, o)) <= MaxTokensPerAccount
    BY DEF Limits
  <2> QED
    BY <2>3, <2>4, <2>5, <2>6, <2>7, LimitAssumption
<1>5. Cardinality(S) <= MaxCalls /\ TokensOf(S) <= MaxTokens
  BY <1>2, <1>1, <1>3, LimitAssumption DEF Limits
<1> QED
  BY <1>1, <1>4, <1>5 DEF Limits

LEMMA OneMoreKey ==
  ASSUME NEW S, S \subseteq Keys, Limits(S), NEW k \in Keys, k \notin S, Room(S, k)
  PROVE  Limits(S \union {k})
<1> DEFINE T == S \union {k}
<1>1. /\ IsFiniteSet(S) /\ IsFiniteSet(T) /\ Cardinality(S) \in Nat
      /\ Cardinality(T) = Cardinality(S) + 1
  BY FS_AddElement, FS_CardinalityType DEF Limits
<1>2. TokensOf(T) = TokensOf(S) + Reserved[k]
  BY <1>1, TokensOfMore
<1>3. ASSUME NEW o \in Accounts
      PROVE  /\ Cardinality(LeasedTo(T, o)) <= MaxCallsPerAccount
             /\ TokensOf(LeasedTo(T, o)) <= MaxTokensPerAccount
  <2>1. CASE AccountOf[k] = o
    <3> DEFINE L == LeasedTo(S, o)
    <3>1. LeasedTo(T, o) = L \union {k} /\ L \subseteq S /\ k \notin L
      BY <2>1 DEF LeasedTo
    <3>2. IsFiniteSet(L) /\ Cardinality(L) \in Nat
      BY <1>1, <3>1, FS_Subset, FS_CardinalityType
    <3>3. Cardinality(L \union {k}) = Cardinality(L) + 1
      BY <3>1, <3>2, FS_AddElement
    <3>4. TokensOf(L \union {k}) = TokensOf(L) + Reserved[k]
      BY <3>1, <3>2, TokensOfMore
    <3>5. Cardinality(L) < MaxCallsPerAccount /\ TokensOf(L) + Reserved[k] <= MaxTokensPerAccount
      BY <2>1 DEF Room
    <3> QED
      BY <3>1, <3>2, <3>3, <3>4, <3>5, LimitAssumption
  <2>2. CASE AccountOf[k] # o
    <3>1. LeasedTo(T, o) = LeasedTo(S, o)
      BY <2>2 DEF LeasedTo
    <3> QED
      BY <3>1 DEF Limits
  <2> QED
    BY <2>1, <2>2
<1>4. Cardinality(T) <= MaxCalls /\ TokensOf(T) <= MaxTokens
  BY <1>1, <1>2, LimitAssumption DEF Room
<1> QED
  BY <1>1, <1>3, <1>4 DEF Limits

\* A step that adds no lease, and takes none of a call in flight.
LEMMA LeasesKept ==
  ASSUME Types, LeaseInv, held' \subseteq held,
         \A c \in Calls : /\ pc'[c] \in {"idle", "admitting"} => pc[c] \in {"idle", "admitting"}
                          /\ pc'[c] = "running" =>
                               pc[c] = "running" /\ KeyOf[c] \in held' \ expired'
  PROVE  LeaseInv'
<1>1. Limits(held)'
  BY FewerKeys DEF Types, LeaseInv, Limits
<1>2. ASSUME NEW c \in Calls PROVE HolderSound(c)'
  BY DEF LeaseInv, HolderSound
<1> QED
  BY <1>1, <1>2 DEF LeaseInv

LEMMA LeaseStep ==
  ASSUME OwnKeys, Types, LeaseInv, [Next]_vars
  PROVE  LeaseInv'
<1>0. \A c \in Calls : HolderSound(c)
  BY DEF LeaseInv
<1>1. ASSUME NEW c \in Calls, Reserve(c) \/ TurnAway(c) \/ Answer(c) \/ Lose(c) \/ BeginSettle(c)
      PROVE  LeaseInv'
  <2>1. held' = held /\ expired' = expired
    BY <1>1 DEF Reserve, TurnAway, Answer, Lose, BeginSettle, leaseVars
  <2>2. ASSUME NEW e \in Calls
        PROVE  /\ pc'[e] \in {"idle", "admitting"} => pc[e] \in {"idle", "admitting"}
               /\ pc'[e] = "running" => pc[e] = "running"
    BY <1>1 DEF Types, Reserve, TurnAway, Answer, Lose, BeginSettle, GoTo
  <2> QED
    BY <1>0, <2>1, <2>2, LeasesKept DEF HolderSound
<1>2. ASSUME NEW c \in Calls, Admit(c) PROVE LeaseInv'
  <2>1. PICK now \in day[c] .. today, reaped \in SUBSET expired : Acquire(c, now, reaped)
    BY <1>2 DEF Admit
  <2> DEFINE k == KeyOf[c]
             kept == held \ reaped
  <2>2. k \in Keys /\ k \notin held
    BY <1>0, <1>2, ConstantsHold DEF HolderSound, Admit, Constants
  <2>3. Room(kept, k) /\ held' = kept \union {k} /\ expired' = expired \ reaped
    BY <2>1, <2>2 DEF Acquire
  <2>4. Limits(kept)
    BY FewerKeys DEF Types, LeaseInv
  <2>5. Limits(kept \union {k})
    BY <2>2, <2>3, <2>4, OneMoreKey DEF Types
  <2>6. Limits(held)'
    BY <2>3, <2>5 DEF Limits
  <2>7. pc' = [pc EXCEPT ![c] = "running"]
    BY <1>2 DEF Admit, GoTo
  <2>8. ASSUME NEW e \in Calls PROVE HolderSound(e)'
    <3>1. CASE e = c
      BY <2>2, <2>3, <2>7, <3>1 DEF HolderSound, Types
    <3>2. CASE e # c
      <4>1. KeyOf[e] # k /\ pc'[e] = pc[e]
        BY <2>7, <3>2 DEF OwnKeys, Types
      <4> QED
        BY <1>0, <2>3, <4>1 DEF HolderSound
    <3> QED
      BY <3>1, <3>2
  <2> QED
    BY <2>6, <2>8 DEF LeaseInv
<1>3. ASSUME NEW c \in Calls, SettleLease(c), pc[c] \in {"answered", "settling"} PROVE LeaseInv'
  <2>1. /\ held' \subseteq held /\ expired' \subseteq expired
        /\ held' = held \ {KeyOf[c]} \/ held' = held
    BY <1>3 DEF SettleLease, leaseVars
  <2>2. pc' = [pc EXCEPT ![c] = "settled"] \/ pc' = [pc EXCEPT ![c] = "late"]
    BY <1>3 DEF SettleLease, GoTo
  <2>3. ASSUME NEW e \in Calls
        PROVE  /\ pc'[e] \in {"idle", "admitting"} => pc[e] \in {"idle", "admitting"}
               /\ pc'[e] = "running" => pc[e] = "running" /\ e # c
    BY <2>2 DEF Types
  <2>4. ASSUME NEW e \in Calls, pc'[e] = "running" PROVE KeyOf[e] \in held' \ expired'
    <3>1. KeyOf[e] # KeyOf[c]
      BY <2>3, <2>4 DEF OwnKeys
    <3> QED
      BY <1>0, <2>1, <2>3, <2>4, <3>1 DEF HolderSound
  <2> QED
    BY <2>1, <2>3, <2>4, LeasesKept
<1>4. ASSUME NEW c \in Calls, SettleModel(c) \/ SettleBare(c) \/ SettlePlanner(c) PROVE LeaseInv'
  BY <1>3, <1>4 DEF SettleModel, SettleBare, SettlePlanner
<1>5. ASSUME TimePasses \/ UNCHANGED vars PROVE LeaseInv'
  <2>1. held' \subseteq held /\ pc' = pc
    BY <1>5 DEF TimePasses, Snapshot, Midnight, Expire, leaseVars, vars
  <2>2. ASSUME NEW c \in Calls, pc[c] = "running" PROVE KeyOf[c] \in held' \ expired'
    <3>1. KeyOf[c] \in held \ expired
      BY <1>0, <2>2 DEF HolderSound
    <3>2. CASE \E k \in Keys : Expire(k)
      BY <2>2, <3>1, <3>2 DEF Expire
    <3> QED
      BY <1>5, <3>1, <3>2 DEF TimePasses, Snapshot, Midnight, leaseVars, vars
  <2> QED
    BY <2>1, <2>2, LeasesKept
<1> QED
  BY <1>1, <1>2, <1>4, <1>5 DEF Next, AdmissionStep, CallStep, SettlementStep

LEMMA LeaseInit == Init => LeaseInv
<1> SUFFICES ASSUME Init PROVE LeaseInv
  OBVIOUS
<1>1. IsFiniteSet({}) /\ Cardinality({}) = 0
  BY FS_EmptySet
<1>2. TokensOf({}) = 0
  BY <1>1, SumPick DEF TokensOf
<1>3. \A o : LeasedTo({}, o) = {}
  BY DEF LeasedTo
<1>4. Limits({})
  BY <1>1, <1>2, <1>3, LimitAssumption DEF Limits
<1> QED
  BY <1>4 DEF Init, LeaseInv, HolderSound

\* Calls in flight have leases of their own, so that what bounds the leases
\* bounds the calls.
LEMMA LeasesBoundCalls ==
  ASSUME OwnKeys, NEW K, K \subseteq Keys, IsFiniteSet(K),
         NEW C, C \subseteq Calls, \A c \in C : KeyOf[c] \in K
  PROVE  /\ Cardinality(C) \in Nat /\ Cardinality(K) \in Nat
         /\ Cardinality(C) <= Cardinality(K)
         /\ SumFunctionOnSet(Estimate, C) \in Int /\ TokensOf(K) \in Int
         /\ SumFunctionOnSet(Estimate, C) <= TokensOf(K)
<1> DEFINE h == [c \in C |-> KeyOf[c]]
<1>1. h \in Injection(C, K)
  BY DEF Injection, IsInjective, OwnKeys
<1>2. IsFiniteSet(C) /\ Cardinality(C) <= Cardinality(K)
  <2> HIDE DEF h
  <2> QED
    BY <1>1, FS_Injection
<1>3. \A c \in C : Estimate[c] \in Int /\ Estimate[c] <= Reserved[KeyOf[c]]
  BY ConstantsHold DEF Constants, Estimate, Tokens
<1>4. \A k \in K : Reserved[k] \in Nat
  BY ConstantsHold DEF Constants
<1>5. \A c, e \in C : KeyOf[c] = KeyOf[e] => c = e
  BY DEF OwnKeys
<1>6. SumFunctionOnSet(Estimate, C) <= TokensOf(K)
  BY <1>2, <1>3, <1>4, <1>5, SumInjected DEF TokensOf
<1> QED
  BY <1>2, <1>3, <1>6, SumType, TokensOfType, FS_CardinalityType

LEMMA LeasesSuffice ==
  ASSUME OwnKeys, Types, LeaseInv
  PROVE  InFlightBounded
<1>1. \A c \in InFlight : KeyOf[c] \in held
  BY DEF LeaseInv, HolderSound, InFlight
<1>2. Cardinality(InFlight) <= MaxCalls /\ SumFunctionOnSet(Estimate, InFlight) <= MaxTokens
  <2>1. InFlight \subseteq Calls
    BY DEF InFlight
  <2>2. IsFiniteSet(held) /\ Cardinality(held) <= MaxCalls /\ TokensOf(held) <= MaxTokens
    BY DEF LeaseInv, Limits
  <2> QED
    BY <1>1, <2>1, <2>2, LeasesBoundCalls, LimitAssumption DEF Types
<1>3. ASSUME NEW o \in Accounts
      PROVE  /\ Cardinality(InFlightOf(o)) <= MaxCallsPerAccount
             /\ SumFunctionOnSet(Estimate, InFlightOf(o)) <= MaxTokensPerAccount
  <2> DEFINE L == LeasedTo(held, o)
  <2>1. /\ InFlightOf(o) \subseteq Calls /\ L \subseteq held /\ L \subseteq Keys
        /\ \A c \in InFlightOf(o) : KeyOf[c] \in L
    BY <1>1 DEF InFlightOf, InFlight, LeasedTo, Owner, Types
  <2>2. IsFiniteSet(L)
    BY <2>1, FS_Subset DEF LeaseInv, Limits
  <2>3. Cardinality(L) <= MaxCallsPerAccount /\ TokensOf(L) <= MaxTokensPerAccount
    BY DEF LeaseInv, Limits
  <2> HIDE DEF L
  <2> QED
    BY <2>1, <2>2, <2>3, LeasesBoundCalls, LimitAssumption
<1> QED
  BY <1>2, <1>3 DEF InFlightBounded

\* The calls in flight, not only the rows, respect the limits on concurrency
\* and on reserved tokens, of the provider and of each account, whatever
\* expires, is reaped, or crashes: provided that no two calls share a lease key
\* (acquire_provider_lease).
THEOREM LimitsHold == ASSUME OwnKeys PROVE Spec => []InFlightBounded
<1>1. Init => Types /\ LeaseInv
  BY TypesInit, LeaseInit
<1>2. Types /\ LeaseInv /\ [Next]_vars => (Types /\ LeaseInv)'
  BY TypesStep, LeaseStep
<1>3. Types /\ LeaseInv => InFlightBounded
  BY LeasesSuffice
<1> QED
  BY <1>1, <1>2, <1>3, PTL DEF Spec

-----------------------------------------------------------------------------
(* What an account is charged *)

Started == {c \in Calls : pc[c] # "idle"}
StartedFinite == IsFiniteSet(Started)

\* The row of an account has one holder; what the holder read is what the calls
\* cost, but for settlements without the lock, also those made since.
Locking(c) == pc[c] \in {"admitting", "settling"}
OneHolder == \A c, e \in Calls : Locking(c) /\ Locking(e) /\ Owner(c) = Owner(e) => c = e
UsageExplained ==
  \A o \in Accounts, d \in Days :
    \E lost \in SUBSET Bare : usage[o][d] = SpentBy(o, d, lost)
SeenExplained(c) ==
  /\ Locking(c) =>
       \A o \in Accounts, d \in Days :
         o = Owner(c) /\ d = day[c] => \E lost \in SUBSET Bare : seen[c] = SpentBy(o, d, lost)
  /\ pc[c] = "settling" => c \in Drafts
  /\ ~Locking(c) => seen[c] = 0
AccountInv == OneHolder /\ UsageExplained /\ \A c \in Calls : SeenExplained(c)

LEMMA SpentIs ==
  ASSUME NEW o, NEW d, NEW lost
  PROVE  /\ SpentBy(o, d, lost) = SumFunctionOnSet(AccountDue(lost), ChargedTo(o, d))
         /\ SpentBy(o, d, lost)' = SumFunctionOnSet(AccountDue(lost)', ChargedTo(o, d)')
BY DEF SpentBy

LEMMA StartedStep ==
  ASSUME Types, StartedFinite, [Next]_vars
  PROVE  StartedFinite'
<1>1. ASSUME NEW c \in Calls, UNCHANGED pc \/ \E s : GoTo(c, s) PROVE StartedFinite'
  <2>1. Started' \subseteq Started \union {c}
    BY <1>1 DEF Started, GoTo, Types
  <2> QED
    BY <2>1, FS_AddElement, FS_Subset DEF StartedFinite
<1>2. ASSUME UNCHANGED pc PROVE StartedFinite'
  BY <1>2 DEF StartedFinite, Started
<1>3. CASE AdmissionStep
  BY <1>1, <1>3 DEF AdmissionStep, Reserve, Admit, TurnAway
<1>4. CASE CallStep
  BY <1>1, <1>4 DEF CallStep, Answer, Lose
<1>5. CASE SettlementStep
  BY <1>1, <1>5 DEF SettlementStep, BeginSettle, SettleModel, SettleBare, SettlePlanner, SettleLease
<1>6. CASE TimePasses \/ UNCHANGED vars
  BY <1>2, <1>6 DEF TimePasses, Snapshot, Midnight, Expire, vars
<1> QED
  BY <1>3, <1>4, <1>5, <1>6 DEF Next

\* What is due from a call is a count.
LEMMA DueType ==
  ASSUME Types, NEW c \in Calls, NEW lost
  PROVE  AccountDue(lost)[c] \in Nat /\ ProviderDue[c] \in Nat
BY ConstantsHold DEF Types, Constants, AccountDue, ProviderDue, Known, Unknown

LEMMA SpentType ==
  ASSUME Types, StartedFinite, NEW o, NEW d, NEW lost
  PROVE  IsFiniteSet(ChargedTo(o, d)) /\ SpentBy(o, d, lost) \in Nat
<1>1. ChargedTo(o, d) \subseteq Started /\ ChargedTo(o, d) \subseteq Calls
  BY DEF ChargedTo, Started
<1>2. IsFiniteSet(ChargedTo(o, d))
  BY <1>1, FS_Subset DEF StartedFinite
<1>3. \A c \in ChargedTo(o, d) : AccountDue(lost)[c] \in Nat
  BY <1>1, DueType
<1>4. SpentBy(o, d, lost) \in Int
  BY <1>2, <1>3, SumType, SpentIs
<1>5. SumFunctionOnSet(AccountDue(lost), {}) <= SpentBy(o, d, lost)
  BY <1>2, <1>3, SumMonotone, SpentIs
<1>6. SumFunctionOnSet(AccountDue(lost), {}) = 0
  BY FS_EmptySet, SumPick
<1> QED
  BY <1>2, <1>4, <1>5, <1>6

\* The calls that are charged, and what is due from them, stay.
LEMMA SpentSame ==
  ASSUME Types, StartedFinite, NEW o, NEW d, NEW lost, NEW now,
         ChargedTo(o, d)' = ChargedTo(o, d),
         \A c \in ChargedTo(o, d) : AccountDue(now)'[c] = AccountDue(lost)[c]
  PROVE  SpentBy(o, d, now)' = SpentBy(o, d, lost)
<1>1. IsFiniteSet(ChargedTo(o, d))
  BY SpentType
<1>2. SumFunctionOnSet(AccountDue(now)', ChargedTo(o, d)) = SumFunctionOnSet(AccountDue(lost), ChargedTo(o, d))
  BY <1>1, SumSame
<1> QED
  BY <1>2, SpentIs

SpentKept ==
  \A o \in Accounts, d \in Days, lost \in SUBSET Bare :
    SpentBy(o, d, lost)' = SpentBy(o, d, lost)

\* A call is charged with its reservation when it is admitted ...
LEMMA SpentByAdmission ==
  ASSUME Types, StartedFinite, Types', NEW c \in Calls, Admit(c), NEW o, NEW d, NEW lost
  PROVE  SpentBy(o, d, lost \ {c})' =
           SpentBy(o, d, lost) + (IF o = Owner(c) /\ d = day[c] THEN Tokens(c) ELSE 0)
<1> DEFINE S == ChargedTo(o, d)
           now == lost \ {c}
<1>0. IsFiniteSet(S) /\ SpentBy(o, d, lost) \in Nat
  BY SpentType
<1>1. /\ pc[c] = "admitting" /\ pc' = [pc EXCEPT ![c] = "running"]
      /\ day' = day /\ result' = result
  BY DEF Admit, GoTo
<1>2. \A e \in S : AccountDue(now)'[e] = AccountDue(lost)[e]
  BY <1>1 DEF AccountDue, ChargedTo, Types, Known
<1>3. CASE o = Owner(c) /\ d = day[c]
  <2>1. S' = S \union {c} /\ c \notin S
    BY <1>1, <1>3 DEF ChargedTo, Types
  <2>2. AccountDue(now)'[c] = Tokens(c) /\ Tokens(c) \in Nat
    BY <1>1, ConstantsHold DEF AccountDue, Types, Constants
  <2>3. \A e \in S' : AccountDue(now)'[e] \in Int
    <3>1. \A e \in S : AccountDue(lost)[e] \in Int
      BY DueType DEF ChargedTo
    <3> HIDE DEF S, now
    <3> QED
      BY <1>2, <2>1, <2>2, <3>1
  <2> HIDE DEF now
  <2>4. SumFunctionOnSet(AccountDue(now)', S')
          = AccountDue(now)'[c] + SumFunctionOnSet(AccountDue(now)', S' \ {c})
    <3>1. IsFiniteSet(S') /\ c \in S'
      BY <1>0, <2>1, FS_AddElement
    <3> HIDE DEF S
    <3> QED
      BY <2>3, <3>1, SumRemove
  <2>5. S' \ {c} = S
    BY <2>1
  <2>6. SumFunctionOnSet(AccountDue(now)', S) = SumFunctionOnSet(AccountDue(lost), S)
    BY <1>0, <1>2, SumSame
  <2>7. SpentBy(o, d, now)' = SumFunctionOnSet(AccountDue(now)', S')
        /\ SpentBy(o, d, lost) = SumFunctionOnSet(AccountDue(lost), S)
    BY SpentIs DEF S
  <2> HIDE DEF S
  <2>8. SpentBy(o, d, now)' = SpentBy(o, d, lost) + Tokens(c)
    BY <1>0, <2>2, <2>4, <2>5, <2>6, <2>7
  <2> QED
    BY <1>3, <2>8 DEF now
<1>4. CASE ~(o = Owner(c) /\ d = day[c])
  <2>1. S' = S
    BY <1>1, <1>4 DEF ChargedTo, Types
  <2> HIDE DEF now
  <2>2. SpentBy(o, d, now)' = SpentBy(o, d, lost)
    BY <1>2, <2>1, SpentSame
  <2> QED
    BY <1>0, <1>4, <2>2 DEF now
<1> QED
  BY <1>3, <1>4

LEMMA ChargeFits ==
  ASSUME Types, NEW c \in Calls
  PROVE  Charge(c) \in Nat /\ Tokens(c) \in Nat /\ Charge(c) - Tokens(c) \in Int
<1>1. Charge(c) \in Nat /\ Tokens(c) \in Nat
  BY ChargeType, ConstantsHold DEF Constants
<1> QED
  BY <1>1

\* ... and with what is known when it is settled ...
LEMMA SpentBySettlement ==
  ASSUME Types, StartedFinite, NEW c \in Calls, SettleLease(c),
         pc[c] \in {"answered", "settling"}, c \in Drafts \union Bare,
         day' = day, result' = result, NEW o, NEW d, NEW lost,
         o = Owner(c), d = day[c]
  PROVE  SpentBy(o, d, lost \ {c})' = SpentBy(o, d, lost) + (Charge(c) - Tokens(c))
<1> DEFINE S == ChargedTo(o, d)
           now == lost \ {c}
<1>0. IsFiniteSet(S) /\ SpentBy(o, d, lost) \in Nat
  BY SpentType
<1>1. pc' = [pc EXCEPT ![c] = "settled"] \/ pc' = [pc EXCEPT ![c] = "late"]
  BY DEF SettleLease, GoTo
<1>2. S' = S /\ c \in S
  BY <1>1 DEF ChargedTo, Types
<1>3. \A e \in S \ {c} : AccountDue(lost)[e] = AccountDue(now)'[e]
  BY <1>1 DEF AccountDue, ChargedTo, Types, Known
<1>4. Charge(c) \in Nat /\ Tokens(c) \in Nat
  BY ChargeFits
<1>5. AccountDue(lost)[c] = Tokens(c) /\ AccountDue(now)'[c] = Charge(c)
  BY <1>1 DEF AccountDue, Charge, Types, Known
<1>6. \A e \in S : AccountDue(lost)[e] \in Int
  BY DueType DEF ChargedTo
<1>7. \A e \in S : AccountDue(now)'[e] \in Int
  BY <1>3, <1>4, <1>5, <1>6
<1>8. SpentBy(o, d, now)' = SumFunctionOnSet(AccountDue(now)', S')
      /\ SpentBy(o, d, lost) = SumFunctionOnSet(AccountDue(lost), S)
  BY SpentIs DEF S
<1> HIDE DEF S, now
<1>9. SumFunctionOnSet(AccountDue(now)', S)
        = SumFunctionOnSet(AccountDue(lost), S) + AccountDue(now)'[c] - AccountDue(lost)[c]
  BY <1>0, <1>2, <1>3, <1>6, <1>7, SumChange
<1>10. SpentBy(o, d, now)' = SpentBy(o, d, lost) + (Charge(c) - Tokens(c))
  BY <1>0, <1>2, <1>4, <1>5, <1>8, <1>9
<1> QED
  BY <1>10 DEF now

\* ... unless that is lost ...
LEMMA SettlementLost ==
  ASSUME Types, StartedFinite, NEW c \in Calls, SettleLease(c),
         pc[c] \in {"answered", "settling"}, c \in Drafts \union Bare,
         day' = day, result' = result, NEW o, NEW d, NEW lost
  PROVE  SpentBy(o, d, lost \union {c})' = SpentBy(o, d, lost)
<1> DEFINE now == lost \union {c}
<1>1. pc' = [pc EXCEPT ![c] = "settled"] \/ pc' = [pc EXCEPT ![c] = "late"]
  BY DEF SettleLease, GoTo
<1>2. ChargedTo(o, d)' = ChargedTo(o, d)
  BY <1>1 DEF ChargedTo, Types
<1>3. \A e \in ChargedTo(o, d) : AccountDue(now)'[e] = AccountDue(lost)[e]
  BY <1>1 DEF AccountDue, ChargedTo, Types, Known
<1> HIDE DEF now
<1>4. SpentBy(o, d, now)' = SpentBy(o, d, lost)
  BY <1>2, <1>3, SpentSame
<1> QED
  BY <1>4 DEF now

\* ... and no other account or day is charged.
LEMMA SettledElsewhere ==
  ASSUME Types, StartedFinite, NEW c \in Calls, SettleLease(c),
         pc[c] \in {"answered", "settling"}, c \in Drafts \union Bare,
         day' = day, result' = result, NEW o, NEW d, NEW lost,
         ~(o = Owner(c) /\ d = day[c])
  PROVE  SpentBy(o, d, lost \ {c})' = SpentBy(o, d, lost)
<1> DEFINE now == lost \ {c}
<1>1. pc' = [pc EXCEPT ![c] = "settled"] \/ pc' = [pc EXCEPT ![c] = "late"]
  BY DEF SettleLease, GoTo
<1>2. ChargedTo(o, d)' = ChargedTo(o, d) /\ c \notin ChargedTo(o, d)
  BY <1>1 DEF ChargedTo, Types
<1>3. \A e \in ChargedTo(o, d) : AccountDue(now)'[e] = AccountDue(lost)[e]
  BY <1>1, <1>2 DEF AccountDue, ChargedTo, Types, Known
<1> HIDE DEF now
<1>4. SpentBy(o, d, now)' = SpentBy(o, d, lost)
  BY <1>2, <1>3, SpentSame
<1> QED
  BY <1>4 DEF now

LEMMA SpentNat ==
  Types /\ StartedFinite =>
    \A o \in Accounts, d \in Days, lost \in SUBSET Bare : SpentBy(o, d, lost) \in Nat
BY SpentType

\* A step that charges nothing and writes no usage, and lets nobody take the
\* lock of an account.
LEMMA AccountQuiet ==
  ASSUME Types, AccountInv, usage' = usage, SpentKept,
         \A c \in Calls :
           \/ Locking(c)' /\ pc'[c] = pc[c] /\ day'[c] = day[c] /\ seen'[c] = seen[c]
           \/ ~Locking(c)' /\ seen'[c] = 0
  PROVE  AccountInv'
<1>0. \A c \in Calls : SeenExplained(c) /\ day[c] \in Days /\ Owner(c) \in Accounts
  BY ConstantsHold DEF Constants, Types, AccountInv
<1>1. OneHolder'
  BY DEF AccountInv, OneHolder, Locking, Owner
<1>2. UsageExplained'
  BY DEF AccountInv, UsageExplained, SpentKept
<1>3. ASSUME NEW c \in Calls PROVE SeenExplained(c)'
  <2>1. CASE Locking(c)'
    <3>1. pc'[c] = pc[c] /\ day'[c] = day[c] /\ seen'[c] = seen[c] /\ Locking(c)
      BY <2>1 DEF Locking
    <3>2. ASSUME NEW o \in Accounts, NEW d \in Days, o = Owner(c), d = day'[c]
          PROVE  \E lost \in SUBSET Bare : seen'[c] = SpentBy(o, d, lost)'
      <4>1. PICK lost \in SUBSET Bare : seen[c] = SpentBy(o, d, lost)
        BY <1>0, <3>1, <3>2 DEF SeenExplained
      <4>2. SpentBy(o, d, lost)' = SpentBy(o, d, lost)
        BY DEF SpentKept
      <4> QED
        BY <3>1, <4>1, <4>2
    <3> QED
      BY <1>0, <2>1, <3>1, <3>2 DEF SeenExplained, Locking
  <2>2. CASE ~Locking(c)'
    BY <2>2 DEF SeenExplained, Locking
  <2> QED
    BY <2>1, <2>2
<1> QED
  BY <1>1, <1>2, <1>3 DEF AccountInv

\* The lock is free, and the call reads the usage under it.
LEMMA AccountRead ==
  ASSUME Types, Types', AccountInv, SpentKept, NEW c \in Calls,
         NEW s \in {"admitting", "settling"}, GoTo(c, s), usage' = usage,
         ~AccountLocked(Owner(c)),
         seen' = [seen EXCEPT ![c] = usage[Owner(c)][day'[c]]],
         \A e \in Calls \ {c} : day'[e] = day[e],
         s = "settling" => c \in Drafts
  PROVE  AccountInv'
<1>1. /\ pc'[c] = s /\ seen'[c] = usage[Owner(c)][day'[c]]
      /\ \A e \in Calls \ {c} : pc'[e] = pc[e] /\ seen'[e] = seen[e]
      /\ Owner(c) \in Accounts /\ day'[c] \in Days
  BY ConstantsHold DEF Constants, GoTo, Types
<1>2. OneHolder'
  BY <1>1 DEF AccountInv, OneHolder, Locking, AccountLocked, Owner
<1>3. ASSUME NEW o \in Accounts, NEW d \in Days
      PROVE  \E lost \in SUBSET Bare : usage[o][d] = SpentBy(o, d, lost)'
  BY DEF AccountInv, UsageExplained, SpentKept
<1>4. ASSUME NEW e \in Calls PROVE SeenExplained(e)'
  <2>1. CASE e = c
    <3>1. ASSUME NEW o \in Accounts, NEW d \in Days, o = Owner(c), d = day'[c]
          PROVE  \E lost \in SUBSET Bare : seen'[c] = SpentBy(o, d, lost)'
      BY <1>1, <1>3, <3>1
    <3> QED
      BY <1>1, <2>1, <3>1 DEF SeenExplained, Locking
  <2>2. CASE e # c
    <3>1. /\ SeenExplained(e) /\ pc'[e] = pc[e] /\ seen'[e] = seen[e] /\ day'[e] = day[e]
          /\ Locking(e)' = Locking(e)
      BY <1>1, <2>2 DEF AccountInv, Locking
    <3>2. ASSUME Locking(e), NEW o \in Accounts, NEW d \in Days, o = Owner(e), d = day'[e]
          PROVE  \E lost \in SUBSET Bare : seen'[e] = SpentBy(o, d, lost)'
      BY <3>1, <3>2 DEF SeenExplained, SpentKept
    <3> QED
      BY <3>1, <3>2 DEF SeenExplained, Locking
  <2> QED
    BY <2>1, <2>2
<1> QED
  BY <1>2, <1>3, <1>4 DEF AccountInv, UsageExplained

\* The holder of the lock writes what it read, changed by what its call is
\* charged: what others settled since is lost, and nothing else.
LEMMA AccountWritten ==
  ASSUME Types, AccountInv, NEW c \in Calls,
         Locking(c), ~Locking(c)', Forget(c), day' = day,
         NEW change \in Int, SetUsage(c, seen[c] + change),
         \A e \in Calls \ {c} : pc'[e] = pc[e],
         \A o \in Accounts, d \in Days, lost \in SUBSET Bare :
           SpentBy(o, d, lost \ {c})' =
             SpentBy(o, d, lost) + (IF o = Owner(c) /\ d = day[c] THEN change ELSE 0),
         StartedFinite
  PROVE  AccountInv'
<1>0. \A o \in Accounts, d \in Days, lost \in SUBSET Bare :
        SpentBy(o, d, lost) \in Int /\ lost \ {c} \in SUBSET Bare
  BY SpentNat
<1>1. /\ seen'[c] = 0 /\ seen[c] \in Int /\ Owner(c) \in Accounts /\ day[c] \in Days
      /\ \A e \in Calls \ {c} : seen'[e] = seen[e]
  BY ConstantsHold DEF Constants, Forget, Types
<1>2. OneHolder'
  BY DEF AccountInv, OneHolder, Locking, Owner
<1>3. ASSUME NEW o \in Accounts, NEW d \in Days
      PROVE  \E lost \in SUBSET Bare : usage'[o][d] = SpentBy(o, d, lost)'
  <2>1. CASE o = Owner(c) /\ d = day[c]
    <3>1. usage'[o][d] = seen[c] + change
      BY <2>1 DEF SetUsage, Types
    <3>2. PICK lost \in SUBSET Bare : seen[c] = SpentBy(o, d, lost)
      BY <2>1 DEF AccountInv, SeenExplained
    <3>3. SpentBy(o, d, lost \ {c})' = SpentBy(o, d, lost) + change
      BY <2>1
    <3> QED
      BY <1>0, <3>1, <3>2, <3>3
  <2>2. CASE ~(o = Owner(c) /\ d = day[c])
    <3>1. usage'[o][d] = usage[o][d]
      BY <1>1, <2>2 DEF SetUsage, Types
    <3>2. PICK lost \in SUBSET Bare : usage[o][d] = SpentBy(o, d, lost)
      BY DEF AccountInv, UsageExplained
    <3>3. SpentBy(o, d, lost \ {c})' = SpentBy(o, d, lost)
      BY <1>0, <2>2
    <3> QED
      BY <1>0, <3>1, <3>2, <3>3
  <2> QED
    BY <2>1, <2>2
<1>4. ASSUME NEW e \in Calls PROVE SeenExplained(e)'
  <2>1. CASE e = c
    BY <1>1, <2>1 DEF SeenExplained, Locking
  <2>2. CASE e # c
    <3>1. /\ SeenExplained(e) /\ pc'[e] = pc[e] /\ seen'[e] = seen[e] /\ day'[e] = day[e]
          /\ Locking(e)' = Locking(e)
      BY <1>1, <2>2 DEF AccountInv, Locking
    <3>2. ASSUME Locking(e), NEW o \in Accounts, NEW d \in Days, o = Owner(e), d = day'[e]
          PROVE  \E lost \in SUBSET Bare : seen'[e] = SpentBy(o, d, lost)'
      <4>1. PICK lost \in SUBSET Bare : seen[e] = SpentBy(o, d, lost)
        BY <3>1, <3>2 DEF SeenExplained
      <4>2. o # Owner(c)
        BY <2>2, <3>2 DEF AccountInv, OneHolder
      <4>3. SpentBy(o, d, lost \ {c})' = SpentBy(o, d, lost)
        BY <1>0, <4>2
      <4> QED
        BY <1>0, <3>1, <4>1, <4>3
    <3> QED
      BY <3>1, <3>2 DEF SeenExplained, Locking
  <2> QED
    BY <2>1, <2>2
<1> QED
  BY <1>2, <1>3, <1>4 DEF AccountInv, UsageExplained

\* A settlement without the lock is lost on who read before it.
LEMMA AccountUnlocked ==
  ASSUME Types, AccountInv, NEW c \in Bare,
         ~Locking(c), ~Locking(c)', seen' = seen, day' = day,
         NEW change \in Int, SetUsage(c, usage[Owner(c)][day[c]] + change),
         \A e \in Calls \ {c} : pc'[e] = pc[e],
         \A o \in Accounts, d \in Days, lost \in SUBSET Bare :
           /\ SpentBy(o, d, lost \ {c})' =
                SpentBy(o, d, lost) + (IF o = Owner(c) /\ d = day[c] THEN change ELSE 0)
           /\ SpentBy(o, d, lost \union {c})' = SpentBy(o, d, lost),
         StartedFinite
  PROVE  AccountInv'
<1>0. /\ c \in Calls
      /\ \A o \in Accounts, d \in Days, lost \in SUBSET Bare :
           /\ SpentBy(o, d, lost) \in Int
           /\ lost \ {c} \in SUBSET Bare /\ lost \union {c} \in SUBSET Bare
  BY SpentNat, KindAssumption
<1>1. Owner(c) \in Accounts /\ day[c] \in Days
  BY <1>0, ConstantsHold DEF Constants, Types
<1>2. OneHolder'
  BY DEF AccountInv, OneHolder, Locking, Owner
<1>3. ASSUME NEW o \in Accounts, NEW d \in Days
      PROVE  \E lost \in SUBSET Bare : usage'[o][d] = SpentBy(o, d, lost)'
  <2>0. PICK lost \in SUBSET Bare : usage[o][d] = SpentBy(o, d, lost)
    BY DEF AccountInv, UsageExplained
  <2>1. CASE o = Owner(c) /\ d = day[c]
    <3>1. usage'[o][d] = usage[o][d] + change
      BY <2>1 DEF SetUsage, Types
    <3>2. SpentBy(o, d, lost \ {c})' = SpentBy(o, d, lost) + change
      BY <2>1
    <3> QED
      BY <1>0, <2>0, <3>1, <3>2
  <2>2. CASE ~(o = Owner(c) /\ d = day[c])
    <3>1. usage'[o][d] = usage[o][d]
      BY <1>1, <2>2 DEF SetUsage, Types
    <3>2. lost \union {c} \in SUBSET Bare /\ SpentBy(o, d, lost \union {c})' = SpentBy(o, d, lost)
      BY <1>0
    <3> QED
      BY <2>0, <3>1, <3>2
  <2> QED
    BY <2>1, <2>2
<1>4. ASSUME NEW e \in Calls PROVE SeenExplained(e)'
  <2>1. CASE e = c
    BY <1>0, <2>1 DEF SeenExplained, Locking, AccountInv
  <2>2. CASE e # c
    <3>1. SeenExplained(e) /\ pc'[e] = pc[e] /\ Locking(e)' = Locking(e)
      BY <2>2 DEF AccountInv, Locking
    <3>2. ASSUME Locking(e), NEW o \in Accounts, NEW d \in Days, o = Owner(e), d = day'[e]
          PROVE  \E lost \in SUBSET Bare : seen'[e] = SpentBy(o, d, lost)'
      <4>1. PICK lost \in SUBSET Bare : seen[e] = SpentBy(o, d, lost)
        BY <3>1, <3>2 DEF SeenExplained
      <4>2. lost \union {c} \in SUBSET Bare /\ SpentBy(o, d, lost \union {c})' = SpentBy(o, d, lost)
        BY <1>0
      <4> QED
        BY <4>1, <4>2
    <3> QED
      BY <3>1, <3>2 DEF SeenExplained, Locking
  <2> QED
    BY <2>1, <2>2
<1> QED
  BY <1>2, <1>3, <1>4 DEF AccountInv, UsageExplained

LEMMA AccountStep ==
  ASSUME Types, StartedFinite, AccountInv, [Next]_vars
  PROVE  AccountInv'
<1>0. Types' /\ StartedFinite' /\ \A c \in Calls : SeenExplained(c)
  BY TypesStep, StartedStep DEF AccountInv
<1>1. ASSUME NEW c \in Calls, Reserve(c) PROVE AccountInv'
  <2>1. SpentKept
    <3>1. /\ pc[c] = "idle" /\ pc' = [pc EXCEPT ![c] = "admitting"] /\ result' = result
          /\ \A e \in Calls \ {c} : day'[e] = day[e]
      BY <1>1 DEF Reserve, GoTo, Types
    <3>2. ASSUME NEW o, NEW d, NEW lost PROVE SpentBy(o, d, lost)' = SpentBy(o, d, lost)
      <4>1. ChargedTo(o, d)' = ChargedTo(o, d)
        BY <3>1 DEF ChargedTo, Types
      <4>2. \A e \in ChargedTo(o, d) : AccountDue(lost)'[e] = AccountDue(lost)[e]
        BY <3>1 DEF ChargedTo, AccountDue, Types, Known
      <4> QED
        BY <4>1, <4>2, SpentSame
    <3> QED
      BY <3>2 DEF SpentKept
  <2>2. day'[c] = today /\ seen' = [seen EXCEPT ![c] = usage[Owner(c)][day'[c]]]
    BY <1>1 DEF Reserve, Types
  <2>3. GoTo(c, "admitting") /\ ~AccountLocked(Owner(c)) /\ usage' = usage
        /\ \A e \in Calls \ {c} : day'[e] = day[e]
    BY <1>1 DEF Reserve, Types
  <2> QED
    BY <1>0, <2>1, <2>2, <2>3, AccountRead
<1>2. ASSUME NEW c \in Calls, Admit(c) PROVE AccountInv'
  <2>1. /\ Locking(c) /\ ~Locking(c)' /\ Forget(c) /\ day' = day
        /\ SetUsage(c, seen[c] + Tokens(c))
        /\ \A e \in Calls \ {c} : pc'[e] = pc[e]
    BY <1>2 DEF Admit, Locking, GoTo, Types
  <2>2. Tokens(c) \in Int
    BY ConstantsHold DEF Constants
  <2>3. \A o \in Accounts, d \in Days, lost \in SUBSET Bare :
          SpentBy(o, d, lost \ {c})' =
            SpentBy(o, d, lost) + (IF o = Owner(c) /\ d = day[c] THEN Tokens(c) ELSE 0)
    BY <1>0, <1>2, SpentByAdmission
  <2> QED
    BY <2>1, <2>2, <2>3, AccountWritten
<1>3. ASSUME NEW c \in Calls, TurnAway(c) \/ Answer(c) \/ Lose(c) \/ SettlePlanner(c)
      PROVE  AccountInv'
  <2>1. usage' = usage /\ \A e \in Calls \ {c} : pc'[e] = pc[e] /\ seen'[e] = seen[e]
                                              /\ day'[e] = day[e] /\ result'[e] = result[e]
    BY <1>3 DEF TurnAway, Answer, Lose, SettlePlanner, SettleLease, GoTo, Forget, callVars, Types
  <2>2. /\ ~Locking(c)' /\ seen'[c] = 0
        /\ \A lost : AccountDue(lost)'[c] = Tokens(c)
        /\ pc[c] # "admitting" => \A lost : AccountDue(lost)[c] = Tokens(c)
        /\ \A o, d : (c \in ChargedTo(o, d))' <=> pc[c] # "admitting" /\ c \in ChargedTo(o, d)
    <3>1. CASE TurnAway(c)
      BY <3>1 DEF TurnAway, GoTo, Forget, Locking, AccountDue, ChargedTo, Types
    <3>2. CASE Answer(c)
      BY <1>0, <3>2 DEF Answer, GoTo, Locking, AccountDue, ChargedTo, Types, SeenExplained
    <3>3. CASE Lose(c)
      BY <3>3 DEF Lose, GoTo, Forget, Locking, AccountDue, ChargedTo, Types
    <3>4. CASE SettlePlanner(c)
      <4>1. pc' = [pc EXCEPT ![c] = "settled"] \/ pc' = [pc EXCEPT ![c] = "late"]
        BY <3>4 DEF SettlePlanner, SettleLease, GoTo
      <4> QED
        BY <1>0, <3>4, <4>1
        DEF SettlePlanner, callVars, Locking, AccountDue, ChargedTo, Types, SeenExplained
    <3> QED
      BY <1>3, <3>1, <3>2, <3>3, <3>4
  <2>3. ASSUME NEW o, NEW d, NEW lost PROVE SpentBy(o, d, lost)' = SpentBy(o, d, lost)
    <3>1. ChargedTo(o, d)' = ChargedTo(o, d)
      BY <2>1, <2>2 DEF ChargedTo
    <3>2. \A e \in Calls \ {c} : AccountDue(lost)'[e] = AccountDue(lost)[e]
      BY <2>1 DEF AccountDue, Known
    <3>3. \A e \in ChargedTo(o, d) : AccountDue(lost)'[e] = AccountDue(lost)[e]
      BY <2>2, <3>2 DEF ChargedTo
    <3> QED
      BY <3>1, <3>3, SpentSame
  <2>4. SpentKept
    BY <2>3 DEF SpentKept
  <2>5. ASSUME NEW e \in Calls \ {c}
        PROVE  \/ Locking(e)' /\ pc'[e] = pc[e] /\ day'[e] = day[e] /\ seen'[e] = seen[e]
               \/ ~Locking(e)' /\ seen'[e] = 0
    BY <1>0, <2>1 DEF Locking, SeenExplained
  <2> QED
    BY <2>1, <2>2, <2>4, <2>5, AccountQuiet
<1>4. ASSUME NEW c \in Calls, BeginSettle(c) PROVE AccountInv'
  <2>1. /\ pc[c] = "answered" /\ pc' = [pc EXCEPT ![c] = "settling"] /\ result' = result /\ day' = day
        /\ c \in Drafts /\ GoTo(c, "settling") /\ ~AccountLocked(Owner(c)) /\ usage' = usage
        /\ seen' = [seen EXCEPT ![c] = usage[Owner(c)][day'[c]]]
    BY <1>4 DEF BeginSettle, GoTo
  <2>2. ASSUME NEW o, NEW d, NEW lost PROVE SpentBy(o, d, lost)' = SpentBy(o, d, lost)
    <3>1. ChargedTo(o, d)' = ChargedTo(o, d)
      BY <2>1 DEF ChargedTo, Types
    <3>2. \A e \in ChargedTo(o, d) : AccountDue(lost)'[e] = AccountDue(lost)[e]
      BY <2>1 DEF ChargedTo, AccountDue, Types, Known
    <3> QED
      BY <3>1, <3>2, SpentSame
  <2>3. SpentKept
    BY <2>2 DEF SpentKept
  <2> QED
    BY <1>0, <2>1, <2>3, AccountRead
<1>5. ASSUME NEW c \in Calls, SettleModel(c) PROVE AccountInv'
  <2> DEFINE change == Charge(c) - Tokens(c)
  <2>1. change \in Int
    BY ChargeFits
  <2>2. pc[c] = "settling" /\ c \in Drafts /\ seen[c] \in Int
    BY <1>0, <1>5 DEF SettleModel, SeenExplained, Types
  <2>3. pc' = [pc EXCEPT ![c] = "settled"] \/ pc' = [pc EXCEPT ![c] = "late"]
    BY <1>5 DEF SettleModel, SettleLease, GoTo
  <2>4. /\ Locking(c) /\ ~Locking(c)' /\ Forget(c) /\ day' = day
        /\ \A e \in Calls \ {c} : pc'[e] = pc[e]
    BY <1>5, <2>2, <2>3 DEF SettleModel, Locking, Types
  <2>5. \A o \in Accounts, d \in Days, lost \in SUBSET Bare :
          SpentBy(o, d, lost \ {c})' =
            SpentBy(o, d, lost) + (IF o = Owner(c) /\ d = day[c] THEN change ELSE 0)
    <3>1. SettleLease(c) /\ day' = day /\ result' = result
      BY <1>5 DEF SettleModel
    <3>2. pc[c] \in {"answered", "settling"} /\ c \in Drafts \union Bare
      BY <2>2
    <3>3. ASSUME NEW o \in Accounts, NEW d \in Days, NEW lost \in SUBSET Bare
          PROVE  SpentBy(o, d, lost \ {c})' =
                   SpentBy(o, d, lost) + (IF o = Owner(c) /\ d = day[c] THEN change ELSE 0)
      <4>1. CASE o = Owner(c) /\ d = day[c]
        <5>1. SpentBy(o, d, lost \ {c})' = SpentBy(o, d, lost) + (Charge(c) - Tokens(c))
          BY <3>1, <3>2, <4>1, SpentBySettlement
        <5> QED
          BY <4>1, <5>1
      <4>2. CASE ~(o = Owner(c) /\ d = day[c])
        <5>1. SpentBy(o, d, lost \ {c})' = SpentBy(o, d, lost)
          BY <3>1, <3>2, <4>2, SettledElsewhere
        <5> QED
          BY <4>2, <5>1, SpentNat
      <4> QED
        BY <4>1, <4>2
    <3> QED
      BY <3>3
  <2>6. Charge(c) \in Int /\ Tokens(c) \in Int
    BY ChargeFits
  <2>7. SetUsage(c, seen[c] + change)
    <3>1. seen[c] + Charge(c) - Tokens(c) = seen[c] + change
      BY <2>2, <2>6
    <3>2. SetUsage(c, seen[c] + Charge(c) - Tokens(c))
      BY <1>5 DEF SettleModel
    <3> HIDE DEF change
    <3> QED
      BY <3>1, <3>2
  <2> HIDE DEF change
  <2> QED
    BY <2>1, <2>4, <2>5, <2>7, AccountWritten
<1>6. ASSUME NEW c \in Bare, SettleBare(c) PROVE AccountInv'
  <2> DEFINE change == Charge(c) - Tokens(c)
  <2>0. c \in Calls
    BY KindAssumption
  <2>1. change \in Int
    BY <2>0, ChargeFits
  <2>2. pc[c] = "answered" /\ seen' = seen /\ day' = day /\ result' = result
    BY <1>6 DEF SettleBare, callVars
  <2>3. pc' = [pc EXCEPT ![c] = "settled"] \/ pc' = [pc EXCEPT ![c] = "late"]
    BY <1>6 DEF SettleBare, SettleLease, GoTo
  <2>4. ~Locking(c) /\ ~Locking(c)' /\ \A e \in Calls \ {c} : pc'[e] = pc[e]
    BY <2>0, <2>2, <2>3 DEF Locking, Types
  <2>5. \A o \in Accounts, d \in Days, lost \in SUBSET Bare :
          /\ SpentBy(o, d, lost \ {c})' =
               SpentBy(o, d, lost) + (IF o = Owner(c) /\ d = day[c] THEN change ELSE 0)
          /\ SpentBy(o, d, lost \union {c})' = SpentBy(o, d, lost)
    <3>1. SettleLease(c) /\ day' = day /\ result' = result
      BY <1>6, <2>2 DEF SettleBare
    <3>2. pc[c] \in {"answered", "settling"} /\ c \in Drafts \union Bare
      BY <2>2
    <3>3. ASSUME NEW o \in Accounts, NEW d \in Days, NEW lost \in SUBSET Bare
          PROVE  /\ SpentBy(o, d, lost \ {c})' =
                      SpentBy(o, d, lost) + (IF o = Owner(c) /\ d = day[c] THEN change ELSE 0)
                 /\ SpentBy(o, d, lost \union {c})' = SpentBy(o, d, lost)
      <4>1. SpentBy(o, d, lost \union {c})' = SpentBy(o, d, lost)
        BY <2>0, <3>1, <3>2, SettlementLost
      <4>2. CASE o = Owner(c) /\ d = day[c]
        <5>1. SpentBy(o, d, lost \ {c})' = SpentBy(o, d, lost) + (Charge(c) - Tokens(c))
          BY <2>0, <3>1, <3>2, <4>2, SpentBySettlement
        <5> QED
          BY <4>1, <4>2, <5>1
      <4>3. CASE ~(o = Owner(c) /\ d = day[c])
        <5>1. SpentBy(o, d, lost \ {c})' = SpentBy(o, d, lost)
          BY <2>0, <3>1, <3>2, <4>3, SettledElsewhere
        <5> QED
          BY <4>1, <4>3, <5>1, SpentNat
      <4> QED
        BY <4>2, <4>3
    <3> QED
      BY <3>3
  <2>6. Charge(c) \in Int /\ Tokens(c) \in Int /\ usage[Owner(c)][day[c]] \in Int
    <3>1. Owner(c) \in Accounts /\ day[c] \in Days
      BY <2>0, ConstantsHold DEF Constants, Types
    <3>2. usage[Owner(c)] \in [Days -> Int]
      BY <3>1 DEF Types
    <3>3. Charge(c) \in Int /\ Tokens(c) \in Int
      BY <2>0, ChargeFits
    <3> QED
      BY <3>1, <3>2, <3>3
  <2>7. SetUsage(c, usage[Owner(c)][day[c]] + change)
    <3>1. usage[Owner(c)][day[c]] + Charge(c) - Tokens(c) = usage[Owner(c)][day[c]] + change
      BY <2>6
    <3>2. SetUsage(c, usage[Owner(c)][day[c]] + Charge(c) - Tokens(c))
      BY <1>6 DEF SettleBare
    <3> HIDE DEF change
    <3> QED
      BY <3>1, <3>2
  <2> HIDE DEF change
  <2> QED
    BY <2>1, <2>2, <2>4, <2>5, <2>7, AccountUnlocked
<1>7. ASSUME TimePasses \/ UNCHANGED vars PROVE AccountInv'
  <2>1. usage' = usage /\ pc' = pc /\ day' = day /\ seen' = seen /\ result' = result
    BY <1>7 DEF TimePasses, Snapshot, Midnight, Expire, callVars, vars
  <2>2. ASSUME NEW o, NEW d, NEW lost PROVE SpentBy(o, d, lost)' = SpentBy(o, d, lost)
    <3>1. ChargedTo(o, d)' = ChargedTo(o, d)
      BY <2>1 DEF ChargedTo
    <3>2. \A e \in ChargedTo(o, d) : AccountDue(lost)'[e] = AccountDue(lost)[e]
      BY <2>1 DEF ChargedTo, AccountDue, Known
    <3> QED
      BY <3>1, <3>2, SpentSame
  <2>3. SpentKept
    BY <2>2 DEF SpentKept
  <2>4. ASSUME NEW e \in Calls
        PROVE  \/ Locking(e)' /\ pc'[e] = pc[e] /\ day'[e] = day[e] /\ seen'[e] = seen[e]
               \/ ~Locking(e)' /\ seen'[e] = 0
    BY <1>0, <2>1 DEF Locking, SeenExplained
  <2> QED
    BY <2>1, <2>3, <2>4, AccountQuiet
<1>8. \A c \in Calls : SettleBare(c) => c \in Bare
  BY DEF SettleBare
<1> QED
  BY <1>1, <1>2, <1>3, <1>4, <1>5, <1>6, <1>7, <1>8
  DEF Next, AdmissionStep, CallStep, SettlementStep

LEMMA AccountInit == Init => StartedFinite /\ AccountInv
<1> SUFFICES ASSUME Init PROVE StartedFinite /\ AccountInv
  OBVIOUS
<1>1. Started = {} /\ \A o, d : ChargedTo(o, d) = {}
  BY DEF Init, Started, ChargedTo
<1>2. \A o, d, lost : SpentBy(o, d, lost) = 0
  BY <1>1, FS_EmptySet, SumPick, SpentIs
<1>3. \A o \in Accounts, d \in Days : usage[o][d] = 0
  BY DEF Init
<1> QED
  BY <1>1, <1>2, <1>3, FS_EmptySet, LimitAssumption
     DEF Init, StartedFinite, AccountInv, OneHolder, UsageExplained, SeenExplained, Locking

\* The usage of an account never goes below zero, whatever order it is settled
\* in, and the other variables have their types.
THEOREM CapacityTypes == Spec => []TypeOK
<1>1. Init => Types /\ StartedFinite /\ AccountInv
  BY TypesInit, AccountInit
<1>2. Types /\ StartedFinite /\ AccountInv /\ [Next]_vars => (Types /\ StartedFinite /\ AccountInv)'
  BY TypesStep, StartedStep, AccountStep
<1>3. Types /\ StartedFinite /\ AccountInv => TypeOK
  <2> SUFFICES ASSUME Types, StartedFinite, AccountInv PROVE TypeOK
    OBVIOUS
  <2>1. \A o \in Accounts, d \in Days : usage[o][d] \in Nat
    BY SpentNat DEF AccountInv, UsageExplained
  <2>2. \A c \in Calls : seen[c] \in Nat
    <3>1. ASSUME NEW c \in Calls, Locking(c) PROVE seen[c] \in Nat
      <4>1. PICK o \in Accounts, d \in Days : o = Owner(c) /\ d = day[c]
        BY ConstantsHold DEF Constants, Types
      <4>2. PICK lost \in SUBSET Bare : seen[c] = SpentBy(o, d, lost)
        BY <3>1, <4>1 DEF AccountInv, SeenExplained
      <4> QED
        BY <4>2, SpentNat
    <3> QED
      BY <3>1 DEF AccountInv, SeenExplained
  <2> QED
    BY <2>1, <2>2 DEF Types, TypeOK, States
<1> QED
  BY <1>1, <1>2, <1>3, PTL DEF Spec

\* Whatever the provider reports, and also when calls share a lease, the usage
\* of an account is exactly what its calls cost, but for settlements made
\* without the account's lock (settle_model, and _settle of the model services).
THEOREM OnlyUnlockedIsLost == Spec => []UsageExplained
BY TypesInit, AccountInit, TypesStep, StartedStep, AccountStep, PTL DEF Spec, AccountInv

-----------------------------------------------------------------------------
(* The budget of an account *)

\* What the holder of the lock will write is within the budget, up to what was
\* reported above the reservations.
Planned(c) == IF pc[c] = "admitting" THEN seen[c] + Tokens(c) ELSE seen[c]
BudgetInv ==
  /\ \A o \in Accounts, d \in Days : usage[o][d] <= AccountBudget + Overrun(o, d)
  /\ \A c \in Calls : Locking(c) =>
       \A o \in Accounts, d \in Days :
         o = Owner(c) /\ d = day[c] => Planned(c) <= AccountBudget + Overrun(o, d)

\* A call that is charged stays so, and a settlement is final.
LEMMA CallKept ==
  ASSUME Types, [Next]_vars, NEW c \in Calls, pc[c] \notin {"idle", "admitting"}
  PROVE  /\ day'[c] = day[c] /\ pc'[c] \notin {"idle", "admitting"}
         /\ pc[c] \in {"settled", "late"} => pc'[c] = pc[c] /\ result'[c] = result[c]
<1> DEFINE Kept == /\ day'[c] = day[c] /\ pc'[c] \notin {"idle", "admitting"}
                   /\ pc[c] \in {"settled", "late"} => pc'[c] = pc[c] /\ result'[c] = result[c]
<1>1. ASSUME NEW e \in Calls, Reserve(e) \/ Admit(e) \/ TurnAway(e) PROVE Kept
  BY <1>1 DEF Reserve, Admit, TurnAway, GoTo, Types
<1>2. ASSUME NEW e \in Calls, Answer(e) \/ Lose(e) \/ BeginSettle(e) PROVE Kept
  BY <1>2 DEF Answer, Lose, BeginSettle, GoTo, Types
<1>3. ASSUME NEW e \in Calls, SettleModel(e) \/ SettleBare(e) \/ SettlePlanner(e) PROVE Kept
  <2>1. pc[e] \in {"answered", "settling"} /\ day' = day /\ result' = result /\ SettleLease(e)
    BY <1>3 DEF SettleModel, SettleBare, SettlePlanner, callVars
  <2>2. pc' = [pc EXCEPT ![e] = "settled"] \/ pc' = [pc EXCEPT ![e] = "late"]
    BY <2>1 DEF SettleLease, GoTo
  <2> QED
    BY <2>1, <2>2 DEF Types
<1>4. ASSUME TimePasses \/ UNCHANGED vars PROVE Kept
  BY <1>4 DEF TimePasses, Snapshot, Midnight, Expire, callVars, vars
<1> QED
  BY <1>1, <1>2, <1>3, <1>4 DEF Next, AdmissionStep, CallStep, SettlementStep

LEMMA ExcessIs ==
  ASSUME Types, NEW c \in Calls
  PROVE  /\ Excess[c] \in Nat
         /\ pc[c] \notin {"settled", "late"} => Excess[c] = 0
<1>1. AccountDue({})[c] \in Nat /\ Tokens(c) \in Nat
  BY DueType, ChargeFits
<1>2. pc[c] \notin {"settled", "late"} => AccountDue({})[c] = Tokens(c)
  BY DEF AccountDue
<1> HIDE DEF AccountDue
<1>3. Excess[c] = IF AccountDue({})[c] > Tokens(c) THEN AccountDue({})[c] - Tokens(c) ELSE 0
  BY DEF Excess
<1> QED
  BY <1>1, <1>2, <1>3

LEMMA ExcessNat == Types => \A c \in Calls : Excess[c] \in Nat
BY ExcessIs
LEMMA ExcessNatNext == (Types => \A c \in Calls : Excess[c] \in Nat)'
BY ExcessNat, PTL

LEMMA OverrunIs ==
  ASSUME NEW o, NEW d
  PROVE  /\ Overrun(o, d) = SumFunctionOnSet(Excess, ChargedTo(o, d))
         /\ Overrun(o, d)' = SumFunctionOnSet(Excess', ChargedTo(o, d)')
BY DEF Overrun

LEMMA OverrunType ==
  Types /\ StartedFinite => \A o \in Accounts, d \in Days : Overrun(o, d) \in Nat
<1> SUFFICES ASSUME Types, StartedFinite, NEW o \in Accounts, NEW d \in Days
             PROVE  Overrun(o, d) \in Nat
  OBVIOUS
<1>1. IsFiniteSet(ChargedTo(o, d)) /\ \A c \in ChargedTo(o, d) : Excess[c] \in Nat
  BY SpentType, ExcessNat DEF ChargedTo
<1>2. SumFunctionOnSet(Excess, {}) <= Overrun(o, d)
  BY <1>1, SumMonotone, OverrunIs
<1>3. SumFunctionOnSet(Excess, {}) = 0
  BY FS_EmptySet, SumPick
<1>4. Overrun(o, d) \in Int
  BY <1>1, SumType, OverrunIs
<1> QED
  BY <1>2, <1>3, <1>4

LEMMA OverrunTypeNext ==
  (Types /\ StartedFinite => \A o \in Accounts, d \in Days : Overrun(o, d) \in Nat)'
BY OverrunType, PTL

\* What was reported above the reservations is never taken back ...
LEMMA OverrunGrows ==
  ASSUME Types, StartedFinite, [Next]_vars, NEW o, NEW d
  PROVE  Overrun(o, d) <= Overrun(o, d)'
<1>0. Types' /\ StartedFinite'
  BY TypesStep, StartedStep
<1>1. ChargedTo(o, d) \subseteq ChargedTo(o, d)'
  BY CallKept DEF ChargedTo
<1>2. ASSUME NEW c \in ChargedTo(o, d) PROVE Excess[c] \in Int /\ Excess[c] <= Excess'[c]
  <2>1. c \in Calls /\ pc[c] \notin {"idle", "admitting"} /\ Excess[c] \in Nat /\ Excess'[c] \in Nat
    BY <1>0, ExcessNat, ExcessNatNext DEF ChargedTo
  <2>2. CASE pc[c] \in {"settled", "late"}
    <3>1. pc'[c] = pc[c] /\ result'[c] = result[c]
      BY <2>1, <2>2, CallKept
    <3>2. Excess'[c] = Excess[c]
      BY <2>1, <3>1 DEF Excess, AccountDue, Known
    <3> QED
      BY <2>1, <3>2
  <2>3. CASE pc[c] \notin {"settled", "late"}
    BY <2>1, <2>3, ExcessIs
  <2> QED
    BY <2>2, <2>3
<1>3. IsFiniteSet(ChargedTo(o, d)')
  <2>1. ChargedTo(o, d)' \subseteq Started'
    BY DEF ChargedTo, Started
  <2> QED
    BY <1>0, <2>1, FS_Subset DEF StartedFinite
<1>4. \A c \in ChargedTo(o, d)' : Excess'[c] \in Nat
  BY <1>0, ExcessNatNext DEF ChargedTo
<1> QED
  BY <1>1, <1>2, <1>3, <1>4, SumMonotone, OverrunIs

\* ... and a settlement adds what it charges above the reservation.
LEMMA OverrunBySettlement ==
  ASSUME Types, StartedFinite, Types', NEW c \in Calls, SettleLease(c),
         pc[c] \in {"answered", "settling"}, c \in Drafts \union Bare,
         UNCHANGED <<day, result>>, NEW o, NEW d, o = Owner(c), d = day[c]
  PROVE  Overrun(o, d) + (Charge(c) - Tokens(c)) <= Overrun(o, d)'
<1> DEFINE S == ChargedTo(o, d)
<1>1. pc' = [pc EXCEPT ![c] = "settled"] \/ pc' = [pc EXCEPT ![c] = "late"]
  BY DEF SettleLease, GoTo
<1>2. S' = S /\ c \in S /\ S \subseteq Calls
  BY <1>1 DEF ChargedTo, Types
<1>3. \A e \in S \ {c} : Excess[e] = Excess'[e]
  BY <1>1 DEF Excess, AccountDue, ChargedTo, Types, Known
<1>4. IsFiniteSet(S)
  BY SpentType
<1>5. \A e \in S : Excess[e] \in Int /\ Excess'[e] \in Int
  BY <1>2, ExcessNat, ExcessNatNext
<1>6. Excess[c] = 0 /\ Excess'[c] \in Int /\ Charge(c) - Tokens(c) <= Excess'[c]
  <2>1. Charge(c) \in Nat /\ Tokens(c) \in Nat
    BY ChargeFits
  <2>2. AccountDue({})'[c] = Charge(c)
    BY <1>1 DEF AccountDue, Charge, Types, Known
  <2>3. Excess'[c] = IF AccountDue({})'[c] > Tokens(c) THEN AccountDue({})'[c] - Tokens(c) ELSE 0
    BY DEF Excess
  <2>4. Excess[c] = 0
    BY ExcessIs
  <2> QED
    BY <2>1, <2>2, <2>3, <2>4
<1>7. Overrun(o, d) = SumFunctionOnSet(Excess, S) /\ Overrun(o, d)' = SumFunctionOnSet(Excess', S')
  BY OverrunIs
<1> HIDE DEF S
<1>8. SumFunctionOnSet(Excess', S) = SumFunctionOnSet(Excess, S) + Excess'[c] - Excess[c]
  BY <1>2, <1>3, <1>4, <1>5, SumChange
<1>9. SumFunctionOnSet(Excess, S) \in Int /\ Charge(c) - Tokens(c) \in Int
  BY <1>4, <1>5, SumType, ChargeFits
<1> QED
  BY <1>2, <1>6, <1>7, <1>8, <1>9

\* The usage of an account is written, and its row unlocked.
LEMMA BudgetWritten ==
  ASSUME Types, StartedFinite, BudgetInv, [Next]_vars, NEW c \in Calls,
         NEW tokens \in Int, SetUsage(c, tokens), ~Locking(c)', day' = day,
         \A e \in Calls \ {c} : pc'[e] = pc[e] /\ seen'[e] = seen[e],
         \A o \in Accounts, d \in Days :
           o = Owner(c) /\ d = day[c] => tokens <= AccountBudget + Overrun(o, d)'
  PROVE  BudgetInv'
<1>0. /\ \A o \in Accounts, d \in Days :
           /\ Overrun(o, d) \in Int /\ Overrun(o, d)' \in Int /\ usage[o][d] \in Int
           /\ Overrun(o, d) <= Overrun(o, d)'
      /\ AccountBudget \in Int /\ Owner(c) \in Accounts /\ day[c] \in Days
      /\ \A e \in Calls : Tokens(e) \in Int /\ seen[e] \in Int
  <2>1. \A o \in Accounts, d \in Days : Overrun(o, d) \in Int
    BY OverrunType
  <2>2. \A o \in Accounts, d \in Days : Overrun(o, d)' \in Int
    BY OverrunTypeNext, TypesStep, StartedStep
  <2> QED
    BY <2>1, <2>2, OverrunGrows, ConstantsHold, LimitAssumption DEF Constants, Types
<1>1. ASSUME NEW o \in Accounts, NEW d \in Days
      PROVE  usage'[o][d] <= AccountBudget + Overrun(o, d)'
  <2>1. CASE o = Owner(c) /\ d = day[c]
    BY <1>0, <2>1 DEF SetUsage, Types
  <2>2. CASE ~(o = Owner(c) /\ d = day[c])
    <3>1. usage'[o][d] = usage[o][d]
      BY <1>0, <2>2 DEF SetUsage, Types
    <3>2. usage[o][d] <= AccountBudget + Overrun(o, d)
      BY DEF BudgetInv
    <3> QED
      BY <1>0, <3>1, <3>2
  <2> QED
    BY <2>1, <2>2
<1>2. ASSUME NEW e \in Calls, Locking(e)', NEW o \in Accounts, NEW d \in Days,
             o = Owner(e), d = day'[e]
      PROVE  Planned(e)' <= AccountBudget + Overrun(o, d)'
  <2>1. Locking(e) /\ Planned(e)' = Planned(e) /\ d = day[e] /\ Planned(e) \in Int
    BY <1>0, <1>2 DEF Locking, Planned
  <2>2. Planned(e) <= AccountBudget + Overrun(o, d)
    BY <1>2, <2>1 DEF BudgetInv
  <2> QED
    BY <1>0, <2>1, <2>2
<1> QED
  BY <1>1, <1>2 DEF BudgetInv

LEMMA BudgetStep ==
  ASSUME Types, StartedFinite, AccountInv, BudgetInv, [Next]_vars
  PROVE  BudgetInv'
<1>0. /\ \A o \in Accounts, d \in Days :
           /\ Overrun(o, d) \in Nat /\ Overrun(o, d)' \in Nat /\ usage[o][d] \in Int
           /\ Overrun(o, d) <= Overrun(o, d)'
           /\ usage[o][d] <= AccountBudget + Overrun(o, d)
      /\ \A c \in Calls : /\ seen[c] \in Int /\ day[c] \in Days
                         /\ Owner(c) \in Accounts /\ Tokens(c) \in Nat
      /\ AccountBudget \in Int /\ today \in Days
  <2>1. \A o \in Accounts, d \in Days : Overrun(o, d) \in Nat
    BY OverrunType
  <2>2. \A o \in Accounts, d \in Days : Overrun(o, d)' \in Nat
    BY OverrunTypeNext, TypesStep, StartedStep
  <2> QED
    BY <2>1, <2>2, OverrunGrows, ConstantsHold, LimitAssumption DEF BudgetInv, Types, Constants
<1>1. ASSUME usage' = usage,
             \A c \in Calls : Locking(c)' =>
               \/ pc'[c] = pc[c] /\ seen'[c] = seen[c] /\ day'[c] = day[c]
               \/ \A o \in Accounts, d \in Days :
                    o = Owner(c) /\ d = day'[c] => Planned(c)' <= AccountBudget + Overrun(o, d)'
      PROVE  BudgetInv'
  <2>1. ASSUME NEW c \in Calls, Locking(c)', NEW o \in Accounts, NEW d \in Days,
               o = Owner(c), d = day'[c]
        PROVE  Planned(c)' <= AccountBudget + Overrun(o, d)'
    <3>1. CASE pc'[c] = pc[c] /\ seen'[c] = seen[c] /\ day'[c] = day[c]
      <4>1. Locking(c) /\ Planned(c)' = Planned(c) /\ d = day[c] /\ Planned(c) \in Int
        BY <1>0, <2>1, <3>1 DEF Locking, Planned
      <4>2. Planned(c) <= AccountBudget + Overrun(o, d)
        BY <2>1, <4>1 DEF BudgetInv
      <4> QED
        BY <1>0, <4>1, <4>2
    <3> QED
      BY <1>1, <2>1, <3>1
  <2>2. \A o \in Accounts, d \in Days : usage'[o][d] <= AccountBudget + Overrun(o, d)'
    BY <1>0, <1>1
  <2> QED
    BY <2>1, <2>2 DEF BudgetInv
<1>2. ASSUME NEW c \in Calls, Reserve(c) PROVE BudgetInv'
  <2>1. /\ usage' = usage /\ seen'[c] = usage[Owner(c)][today] /\ pc'[c] = "admitting"
        /\ usage[Owner(c)][today] + Tokens(c) <= AccountBudget
        /\ \A e \in Calls \ {c} : pc'[e] = pc[e] /\ seen'[e] = seen[e] /\ day'[e] = day[e]
    BY <1>2 DEF Reserve, GoTo, Types
  <2>2. Planned(c)' <= AccountBudget /\ Planned(c)' \in Int
    BY <1>0, <2>1 DEF Planned
  <2>3. \A o \in Accounts, d \in Days : Planned(c)' <= AccountBudget + Overrun(o, d)'
    BY <1>0, <2>2
  <2> QED
    BY <1>1, <2>1, <2>3
<1>3. ASSUME NEW c \in Calls, Admit(c) PROVE BudgetInv'
  <2>1. /\ SetUsage(c, seen[c] + Tokens(c)) /\ pc[c] = "admitting" /\ pc'[c] = "running" /\ day' = day
        /\ \A e \in Calls \ {c} : pc'[e] = pc[e] /\ seen'[e] = seen[e]
    BY <1>3 DEF Admit, GoTo, Forget, Types
  <2>2. seen[c] + Tokens(c) \in Int
    BY <1>0
  <2>3. ASSUME NEW o \in Accounts, NEW d \in Days, o = Owner(c), d = day[c]
        PROVE  seen[c] + Tokens(c) <= AccountBudget + Overrun(o, d)'
    <3>1. Planned(c) <= AccountBudget + Overrun(o, d)
      BY <2>1, <2>3 DEF BudgetInv, Locking
    <3> QED
      BY <1>0, <2>1, <2>2, <3>1 DEF Planned
  <2>4. ~Locking(c)'
    BY <2>1 DEF Locking
  <2> QED
    BY <2>1, <2>2, <2>3, <2>4, BudgetWritten
<1>4. ASSUME NEW c \in Calls, TurnAway(c) \/ Answer(c) \/ Lose(c) \/ SettlePlanner(c)
      PROVE  BudgetInv'
  <2>1. /\ usage' = usage /\ pc'[c] \notin {"admitting", "settling"}
        /\ \A e \in Calls \ {c} : pc'[e] = pc[e] /\ seen'[e] = seen[e] /\ day'[e] = day[e]
    BY <1>4
    DEF TurnAway, Answer, Lose, SettlePlanner, SettleLease, GoTo, Forget, callVars, Types
  <2> QED
    BY <1>1, <2>1 DEF Locking
<1>5. ASSUME NEW c \in Calls, BeginSettle(c) PROVE BudgetInv'
  <2>1. /\ usage' = usage /\ seen'[c] = usage[Owner(c)][day[c]] /\ pc'[c] = "settling" /\ day' = day
        /\ \A e \in Calls \ {c} : pc'[e] = pc[e] /\ seen'[e] = seen[e] /\ day'[e] = day[e]
    BY <1>5 DEF BeginSettle, GoTo, Types
  <2>2. ASSUME NEW o \in Accounts, NEW d \in Days, o = Owner(c), d = day'[c]
        PROVE  Planned(c)' <= AccountBudget + Overrun(o, d)'
    BY <1>0, <2>1, <2>2 DEF Planned
  <2> QED
    BY <1>1, <2>1, <2>2
<1>6. ASSUME NEW c \in Calls, SettleModel(c) PROVE BudgetInv'
  <2>1. /\ SetUsage(c, seen[c] + Charge(c) - Tokens(c)) /\ pc'[c] \in {"settled", "late"}
        /\ pc[c] = "settling" /\ c \in Drafts /\ SettleLease(c) /\ UNCHANGED <<day, result>>
        /\ \A e \in Calls \ {c} : pc'[e] = pc[e] /\ seen'[e] = seen[e]
    <3>1. /\ SetUsage(c, seen[c] + Charge(c) - Tokens(c)) /\ SettleLease(c) /\ Forget(c)
          /\ pc[c] = "settling" /\ UNCHANGED <<day, result>>
      BY <1>6 DEF SettleModel
    <3>2. c \in Drafts
      BY <3>1 DEF AccountInv, SeenExplained
    <3> QED
      BY <3>1, <3>2 DEF SettleLease, GoTo, Forget, Types
  <2>2. Charge(c) \in Int /\ Tokens(c) \in Int /\ seen[c] + Charge(c) - Tokens(c) \in Int
    BY <1>0, ChargeFits
  <2>3. ASSUME NEW o \in Accounts, NEW d \in Days, o = Owner(c), d = day[c]
        PROVE  seen[c] + Charge(c) - Tokens(c) <= AccountBudget + Overrun(o, d)'
    <3>1. seen[c] <= AccountBudget + Overrun(o, d)
      BY <2>1, <2>3 DEF BudgetInv, Locking, Planned
    <3>2. Overrun(o, d) + (Charge(c) - Tokens(c)) <= Overrun(o, d)'
      BY <2>1, <2>3, TypesStep, OverrunBySettlement
    <3> QED
      BY <1>0, <2>2, <3>1, <3>2
  <2>4. ~Locking(c)' /\ day' = day
    BY <2>1 DEF Locking
  <2> QED
    BY <2>1, <2>2, <2>3, <2>4, BudgetWritten
<1>7. ASSUME NEW c \in Calls, SettleBare(c) PROVE BudgetInv'
  <2> DEFINE read == usage[Owner(c)][day[c]]
  <2>1. /\ SetUsage(c, read + Charge(c) - Tokens(c)) /\ pc'[c] \in {"settled", "late"}
        /\ pc[c] = "answered" /\ c \in Bare /\ SettleLease(c) /\ UNCHANGED <<day, result>>
        /\ \A e \in Calls \ {c} : pc'[e] = pc[e] /\ seen'[e] = seen[e]
    BY <1>7 DEF SettleBare, SettleLease, GoTo, callVars, Types
  <2>2. read \in Int
    BY <1>0
  <2>3. \A o \in Accounts, d \in Days :
          o = Owner(c) /\ d = day[c] => read <= AccountBudget + Overrun(o, d)
    BY <1>0
  <2> HIDE DEF read
  <2>4. Charge(c) \in Int /\ Tokens(c) \in Int /\ read + Charge(c) - Tokens(c) \in Int
    BY <2>2, ChargeFits
  <2>5. ASSUME NEW o \in Accounts, NEW d \in Days, o = Owner(c), d = day[c]
        PROVE  read + Charge(c) - Tokens(c) <= AccountBudget + Overrun(o, d)'
    <3>1. Overrun(o, d) + (Charge(c) - Tokens(c)) <= Overrun(o, d)'
      BY <2>1, <2>5, TypesStep, OverrunBySettlement
    <3>2. read <= AccountBudget + Overrun(o, d)
      BY <2>3, <2>5
    <3> QED
      BY <1>0, <2>2, <2>4, <3>1, <3>2
  <2>6. ~Locking(c)' /\ day' = day
    BY <2>1 DEF Locking
  <2> QED
    BY <2>1, <2>4, <2>5, <2>6, BudgetWritten
<1>8. ASSUME TimePasses \/ UNCHANGED vars PROVE BudgetInv'
  <2>1. UNCHANGED <<usage, pc, seen, day>>
    BY <1>8 DEF TimePasses, Snapshot, Midnight, Expire, callVars, vars
  <2> QED
    BY <1>1, <2>1
<1> QED
  BY <1>2, <1>3, <1>4, <1>5, <1>6, <1>7, <1>8
  DEF Next, AdmissionStep, CallStep, SettlementStep

LEMMA BudgetInit == Init => BudgetInv
<1> SUFFICES ASSUME Init PROVE BudgetInv
  OBVIOUS
<1>1. \A o \in Accounts, d \in Days : Overrun(o, d) \in Nat
  BY OverrunType, TypesInit, AccountInit
<1> QED
  BY <1>1, LimitAssumption DEF Init, BudgetInv, Locking

-----------------------------------------------------------------------------
(* What the provider is charged *)

\* A day without a row has allocated nothing.
ProviderInv ==
  /\ \A d \in Days \ tracked : provider[d] = 0
  /\ SumFunctionOnSet(ProviderDue, Charged) <= SumFunctionOnSet(provider, Days)

\* The sums exist.
LEMMA ProviderSums ==
  ASSUME Types, StartedFinite
  PROVE  /\ IsFiniteSet(Charged) /\ SumFunctionOnSet(ProviderDue, Charged) \in Int
         /\ SumFunctionOnSet(provider, Days) \in Int
<1>1. Charged \subseteq Started /\ Charged \subseteq Calls
  BY DEF Charged, Started
<1>2. IsFiniteSet(Charged)
  BY <1>1, FS_Subset DEF StartedFinite
<1>3. \A c \in Charged : ProviderDue[c] \in Int
  BY <1>1, DueType
<1>4. \A d \in Days : provider[d] \in Int
  BY DEF Types
<1>5. IsFiniteSet(Days)
  BY ConstantsHold DEF Constants
<1> QED
  BY <1>2, <1>3, <1>4, <1>5, SumType

\* The allocation of a day changes by an amount.
LEMMA AllocationChanges ==
  ASSUME Types, NEW d \in Days, NEW amount \in Int,
         provider' = [provider EXCEPT ![d] = amount]
  PROVE  SumFunctionOnSet(provider', Days) = SumFunctionOnSet(provider, Days) + amount - provider[d]
<1>1. /\ \A e \in Days : provider[e] \in Int /\ provider'[e] \in Int
      /\ \A e \in Days \ {d} : provider[e] = provider'[e]
      /\ provider'[d] = amount
  BY DEF Types
<1>2. IsFiniteSet(Days)
  BY ConstantsHold DEF Constants
<1>3. ASSUME NEW f, NEW e, \A y \in Days : f[y] \in Int /\ e[y] \in Int,
             \A y \in Days \ {d} : f[y] = e[y]
      PROVE  SumFunctionOnSet(e, Days) = SumFunctionOnSet(f, Days) + e[d] - f[d]
  BY <1>2, <1>3, SumChange
<1>4. SumFunctionOnSet(provider', Days)
        = SumFunctionOnSet(provider, Days) + provider'[d] - provider[d]
  BY <1>1, <1>3
<1> QED
  BY <1>1, <1>4

\* The other calls keep what is due from them.
LEMMA DueKept ==
  ASSUME Types, StartedFinite, NEW S, S \subseteq Charged,
         \A e \in S : ProviderDue'[e] = ProviderDue[e]
  PROVE  SumFunctionOnSet(ProviderDue', S) = SumFunctionOnSet(ProviderDue, S)
<1>1. IsFiniteSet(S)
  BY ProviderSums, FS_Subset
<1> QED
  BY <1>1, SumSame

LEMMA ProviderStep ==
  ASSUME OwnKeys, Types, LeaseInv, StartedFinite, ProviderInv, [Next]_vars
  PROVE  ProviderInv'
<1>0. Types' /\ StartedFinite'
  BY TypesStep, StartedStep
<1> DEFINE Same == /\ UNCHANGED <<tracked, provider>> /\ Charged' = Charged
                   /\ \A e \in Charged : ProviderDue'[e] = ProviderDue[e]
<1>1. ASSUME Same PROVE ProviderInv'
  <2>1. SumFunctionOnSet(ProviderDue', Charged) = SumFunctionOnSet(ProviderDue, Charged)
    BY <1>1, DueKept
  <2> QED
    BY <1>1, <2>1 DEF ProviderInv
<1>2. ASSUME NEW c \in Calls, Reserve(c) \/ TurnAway(c) \/ Answer(c) \/ Lose(c) \/ BeginSettle(c)
      PROVE  Same
  BY <1>2 DEF Reserve, TurnAway, Answer, Lose, BeginSettle, GoTo, allocationVars, Types,
     Charged, ProviderDue, Known
<1>3. ASSUME NEW c \in Calls, Admit(c) PROVE ProviderInv'
  <2>1. PICK now \in day[c] .. today, reaped \in SUBSET expired : Acquire(c, now, reaped)
    BY <1>3 DEF Admit
  <2>2. /\ pc[c] = "admitting" /\ pc' = [pc EXCEPT ![c] = "running"] /\ result' = result
        /\ KeyOf[c] \notin held /\ now \in Days
        /\ Tokens(c) = Reserved[KeyOf[c]] /\ Tokens(c) \in Nat
    BY SMTT(20), <1>3, <2>1, ConstantsHold, LimitAssumption
       DEF Constants, Admit, GoTo, LeaseInv, HolderSound, Types, Tokens, Days
  <2>3. /\ provider' = [provider EXCEPT ![now] = provider[now] + Tokens(c)]
        /\ tracked' = tracked \union {now}
    BY <2>1, <2>2 DEF Acquire, Types
  <2>4. provider[now] \in Int
    BY <2>2 DEF Types
  <2>5. SumFunctionOnSet(provider', Days) = SumFunctionOnSet(provider, Days) + Tokens(c)
    <3>1. provider[now] + Tokens(c) \in Int
      BY <2>2, <2>4
    <3>2. SumFunctionOnSet(provider', Days)
            = SumFunctionOnSet(provider, Days) + (provider[now] + Tokens(c)) - provider[now]
      BY <2>2, <2>3, <3>1, AllocationChanges
    <3> QED
      BY <2>2, <2>4, <3>2, ProviderSums
  <2>6. /\ Charged' = Charged \union {c} /\ c \notin Charged
        /\ ProviderDue'[c] = Tokens(c)
        /\ \A e \in Charged : ProviderDue'[e] = ProviderDue[e]
    BY <2>2 DEF Charged, ProviderDue, Types, Known
  <2>7. SumFunctionOnSet(ProviderDue', Charged') = Tokens(c) + SumFunctionOnSet(ProviderDue, Charged)
    <3>1. IsFiniteSet(Charged') /\ c \in Charged' /\ Charged' \ {c} = Charged
      BY <2>6, ProviderSums, FS_AddElement
    <3>2. \A e \in Charged' : ProviderDue'[e] \in Int
      BY <2>2, <2>6, DueType DEF Charged
    <3>3. SumFunctionOnSet(ProviderDue', Charged')
            = ProviderDue'[c] + SumFunctionOnSet(ProviderDue', Charged' \ {c})
      BY <3>1, <3>2, SumRemove
    <3> QED
      BY <2>6, <3>1, <3>3, DueKept
  <2>8. \A d \in Days \ tracked' : provider'[d] = 0
    BY <2>3 DEF ProviderInv, Types
  <2> QED
    BY <2>2, <2>5, <2>7, <2>8, ProviderSums DEF ProviderInv
<1>4. ASSUME NEW c \in Calls, SettleLease(c), pc[c] \in {"answered", "settling"}, result' = result
      PROVE  ProviderInv'
  <2>1. CASE KeyOf[c] \notin held
    <3>1. UNCHANGED <<tracked, provider>> /\ pc' = [pc EXCEPT ![c] = "late"]
      BY <1>4, <2>1 DEF SettleLease, GoTo, allocationVars
    <3>2. Same
      BY <1>4, <3>1 DEF Charged, ProviderDue, Types, Known
    <3> QED
      BY <1>1, <3>2
  <2>2. CASE KeyOf[c] \in held
    <3> DEFINE d == created[KeyOf[c]]
               allocated == IF d \in tracked THEN provider[d] ELSE Tokens(c)
    <3>1. /\ tracked' = tracked \union {d} /\ pc' = [pc EXCEPT ![c] = "settled"]
          /\ provider' = [provider EXCEPT ![d] = allocated + Charge(c) - Tokens(c)]
      BY <1>4, <2>2 DEF SettleLease, GoTo, Tokens
    <3>2. d \in Days /\ provider[d] \in Int /\ Charge(c) \in Int /\ Tokens(c) \in Nat
      <4>1. d \in Days
        BY ConstantsHold DEF Constants, Types
      <4>2. provider[d] \in Int
        BY <4>1 DEF Types
      <4> QED
        BY <4>1, <4>2, ChargeType, ConstantsHold DEF Constants
    <3>3. allocated \in Int /\ provider[d] <= allocated
      BY <3>2 DEF ProviderInv
    <3> HIDE DEF allocated, d
    <3>4. SumFunctionOnSet(provider', Days)
            = SumFunctionOnSet(provider, Days) + (allocated + Charge(c) - Tokens(c)) - provider[d]
      <4>1. allocated + Charge(c) - Tokens(c) \in Int
        BY <3>2, <3>3
      <4> QED
        BY <3>1, <3>2, <4>1, AllocationChanges
    <3>5. /\ Charged' = Charged /\ c \in Charged
          /\ ProviderDue[c] = Tokens(c) /\ ProviderDue'[c] = Charge(c)
          /\ \A e \in Charged \ {c} : ProviderDue[e] = ProviderDue'[e]
      BY <1>4, <3>1 DEF Charged, ProviderDue, Charge, Types, Known
    <3>6. \A e \in Charged : ProviderDue[e] \in Int
      BY DueType DEF Charged
    <3>7. \A e \in Charged : ProviderDue'[e] \in Int
      BY <3>2, <3>5, <3>6
    <3>8. SumFunctionOnSet(ProviderDue', Charged)
            = SumFunctionOnSet(ProviderDue, Charged) + ProviderDue'[c] - ProviderDue[c]
      BY <3>5, <3>6, <3>7, ProviderSums, SumChange
    <3>9. \A e \in Days \ tracked' : provider'[e] = 0
      BY <3>1 DEF ProviderInv, Types
    <3>10. SumFunctionOnSet(ProviderDue', Charged') <= SumFunctionOnSet(provider', Days)
      BY <3>2, <3>3, <3>4, <3>5, <3>8, ProviderSums DEF ProviderInv
    <3> QED
      BY <3>9, <3>10 DEF ProviderInv
  <2> QED
    BY <2>1, <2>2
<1>5. ASSUME NEW c \in Calls, SettleModel(c) \/ SettleBare(c) \/ SettlePlanner(c) PROVE ProviderInv'
  BY <1>4, <1>5 DEF SettleModel, SettleBare, SettlePlanner, callVars
<1>6. ASSUME TimePasses \/ UNCHANGED vars PROVE Same
  BY <1>6 DEF TimePasses, Snapshot, Midnight, Expire, allocationVars, callVars, vars,
     Charged, ProviderDue, Known
<1> QED
  BY <1>1, <1>2, <1>3, <1>5, <1>6 DEF Next, AdmissionStep, CallStep, SettlementStep

LEMMA ProviderInit == Init => ProviderInv
<1> SUFFICES ASSUME Init PROVE ProviderInv
  OBVIOUS
<1>1. Charged = {}
  BY DEF Init, Charged
<1>2. SumFunctionOnSet(ProviderDue, {}) = 0
  BY FS_EmptySet, SumPick
<1>3. \A d \in Days : provider[d] = 0
  BY DEF Init
<1>4. SumFunctionOnSet(provider, {}) <= SumFunctionOnSet(provider, Days)
  BY <1>3, ConstantsHold, SumMonotone DEF Constants
<1>5. SumFunctionOnSet(provider, {}) = 0
  BY FS_EmptySet, SumPick
<1> QED
  BY <1>1, <1>2, <1>3, <1>4, <1>5 DEF ProviderInv

\* No model work is free.  Whatever the provider reports, wherever leases expire,
\* processes are lost and midnight passes, an account is charged what its calls
\* cost, except for settlements without the lock that were overwritten; only what
\* is reported above a reservation takes it above its budget; and the provider's
\* count covers its work.  No two calls share a lease key
\* (settle_provider_lease, settle_model, and _settle of the model services).
THEOREM NoFreeWork == ASSUME OwnKeys PROVE Spec => []WorkIsCharged
<1> DEFINE I == /\ Types /\ StartedFinite /\ LeaseInv
                /\ AccountInv /\ BudgetInv /\ ProviderInv
<1>1. Init => I
  BY TypesInit, AccountInit, BudgetInit, LeaseInit, ProviderInit
<1>2. I /\ [Next]_vars => I'
  BY TypesStep, StartedStep, LeaseStep, AccountStep, BudgetStep, ProviderStep
<1>3. I => WorkIsCharged
  BY DEF AccountInv, UsageExplained, BudgetInv, ProviderInv, WorkIsCharged
<1> HIDE DEF I
<1> QED
  BY <1>1, <1>2, <1>3, PTL DEF Spec
====
