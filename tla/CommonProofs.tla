---------------------------- MODULE CommonProofs ----------------------------
(***************************************************************************)
(* What the theorems of several components rest on: recursion on finite     *)
(* sets, of which sums and folds are instances, and the choice among the    *)
(* releases of a season.                                                   *)
(*                                                                         *)
(* Facts about a recursion are proved from the smallest set at which they   *)
(* fail: a set of finite sets has a member without a smaller one.          *)
(***************************************************************************)
EXTENDS Selection, FiniteSetTheorems, WellFoundedInduction, TLAPS

-----------------------------------------------------------------------------
(* Recursion.                                                              *)

(* Every non-empty set of finite sets has a member none of whose strict    *)
(* subsets is a member.                                                    *)
LEMMA SmallestSet ==
  ASSUME NEW K, IsFiniteSet(K), NEW F \in SUBSET SUBSET K, F # {}
  PROVE  \E T \in F : \A U \in F : U \subseteq T => U = T
<1>1. IsWellFoundedOn(StrictSubsetOrdering(K), FiniteSubsetsOf(K))
  BY FS_StrictSubsetOrderingWellFounded
<1>2. IsWellFoundedOn(StrictSubsetOrdering(K), SUBSET K)
  BY <1>1, FS_FiniteSubsetsOfFinite
<1>3. \E T \in F : \A U \in F : ~(<<U, T>> \in StrictSubsetOrdering(K))
  BY <1>2, WFMin
<1> QED BY <1>3 DEF StrictSubsetOrdering

LEMMA LeastOf ==
  ASSUME NEW T \in SUBSET Nat, T # {}
  PROVE  \E x \in T : \A y \in T : x <= y
<1>1. IsWellFoundedOn(OpToRel(<, Nat), Nat)
  BY NatLessThanWellFounded
<1>2. PICK x \in T : \A y \in T : ~(<<y, x>> \in OpToRel(<, Nat))
  BY <1>1, WFMin
<1>3. ASSUME NEW y \in T PROVE ~(y < x)
  <2>1. x \in Nat /\ y \in Nat
    OBVIOUS
  <2>2. y < x => <<y, x>> \in OpToRel(<, Nat)
    BY <2>1, Zenon DEF OpToRel
  <2> QED BY <1>2, <2>2
<1> QED BY <1>3

(* What a step may use of a function g at T: its values at strict subsets. *)
Local(K, V, step) ==
  \A T \in SUBSET K : \A g, h \in [SUBSET K -> V] :
    (\A U \in (SUBSET T) \ {T} : g[U] = h[U]) => step[T][g] = step[T][h]

Solves(K, V, step, g, S) == g \in [SUBSET K -> V] /\ \A T \in SUBSET S : g[T] = step[T][g]

LEMMA RecursionUnique ==
  ASSUME NEW K, IsFiniteSet(K), NEW V, NEW step, Local(K, V, step),
         NEW S \in SUBSET K, NEW g, NEW h, Solves(K, V, step, g, S), Solves(K, V, step, h, S),
         NEW W \in SUBSET S
  PROVE  g[W] = h[W]
<1> DEFINE F == {T \in SUBSET S : g[T] # h[T]}
<1>1. SUFFICES ASSUME F # {} PROVE FALSE
  OBVIOUS
<1>2. PICK T \in F : \A U \in F : U \subseteq T => U = T
  <2>1. F \in SUBSET SUBSET K /\ F # {} /\ IsFiniteSet(K)
    BY <1>1
  <2> HIDE DEF F
  <2> QED BY <2>1, SmallestSet
<1>3. step[T][g] = step[T][h]
  BY <1>2 DEF Local, Solves
<1> QED BY <1>2, <1>3 DEF Solves

LEMMA RecursionExists ==
  ASSUME NEW K, IsFiniteSet(K), NEW V, V # {},
         NEW step, step \in [SUBSET K -> [[SUBSET K -> V] -> V]], Local(K, V, step)
  PROVE  \E g : Solves(K, V, step, g, K)
<1> PICK v \in V : TRUE
  OBVIOUS
<1> DEFINE F == {S \in SUBSET K : ~\E g : Solves(K, V, step, g, S)}
<1>1. SUFFICES ASSUME F # {} PROVE FALSE
  <2>1. F = {} => \E g : Solves(K, V, step, g, K)
    OBVIOUS
  <2> QED BY <2>1
<1>2. PICK S \in F : \A U \in F : U \subseteq S => U = S
  <2>1. F \in SUBSET SUBSET K /\ F # {} /\ IsFiniteSet(K)
    BY <1>1
  <2> HIDE DEF F
  <2> QED BY <2>1, SmallestSet
<1>3. PICK sol : \A U \in (SUBSET S) \ {S} : Solves(K, V, step, sol[U], U)
  <2>1. \A U \in (SUBSET S) \ {S} : \E g : Solves(K, V, step, g, U)
    BY <1>2
  <2> DEFINE sol == [U \in (SUBSET S) \ {S} |-> CHOOSE g : Solves(K, V, step, g, U)]
  <2>2. \A U \in (SUBSET S) \ {S} : Solves(K, V, step, sol[U], U)
    BY <2>1
  <2> QED BY <2>2
<1> DEFINE below == [U \in SUBSET K |-> IF U \in (SUBSET S) \ {S} THEN sol[U][U] ELSE v]
           g == [U \in SUBSET K |-> IF U = S THEN step[S][below] ELSE below[U]]
<1>4. below \in [SUBSET K -> V]
  BY <1>3 DEF Solves
<1>5. g \in [SUBSET K -> V]
  <2>1. step[S][below] \in V
    <3>1. step[S] \in [[SUBSET K -> V] -> V]
      OBVIOUS
    <3> HIDE DEF below
    <3> QED BY <1>4, <3>1
  <2> QED BY <1>4, <2>1
<1>6. ASSUME NEW T \in (SUBSET S) \ {S}, NEW U \in SUBSET T PROVE g[U] = sol[T][U]
  <2>1. U \in (SUBSET S) \ {S} /\ U \in SUBSET K /\ g[U] = sol[U][U]
    BY <1>6
  <2>2. Solves(K, V, step, sol[T], U) /\ Solves(K, V, step, sol[U], U)
    BY <1>3, <2>1 DEF Solves
  <2>3. \A W \in SUBSET U : sol[T][W] = sol[U][W]
    <3>1. IsFiniteSet(K) /\ Local(K, V, step) /\ U \in SUBSET K
      BY <2>1
    <3> DEFINE a == sol[T]
               b == sol[U]
    <3>2. Solves(K, V, step, a, U) /\ Solves(K, V, step, b, U)
      BY <2>2
    <3> HIDE DEF a, b
    <3>3. \A W \in SUBSET U : a[W] = b[W]
      BY <3>1, <3>2, RecursionUnique
    <3> QED BY <3>3 DEF a, b
  <2> QED BY <2>1, <2>3
<1>7. ASSUME NEW T \in (SUBSET S) \ {S} PROVE g[T] = step[T][g]
  <2>1. sol[T][T] = step[T][sol[T]] /\ sol[T] \in [SUBSET K -> V] /\ T \in SUBSET K
    BY <1>3 DEF Solves
  <2>2. \A U \in SUBSET T : g[U] = sol[T][U]
    BY <1>6
  <2> DEFINE a == sol[T]
  <2>3. step[T][g] = step[T][a]
    <3>1. \A U \in (SUBSET T) \ {T} : g[U] = a[U]
      BY <2>2
    <3>2. a \in [SUBSET K -> V] /\ T \in SUBSET K
      BY <2>1
    <3> HIDE DEF g, a
    <3> QED BY <1>5, <3>1, <3>2 DEF Local
  <2> QED BY <2>1, <2>2, <2>3
<1>8. g[S] = step[S][g]
  <2>1. \A U \in (SUBSET S) \ {S} : g[U] = below[U]
    BY <1>4
  <2>2. step[S][g] = step[S][below]
    <3>1. S \in SUBSET K
      OBVIOUS
    <3> HIDE DEF g, below
    <3> QED BY <1>4, <1>5, <2>1, <3>1 DEF Local
  <2> QED BY <1>4, <2>2
<1>9. Solves(K, V, step, g, S)
  <2> HIDE DEF g, below
  <2> QED BY <1>5, <1>7, <1>8 DEF Solves
<1> QED BY <1>2, <1>9

-----------------------------------------------------------------------------
(* Sums.                                                                   *)

Picked(T) == CHOOSE x \in T : TRUE

(* w gives the sum of f over every subset of K, as MapThenSumSet makes it. *)
Adds(f, K, w) ==
  \A T \in SUBSET K : w[T] = IF T = {} THEN 0 ELSE f[Picked(T)] + w[T \ {Picked(T)}]
SumsTo(f, K, w) == w \in [SUBSET K -> Int] /\ Adds(f, K, w)

LEMMA PickedIn == \A T : T # {} => Picked(T) \in T
BY DEF Picked

LEMMA SumExists ==
  ASSUME NEW K, IsFiniteSet(K), NEW f \in [K -> Int]
  PROVE  \E w : SumsTo(f, K, w)
<1> DEFINE body(T, g) == IF T = {} THEN 0 ELSE f[Picked(T)] + g[T \ {Picked(T)}]
           step == [T \in SUBSET K |-> [g \in [SUBSET K -> Int] |-> body(T, g)]]
<1>1. ASSUME NEW T \in SUBSET K, NEW g \in [SUBSET K -> Int] PROVE body(T, g) \in Int
  <2>1. CASE T # {}
    <3>1. Picked(T) \in K /\ T \ {Picked(T)} \in SUBSET K
      BY <2>1, PickedIn
    <3> QED BY <3>1
  <2> QED BY <2>1
<1>2. step \in [SUBSET K -> [[SUBSET K -> Int] -> Int]]
  <2> HIDE DEF body
  <2> QED BY <1>1
<1>3. \A T \in SUBSET K : \A g \in [SUBSET K -> Int] : step[T][g] = body(T, g)
  <2> HIDE DEF body
  <2> QED OBVIOUS
<1> HIDE DEF step
<1>4. Local(K, Int, step)
  <2> SUFFICES ASSUME NEW T \in SUBSET K, NEW g \in [SUBSET K -> Int], NEW h \in [SUBSET K -> Int],
                      \A U \in (SUBSET T) \ {T} : g[U] = h[U]
               PROVE  step[T][g] = step[T][h]
    BY DEF Local
  <2>1. T # {} => T \ {Picked(T)} \in (SUBSET T) \ {T}
    BY PickedIn
  <2> QED BY <1>3, <2>1
<1>5. PICK w : Solves(K, Int, step, w, K)
  <2>1. IsFiniteSet(K) /\ Int # {}
    OBVIOUS
  <2> QED BY <1>2, <1>4, <2>1, RecursionExists
<1>6. w \in [SUBSET K -> Int] /\ \A T \in SUBSET K : w[T] = body(T, w)
  BY <1>3, <1>5 DEF Solves
<1>7. SumsTo(f, K, w)
  BY <1>6 DEF SumsTo, Adds
<1> QED BY <1>7

(* Any member may be added last. *)
LEMMA SumsAny ==
  ASSUME NEW K, IsFiniteSet(K), NEW f \in [K -> Int], NEW w, SumsTo(f, K, w),
         NEW S \in SUBSET K, NEW x \in S
  PROVE  w[S] = f[x] + w[S \ {x}]
<1> DEFINE Wrong(T) == \E y \in T : w[T] # f[y] + w[T \ {y}]
           F == {T \in SUBSET K : Wrong(T)}
<1>1. SUFFICES ASSUME F # {} PROVE FALSE
  OBVIOUS
<1>2. PICK T \in F : \A U \in F : U \subseteq T => U = T
  <2>1. F \in SUBSET SUBSET K /\ F # {} /\ IsFiniteSet(K)
    BY <1>1
  <2> HIDE DEF F
  <2> QED BY <2>1, SmallestSet
<1>3. PICK y \in T : w[T] # f[y] + w[T \ {y}]
  BY <1>2
<1> DEFINE c == Picked(T)
<1>4. c \in T /\ w[T] = f[c] + w[T \ {c}]
  BY <1>2, <1>3, PickedIn DEF SumsTo, Adds
<1>5. c # y
  BY <1>3, <1>4
<1>6. T \ {c} \notin F /\ T \ {y} \notin F
  BY <1>2, <1>3, <1>4
<1>7. w[T \ {c}] = f[y] + w[(T \ {c}) \ {y}] /\ w[T \ {y}] = f[c] + w[(T \ {y}) \ {c}]
  <2>1. y \in T \ {c} /\ c \in T \ {y} /\ T \ {c} \in SUBSET K /\ T \ {y} \in SUBSET K
    BY <1>3, <1>4, <1>5
  <2> QED BY <1>6, <2>1
<1>8. (T \ {c}) \ {y} = (T \ {y}) \ {c}
  OBVIOUS
<1>9. f[y] \in Int /\ f[c] \in Int /\ w[(T \ {c}) \ {y}] \in Int
  BY <1>3, <1>4 DEF SumsTo, Adds
<1>10. w[T \ {c}] = f[y] + w[(T \ {c}) \ {y}] /\ w[T \ {y}] = f[c] + w[(T \ {c}) \ {y}]
  BY <1>7, <1>8
<1> HIDE DEF c, F
<1> DEFINE r == w[(T \ {c}) \ {y}]
<1>11. w[T] = f[c] + (f[y] + r) /\ w[T] # f[y] + (f[c] + r) /\ r \in Int
  BY <1>3, <1>4, <1>9, <1>10
<1> HIDE DEF r
<1> QED BY <1>9, <1>11

LEMMA SumUnique ==
  ASSUME NEW K, IsFiniteSet(K), NEW f \in [K -> Int], NEW w, SumsTo(f, K, w),
         NEW L \in SUBSET K, NEW v, Adds(f, L, v)
  PROVE  \A T \in SUBSET L : v[T] = w[T]
<1> DEFINE F == {T \in SUBSET L : v[T] # w[T]}
<1>1. SUFFICES ASSUME F # {} PROVE FALSE
  OBVIOUS
<1>2. PICK T \in F : \A U \in F : U \subseteq T => U = T
  <2>1. F \in SUBSET SUBSET K /\ F # {} /\ IsFiniteSet(K)
    BY <1>1
  <2> HIDE DEF F
  <2> QED BY <2>1, SmallestSet
<1>3. T \in SUBSET L /\ T \in SUBSET K /\ v[T] # w[T]
  BY <1>2
<1>4. CASE T = {}
  BY <1>3, <1>4 DEF SumsTo, Adds
<1>5. CASE T # {}
  <2> DEFINE c == Picked(T)
  <2>1. c \in T
    BY <1>5, PickedIn
  <2>2. v[T \ {c}] = w[T \ {c}]
    BY <1>2, <1>3, <2>1
  <2>3. v[T] = f[c] + v[T \ {c}]
    BY <1>3, <1>5 DEF Adds
  <2>4. w[T] = f[c] + w[T \ {c}]
    BY <1>3, <1>5 DEF SumsTo, Adds
  <2> QED BY <1>3, <2>2, <2>3, <2>4
<1> QED BY <1>4, <1>5

LEMMA SumNat ==
  ASSUME NEW K, IsFiniteSet(K), NEW f \in [K -> Nat], NEW w, SumsTo(f, K, w), NEW S \in SUBSET K
  PROVE  w[S] \in Nat
<1> DEFINE F == {T \in SUBSET K : w[T] \notin Nat}
<1>1. SUFFICES ASSUME F # {} PROVE FALSE
  OBVIOUS
<1>2. PICK T \in F : \A U \in F : U \subseteq T => U = T
  <2>1. F \in SUBSET SUBSET K /\ F # {} /\ IsFiniteSet(K)
    BY <1>1
  <2> HIDE DEF F
  <2> QED BY <2>1, SmallestSet
<1>3. T # {} /\ w[T] = f[Picked(T)] + w[T \ {Picked(T)}]
  BY <1>2 DEF SumsTo, Adds
<1>4. Picked(T) \in T
  BY <1>3, PickedIn
<1>5. f[Picked(T)] \in Nat /\ w[T \ {Picked(T)}] \in Nat
  BY <1>2, <1>4
<1> QED BY <1>2, <1>3, <1>5

LEMMA SumSplit ==
  ASSUME NEW K, IsFiniteSet(K), NEW f \in [K -> Int], NEW w, SumsTo(f, K, w),
         NEW S \in SUBSET K, NEW L \in SUBSET S
  PROVE  w[S] = w[L] + w[S \ L]
<1> DEFINE F == {T \in SUBSET S : w[S] # w[T] + w[S \ T]}
<1>1. SUFFICES ASSUME F # {} PROVE FALSE
  OBVIOUS
<1>2. PICK T \in F : \A U \in F : U \subseteq T => U = T
  <2>1. F \in SUBSET SUBSET K /\ F # {} /\ IsFiniteSet(K)
    BY <1>1
  <2> HIDE DEF F
  <2> QED BY <2>1, SmallestSet
<1>3. T \in SUBSET S /\ w[S] # w[T] + w[S \ T]
  BY <1>2
<1>4. w[{}] = 0 /\ \A U \in SUBSET S : w[U] \in Int
  BY DEF SumsTo, Adds
<1>5. T # {}
  <2> SUFFICES ASSUME T = {} PROVE FALSE
    OBVIOUS
  <2>1. S \ T = S /\ w[T] = 0 /\ w[S] \in Int
    BY <1>4
  <2> QED BY <1>3, <2>1
<1>6. PICK x \in T : TRUE
  BY <1>5
<1> DEFINE U == T \ {x}
<1>7. w[S] = w[U] + w[S \ U]
  BY <1>2, <1>3, <1>6
<1>8. w[T] = f[x] + w[U]
  BY <1>3, <1>6, SumsAny
<1>9. w[S \ U] = f[x] + w[S \ T]
  <2>1. S \ U \in SUBSET K /\ x \in S \ U /\ (S \ U) \ {x} = S \ T
    BY <1>3, <1>6
  <2> HIDE DEF U
  <2>2. w[S \ U] = f[x] + w[(S \ U) \ {x}]
    BY <2>1, SumsAny
  <2> QED BY <2>1, <2>2
<1>10. f[x] \in Int /\ w[U] \in Int /\ w[S \ T] \in Int
  BY <1>3, <1>4, <1>6
<1> HIDE DEF U, F
<1> QED BY <1>3, <1>7, <1>8, <1>9, <1>10

-----------------------------------------------------------------------------
(* Numbers, and folds over a sequence.                                     *)

(* What holds at 0 and with a number also at the next one holds up to n. *)
LEMMA UpTo ==
  ASSUME NEW n \in Nat, NEW good, 0 \in good, \A k \in 1 .. n : k - 1 \in good => k \in good
  PROVE  0 .. n \subseteq good
<1> DEFINE bad == (0 .. n) \ good
<1>1. SUFFICES ASSUME bad # {} PROVE FALSE
  OBVIOUS
<1>2. PICK k \in bad : \A j \in bad : k <= j
  <2>1. bad \in SUBSET Nat
    OBVIOUS
  <2> HIDE DEF bad
  <2> QED BY <1>1, <2>1, LeastOf
<1>3. k \in 1 .. n /\ k - 1 \in 0 .. n
  BY <1>2
<1>4. k - 1 \notin bad
  BY <1>2, <1>3
<1> QED BY <1>2, <1>3, <1>4

(* Finite sets of numbers have a least and a greatest member. *)
LEMMA MinMax ==
  ASSUME NEW T, T \subseteq Int, IsFiniteSet(T), T # {}
  PROVE  /\ Min(T) \in T /\ \A x \in T : Min(T) <= x
         /\ Max(T) \in T /\ \A x \in T : x <= Max(T)
<1> DEFINE Has(U) == (\E x \in U : \A y \in U : x <= y) /\ (\E x \in U : \A y \in U : x >= y)
           F == {U \in SUBSET T : U # {} /\ ~Has(U)}
<1>1. F = {}
  <2> SUFFICES ASSUME F # {} PROVE FALSE
    OBVIOUS
  <2>1. PICK U \in F : \A W \in F : W \subseteq U => W = U
    <3>1. F \in SUBSET SUBSET T /\ F # {} /\ IsFiniteSet(T)
      OBVIOUS
    <3> HIDE DEF F
    <3> QED BY ONLY <3>1, SmallestSet
  <2>2. PICK x \in U : TRUE
    OBVIOUS
  <2>3. CASE U = {x}
    <3>1. x <= x /\ x >= x
      BY <2>1, <2>2
    <3> QED BY <2>1, <2>3, <3>1
  <2>4. CASE U # {x}
    <3>1. U \ {x} # {} /\ U \ {x} \notin F /\ U \ {x} \in SUBSET T
      BY <2>1, <2>2, <2>4
    <3>2. PICK a \in U \ {x} : \A y \in U \ {x} : a <= y
      BY <3>1
    <3>3. PICK b \in U \ {x} : \A y \in U \ {x} : b >= y
      BY <3>1
    <3>4. \A y \in U : y \in Int
      BY <2>1
    <3>5. \E m \in U : \A y \in U : m <= y
      <4>1. CASE x <= a
        BY <2>2, <3>2, <3>4, <4>1
      <4>2. CASE a <= x
        BY <2>2, <3>2, <3>4, <4>2
      <4> QED BY <2>2, <3>2, <3>4, <4>1, <4>2
    <3>6. \E m \in U : \A y \in U : m >= y
      <4>1. CASE x >= b
        BY <2>2, <3>3, <3>4, <4>1
      <4>2. CASE b >= x
        BY <2>2, <3>3, <3>4, <4>2
      <4> QED BY <2>2, <3>3, <3>4, <4>1, <4>2
    <3> QED BY <2>1, <3>5, <3>6
  <2> QED BY <2>3, <2>4
<1>2. Has(T)
  BY <1>1
<1>3. Min(T) \in T /\ \A x \in T : Min(T) <= x
  BY <1>2 DEF Min
<1>4. Max(T) \in T /\ \A x \in T : Max(T) >= x
  BY <1>2 DEF Max
<1> QED BY <1>3, <1>4

LEMMA LastOfSubset ==
  ASSUME NEW n \in Nat, NEW T \in SUBSET (1 .. n), T # {}
  PROVE  Max(T) \in T
<1>1. IsFiniteSet(1 .. n)
  BY FS_Interval
<1>2. T \subseteq Int /\ IsFiniteSet(T)
  <2>1. IsFiniteSet(T)
    BY <1>1, FS_Subset
  <2> QED BY <2>1
<1> QED BY <1>2, MinMax

LEMMA LastOfPrefix ==
  ASSUME NEW k \in Nat, k > 0
  PROVE  Max(1 .. k) = k /\ (1 .. k) \ {k} = 1 .. k - 1 /\ 1 .. k # {}
<1>1. 1 .. k \in SUBSET Int /\ IsFiniteSet(1 .. k) /\ 1 .. k # {}
  <2>1. k \in Int /\ 1 \in Int /\ k \in 1 .. k
    OBVIOUS
  <2>2. IsFiniteSet(1 .. k)
    BY <2>1, FS_Interval
  <2> QED BY <2>1, <2>2
<1>2. Max(1 .. k) \in 1 .. k /\ \A x \in 1 .. k : x <= Max(1 .. k)
  BY <1>1, MinMax
<1>3. Max(1 .. k) = k
  BY <1>2
<1> QED BY <1>1, <1>3

(* it gives the fold over every set of the indices of a sequence of length  *)
(* n; it exists where every step stays in one set V.                       *)
Folds(n, V, base, step, it) ==
  /\ it \in [SUBSET (1 .. n) -> V]
  /\ \A T \in SUBSET (1 .. n) :
       it[T] = IF T = {} THEN base ELSE step[Max(T)][it[T \ {Max(T)}]]

LEMMA FoldExists ==
  ASSUME NEW n \in Nat, NEW V, NEW base \in V, NEW step \in [1 .. n -> [V -> V]]
  PROVE  \E it : Folds(n, V, base, step, it)
<1> DEFINE K == 1 .. n
           body(T, g) == IF T = {} THEN base ELSE step[Max(T)][g[T \ {Max(T)}]]
           whole == [T \in SUBSET K |-> [g \in [SUBSET K -> V] |-> body(T, g)]]
<1>1. \A T \in SUBSET K : T # {} => Max(T) \in T
  BY LastOfSubset
<1>2. IsFiniteSet(K) /\ V # {}
  BY FS_Interval
<1>3. step \in [K -> [V -> V]]
  OBVIOUS
<1> HIDE DEF K
<1>4. ASSUME NEW T \in SUBSET K, NEW g \in [SUBSET K -> V] PROVE body(T, g) \in V
  <2>1. T # {} => Max(T) \in K /\ g[T \ {Max(T)}] \in V
    BY <1>1
  <2> QED BY <1>3, <2>1
<1>5. whole \in [SUBSET K -> [[SUBSET K -> V] -> V]]
  <2> HIDE DEF body
  <2> QED BY <1>4
<1>6. \A T \in SUBSET K : \A g \in [SUBSET K -> V] : whole[T][g] = body(T, g)
  <2> HIDE DEF body
  <2> QED OBVIOUS
<1> HIDE DEF whole
<1>7. Local(K, V, whole)
  <2> SUFFICES ASSUME NEW T \in SUBSET K, NEW g \in [SUBSET K -> V], NEW h \in [SUBSET K -> V],
                      \A U \in (SUBSET T) \ {T} : g[U] = h[U]
               PROVE  whole[T][g] = whole[T][h]
    BY DEF Local
  <2>1. T # {} => g[T \ {Max(T)}] = h[T \ {Max(T)}]
    BY <1>1
  <2>2. body(T, g) = body(T, h)
    BY <2>1
  <2> HIDE DEF body
  <2> QED BY <1>6, <2>2
<1>8. PICK it : Solves(K, V, whole, it, K)
  BY <1>2, <1>5, <1>7, RecursionExists
<1>9. it \in [SUBSET K -> V] /\ \A T \in SUBSET K : it[T] = body(T, it)
  BY <1>6, <1>8 DEF Solves
<1> QED BY <1>9 DEF K, Folds

-----------------------------------------------------------------------------
(* The choice among the releases of a season.                              *)

LEMMA CoverageNat ==
  ASSUME NEW eps, NEW S, NEW E, IsFiniteSet(E), \A r \in S : eps[r] \subseteq E
  PROVE  Coverage(S, eps) \in Nat
<1>1. UNION {eps[r] : r \in S} \subseteq E
  OBVIOUS
<1>2. IsFiniteSet(UNION {eps[r] : r \in S})
  BY <1>1, FS_Subset
<1> QED BY <1>2, FS_CardinalityType DEF Coverage

LEMMA BetterOneWay ==
  ASSUME NEW eps, NEW E, IsFiniteSet(E), NEW S \in SUBSET Nat, NEW T \in SUBSET Nat,
         \A r \in S \cup T : eps[r] \subseteq E, Better(S, T, eps)
  PROVE  ~Better(T, S, eps)
<1>1. Coverage(S, eps) \in Nat /\ Coverage(T, eps) \in Nat
  BY CoverageNat
<1> QED BY <1>1 DEF Better, Preferred

(* Whatever is offered, what is selected does no work twice (plan.go,       *)
(* selectBestByScore).                                                     *)
THEOREM BestApart ==
  ASSUME NEW eps, NEW E, IsFiniteSet(E), NEW S \in SUBSET Nat, \A r \in S : eps[r] \subseteq E
  PROVE  Disjoint(BestOf(S, eps), eps)
<1> SUFFICES ASSUME NEW r \in BestOf(S, eps), NEW q \in BestOf(S, eps), r # q
             PROVE  ~Overlaps(r, q, eps)
  BY DEF Disjoint
<1> DEFINE Best(T) == /\ Disjoint(T, eps)
                      /\ \A U \in (SUBSET S) \ {T} : Disjoint(U, eps) => Better(T, U, eps)
<1>1. PICK T \in SUBSET S : r \in T /\ Best(T)
  BY DEF BestOf
<1>2. PICK U \in SUBSET S : q \in U /\ Best(U)
  BY DEF BestOf
<1>3. T = U
  BY <1>1, <1>2, BetterOneWay
<1> QED BY <1>1, <1>2, <1>3 DEF Disjoint
=============================================================================
