--------------------------- MODULE AlgorithmProofs ---------------------------
(***************************************************************************)
(* The algorithms without state achieve what they are to achieve for every  *)
(* input: any candidates of a season, any library, any folders of a series. *)
(* The theorems about the specification of MCAlgorithms, whose inputs grow  *)
(* without a bound here, follow from those about the operators.            *)
(***************************************************************************)
EXTENDS MCAlgorithms, CommonProofs

-----------------------------------------------------------------------------
(* The choice among the releases of a season.                              *)

(* The candidates of a season with n episodes. *)
Season(S, eps, n) ==
  /\ n \in Nat /\ S \subseteq Nat /\ IsFiniteSet(S)
  /\ \A r \in S : \E f, l \in 1 .. n : f <= l /\ eps[r] = f .. l

LEMMA EndsOf ==
  ASSUME NEW S, NEW eps, NEW n, Season(S, eps, n), NEW r \in S
  PROVE  /\ Min(eps[r]) \in 1 .. n /\ Max(eps[r]) \in 1 .. n
         /\ Min(eps[r]) <= Max(eps[r]) /\ eps[r] = Min(eps[r]) .. Max(eps[r])
<1>1. PICK f \in 1 .. n, l \in 1 .. n : f <= l /\ eps[r] = f .. l
  BY DEF Season
<1>2. Min(eps[r]) = f
  <2>1. f \in eps[r] /\ \A y \in eps[r] : f =< y
    BY <1>1 DEF Season
  <2>2. \A x \in eps[r] : (\A y \in eps[r] : x =< y) => x = f
    BY <1>1, <2>1 DEF Season
  <2> QED BY <2>1, <2>2 DEF Min
<1>3. Max(eps[r]) = l
  <2>1. l \in eps[r] /\ (\A y \in eps[r] : l >= y) /\ \A x \in eps[r] : x \in Nat
    BY <1>1 DEF Season
  <2>2. ASSUME NEW x \in eps[r], \A y \in eps[r] : x >= y PROVE x = l
    <3>1. x >= l /\ l >= x /\ x \in Nat /\ l \in Nat
      BY <2>1, <2>2
    <3> QED BY <3>1
  <2> QED BY <2>1, <2>2 DEF Max
<1> QED BY <1>1, <1>2, <1>3

LEMMA SeasonCoverage ==
  ASSUME NEW S, NEW eps, NEW n, Season(S, eps, n), NEW A \in SUBSET S
  PROVE  IsFiniteSet(UNION {eps[r] : r \in A}) /\ Coverage(A, eps) \in Nat
<1>1. \A r \in A : eps[r] \in SUBSET (1 .. n)
  BY EndsOf DEF Season
<1>2. UNION {eps[r] : r \in A} \in SUBSET (1 .. n)
  BY <1>1
<1>3. IsFiniteSet(1 .. n)
  <2>1. n \in Int /\ 1 \in Int
    BY DEF Season
  <2> QED BY <2>1, FS_Interval
<1>4. IsFiniteSet(UNION {eps[r] : r \in A})
  BY <1>2, <1>3, FS_Subset
<1> QED BY <1>4, FS_CardinalityType DEF Coverage

(* Of two different selections one is better. *)
LEMMA BetterTotal ==
  ASSUME NEW S, NEW eps, NEW n, Season(S, eps, n), NEW A \in SUBSET S, NEW B \in SUBSET S, A # B
  PROVE  Better(A, B, eps) \/ Better(B, A, eps)
<1>1. Coverage(A, eps) \in Nat /\ Coverage(B, eps) \in Nat
  BY SeasonCoverage
<1>2. CASE Coverage(A, eps) = Coverage(B, eps)
  <2> DEFINE D == (A \ B) \cup (B \ A)
  <2>1. D \in SUBSET Nat /\ D # {}
    BY DEF Season
  <2>2. PICK r \in D : \A q \in D : r <= q
    BY <2>1, LeastOf
  <2>3. r \in Nat /\ \A q \in D : q \in Nat
    BY <2>1
  <2>4. CASE r \in A \ B
    <3>1. \A q \in B \ A : r < q
      BY <2>2, <2>3, <2>4
    <3> QED BY <1>2, <2>4, <3>1 DEF Better, Preferred
  <2>5. CASE r \in B \ A
    <3>1. \A q \in A \ B : r < q
      BY <2>2, <2>3, <2>5
    <3> QED BY <1>2, <2>5, <3>1 DEF Better, Preferred
  <2> QED BY <2>4, <2>5
<1> QED BY <1>1, <1>2 DEF Better

LEMMA BetterTransitive ==
  ASSUME NEW S, NEW eps, NEW n, Season(S, eps, n),
         NEW A \in SUBSET S, NEW B \in SUBSET S, NEW C \in SUBSET S,
         Better(A, B, eps), Better(B, C, eps)
  PROVE  Better(A, C, eps)
<1>1. Coverage(A, eps) \in Nat /\ Coverage(B, eps) \in Nat /\ Coverage(C, eps) \in Nat
  BY SeasonCoverage
<1>2. CASE Coverage(A, eps) = Coverage(B, eps) /\ Coverage(B, eps) = Coverage(C, eps)
  <2>1. PICK r \in A \ B : \A q \in B \ A : r < q
    BY <1>1, <1>2 DEF Better, Preferred
  <2>2. PICK p \in B \ C : \A q \in C \ B : p < q
    BY <1>1, <1>2 DEF Better, Preferred
  <2>3. A \subseteq Nat /\ B \subseteq Nat /\ C \subseteq Nat /\ r # p
    BY <2>1, <2>2 DEF Season
  <2>4. CASE r < p
    <3>1. r \in A \ C /\ \A q \in C \ A : r < q
      BY <2>1, <2>2, <2>3, <2>4
    <3> QED BY <1>2, <3>1 DEF Better, Preferred
  <2>5. CASE p < r
    <3>1. p \in A \ C /\ \A q \in C \ A : p < q
      BY <2>1, <2>2, <2>3, <2>5
    <3> QED BY <1>2, <3>1 DEF Better, Preferred
  <2> QED BY <2>3, <2>4, <2>5
<1> QED BY <1>1, <1>2 DEF Better

LEMMA SeasonOneWay ==
  ASSUME NEW S, NEW eps, NEW n, Season(S, eps, n),
         NEW A \in SUBSET S, NEW B \in SUBSET S, Better(A, B, eps)
  PROVE  ~Better(B, A, eps)
<1>1. IsFiniteSet(1 .. n) /\ A \in SUBSET Nat /\ B \in SUBSET Nat
  <2>1. n \in Int /\ 1 \in Int /\ S \subseteq Nat
    BY DEF Season
  <2> QED BY <2>1, FS_Interval
<1>2. \A r \in A \cup B : eps[r] \subseteq 1 .. n
  BY EndsOf DEF Season
<1> QED BY <1>1, <1>2, BetterOneWay

(* Whatever is joined to both of two selections, which one is better stays. *)
LEMMA BetterJoined ==
  ASSUME NEW S, NEW eps, NEW n, Season(S, eps, n), NEW x \in S,
         NEW A \in SUBSET S, NEW B \in SUBSET S, x \notin A, x \notin B,
         \A r \in A \cup B : eps[r] \cap eps[x] = {},
         Better(A, B, eps)
  PROVE  Better(A \cup {x}, B \cup {x}, eps)
<1>1. ASSUME NEW D \in {A, B}
      PROVE  Coverage(D \cup {x}, eps) = Coverage(D, eps) + Cardinality(eps[x])
  <2> DEFINE U == UNION {eps[r] : r \in D}
  <2>1. UNION {eps[r] : r \in D \cup {x}} = U \cup eps[x]
    OBVIOUS
  <2>2. U \cap eps[x] = {}
    OBVIOUS
  <2>3. IsFiniteSet(U) /\ IsFiniteSet(eps[x])
    <3>1. IsFiniteSet(eps[x])
      BY EndsOf, FS_Interval
    <3> QED BY <3>1, SeasonCoverage
  <2> HIDE DEF U
  <2>4. Cardinality(U \cup eps[x]) = Cardinality(U) + Cardinality(eps[x]) - Cardinality(U \cap eps[x])
    BY <2>3, FS_Union
  <2>5. Cardinality(U \cap eps[x]) = 0 /\ Cardinality(U) \in Nat /\ Cardinality(eps[x]) \in Nat
    BY <2>2, <2>3, FS_EmptySet, FS_CardinalityType
  <2>6. Cardinality(U \cup eps[x]) = Cardinality(U) + Cardinality(eps[x])
    BY <2>4, <2>5
  <2> QED BY <2>1, <2>6 DEF Coverage, U
<1>2. Coverage(A, eps) \in Nat /\ Coverage(B, eps) \in Nat
  BY SeasonCoverage
<1>5. Cardinality(eps[x]) \in Nat
  BY EndsOf, FS_Interval, FS_CardinalityType
<1>3. (A \cup {x}) \ (B \cup {x}) = A \ B /\ (B \cup {x}) \ (A \cup {x}) = B \ A
  OBVIOUS
<1>4. Coverage(A \cup {x}, eps) = Coverage(A, eps) + Cardinality(eps[x])
      /\ Coverage(B \cup {x}, eps) = Coverage(B, eps) + Cardinality(eps[x])
  BY <1>1
<1> QED BY <1>2, <1>3, <1>4, <1>5 DEF Better

(* One candidate of several comes after all others. *)
LastOf(T, eps) == CHOOSE r \in T : \A q \in T \ {r} : SortsAfter(r, q, eps)

LEMMA LastExists ==
  ASSUME NEW S, NEW eps, NEW n, Season(S, eps, n), NEW T \in SUBSET S, T # {}
  PROVE  LastOf(T, eps) \in T /\ \A q \in T \ {LastOf(T, eps)} : SortsAfter(LastOf(T, eps), q, eps)
<1>1. \A r \in S : Min(eps[r]) \in Nat /\ Max(eps[r]) \in Nat /\ r \in Nat
  <2>1. \A r \in S : Min(eps[r]) \in 1 .. n /\ Max(eps[r]) \in 1 .. n
    BY EndsOf
  <2> QED BY <2>1 DEF Season
<1>2. \A r, q \in S : r # q => SortsAfter(r, q, eps) \/ SortsAfter(q, r, eps)
  BY <1>1 DEF SortsAfter, Preferred
<1>3. \A r, q, p \in S : SortsAfter(r, q, eps) /\ SortsAfter(q, p, eps) => SortsAfter(r, p, eps)
  BY <1>1 DEF SortsAfter, Preferred
<1> DEFINE LastIn(r, U) == \A q \in U \ {r} : SortsAfter(r, q, eps)
           F == {U \in SUBSET T : U # {} /\ ~\E r \in U : LastIn(r, U)}
<1>4. F = {}
  <2> SUFFICES ASSUME F # {} PROVE FALSE
    OBVIOUS
  <2>1. PICK U \in F : \A W \in F : W \subseteq U => W = U
    <3>1. F \in SUBSET SUBSET S /\ F # {} /\ IsFiniteSet(S)
      BY DEF Season
    <3> HIDE DEF F
    <3> QED BY <3>1, SmallestSet
  <2>2. PICK x \in U : TRUE
    OBVIOUS
  <2>3. U \ {x} # {}
    <3>1. U \ {x} = {} => LastIn(x, U)
      OBVIOUS
    <3> QED BY <2>2, <3>1
  <2>4. PICK m \in U \ {x} : LastIn(m, U \ {x})
    <3>1. U \ {x} \notin F
      BY <2>1, <2>2
    <3> QED BY <2>3, <3>1
  <2>5. SortsAfter(x, m, eps) \/ SortsAfter(m, x, eps)
    BY <1>2, <2>4
  <2>6. SortsAfter(m, x, eps) => LastIn(m, U)
    BY <2>4
  <2>7. SortsAfter(x, m, eps) => LastIn(x, U)
    <3> HIDE DEF F
    <3>1. U \subseteq S
      BY DEF F
    <3> QED BY <1>3, <2>4, <3>1
  <2> QED BY <2>4, <2>5, <2>6, <2>7
<1>5. \E r \in T : LastIn(r, T)
  BY <1>4
<1> QED BY <1>5 DEF LastOf

(* What ends before the last candidate begins, and what shares no episode   *)
(* with it, is the same.                                                   *)
LEMMA BeforeApart ==
  ASSUME NEW S, NEW eps, NEW n, Season(S, eps, n), NEW r \in S, NEW q \in S,
         SortsAfter(r, q, eps)
  PROVE  /\ EndsBefore(q, r, eps) <=> ~Overlaps(q, r, eps)
         /\ ~Overlaps(q, r, eps) <=> eps[q] \cap eps[r] = {}
<1>1. /\ Min(eps[r]) \in 1 .. n /\ Max(eps[r]) \in 1 .. n /\ Min(eps[r]) <= Max(eps[r])
      /\ Min(eps[q]) \in 1 .. n /\ Max(eps[q]) \in 1 .. n /\ Min(eps[q]) <= Max(eps[q])
      /\ eps[r] = Min(eps[r]) .. Max(eps[r]) /\ eps[q] = Min(eps[q]) .. Max(eps[q]) /\ n \in Nat
  <2>1. n \in Nat
    BY DEF Season
  <2> QED BY <2>1, EndsOf
<1>2. Max(eps[q]) <= Max(eps[r])
  BY <1>1 DEF SortsAfter
<1>3. EndsBefore(q, r, eps) => eps[q] \cap eps[r] = {}
  BY <1>1 DEF EndsBefore
<1>4. ~EndsBefore(q, r, eps) => Max(eps[q]) \in eps[q] \cap eps[r]
  BY <1>1, <1>2 DEF EndsBefore
<1>5. ~Overlaps(q, r, eps) <=> eps[q] \cap eps[r] = {}
  BY <1>1 DEF Overlaps, NoEpisode
<1> QED BY <1>3, <1>4, <1>5

(* A is the best of the disjoint selections from T. *)
IsBest(A, T, eps) ==
  /\ A \in SUBSET T /\ Disjoint(A, eps)
  /\ \A U \in (SUBSET T) \ {A} : Disjoint(U, eps) => Better(A, U, eps)

(* What can be selected beside the last candidate. *)
Before(T, eps) == {q \in T \ {LastOf(T, eps)} : EndsBefore(q, LastOf(T, eps), eps)}

(* One step of the programme: with the best of what comes before, and       *)
(* without the last candidate.                                             *)
LEMMA StepBest ==
  ASSUME NEW S, NEW eps, NEW n, Season(S, eps, n), NEW T \in SUBSET S, T # {},
         NEW P, IsBest(P, Before(T, eps), eps), NEW X, IsBest(X, T \ {LastOf(T, eps)}, eps)
  PROVE  LET I == P \cup {LastOf(T, eps)}
         IN  IsBest(IF Better(I, X, eps) THEN I ELSE X, T, eps)
<1> DEFINE r == LastOf(T, eps)
           B == Before(T, eps)
           I == P \cup {r}
<1>1. r \in T /\ \A q \in T \ {r} : SortsAfter(r, q, eps)
  BY LastExists
<1>2. B \in SUBSET S /\ r \in S /\ r \notin B /\ B \subseteq T
      /\ \A q \in T \ {r} : (q \in B <=> ~Overlaps(q, r, eps)) /\ (q \in B <=> eps[q] \cap eps[r] = {})
  BY <1>1, BeforeApart DEF Before
<1> HIDE DEF r, B
<1>3. P \in SUBSET B /\ X \in SUBSET (T \ {r}) /\ P \in SUBSET S /\ X \in SUBSET S /\ I \in SUBSET S /\ I \in SUBSET T
      /\ Disjoint(P, eps) /\ Disjoint(X, eps)
  BY <1>1, <1>2 DEF IsBest, r, B
<1>4. Disjoint(I, eps)
  BY <1>2, <1>3 DEF Disjoint, Overlaps
<1>5. ASSUME NEW U \in SUBSET T, Disjoint(U, eps), r \in U, U # I PROVE Better(I, U, eps)
  <2> DEFINE V == U \ {r}
  <2>1. V \in SUBSET B /\ Disjoint(V, eps) /\ V # P /\ V \in SUBSET S /\ U = V \cup {r}
    BY <1>2, <1>5 DEF Disjoint
  <2> HIDE DEF V
  <2>2. Better(P, V, eps)
    BY <2>1 DEF IsBest, B
  <2>3. r \notin P /\ r \notin V /\ \A q \in P \cup V : eps[q] \cap eps[r] = {}
    BY <1>2, <1>3, <2>1
  <2>4. Better(P \cup {r}, V \cup {r}, eps)
    BY <1>2, <1>3, <2>1, <2>2, <2>3, BetterJoined
  <2> QED BY <2>1, <2>4
<1>6. ASSUME NEW U \in SUBSET T, Disjoint(U, eps), r \notin U, U # X PROVE Better(X, U, eps)
  <2>1. U \in (SUBSET (T \ {r})) \ {X}
    BY <1>6
  <2> QED BY <1>6, <2>1 DEF IsBest, r
<1>7. I # X
  BY <1>3
<1>8. CASE Better(I, X, eps)
  <2>1. ASSUME NEW U \in (SUBSET T) \ {I}, Disjoint(U, eps) PROVE Better(I, U, eps)
    <3>1. U \in SUBSET S
      OBVIOUS
    <3>2. r \notin U /\ U # X => Better(I, U, eps)
      BY <1>3, <1>6, <1>8, <2>1, <3>1, BetterTransitive
    <3> QED BY <1>5, <1>8, <2>1, <3>2
  <2>2. IsBest(I, T, eps)
    BY <1>3, <1>4, <2>1 DEF IsBest
  <2> QED BY <1>8, <2>2 DEF r
<1>9. CASE ~Better(I, X, eps)
  <2>1. Better(X, I, eps)
    BY <1>3, <1>7, <1>9, BetterTotal
  <2>2. ASSUME NEW U \in (SUBSET T) \ {X}, Disjoint(U, eps) PROVE Better(X, U, eps)
    <3>1. U \in SUBSET S
      OBVIOUS
    <3>2. r \in U /\ U # I => Better(X, U, eps)
      BY <1>3, <1>5, <2>1, <2>2, <3>1, BetterTransitive
    <3> QED BY <1>6, <2>1, <2>2, <3>2
  <2>3. IsBest(X, T, eps)
    BY <1>3, <2>2 DEF IsBest
  <2> QED BY <1>9, <2>3 DEF r
<1> QED BY <1>8, <1>9

(* The programme, as a function of the candidates looked at so far. *)
Programme(S, eps, best) ==
  \A T \in SUBSET S :
    best[T] = IF T = {} THEN {}
              ELSE LET I == best[Before(T, eps)] \cup {LastOf(T, eps)}
                       X == best[T \ {LastOf(T, eps)}]
                   IN IF Better(I, X, eps) THEN I ELSE X

LEMMA ProgrammeBest ==
  ASSUME NEW S, NEW eps, NEW n, Season(S, eps, n), NEW best, Programme(S, eps, best)
  PROVE  \A T \in SUBSET S : IsBest(best[T], T, eps)
<1> DEFINE F == {T \in SUBSET S : ~IsBest(best[T], T, eps)}
<1>1. SUFFICES ASSUME F # {} PROVE FALSE
  OBVIOUS
<1>2. PICK T \in F : \A U \in F : U \subseteq T => U = T
  <2>1. F \in SUBSET SUBSET S /\ F # {} /\ IsFiniteSet(S)
    BY <1>1 DEF Season
  <2> HIDE DEF F
  <2> QED BY <2>1, SmallestSet
<1>3. CASE T = {}
  <2>1. best[T] = {}
    BY <1>3 DEF Programme
  <2> QED BY <1>2, <1>3, <2>1 DEF IsBest, Disjoint
<1>4. CASE T # {}
  <2> DEFINE P == best[Before(T, eps)]
             X == best[T \ {LastOf(T, eps)}]
  <2>1. LastOf(T, eps) \in T
    BY <1>2, <1>4, LastExists
  <2>2. Before(T, eps) \notin F /\ T \ {LastOf(T, eps)} \notin F
    BY <1>2, <2>1 DEF Before
  <2>3. IsBest(P, Before(T, eps), eps) /\ IsBest(X, T \ {LastOf(T, eps)}, eps)
    BY <1>2, <2>2 DEF Before
  <2>4. best[T] = IF Better(P \cup {LastOf(T, eps)}, X, eps) THEN P \cup {LastOf(T, eps)} ELSE X
    BY <1>2, <1>4 DEF Programme
  <2>5. T \in SUBSET S /\ ~IsBest(best[T], T, eps)
    BY <1>2
  <2> HIDE DEF P, X, F
  <2> QED BY <1>4, <2>3, <2>4, <2>5, StepBest
<1> QED BY <1>3, <1>4

LEMMA ProgrammeExists ==
  ASSUME NEW S, NEW eps, NEW n, Season(S, eps, n)
  PROVE  \E best \in [SUBSET S -> SUBSET S] : Programme(S, eps, best)
<1> DEFINE body(T, g) == IF T = {} THEN {}
              ELSE LET I == g[Before(T, eps)] \cup {LastOf(T, eps)}
                       X == g[T \ {LastOf(T, eps)}]
                   IN IF Better(I, X, eps) THEN I ELSE X
           step == [T \in SUBSET S |-> [g \in [SUBSET S -> SUBSET S] |-> body(T, g)]]
<1>1. \A T \in SUBSET S : T # {} => /\ LastOf(T, eps) \in T
                                  /\ Before(T, eps) \in (SUBSET T) \ {T}
                                  /\ T \ {LastOf(T, eps)} \in (SUBSET T) \ {T}
  BY LastExists DEF Before
<1>2. ASSUME NEW T \in SUBSET S, NEW g \in [SUBSET S -> SUBSET S] PROVE body(T, g) \in SUBSET S
  <2>1. T # {} => g[Before(T, eps)] \in SUBSET S /\ g[T \ {LastOf(T, eps)}] \in SUBSET S /\ LastOf(T, eps) \in S
    BY <1>1
  <2> QED BY <2>1
<1>3. ASSUME NEW T \in SUBSET S, NEW g \in [SUBSET S -> SUBSET S], NEW h \in [SUBSET S -> SUBSET S],
             \A U \in (SUBSET T) \ {T} : g[U] = h[U]
      PROVE  body(T, g) = body(T, h)
  <2>1. CASE T = {}
    BY <2>1
  <2>2. CASE T # {}
    <3>1. g[Before(T, eps)] = h[Before(T, eps)] /\ g[T \ {LastOf(T, eps)}] = h[T \ {LastOf(T, eps)}]
      BY <1>1, <1>3, <2>2
    <3> QED BY <3>1
  <2> QED BY <2>1, <2>2
<1>4. step \in [SUBSET S -> [[SUBSET S -> SUBSET S] -> SUBSET S]]
  <2> HIDE DEF body
  <2> QED BY <1>2
<1>5. \A T \in SUBSET S : \A g \in [SUBSET S -> SUBSET S] : step[T][g] = body(T, g)
  <2> HIDE DEF body
  <2> QED OBVIOUS
<1> HIDE DEF step, body
<1>6. Local(S, SUBSET S, step)
  <2> SUFFICES ASSUME NEW T \in SUBSET S, NEW g \in [SUBSET S -> SUBSET S], NEW h \in [SUBSET S -> SUBSET S],
                      \A U \in (SUBSET T) \ {T} : g[U] = h[U]
               PROVE  step[T][g] = step[T][h]
    BY DEF Local
  <2>1. body(T, g) = body(T, h)
    BY <1>3
  <2> QED BY <1>5, <2>1
<1>7. PICK best : Solves(S, SUBSET S, step, best, S)
  <2>1. IsFiniteSet(S) /\ SUBSET S # {}
    BY DEF Season
  <2> QED BY <1>4, <1>6, <2>1, RecursionExists
<1>8. best \in [SUBSET S -> SUBSET S] /\ \A T \in SUBSET S : best[T] = body(T, best)
  BY <1>5, <1>7 DEF Solves
<1> QED BY <1>8 DEF Programme, body

(* The dynamic programme finds the one disjoint selection that is better    *)
(* than every other, whatever intervals are offered.                       *)
THEOREM ScheduledBest ==
  ASSUME NEW S, NEW eps, NEW n, Season(S, eps, n)
  PROVE  Scheduled(S, eps) = BestOf(S, eps)
<1> DEFINE Value(g, T) ==
             IF T = {} THEN {}
             ELSE LET last    == CHOOSE r \in T : \A q \in T \ {r} : SortsAfter(r, q, eps)
                      include == g[{q \in T \ {last} : EndsBefore(q, last, eps)}] \cup {last}
                      exclude == g[T \ {last}]
                  IN IF Better(include, exclude, eps) THEN include ELSE exclude
           Iter(g) == g = [T \in SUBSET S |-> Value(g, T)]
<1>1. PICK best \in [SUBSET S -> SUBSET S] : Programme(S, eps, best)
  BY ProgrammeExists
<1>2. Iter(best)
  <2>1. \A T \in SUBSET S : best[T] = Value(best, T)
    BY <1>1 DEF Programme, Before, LastOf
  <2> HIDE DEF Value
  <2> QED BY <2>1
<1>3. Iter(CHOOSE g : Iter(g))
  <2> HIDE DEF Iter
  <2> QED BY <1>2
<1>4. Scheduled(S, eps) = (CHOOSE g : Iter(g))[S]
  BY DEF Scheduled
<1>5. PICK g : Iter(g) /\ Scheduled(S, eps) = g[S]
  BY <1>3, <1>4
<1>6. Programme(S, eps, g)
  BY <1>5 DEF Programme, Before, LastOf
<1>7. IsBest(g[S], S, eps)
  BY <1>6, ProgrammeBest
<1> DEFINE A == g[S]
<1>8. A \in SUBSET S /\ IsBest(A, S, eps)
  BY <1>7 DEF IsBest
<1>9. ASSUME NEW T \in SUBSET S, IsBest(T, S, eps) PROVE T = A
  <2> HIDE DEF A
  <2> SUFFICES ASSUME T # A PROVE FALSE
    OBVIOUS
  <2>1. Better(T, A, eps) /\ Better(A, T, eps)
    BY <1>8, <1>9 DEF IsBest
  <2> QED BY <1>8, <2>1, SeasonOneWay
<1>10. BestOf(S, eps) = {r \in S : \E T \in SUBSET S : r \in T /\ IsBest(T, S, eps)}
  BY DEF BestOf, IsBest
<1>11. BestOf(S, eps) = A
  <2> HIDE DEF A
  <2> QED BY <1>8, <1>9, <1>10
<1> QED BY <1>5, <1>11

-----------------------------------------------------------------------------
(* The projection of a release by the files of its series.                 *)

(* The folders of a series: their files are numbered and name groups; nothing *)
(* else is assumed of them.                                                 *)
EvidenceOK(ev) ==
  /\ Len(ev) \in Nat /\ DOMAIN ev = 1 .. Len(ev) /\ Unnamed \notin Int \cup Group
  /\ \A i \in DOMAIN ev : ev[i].min \in Int /\ ev[i].max \in Int /\ ev[i].groups \in [Group -> Nat]

LEMMA Evident ==
  ASSUME NEW ev, EvidenceOK(ev)
  PROVE  /\ Len(ev) \in Nat /\ DOMAIN ev = 1 .. Len(ev)
         /\ \A i \in 1 .. Len(ev) : /\ ev[i].max \in Int /\ ev[i].min \in Int
                                   /\ \A g \in Group : ev[i].groups[g] \in Nat
BY DEF EvidenceOK

(* The variables of the loop of ProjectObservedEpisode. *)
LoopState == [best : Int, chosen : Int \cup {Unnamed}, ambiguous : BOOLEAN]

LEMMA ConsiderCases ==
  ASSUME NEW ev, NEW e \in Int, NEW i \in Int, ev[i].max \in Int, NEW l \in LoopState
  PROVE  LET m == Consider(ev, e, l, i)
             x == ev[i].max
         IN  /\ m \in LoopState
             /\ x <= 0 \/ x >= e => m = l
             /\ x > 0 /\ x < e /\ x > l.best => m = [best |-> x, chosen |-> i, ambiguous |-> FALSE]
             /\ x > 0 /\ x < e /\ x <= l.best => m = [l EXCEPT !.ambiguous = @ \/ x = l.best]
<1> DEFINE x == ev[i].max
           m == Consider(ev, e, l, i)
<1>1. x \in Int /\ l.best \in Int /\ l.ambiguous \in BOOLEAN
  BY DEF LoopState
<1>2. CASE x <= 0 \/ x >= e
  <2>1. m = l
    BY <1>1, <1>2 DEF Consider
  <2> QED BY <1>1, <1>2, <2>1
<1>3. CASE x > 0 /\ x < e /\ x > l.best
  <2>1. m = [best |-> x, chosen |-> i, ambiguous |-> FALSE]
    BY <1>1, <1>3 DEF Consider
  <2> QED BY <1>1, <1>3, <2>1 DEF LoopState
<1>4. CASE x > 0 /\ x < e /\ x <= l.best
  <2>1. m = [l EXCEPT !.ambiguous = @ \/ x = l.best]
    BY <1>1, <1>4 DEF Consider
  <2>2. (l.ambiguous \/ x = l.best) \in BOOLEAN
    OBVIOUS
  <2>3. m \in LoopState
    BY <2>1, <2>2 DEF LoopState
  <2>4. ~(x <= 0) /\ ~(x >= e) /\ ~(x > l.best)
    BY <1>1, <1>4
  <2> HIDE DEF m, x
  <2>5. /\ m \in LoopState
        /\ x <= 0 \/ x >= e => m = l
        /\ x > 0 /\ x < e /\ x > l.best => m = [best |-> x, chosen |-> i, ambiguous |-> FALSE]
        /\ x > 0 /\ x < e /\ x <= l.best => m = [l EXCEPT !.ambiguous = @ \/ x = l.best]
    BY <2>1, <2>3, <2>4, Zenon
  <2> QED BY <2>5, Zenon DEF m, x
<1> QED BY <1>1, <1>2, <1>3, <1>4

(* The loop after k folders: of those that end before the episode, the first *)
(* with the greatest end is chosen, and another with that end is noticed.   *)
Ended(ev, e, k) == {i \in 1 .. k : ev[i].max > 0 /\ ev[i].max < e}

(* The loop after the first k folders. *)
LoopAt(ev, e, k, l) ==
  LET B == Ended(ev, e, k) IN
  /\ l \in LoopState
  /\ B = {} => l.best = -1 /\ l.chosen = Unnamed /\ ~l.ambiguous
  /\ B # {} => /\ l.chosen \in B /\ l.best = ev[l.chosen].max
               /\ \A i \in B : ev[i].max <= l.best
               /\ l.ambiguous <=> \E i \in B \ {l.chosen} : ev[i].max = l.best

LEMMA ConsiderAt ==
  ASSUME NEW ev, NEW e \in Int, NEW k \in Nat, k > 0, \A i \in 1 .. k : ev[i].max \in Int,
         NEW l, LoopAt(ev, e, k - 1, l)
  PROVE  LoopAt(ev, e, k, Consider(ev, e, l, k))
<1> DEFINE B == Ended(ev, e, k - 1)
           C == Ended(ev, e, k)
           m == Consider(ev, e, l, k)
           x == ev[k].max
<1>1. x \in Int /\ (\A i \in B : ev[i].max \in Int /\ i # k) /\ k \notin B
      /\ (\A i \in B : 0 < ev[i].max /\ ev[i].max < e)
  BY DEF Ended
<1>2. C = IF x > 0 /\ x < e THEN B \cup {k} ELSE B
  BY DEF Ended
<1>3. l \in LoopState /\ m \in LoopState /\ l.best \in Int
  <2>1. l \in LoopState
    BY DEF LoopAt
  <2>2. m \in LoopState
    BY <1>1, <2>1, ConsiderCases
  <2> QED BY <2>1, <2>2 DEF LoopState
<1>4. CASE x <= 0 \/ x >= e
  <2>1. m = l
    BY <1>3, <1>4, ConsiderCases
  <2>2. C = B
    BY <1>1, <1>2, <1>4
  <2> QED BY <2>1, <2>2 DEF LoopAt
<1>5. CASE x > 0 /\ x < e /\ x > l.best
  <2>1. m = [best |-> x, chosen |-> k, ambiguous |-> FALSE]
    BY <1>3, <1>5, ConsiderCases
  <2>2. C = B \cup {k}
    BY <1>2, <1>5
  <2>3. \A i \in B : ev[i].max < x
    <3>1. B # {} => \A i \in B : ev[i].max <= l.best
      BY DEF LoopAt
    <3> QED BY <1>1, <1>3, <1>5, <3>1
  <2> HIDE DEF B, C, m
  <2>4. \A i \in C : ev[i].max <= x /\ (i # k => ev[i].max # x)
    BY <1>1, <2>2, <2>3
  <2>5. m.chosen = k /\ m.best = x /\ m.ambiguous = FALSE /\ k \in C /\ m.best = ev[k].max
    BY <2>1, <2>2
  <2> QED BY <1>3, <2>4, <2>5 DEF LoopAt, C, m
<1>6. CASE x > 0 /\ x < e /\ x <= l.best
  <2>1. m = [l EXCEPT !.ambiguous = @ \/ x = l.best]
    BY <1>3, <1>6, ConsiderCases
  <2>2. C = B \cup {k} /\ B # {}
    BY <1>1, <1>2, <1>6 DEF LoopAt
  <2>3. /\ l.chosen \in B /\ l.best = ev[l.chosen].max /\ l.ambiguous \in BOOLEAN
        /\ \A i \in B : ev[i].max <= l.best
        /\ l.ambiguous <=> \E i \in B \ {l.chosen} : ev[i].max = l.best
    BY <2>2 DEF LoopAt, LoopState
  <2>4. m.best = l.best /\ m.chosen = l.chosen /\ m.ambiguous = (l.ambiguous \/ x = l.best)
    BY <1>3, <2>1 DEF LoopState
  <2> HIDE DEF B, C, m
  <2>5. m.chosen \in C /\ m.best = ev[m.chosen].max
        /\ \A i \in C : ev[i].max <= m.best
    BY <1>1, <1>6, <2>2, <2>3, <2>4
  <2>6. m.ambiguous <=> \E i \in C \ {m.chosen} : ev[i].max = m.best
    BY <1>1, <2>2, <2>3, <2>4
  <2> QED BY <1>3, <2>2, <2>5, <2>6 DEF LoopAt, C, m
<1> QED BY <1>1, <1>3, <1>4, <1>5, <1>6

LEMMA LoopEnds ==
  ASSUME NEW ev, EvidenceOK(ev), NEW e \in Int
  PROVE  LoopAt(ev, e, Len(ev), Loop(ev, e))
<1> DEFINE n == Len(ev)
           seq == [i \in DOMAIN ev |-> i]
           Iter(it) == it = [T \in SUBSET DOMAIN seq |->
                         IF T = {} THEN Start ELSE Consider(ev, e, it[T \ {Max(T)}], seq[Max(T)])]
           step == [i \in 1 .. n |-> [l \in LoopState |-> Consider(ev, e, l, i)]]
<1>1. n \in Nat /\ DOMAIN ev = 1 .. n /\ DOMAIN seq = 1 .. n /\ (\A i \in 1 .. n : seq[i] = i) /\ \A i \in 1 .. n : ev[i].max \in Int
  BY Evident
<1>2. Start \in LoopState
  BY DEF Start, LoopState
<1>3. step \in [1 .. n -> [LoopState -> LoopState]]
  <2> HIDE DEF n
  <2>1. ASSUME NEW i \in 1 .. n, NEW l \in LoopState PROVE Consider(ev, e, l, i) \in LoopState
    BY <1>1, ConsiderCases
  <2> QED BY <2>1
<1>4. \E it : Iter(it)
  <2> HIDE DEF n, seq
  <2>1. PICK it : Folds(n, LoopState, Start, step, it)
    <3>1. n \in Nat
      BY <1>1
    <3> HIDE DEF step
    <3> QED BY <1>2, <1>3, <3>1, FoldExists
  <2>2. ASSUME NEW T \in SUBSET (1 .. n), T # {}
        PROVE  step[Max(T)][it[T \ {Max(T)}]] = Consider(ev, e, it[T \ {Max(T)}], seq[Max(T)])
    <3>1. Max(T) \in T
      BY <1>1, <2>2, LastOfSubset
    <3>2. seq[Max(T)] = Max(T) /\ it[T \ {Max(T)}] \in LoopState
      BY <1>1, <2>1, <3>1 DEF Folds
    <3> QED BY <3>1, <3>2
  <2>3. it = [T \in SUBSET (1 .. n) |->
                IF T = {} THEN Start ELSE Consider(ev, e, it[T \ {Max(T)}], seq[Max(T)])]
    <3> HIDE DEF step
    <3> QED BY <2>1, <2>2 DEF Folds
  <2> QED BY <1>1, <2>3
<1>5. Iter(CHOOSE it : Iter(it))
  <2> HIDE DEF Iter
  <2> QED BY <1>4
<1>6. Loop(ev, e) = (CHOOSE it : Iter(it))[DOMAIN seq]
  BY DEF Loop, FoldLeft, MapThenFoldSet
<1>7. PICK it : Iter(it) /\ Loop(ev, e) = it[1 .. n]
  <2> HIDE DEF Iter, seq
  <2> QED BY <1>1, <1>5, <1>6
<1> DEFINE good == {k \in 0 .. n : LoopAt(ev, e, k, it[1 .. k])}
<1> HIDE DEF n, seq
<1>8. 0 \in good
  <2>1. it[{}] = Start /\ 1 .. 0 = {} /\ Ended(ev, e, 0) = {} /\ 0 \in 0 .. n
    BY <1>1, <1>7 DEF Ended
  <2> QED BY <1>2, <2>1 DEF LoopAt, Start
<1>9. ASSUME NEW k \in 1 .. n, k - 1 \in good PROVE k \in good
  <2>1. k \in Nat /\ k > 0 /\ 1 .. k \in SUBSET (1 .. n) /\ \A i \in 1 .. k : ev[i].max \in Int
    BY <1>1
  <2>2. Max(1 .. k) = k /\ (1 .. k) \ {k} = 1 .. k - 1 /\ 1 .. k # {}
    BY <2>1, LastOfPrefix
  <2>3. it[1 .. k] = Consider(ev, e, it[1 .. k - 1], k)
    <3>1. seq[k] = k /\ DOMAIN seq = 1 .. n
      BY <1>1
    <3> QED BY <1>7, <2>1, <2>2, <3>1
  <2>4. LoopAt(ev, e, k - 1, it[1 .. k - 1])
    BY <1>9
  <2>5. LoopAt(ev, e, k, it[1 .. k])
    BY <2>1, <2>3, <2>4, ConsiderAt
  <2> QED BY <2>5
<1>10. n \in good
  <2> HIDE DEF good
  <2>1. 0 .. n \subseteq good
    BY <1>1, <1>8, <1>9, UpTo
  <2> QED BY <1>1, <2>1
<1> QED BY <1>7, <1>10 DEF n

LEMMA OnlyOne ==
  ASSUME NEW S, IsFiniteSet(S)
  PROVE  Cardinality(S) = 1 <=> \E x : S = {x}
BY FS_Singleton

(* One folder is the nearest exactly when the loop has chosen it for certain. *)
LEMMA NearestChosen ==
  ASSUME NEW ev, EvidenceOK(ev), NEW e \in Int
  PROVE  LET l == Loop(ev, e)
         IN  IF l.chosen # Unnamed /\ ~l.ambiguous
             THEN Nearest(ev, e) = {l.chosen} /\ Cardinality(Nearest(ev, e)) = 1
             ELSE Cardinality(Nearest(ev, e)) # 1
<1> DEFINE n == Len(ev)
           l == Loop(ev, e)
           B == Ended(ev, e, n)
           N == Nearest(ev, e)
<1>1. /\ n \in Nat /\ DOMAIN ev = 1 .. n /\ \A i \in 1 .. n : ev[i].max \in Int
      /\ Unnamed \notin Int
  BY Evident DEF EvidenceOK
<1>2. LoopAt(ev, e, n, l)
  BY LoopEnds
<1>3. N = {i \in B : \A j \in B : ev[j].max <= ev[i].max} /\ B \subseteq 1 .. n
  BY <1>1 DEF Nearest, Ended
<1>4. IsFiniteSet(N)
  <2>1. IsFiniteSet(1 .. n)
    BY <1>1, FS_Interval
  <2>2. N \in SUBSET (1 .. n)
    BY <1>3
  <2> HIDE DEF N
  <2> QED BY <2>1, <2>2, FS_Subset
<1> HIDE DEF n, l, B, N
<1>5. CASE B = {}
  <2>1. N = {} /\ Cardinality({}) = 0 /\ l.chosen = Unnamed
    BY <1>2, <1>3, <1>5, FS_EmptySet DEF LoopAt, B
  <2> QED BY <2>1 DEF l, N
<1>6. CASE B # {}
  <2>1. /\ l.chosen \in B /\ l.best = ev[l.chosen].max /\ \A i \in B : ev[i].max <= l.best
        /\ l.ambiguous <=> \E i \in B \ {l.chosen} : ev[i].max = l.best
    BY <1>2, <1>6 DEF LoopAt, B
  <2>2. l.chosen # Unnamed /\ \A i \in B : ev[i].max \in Int
    <3>1. \A i \in B : i \in 1 .. n
      BY <1>3
    <3>2. \A i \in B : i \in Int /\ ev[i].max \in Int
      BY <1>1, <3>1
    <3> QED BY <1>1, <2>1, <3>2
  <2>3. N = {i \in B : ev[i].max = l.best} /\ l.chosen \in N
    <3>1. ASSUME NEW i \in B PROVE (\A j \in B : ev[j].max <= ev[i].max) <=> ev[i].max = l.best
      BY <2>1, <2>2
    <3>2. N = {i \in B : ev[i].max = l.best}
      BY <1>3, <3>1
    <3> QED BY <2>1, <3>2
  <2>4. CASE l.ambiguous
    <3>1. PICK i \in N : i # l.chosen
      BY <2>1, <2>3, <2>4
    <3>2. ~\E x : N = {x}
      BY <2>3, <3>1
    <3> QED BY <1>4, <2>4, <3>2, OnlyOne DEF l, N
  <2>5. CASE ~l.ambiguous
    <3>1. N = {l.chosen}
      BY <2>1, <2>3, <2>5
    <3>2. Cardinality(N) = 1
      BY <1>4, <3>1, OnlyOne
    <3> QED BY <2>2, <2>5, <3>1, <3>2 DEF l, N
  <2> QED BY <2>4, <2>5
<1> QED BY <1>5, <1>6

(* Whatever the folders of a series are and what their files say, in any    *)
(* order, a release without a season goes where the evidence leads.        *)
THEOREM EvidenceFollowed ==
  ASSUME NEW ev, EvidenceOK(ev), NEW seasons, IsFiniteSet(seasons), NEW e \in Int, e > 0
  PROVE  FollowsEvidence(ev, seasons, e)
<1> DEFINE n == Len(ev)
           l == Loop(ev, e)
           to == Project(ev, seasons, Unnamed, e)
           containing == {i \in DOMAIN ev : ev[i].min > 0 /\ e \in ev[i].min .. ev[i].max}
           N == Nearest(ev, e)
           The(S) == CHOOSE i \in S : TRUE
           certain == IF Cardinality(containing) = 1 THEN containing
                      ELSE IF Cardinality(N) = 1 THEN N
                      ELSE IF n = 1 THEN {1} ELSE {}
<1>1. n \in Nat /\ DOMAIN ev = 1 .. n
      /\ \A i \in 1 .. n : ev[i].max \in Int /\ ev[i].min \in Int
  BY Evident
<1>2. containing = {i \in DOMAIN ev : ev[i].min > 0 /\ ev[i].min <= e /\ e <= ev[i].max}
  BY <1>1
<1>3. to = IF Cardinality(containing) = 1 THEN Into(ev, The(containing), e)
           ELSE IF l.chosen # Unnamed /\ ~l.ambiguous THEN Into(ev, l.chosen, e)
           ELSE IF n = 1 THEN Into(ev, 1, e)
           ELSE IF Cardinality(seasons) = 1 THEN AsSaid(The(seasons), e)
           ELSE Nowhere
  BY DEF Project
<1>4. IF l.chosen # Unnamed /\ ~l.ambiguous
      THEN N = {l.chosen} /\ Cardinality(N) = 1
      ELSE Cardinality(N) # 1
  BY NearestChosen
<1>5. IsFiniteSet(containing)
  <2>1. IsFiniteSet(1 .. n) /\ containing \in SUBSET (1 .. n)
    BY <1>1, FS_Interval
  <2> HIDE DEF containing
  <2> QED BY <2>1, FS_Subset
<1>6. FollowsEvidence(ev, seasons, e) <=>
        IF certain # {} THEN to.folder \in certain
        ELSE to.folder = Unnamed /\ (to = Nowhere \/ seasons = {to.season})
  BY <1>2 DEF FollowsEvidence
<1>7. \A i : Into(ev, i, e).folder = i
  BY DEF Into
<1>8. Cardinality(containing) = 1 => The(containing) \in containing
  BY <1>5, OnlyOne
<1>9. Cardinality(seasons) = 1 => seasons = {The(seasons)}
  BY OnlyOne
<1> HIDE DEF n, l, to, containing, N
<1>10. CASE Cardinality(containing) = 1
  BY <1>3, <1>6, <1>7, <1>8, <1>10
<1>11. CASE Cardinality(containing) # 1 /\ Cardinality(N) = 1
  <2>1. to = Into(ev, l.chosen, e) /\ N = {l.chosen}
    BY <1>3, <1>4, <1>11
  <2> QED BY <1>6, <1>7, <1>11, <2>1
<1>12. CASE Cardinality(containing) # 1 /\ Cardinality(N) # 1
  <2>1. CASE n = 1
    <3>1. to = Into(ev, 1, e) /\ certain = {1}
      BY <1>3, <1>4, <1>12, <2>1
    <3> QED BY <1>6, <1>7, <3>1
  <2>2. CASE n # 1
    <3>1. certain = {}
      BY <1>12, <2>2
    <3>2. to = IF Cardinality(seasons) = 1 THEN AsSaid(The(seasons), e) ELSE Nowhere
      BY <1>3, <1>4, <1>12, <2>2
    <3>3. to.folder = Unnamed /\ (to = Nowhere \/ seasons = {to.season})
      BY <1>9, <3>2 DEF AsSaid, Nowhere
    <3> QED BY <1>6, <3>1, <3>3
  <2> QED BY <2>1, <2>2
<1> QED BY <1>10, <1>11, <1>12

(* The files of the folders K that name group g. *)
Files(ev, g, K) == MapThenSumSet(LAMBDA i : ev[i].groups[g], K)

LEMMA FilesAre ==
  ASSUME NEW ev, NEW g, NEW K, IsFiniteSet(K), NEW f \in [K -> Int],
         \A i \in K : f[i] = ev[i].groups[g],
         NEW w, SumsTo(f, K, w), NEW L \in SUBSET K
  PROVE  Files(ev, g, L) = w[L]
<1> DEFINE Iter(r) == r = [T \in SUBSET L |->
                        IF T = {} THEN 0
                        ELSE ev[CHOOSE x \in T : TRUE].groups[g] + r[T \ {CHOOSE x \in T : TRUE}]]
<1>1. Iter([T \in SUBSET L |-> w[T]])
  <2> DEFINE r == [T \in SUBSET L |-> w[T]]
  <2>1. ASSUME NEW T \in SUBSET L, T # {}
        PROVE r[T] = ev[CHOOSE x \in T : TRUE].groups[g] + r[T \ {CHOOSE x \in T : TRUE}]
    <3> DEFINE c == CHOOSE x \in T : TRUE
    <3>1. c \in T
      BY <2>1
    <3>2. w[T] = f[c] + w[T \ {c}]
      BY <2>1 DEF SumsTo, Adds, Picked
    <3>3. f[c] = ev[c].groups[g]
      BY <3>1
    <3>4. r[T] = w[T] /\ r[T \ {c}] = w[T \ {c}]
      BY <3>1
    <3> QED BY <3>2, <3>3, <3>4
  <2>2. r[{}] = 0
    BY DEF SumsTo, Adds
  <2> QED BY <2>1, <2>2
<1>2. Iter(CHOOSE r : Iter(r))
  BY <1>1
<1>3. Files(ev, g, L) = (CHOOSE r : Iter(r))[L]
  BY DEF Files, MapThenSumSet, MapThenFoldSet
<1>4. PICK v : Iter(v) /\ Files(ev, g, L) = v[L]
  BY <1>2, <1>3
<1>5. Adds(f, L, v)
  <2> SUFFICES ASSUME NEW T \in SUBSET L, T # {} PROVE v[T] = f[Picked(T)] + v[T \ {Picked(T)}]
    BY <1>4 DEF Adds
  <2>1. f[Picked(T)] = ev[Picked(T)].groups[g]
    BY PickedIn
  <2>2. v[T] = ev[Picked(T)].groups[g] + v[T \ {Picked(T)}]
    BY <1>4 DEF Picked
  <2> QED BY <2>1, <2>2
<1> HIDE DEF Iter
<1>6. \A T \in SUBSET L : v[T] = w[T]
  <2>1. IsFiniteSet(K) /\ SumsTo(f, K, w)
    OBVIOUS
  <2> QED BY <1>5, <2>1, SumUnique
<1> QED BY <1>4, <1>6

(* The files of these folders can be counted. *)
Counted(ev, g, K) == IsFiniteSet(K) /\ \A i \in K : ev[i].groups[g] \in Nat

LEMMA FilesAdd ==
  ASSUME NEW ev, NEW g, NEW K, Counted(ev, g, K), NEW x \in K
  PROVE  /\ Files(ev, g, K) \in Nat /\ Files(ev, g, K \ {x}) \in Nat /\ Files(ev, g, {}) = 0
         /\ Files(ev, g, K) = ev[x].groups[g] + Files(ev, g, K \ {x})
<1> DEFINE f == [i \in K |-> ev[i].groups[g]]
<1>1. f \in [K -> Int] /\ f \in [K -> Nat] /\ (\A i \in K : f[i] = ev[i].groups[g])
      /\ IsFiniteSet(K)
  BY DEF Counted
<1> HIDE DEF f
<1>2. PICK w : SumsTo(f, K, w)
  BY <1>1, SumExists
<1>3. \A L \in SUBSET K : Files(ev, g, L) = w[L]
  BY <1>1, <1>2, FilesAre
<1>4. w[K] = f[x] + w[K \ {x}]
  <2>1. IsFiniteSet(K) /\ K \in SUBSET K
    BY <1>1
  <2> QED BY <1>1, <1>2, <2>1, SumsAny
<1>5. w[K] \in Nat /\ w[K \ {x}] \in Nat
  <2>1. IsFiniteSet(K) /\ K \in SUBSET K /\ K \ {x} \in SUBSET K
    BY <1>1
  <2> QED BY <1>1, <1>2, <2>1, SumNat
<1>6. w[{}] = 0
  BY <1>2 DEF SumsTo, Adds
<1>7. K \in SUBSET K /\ K \ {x} \in SUBSET K /\ {} \in SUBSET K
  OBVIOUS
<1> QED BY <1>1, <1>3, <1>4, <1>5, <1>6, <1>7

LEMMA StableGroup ==
  ASSUME NEW ev, EvidenceOK(ev), IsFiniteSet(Group), NEW i \in 1 .. Len(ev)
  PROVE  Stable(ev[i]) \in Group \cup {Unnamed}
<1> DEFINE G == {g \in Group : ev[i].groups[g] > 0}
<1>1. IsFiniteSet(G)
  <2>1. G \in SUBSET Group
    OBVIOUS
  <2> HIDE DEF G
  <2> QED BY <2>1, FS_Subset
<1>2. Cardinality(G) = 1 => \E g \in Group : ev[i].groups[g] > 0
  <2>1. Cardinality(G) = 1 => \E g : G = {g}
    BY <1>1, OnlyOne
  <2> QED BY <2>1
<1> QED BY <1>2 DEF Stable

(* The loop after k folders.  T are the groups that folders agree on, A the *)
(* folders that tell.                                                      *)
AgreeState == [group : Group \cup {Unnamed}, n : Nat, split : BOOLEAN]
Telling(ev, k) == {i \in 1 .. k : Stable(ev[i]) # Unnamed}

(* The loop of StableObservedGroup after the first k folders. *)
AgreeAt(ev, k, l) ==
  /\ l \in AgreeState
  /\ l.split => \E i, j \in Telling(ev, k) : Stable(ev[i]) # Stable(ev[j])
  /\ ~l.split => /\ \A i \in Telling(ev, k) : Stable(ev[i]) = l.group
                 /\ Telling(ev, k) = {} => l.group = Unnamed /\ l.n = 0
                 /\ Telling(ev, k) # {} => l.n = Files(ev, l.group, Telling(ev, k))

LEMMA AgreeCases ==
  ASSUME NEW ev, NEW i, Stable(ev[i]) \in Group \cup {Unnamed}, Unnamed \notin Group,
         \A g \in Group : ev[i].groups[g] \in Nat, NEW l \in AgreeState
  PROVE  LET m == Agree(ev, l, i)
             g == Stable(ev[i])
         IN  /\ m \in AgreeState
             /\ l.split \/ g = Unnamed => m = l
             /\ ~l.split /\ g # Unnamed /\ l.group \in {Unnamed, g}
                  => m.group = g /\ m.n = l.n + ev[i].groups[g] /\ ~m.split
             /\ ~l.split /\ g # Unnamed /\ l.group \notin {Unnamed, g} => m.split
<1> DEFINE g == Stable(ev[i])
           m == Agree(ev, l, i)
<1>1. CASE l.split \/ g = Unnamed
  <2>1. m = l
    BY <1>1 DEF Agree
  <2> QED BY <1>1, <2>1
<1>2. CASE ~l.split /\ g # Unnamed /\ l.group \in {Unnamed, g}
  <2>1. m = [l EXCEPT !.group = g, !.n = @ + ev[i].groups[g]]
    BY <1>2 DEF Agree
  <2>2. g \in Group /\ ev[i].groups[g] \in Nat
    BY <1>2
  <2> DEFINE x == ev[i].groups[g]
  <2>3. m.group = g /\ m.n = l.n + x /\ m.split = l.split
    BY <2>1 DEF AgreeState
  <2>4. l.n \in Nat /\ l.split \in BOOLEAN /\ l.n + x \in Nat
    BY <2>2 DEF AgreeState
  <2>5. m = [group |-> g, n |-> l.n + x, split |-> l.split]
    BY <2>1 DEF AgreeState
  <2>6. m \in AgreeState
    BY <2>2, <2>4, <2>5 DEF AgreeState
  <2> HIDE DEF m
  <2> QED BY <1>2, <2>3, <2>6 DEF m
<1>3. CASE ~l.split /\ g # Unnamed /\ l.group \notin {Unnamed, g}
  <2>1. m = [l EXCEPT !.split = TRUE]
    BY <1>3 DEF Agree
  <2>2. m \in AgreeState /\ m.split = TRUE
    BY <2>1 DEF AgreeState
  <2> HIDE DEF m
  <2> QED BY <1>3, <2>2 DEF m
<1> QED BY <1>1, <1>2, <1>3

LEMMA AgreeStep ==
  ASSUME NEW ev, EvidenceOK(ev), IsFiniteSet(Group), NEW k \in 1 .. Len(ev), NEW l, AgreeAt(ev, k - 1, l)
  PROVE  AgreeAt(ev, k, Agree(ev, l, k))
<1> DEFINE m == Agree(ev, l, k)
           g == Stable(ev[k])
           A == Telling(ev, k - 1)
           B == Telling(ev, k)
<1>1. /\ k \in Nat /\ Len(ev) \in Nat /\ g \in Group \cup {Unnamed} /\ Unnamed \notin Group /\ l \in AgreeState
      /\ \A i \in 1 .. k : \A h \in Group : ev[i].groups[h] \in Nat
  <2>1. Len(ev) \in Nat /\ Unnamed \notin Group /\ l \in AgreeState
    BY DEF EvidenceOK, AgreeAt
  <2>2. \A i \in 1 .. k : i \in 1 .. Len(ev)
    BY <2>1
  <2>3. \A i \in 1 .. k : \A h \in Group : ev[i].groups[h] \in Nat
    BY <2>2, Evident
  <2> QED BY <2>1, <2>3, StableGroup
<1>2. B = IF g = Unnamed THEN A ELSE A \cup {k}
  BY <1>1 DEF Telling
<1>3. k \notin A /\ A \subseteq 1 .. k /\ IsFiniteSet(B)
  <2>1. IsFiniteSet(1 .. k) /\ B \in SUBSET (1 .. k)
    BY <1>1, FS_Interval DEF Telling
  <2> HIDE DEF B
  <2>2. IsFiniteSet(B)
    BY <2>1, FS_Subset
  <2> QED BY <1>1, <2>2 DEF Telling
<1>4. /\ m \in AgreeState
      /\ l.split \/ g = Unnamed => m = l
      /\ ~l.split /\ g # Unnamed /\ l.group \in {Unnamed, g}
           => m.group = g /\ m.n = l.n + ev[k].groups[g] /\ ~m.split
      /\ ~l.split /\ g # Unnamed /\ l.group \notin {Unnamed, g} => m.split
  <2>1. \A h \in Group : ev[k].groups[h] \in Nat
    BY <1>1
  <2> QED BY <1>1, <2>1, AgreeCases
<1>5. /\ l.split => \E i, j \in A : Stable(ev[i]) # Stable(ev[j])
      /\ ~l.split => /\ \A i \in A : Stable(ev[i]) = l.group
                     /\ A = {} => l.group = Unnamed /\ l.n = 0
                     /\ A # {} => l.n = Files(ev, l.group, A)
  BY DEF AgreeAt
<1> HIDE DEF m, A, B
<1> SUFFICES /\ m.split => \E i, j \in B : Stable(ev[i]) # Stable(ev[j])
             /\ ~m.split => /\ \A i \in B : Stable(ev[i]) = m.group
                            /\ B = {} => m.group = Unnamed /\ m.n = 0
                            /\ B # {} => m.n = Files(ev, m.group, B)
  BY <1>4 DEF AgreeAt, m, B
<1>6. CASE g = Unnamed
  BY <1>2, <1>4, <1>5, <1>6
<1>7. CASE g # Unnamed /\ l.split
  BY <1>2, <1>4, <1>5, <1>7
<1>8. CASE g # Unnamed /\ ~l.split /\ l.group \in {Unnamed, g}
  <2>1. m.group = g /\ m.n = l.n + ev[k].groups[g] /\ ~m.split /\ B = A \cup {k} /\ B \ {k} = A
    BY <1>2, <1>3, <1>4, <1>8
  <2>2. \A i \in B : Stable(ev[i]) = g
    <3>1. \A i \in A : Stable(ev[i]) # Unnamed
      BY DEF A, Telling
    <3> QED BY <1>5, <1>8, <2>1, <3>1
  <2>3. Files(ev, g, B) = ev[k].groups[g] + Files(ev, g, A) /\ Files(ev, g, A) \in Nat
        /\ Files(ev, g, {}) = 0
    <3>1. k \in B /\ Counted(ev, g, B)
      BY <1>1, <1>3, <1>8, <2>1 DEF Counted
    <3>2. Files(ev, g, B) = ev[k].groups[g] + Files(ev, g, B \ {k}) /\ Files(ev, g, B \ {k}) \in Nat
          /\ Files(ev, g, {}) = 0
      <4>1. Files(ev, g, B) = ev[k].groups[g] + Files(ev, g, B \ {k})
        BY <3>1, FilesAdd
      <4>2. Files(ev, g, B \ {k}) \in Nat
        BY <3>1, FilesAdd
      <4>3. Files(ev, g, {}) = 0
        BY <3>1, FilesAdd
      <4> QED BY <4>1, <4>2, <4>3
    <3> QED BY <2>1, <3>2
  <2>4. l.n = Files(ev, g, A)
    <3>1. CASE A = {}
      BY <1>5, <1>8, <2>3, <3>1
    <3>2. CASE A # {}
      <4>1. l.group = g
        BY <1>5, <1>8, <2>1, <2>2, <3>2
      <4> QED BY <1>5, <1>8, <3>2, <4>1
    <3> QED BY <3>1, <3>2
  <2>5. ev[k].groups[g] \in Nat
    BY <1>1, <1>8
  <2> QED BY <2>1, <2>2, <2>3, <2>4, <2>5
<1>9. CASE g # Unnamed /\ ~l.split /\ l.group \notin {Unnamed, g}
  <2>1. PICK i \in A : Stable(ev[i]) = l.group
    BY <1>5, <1>9
  <2> QED BY <1>2, <1>4, <1>9, <2>1
<1> QED BY <1>6, <1>7, <1>8, <1>9

LEMMA AgreeEnds ==
  ASSUME NEW ev, EvidenceOK(ev), IsFiniteSet(Group)
  PROVE  \E l : AgreeAt(ev, Len(ev), l)
                /\ Agreed(ev, DOMAIN ev) = IF l.split \/ l.n < 2 THEN Unnamed ELSE l.group
<1> DEFINE n == Len(ev)
           none == [group |-> Unnamed, n |-> 0, split |-> FALSE]
           seq == [i \in DOMAIN ev |-> i]
           Value(l, i) == IF i \in DOMAIN ev THEN Agree(ev, l, i) ELSE l
           Iter(it) == it = [T \in SUBSET DOMAIN seq |->
                         IF T = {} THEN none ELSE Value(it[T \ {Max(T)}], seq[Max(T)])]
           step == [i \in 1 .. n |-> [l \in AgreeState |-> Agree(ev, l, i)]]
<1>1. n \in Nat /\ DOMAIN ev = 1 .. n /\ DOMAIN seq = 1 .. n /\ (\A i \in 1 .. n : seq[i] = i)
  BY Evident
<1>2. none \in AgreeState
  BY DEF AgreeState
<1>3. step \in [1 .. n -> [AgreeState -> AgreeState]]
  <2>1. ASSUME NEW i \in 1 .. n, NEW l \in AgreeState PROVE Agree(ev, l, i) \in AgreeState
    <3>1. Stable(ev[i]) \in Group \cup {Unnamed} /\ Unnamed \notin Group
          /\ \A g \in Group : ev[i].groups[g] \in Nat
      BY <1>1, Evident, StableGroup DEF EvidenceOK
    <3> QED BY <3>1, AgreeCases
  <2> HIDE DEF n
  <2> QED BY <2>1
<1>4. \E it : Iter(it)
  <2> HIDE DEF n, seq, none
  <2>1. PICK it : Folds(n, AgreeState, none, step, it)
    <3>1. n \in Nat
      BY <1>1
    <3> HIDE DEF step
    <3> QED BY <1>2, <1>3, <3>1, FoldExists
  <2>2. ASSUME NEW T \in SUBSET (1 .. n), T # {}
        PROVE  step[Max(T)][it[T \ {Max(T)}]] = Value(it[T \ {Max(T)}], seq[Max(T)])
    <3>1. Max(T) \in T
      BY <1>1, <2>2, LastOfSubset
    <3>2. seq[Max(T)] = Max(T) /\ it[T \ {Max(T)}] \in AgreeState /\ Max(T) \in DOMAIN ev
      BY <1>1, <2>1, <3>1 DEF Folds
    <3> QED BY <3>1, <3>2
  <2>3. it = [T \in SUBSET (1 .. n) |->
                IF T = {} THEN none ELSE Value(it[T \ {Max(T)}], seq[Max(T)])]
    <3> HIDE DEF step, Value
    <3> QED BY <2>1, <2>2 DEF Folds
  <2>4. DOMAIN seq = 1 .. n
    BY <1>1
  <2>5. Iter(it)
    <3> HIDE DEF Value, n
    <3> QED BY <2>3, <2>4
  <2> HIDE DEF Iter
  <2> QED BY <2>5
<1>5. Iter(CHOOSE it : Iter(it))
  <2> HIDE DEF Iter
  <2> QED BY <1>4
<1>6. LET loop == (CHOOSE it : Iter(it))[DOMAIN seq]
      IN  Agreed(ev, DOMAIN ev) = IF loop.split \/ loop.n < 2 THEN Unnamed ELSE loop.group
  BY DEF Agreed, FoldLeft, MapThenFoldSet
<1>7. PICK it : Iter(it) /\ LET l == it[1 .. n]
                            IN  Agreed(ev, DOMAIN ev) = IF l.split \/ l.n < 2 THEN Unnamed ELSE l.group
  <2> HIDE DEF Iter, seq
  <2> QED BY <1>1, <1>5, <1>6
<1> DEFINE good == {k \in 0 .. n : AgreeAt(ev, k, it[1 .. k])}
<1> HIDE DEF seq
<1>8. 0 \in good
  <2>1. it[{}] = none /\ 1 .. 0 = {} /\ Telling(ev, 0) = {} /\ 0 \in 0 .. n
    BY <1>1, <1>7 DEF Telling
  <2> QED BY <1>2, <2>1 DEF AgreeAt
<1>9. ASSUME NEW k \in 1 .. n, k - 1 \in good PROVE k \in good
  <2>1. k \in Nat /\ k > 0 /\ 1 .. k \in SUBSET (1 .. n)
    BY <1>1
  <2>2. Max(1 .. k) = k /\ (1 .. k) \ {k} = 1 .. k - 1 /\ 1 .. k # {}
    BY <2>1, LastOfPrefix
  <2>3. it[1 .. k] = Agree(ev, it[1 .. k - 1], k)
    <3>1. seq[k] = k /\ DOMAIN seq = 1 .. n /\ k \in DOMAIN ev
      BY <1>1
    <3>2. it[1 .. k] = Value(it[1 .. k - 1], k)
      <4> HIDE DEF Value
      <4> QED BY <1>7, <2>1, <2>2, <3>1
    <3> QED BY <3>1, <3>2
  <2>4. AgreeAt(ev, k - 1, it[1 .. k - 1])
    BY <1>9
  <2>5. AgreeAt(ev, k, it[1 .. k])
    BY <2>3, <2>4, AgreeStep
  <2> QED BY <2>5
<1>10. n \in good
  <2> HIDE DEF good, n
  <2>1. 0 .. n \subseteq good
    BY <1>1, <1>8, <1>9, UpTo
  <2> QED BY <1>1, <2>1
<1> QED BY <1>7, <1>10

(* Whatever the folders of a series are, in any order, the group that is    *)
(* expected is the one all of them that can tell agree on.                 *)
THEOREM GroupsAgreed ==
  ASSUME NEW ev, EvidenceOK(ev), IsFiniteSet(Group)
  PROVE  GroupAgreed(ev)
<1> DEFINE n == Len(ev)
           all == {i \in DOMAIN ev : Stable(ev[i]) # Unnamed}
           telling == {Stable(ev[i]) : i \in DOMAIN ev} \ {Unnamed}
           g == CHOOSE x \in telling : TRUE
<1>1. n \in Nat /\ DOMAIN ev = 1 .. n
  BY Evident
<1>2. PICK l : AgreeAt(ev, n, l) /\ Agreed(ev, DOMAIN ev) = IF l.split \/ l.n < 2 THEN Unnamed ELSE l.group
  BY AgreeEnds
<1>3. all = Telling(ev, n) /\ telling = {Stable(ev[i]) : i \in all}
  BY <1>1 DEF Telling
<1>4. IsFiniteSet(telling)
  <2>1. telling \in SUBSET Group
    BY <1>1, StableGroup
  <2> HIDE DEF telling
  <2> QED BY <2>1, FS_Subset
<1>5. GroupAgreed(ev) <=>
        Agreed(ev, DOMAIN ev) = IF Cardinality(telling) = 1 /\ Files(ev, g, all) >= 2 THEN g ELSE Unnamed
  BY DEF GroupAgreed, Files
<1> HIDE DEF n, all, telling, g
<1>6. CASE l.split
  <2>1. \E i, j \in all : Stable(ev[i]) # Stable(ev[j])
    BY <1>2, <1>3, <1>6 DEF AgreeAt
  <2>2. ~\E x : telling = {x}
    BY <1>3, <2>1
  <2> QED BY <1>2, <1>4, <1>5, <1>6, <2>2, OnlyOne
<1>7. CASE ~l.split /\ all = {}
  <2>1. l.n = 0 /\ telling = {} /\ Cardinality({}) = 0
    BY <1>2, <1>3, <1>7, FS_EmptySet DEF AgreeAt
  <2> QED BY <1>2, <1>5, <2>1
<1>8. CASE ~l.split /\ all # {}
  <2>1. (\A i \in all : Stable(ev[i]) = l.group) /\ l.n = Files(ev, l.group, all)
    BY <1>2, <1>3, <1>8 DEF AgreeAt
  <2>2. telling = {l.group}
    BY <1>3, <1>8, <2>1
  <2>3. Cardinality(telling) = 1 /\ g = l.group /\ l.n \in Nat
    BY <1>2, <1>4, <2>2, OnlyOne DEF g, AgreeAt, AgreeState
  <2> QED BY <1>2, <1>5, <1>8, <2>1, <2>3
<1> QED BY <1>6, <1>7, <1>8

-----------------------------------------------------------------------------
(* The inventory of a library.                                             *)

(* A library: what its files say is arbitrary. *)
FileSays == [said : Int \cup {Unsaid}, first : Int, last : Int, bare : BOOLEAN,
             folder : Int, object : Object]

(* What a file means in its library, and the files up to the k-th. *)
HintOf(lib, f) == Hint(lib, f.folder)
MeantSeason(lib, f) == SeasonOf(f, HintOf(lib, f))
Meaning(lib, f) == <<MeantSeason(lib, f), f.first, f.last>>
Read(lib, k) == {lib.files[i] : i \in 1 .. k}
Legibles(lib, k) == {f \in Read(lib, k) : Legible(f, HintOf(lib, f))}
Seasons(lib) ==
  {MeantSeason(lib, f) : f \in ToSet(lib.files)} \cup {HintOf(lib, f) : f \in ToSet(lib.files)}
    \cup {Suggested(lib, k) : k \in lib.issues}

(* An inventory of the seasons S. *)
InventoryState(S) ==
  [known : BOOLEAN, eps : SUBSET (S \X Int), failed : SUBSET S,
   meaning : [Object -> SUBSET (S \X Int \X Int)], holds : SUBSET (S \X Int \X Object)]

(* The inventory after k files: what it fails is unread or disputed; of the *)
(* rest it has every episode of every file, each of one object.            *)
UnreadSeason(lib, k, s) ==
  \/ \E x \in lib.issues \ {Top} : Suggested(lib, x) = s
  \/ \E f \in Read(lib, k) \ Legibles(lib, k) : HintOf(lib, f) = s

(* What a known inventory holds after k files. *)
Holding(lib, k, inv) ==
  /\ \A s : UnreadSeason(lib, k, s) => s \in inv.failed
  /\ \A s \in inv.failed : UnreadSeason(lib, k, s) \/ Disputed(lib, s)
  /\ \A o \in Object : \A m \in inv.meaning[o] :
       \E f \in Legibles(lib, k) : f.object = o /\ m = Meaning(lib, f)
  /\ \A h \in inv.holds : \E f \in Legibles(lib, k) :
       h[1] = MeantSeason(lib, f) /\ h[2] \in Range1(f) /\ h[3] = f.object
  /\ \A p \in inv.eps : \E f \in Legibles(lib, k) :
       p[1] = MeantSeason(lib, f) /\ p[2] \in Range1(f)
  /\ \A f \in Legibles(lib, k) : MeantSeason(lib, f) \notin inv.failed =>
       \A n \in Range1(f) : /\ <<MeantSeason(lib, f), n>> \in inv.eps
                            /\ <<MeantSeason(lib, f), n, f.object>> \in inv.holds
  /\ \A f, g \in Legibles(lib, k) :
       MeantSeason(lib, f) = MeantSeason(lib, g) /\ MeantSeason(lib, f) \notin inv.failed
         /\ f.object # g.object => Range1(f) \cap Range1(g) = {}

(* The inventory after k files. *)
ReadAt(lib, k, inv) ==
  /\ inv \in InventoryState(Seasons(lib))
  /\ inv.known <=> /\ Top \notin lib.issues
                   /\ \A f \in Read(lib, k) \ Legibles(lib, k) : HintOf(lib, f) # Unsaid
  /\ inv.known => Holding(lib, k, inv)

LEMMA Filed ==
  ASSUME NEW lib, lib.files \in Seq(FileSays)
  PROVE  /\ Len(lib.files) \in Nat /\ DOMAIN lib.files = 1 .. Len(lib.files)
         /\ ToSet(lib.files) = Read(lib, Len(lib.files))
         /\ ToSet(lib.files) \subseteq FileSays
         /\ \A i \in 1 .. Len(lib.files) : lib.files[i] \in ToSet(lib.files)
<1>1. /\ Len(lib.files) \in Nat /\ DOMAIN lib.files = 1 .. Len(lib.files)
      /\ \A i \in 1 .. Len(lib.files) : lib.files[i] \in FileSays
  OBVIOUS
<1> QED BY <1>1 DEF ToSet, Read

(* What a file may do to the inventory: fail everything or a season, or be  *)
(* taken in as a whole or up to an episode of another object.              *)
Fails(inv, new, s) == new = [inv EXCEPT !.failed = @ \cup {s}]

Takes(inv, new, f, s, upto, fails) ==
  new = [known   |-> inv.known,
         eps     |-> IF fails \/ s \in inv.failed THEN inv.eps ELSE inv.eps \cup {<<s, n>> : n \in upto},
         failed  |-> IF fails THEN inv.failed \cup {s} ELSE inv.failed,
         meaning |-> [inv.meaning EXCEPT ![f.object] = {<<s, f.first, f.last>>}],
         holds   |-> inv.holds \cup {<<s, n, f.object>> : n \in upto}]

(* The episodes of a file that another object has. *)
Taken(inv, f, s) == {n \in Range1(f) : \E h \in inv.holds : h[1] = s /\ h[2] = n /\ h[3] # f.object}

LEMMA ReadCases ==
  ASSUME NEW lib, lib.files \in Seq(FileSays), NEW f \in ToSet(lib.files),
         NEW inv \in InventoryState(Seasons(lib))
  PROVE  LET new == ReadFile(lib, inv, f)
             s == MeantSeason(lib, f)
             h == HintOf(lib, f)
         IN  \/ ~inv.known /\ new = inv
             \/ inv.known /\ ~Legible(f, h) /\ h = Unsaid /\ new = [inv EXCEPT !.known = FALSE]
             \/ inv.known /\ ~Legible(f, h) /\ h # Unsaid /\ Fails(inv, new, h)
             \/ inv.known /\ Legible(f, h) /\ inv.meaning[f.object] \ {Meaning(lib, f)} # {} /\ Fails(inv, new, s)
             \/ /\ inv.known /\ Legible(f, h) /\ inv.meaning[f.object] \subseteq {Meaning(lib, f)}
                /\ Taken(inv, f, s) # {}
                /\ \E upto \in SUBSET Range1(f) : Takes(inv, new, f, s, upto, TRUE)
             \/ /\ inv.known /\ Legible(f, h) /\ inv.meaning[f.object] \subseteq {Meaning(lib, f)}
                /\ Taken(inv, f, s) = {} /\ Takes(inv, new, f, s, Range1(f), FALSE)
<1> DEFINE new == ReadFile(lib, inv, f)
           s == MeantSeason(lib, f)
           h == HintOf(lib, f)
           taken == Taken(inv, f, s)
<1>1. f \in FileSays
  BY Filed
<1>2. new = CASE ~inv.known -> inv
              [] inv.known /\ ~Legible(f, h) ->
                   IF h = Unsaid THEN [inv EXCEPT !.known = FALSE] ELSE Fail(inv, h)
              [] inv.known /\ Legible(f, h) ->
                   IF inv.meaning[f.object] \ {<<s, f.first, f.last>>} # {} THEN Fail(inv, s)
                   ELSE IF taken # {} THEN Clash(inv, f, s, taken) ELSE Add(inv, f, s)
  BY DEF ReadFile, HintOf, MeantSeason, Taken
<1>3. ASSUME taken # {} PROVE f.first .. Min(taken) - 1 \in SUBSET Range1(f)
  <2>1. taken \subseteq Int /\ IsFiniteSet(taken)
    <3>1. f.first \in Int /\ f.last \in Int
      BY <1>1 DEF FileSays
    <3>2. IsFiniteSet(Range1(f)) /\ taken \in SUBSET Range1(f) /\ Range1(f) \subseteq Int
      BY <3>1, FS_Interval DEF Range1, Taken
    <3> HIDE DEF taken
    <3>3. IsFiniteSet(taken)
      BY <3>2, FS_Subset
    <3> QED BY <3>2, <3>3
  <2> HIDE DEF taken
  <2>2. Min(taken) \in taken
    BY <1>3, <2>1, MinMax
  <2>3. Min(taken) \in Range1(f) /\ f.first \in Int /\ f.last \in Int
    BY <1>1, <2>2 DEF taken, Taken, FileSays
  <2> QED BY <2>3 DEF Range1
<1> HIDE DEF new, h, s, taken
<1>4. ASSUME taken # {}, new = Clash(inv, f, s, taken)
      PROVE  Takes(inv, new, f, s, f.first .. Min(taken) - 1, TRUE)
  BY <1>4 DEF Clash, Fail, Takes, InventoryState
<1>5. ASSUME new = Add(inv, f, s) PROVE Takes(inv, new, f, s, Range1(f), FALSE)
  BY <1>5 DEF Add, Takes, InventoryState
<1>6. CASE ~inv.known
  BY <1>2, <1>6 DEF new
<1>7. CASE inv.known /\ ~Legible(f, h)
  BY <1>2, <1>7 DEF new, h, Fails, Fail
<1>8. CASE inv.known /\ Legible(f, h) /\ inv.meaning[f.object] \ {<<s, f.first, f.last>>} # {}
  BY <1>2, <1>8 DEF new, h, s, Fails, Fail, Meaning
<1>9. CASE inv.known /\ Legible(f, h) /\ ~(inv.meaning[f.object] \ {<<s, f.first, f.last>>} # {}) /\ taken # {}
  <2>1. new = Clash(inv, f, s, taken)
    BY <1>2, <1>9
  <2>2. \E upto \in SUBSET Range1(f) : Takes(inv, new, f, s, upto, TRUE)
    BY <1>3, <1>4, <1>9, <2>1
  <2>3. inv.meaning[f.object] \subseteq {Meaning(lib, f)}
    BY <1>9 DEF Meaning, s
  <2> QED BY <1>9, <2>2, <2>3 DEF new, h, s, taken
<1>10. CASE inv.known /\ Legible(f, h) /\ ~(inv.meaning[f.object] \ {<<s, f.first, f.last>>} # {}) /\ taken = {}
  <2>1. new = Add(inv, f, s)
    BY <1>2, <1>10
  <2>3. inv.meaning[f.object] \subseteq {Meaning(lib, f)}
    BY <1>10 DEF Meaning, s
  <2> QED BY <1>5, <1>10, <2>1, <2>3 DEF new, h, s, taken
<1> QED BY <1>6, <1>7, <1>8, <1>9, <1>10

LEMMA ReadType ==
  ASSUME NEW lib, lib.files \in Seq(FileSays), NEW f \in ToSet(lib.files),
         NEW inv \in InventoryState(Seasons(lib))
  PROVE  ReadFile(lib, inv, f) \in InventoryState(Seasons(lib))
<1> DEFINE S == Seasons(lib)
           h == HintOf(lib, f)
           s == MeantSeason(lib, f)
           new == ReadFile(lib, inv, f)
<1>1. f.object \in Object /\ s \in S /\ h \in S /\ f.first \in Int /\ f.last \in Int /\ Range1(f) \subseteq Int
  <2>1. f \in FileSays
    BY Filed
  <2> QED BY <2>1 DEF Seasons, FileSays, Range1
<1> HIDE DEF S, h, s, new
<1>2. inv \in InventoryState(S)
  BY DEF S
<1>3. ASSUME new = [inv EXCEPT !.known = FALSE] PROVE new \in InventoryState(S)
  BY <1>2, <1>3 DEF InventoryState
<1>4. ASSUME NEW t \in S, Fails(inv, new, t) PROVE new \in InventoryState(S)
  BY <1>2, <1>4 DEF InventoryState, Fails
<1>5. ASSUME NEW upto \in SUBSET Range1(f), NEW b \in BOOLEAN, Takes(inv, new, f, s, upto, b)
      PROVE  new \in InventoryState(S)
  <2>1. /\ {<<s, n>> : n \in upto} \in SUBSET (S \X Int)
        /\ {<<s, n, f.object>> : n \in upto} \in SUBSET (S \X Int \X Object)
        /\ {<<s, f.first, f.last>>} \in SUBSET (S \X Int \X Int)
    BY <1>1
  <2> QED BY <1>1, <1>2, <1>5, <2>1 DEF InventoryState, Takes
<1>6. inv = new \/ (new = [inv EXCEPT !.known = FALSE]) \/ (\E t \in S : Fails(inv, new, t))
      \/ \E upto \in SUBSET Range1(f), b \in BOOLEAN : Takes(inv, new, f, s, upto, b)
  BY <1>1, ReadCases DEF new, h, s
<1> QED BY <1>2, <1>3, <1>4, <1>5, <1>6 DEF new, S

LEMMA ReadGrows ==
  ASSUME NEW lib, NEW k \in Nat, k > 0
  PROVE  LET f == lib.files[k]
             legible == Legible(f, HintOf(lib, f))
         IN  /\ Read(lib, k) = Read(lib, k - 1) \cup {f}
             /\ Legibles(lib, k) = IF legible THEN Legibles(lib, k - 1) \cup {f} ELSE Legibles(lib, k - 1)
             /\ \A s : UnreadSeason(lib, k, s)
                         <=> UnreadSeason(lib, k - 1, s) \/ (~legible /\ HintOf(lib, f) = s)
<1> DEFINE f == lib.files[k]
<1>1. 1 .. k = (1 .. k - 1) \cup {k}
  OBVIOUS
<1>2. Read(lib, k) = Read(lib, k - 1) \cup {f}
  BY <1>1 DEF Read
<1>3. Legibles(lib, k) = IF Legible(f, HintOf(lib, f)) THEN Legibles(lib, k - 1) \cup {f} ELSE Legibles(lib, k - 1)
  BY <1>2 DEF Legibles
<1> HIDE DEF f
<1>4. f \in Read(lib, k)
  BY <1>2
<1>5. Legibles(lib, k - 1) = {g \in Read(lib, k - 1) : Legible(g, HintOf(lib, g))}
      /\ Legibles(lib, k) = {g \in Read(lib, k) : Legible(g, HintOf(lib, g))}
  BY DEF Legibles
<1>6. ASSUME NEW s
      PROVE  (\E g \in Read(lib, k) \ Legibles(lib, k) : HintOf(lib, g) = s)
               <=> \/ \E g \in Read(lib, k - 1) \ Legibles(lib, k - 1) : HintOf(lib, g) = s
                   \/ ~Legible(f, HintOf(lib, f)) /\ HintOf(lib, f) = s
  BY <1>2, <1>5
<1> QED BY <1>2, <1>3, <1>6 DEF UnreadSeason, f

(* A disagreement among the files read is one of the library. *)
LEMMA Disputes ==
  ASSUME NEW lib, NEW f \in ToSet(lib.files), NEW g \in ToSet(lib.files),
         Legible(f, HintOf(lib, f)), Legible(g, HintOf(lib, g)), f \in FileSays, g \in FileSays,
         \/ f.object = g.object /\ Meaning(lib, f) # Meaning(lib, g)
         \/ f.object # g.object /\ MeantSeason(lib, f) = MeantSeason(lib, g) /\ Range1(f) \cap Range1(g) # {}
  PROVE  Disputed(lib, MeantSeason(lib, f))
<1> DEFINE s == MeantSeason(lib, f)
<1>1. f \in MeantAs(lib, s) /\ (MeantSeason(lib, g) = s => g \in MeantAs(lib, s))
  BY DEF MeantAs, MeantSeason, HintOf
<1>2. CASE f.object = g.object /\ Meaning(lib, f) # Meaning(lib, g)
  <2>1. MeantSeason(lib, g) # s \/ f.first # g.first \/ f.last # g.last
    BY <1>2 DEF Meaning
  <2>2. f.first # g.first \/ f.last # g.last => Range1(f) # Range1(g)
    <3>1. f.first \in Int /\ f.last \in Int /\ g.first \in Int /\ g.last \in Int
          /\ f.first <= f.last /\ g.first <= g.last
      BY DEF FileSays, Legible
    <3>2. f.first \in Range1(f) /\ f.last \in Range1(f) /\ g.first \in Range1(g) /\ g.last \in Range1(g)
      BY <3>1 DEF Range1
    <3>3. ASSUME Range1(f) = Range1(g) PROVE f.first = g.first /\ f.last = g.last
      <4>1. f.first \in Range1(g) /\ f.last \in Range1(g) /\ g.first \in Range1(f) /\ g.last \in Range1(f)
        BY <3>2, <3>3
      <4> QED BY <3>1, <4>1 DEF Range1
    <3> QED BY <3>3
  <2> QED BY <1>1, <1>2, <2>1, <2>2 DEF Disputed, MeantSeason, HintOf
<1>3. CASE f.object # g.object /\ MeantSeason(lib, g) = s /\ Range1(f) \cap Range1(g) # {}
  BY <1>1, <1>3 DEF Disputed, HintOf
<1> QED BY <1>2, <1>3

(* The next file, in each of the ways it may be taken. *)
LEMMA HoldsFailing ==
  ASSUME NEW lib, NEW k \in Nat, k > 0, NEW inv, Holding(lib, k - 1, inv), NEW new, NEW t,
         inv \in InventoryState(Seasons(lib)), Fails(inv, new, t),
         LET f == lib.files[k]
         IN  IF Legible(f, HintOf(lib, f)) THEN t = MeantSeason(lib, f) /\ Disputed(lib, t)
             ELSE t = HintOf(lib, f)
  PROVE  Holding(lib, k, new)
<1> DEFINE f == lib.files[k]
           L == Legibles(lib, k - 1)
           M == Legibles(lib, k)
<1>1. new.failed = inv.failed \cup {t} /\ new.meaning = inv.meaning /\ new.holds = inv.holds /\ new.eps = inv.eps
  BY DEF Fails, InventoryState
<1>2. M = IF Legible(f, HintOf(lib, f)) THEN L \cup {f} ELSE L
  BY ReadGrows
<1>3. \A s : UnreadSeason(lib, k, s)
               <=> UnreadSeason(lib, k - 1, s) \/ (~Legible(f, HintOf(lib, f)) /\ HintOf(lib, f) = s)
  BY ReadGrows
<1>4. L \subseteq M /\ \A g \in M \ L : MeantSeason(lib, g) \in new.failed
  BY <1>1, <1>2
<1> HIDE DEF L, M
<1>5. \A s : UnreadSeason(lib, k, s) => s \in new.failed
  BY <1>1, <1>3 DEF Holding
<1>6. \A s \in new.failed : UnreadSeason(lib, k, s) \/ Disputed(lib, s)
  BY <1>1, <1>3 DEF Holding
<1>7. \A o \in Object : \A m \in new.meaning[o] : \E g \in M : g.object = o /\ m = Meaning(lib, g)
  BY <1>1, <1>4 DEF Holding, L
<1>8. \A h \in new.holds : \E g \in M :
        h[1] = MeantSeason(lib, g) /\ h[2] \in Range1(g) /\ h[3] = g.object
  BY <1>1, <1>4 DEF Holding, L
<1>9. \A p \in new.eps : \E g \in M : p[1] = MeantSeason(lib, g) /\ p[2] \in Range1(g)
  BY <1>1, <1>4 DEF Holding, L
<1>10. \A g \in M : MeantSeason(lib, g) \notin new.failed =>
         \A n \in Range1(g) : /\ <<MeantSeason(lib, g), n>> \in new.eps
                              /\ <<MeantSeason(lib, g), n, g.object>> \in new.holds
  BY <1>1, <1>4 DEF Holding, L
<1>11. \A a, b \in M :
         MeantSeason(lib, a) = MeantSeason(lib, b) /\ MeantSeason(lib, a) \notin new.failed
           /\ a.object # b.object => Range1(a) \cap Range1(b) = {}
  BY <1>1, <1>4 DEF Holding, L
<1> QED BY <1>5, <1>6, <1>7, <1>8, <1>9, <1>10, <1>11 DEF Holding, M

LEMMA HoldsTaking ==
  ASSUME NEW lib, NEW k \in Nat, k > 0, NEW inv, Holding(lib, k - 1, inv), NEW new,
         inv \in InventoryState(Seasons(lib)), lib.files[k] \in FileSays,
         Legible(lib.files[k], HintOf(lib, lib.files[k])),
         LET f == lib.files[k]
             s == MeantSeason(lib, f)
         IN  \E upto \in SUBSET Range1(f), fails \in BOOLEAN :
               /\ Takes(inv, new, f, s, upto, fails)
               /\ IF fails THEN Disputed(lib, s) ELSE upto = Range1(f) /\ Taken(inv, f, s) = {}
  PROVE  Holding(lib, k, new)
<1> DEFINE f == lib.files[k]
           s == MeantSeason(lib, f)
           L == Legibles(lib, k - 1)
           M == Legibles(lib, k)
<1>1. PICK upto \in SUBSET Range1(f), fails \in BOOLEAN :
        /\ Takes(inv, new, f, s, upto, fails)
        /\ IF fails THEN Disputed(lib, s) ELSE upto = Range1(f) /\ Taken(inv, f, s) = {}
  OBVIOUS
<1>2. M = L \cup {f} /\ \A t : UnreadSeason(lib, k, t) <=> UnreadSeason(lib, k - 1, t)
  BY ReadGrows
<1>3. /\ new.failed = IF fails THEN inv.failed \cup {s} ELSE inv.failed
      /\ new.meaning = [inv.meaning EXCEPT ![f.object] = {<<s, f.first, f.last>>}]
      /\ new.holds = inv.holds \cup {<<s, n, f.object>> : n \in upto}
      /\ new.eps = IF fails \/ s \in inv.failed THEN inv.eps ELSE inv.eps \cup {<<s, n>> : n \in upto}
  BY <1>1 DEF Takes
<1>4. inv.failed \subseteq new.failed /\ inv.holds \subseteq new.holds /\ inv.eps \subseteq new.eps
      /\ f.object \in Object /\ inv.meaning \in [Object -> SUBSET (Seasons(lib) \X Int \X Int)]
  BY <1>3 DEF FileSays, InventoryState
<1> HIDE DEF f, s, L, M
<1>5. \A t : UnreadSeason(lib, k, t) => t \in new.failed
  BY <1>2, <1>4 DEF Holding
<1>6. \A t \in new.failed : UnreadSeason(lib, k, t) \/ Disputed(lib, t)
  BY <1>1, <1>2, <1>3 DEF Holding
<1>7. \A o \in Object : \A m \in new.meaning[o] : \E g \in M : g.object = o /\ m = Meaning(lib, g)
  <2>1. ASSUME NEW o \in Object, NEW m \in new.meaning[o]
        PROVE  \E g \in M : g.object = o /\ m = Meaning(lib, g)
    <3>1. CASE o = f.object
      BY <1>2, <1>3, <1>4, <2>1, <3>1 DEF Meaning, s
    <3>2. CASE o # f.object
      <4>1. m \in inv.meaning[o]
        BY <1>3, <1>4, <2>1, <3>2
      <4> QED BY <1>2, <4>1 DEF Holding, L
    <3> QED BY <3>1, <3>2
  <2> QED BY <2>1
<1>8. \A h \in new.holds : \E g \in M :
        h[1] = MeantSeason(lib, g) /\ h[2] \in Range1(g) /\ h[3] = g.object
  <2>1. ASSUME NEW h \in new.holds, h \notin inv.holds
        PROVE  h[1] = MeantSeason(lib, f) /\ h[2] \in Range1(f) /\ h[3] = f.object
    BY <1>3, <2>1 DEF s
  <2> QED BY <1>2, <2>1 DEF Holding, L
<1>9. \A p \in new.eps : \E g \in M : p[1] = MeantSeason(lib, g) /\ p[2] \in Range1(g)
  <2>1. ASSUME NEW p \in new.eps, p \notin inv.eps
        PROVE  p[1] = MeantSeason(lib, f) /\ p[2] \in Range1(f)
    BY <1>3, <2>1 DEF s
  <2> QED BY <1>2, <2>1 DEF Holding, L
<1>10. ASSUME NEW g \in M, MeantSeason(lib, g) \notin new.failed, NEW n \in Range1(g)
       PROVE  /\ <<MeantSeason(lib, g), n>> \in new.eps
              /\ <<MeantSeason(lib, g), n, g.object>> \in new.holds
  <2>1. CASE g \in L
    BY <1>4, <1>10, <2>1 DEF Holding, L
  <2>2. CASE g = f
    <3>1. ~fails /\ s \notin inv.failed /\ upto = Range1(f) /\ MeantSeason(lib, g) = s
      BY <1>1, <1>3, <1>10, <2>2 DEF s
    <3> QED BY <1>3, <1>10, <2>2, <3>1
  <2> QED BY <1>2, <2>1, <2>2
<1>11. ASSUME NEW a \in L, MeantSeason(lib, a) = s, s \notin new.failed, a.object # f.object
       PROVE  Range1(a) \cap Range1(f) = {}
  <2> SUFFICES ASSUME NEW n \in Range1(a) \cap Range1(f) PROVE FALSE
    OBVIOUS
  <2>1. <<s, n, a.object>> \in inv.holds
    BY <1>4, <1>11 DEF Holding, L
  <2>2. n \in Taken(inv, f, s)
    BY <1>11, <2>1 DEF Taken
  <2>3. ~fails
    BY <1>3, <1>11
  <2> QED BY <1>1, <2>2, <2>3
<1>12. ASSUME NEW a \in M, NEW b \in M, MeantSeason(lib, a) = MeantSeason(lib, b),
              MeantSeason(lib, a) \notin new.failed, a.object # b.object
       PROVE  Range1(a) \cap Range1(b) = {}
  <2>1. CASE a \in L /\ b \in L
    BY <1>4, <1>12, <2>1 DEF Holding, L
  <2>2. CASE a = f /\ b \in L
    BY <1>11, <1>12, <2>2 DEF s
  <2>3. CASE a \in L /\ b = f
    BY <1>11, <1>12, <2>3 DEF s
  <2> QED BY <1>2, <1>12, <2>1, <2>2, <2>3
<1> QED BY <1>5, <1>6, <1>7, <1>8, <1>9, <1>10, <1>12 DEF Holding, M

LEMMA ReadStep ==
  ASSUME NEW lib, lib.files \in Seq(FileSays), NEW k \in 1 .. Len(lib.files),
         NEW inv, ReadAt(lib, k - 1, inv)
  PROVE  ReadAt(lib, k, ReadFile(lib, inv, lib.files[k]))
<1> DEFINE f == lib.files[k]
           h == HintOf(lib, f)
           s == MeantSeason(lib, f)
           new == ReadFile(lib, inv, f)
           L == Legibles(lib, k - 1)
           M == Legibles(lib, k)
           Certain(j) == /\ Top \notin lib.issues
                         /\ \A g \in Read(lib, j) \ Legibles(lib, j) : HintOf(lib, g) # Unsaid
<1>1. /\ k \in Nat /\ k > 0 /\ f \in ToSet(lib.files) /\ f \in FileSays
      /\ Read(lib, k - 1) \subseteq ToSet(lib.files) /\ ToSet(lib.files) \subseteq FileSays
  <2>1. Len(lib.files) \in Nat
    BY Filed
  <2>2. k \in Nat /\ k > 0 /\ k - 1 <= Len(lib.files)
    BY <2>1
  <2>3. Read(lib, k - 1) \subseteq Read(lib, Len(lib.files))
    BY <2>1, <2>2 DEF Read
  <2> QED BY <2>2, <2>3, Filed
<1>2. inv \in InventoryState(Seasons(lib)) /\ new \in InventoryState(Seasons(lib))
  BY <1>1, ReadType DEF ReadAt
<1>3. Read(lib, k) = Read(lib, k - 1) \cup {f} /\ M = IF Legible(f, h) THEN L \cup {f} ELSE L
  BY <1>1, ReadGrows
<1>4. /\ L = {g \in Read(lib, k - 1) : Legible(g, HintOf(lib, g))}
      /\ M = {g \in Read(lib, k) : Legible(g, HintOf(lib, g))}
  BY DEF Legibles
<1>5. Certain(k) <=> Certain(k - 1) /\ (Legible(f, h) \/ h # Unsaid)
  BY <1>3, <1>4
<1>6. inv.known <=> Certain(k - 1)
  BY DEF ReadAt
<1>7. inv.known => Holding(lib, k - 1, inv)
  BY DEF ReadAt
<1> DEFINE Right == (new.known <=> inv.known /\ (Legible(f, h) \/ h # Unsaid))
                    /\ (new.known => Holding(lib, k, new))
<1> HIDE DEF f, h, s, new, L, M, Certain
<1>8. SUFFICES Right
  <2>1. Right => (new.known <=> Certain(k))
    BY <1>5, <1>6
  <2> QED BY <1>2, <2>1 DEF ReadAt, Certain, new, f
<1>9. CASE ~inv.known /\ new = inv
  BY <1>9
<1>10. CASE inv.known /\ ~Legible(f, h) /\ h = Unsaid /\ new = [inv EXCEPT !.known = FALSE]
  BY <1>2, <1>10 DEF InventoryState
<1>11. CASE inv.known /\ ~Legible(f, h) /\ h # Unsaid /\ Fails(inv, new, h)
  <2>1. new.known = inv.known
    BY <1>2, <1>11 DEF Fails, InventoryState
  <2>2. Holding(lib, k, new)
    BY <1>1, <1>2, <1>7, <1>11, HoldsFailing DEF f, h
  <2> QED BY <1>11, <2>1, <2>2
<1>12. ASSUME inv.known, Legible(f, h), NEW g \in L,
              \/ f.object = g.object /\ Meaning(lib, f) # Meaning(lib, g)
              \/ f.object # g.object /\ s = MeantSeason(lib, g) /\ Range1(f) \cap Range1(g) # {}
       PROVE  Disputed(lib, s)
  <2>1. g \in ToSet(lib.files) /\ g \in FileSays /\ Legible(g, HintOf(lib, g))
    BY <1>1, <1>4
  <2> QED BY <1>1, <1>12, <2>1, Disputes DEF s, h
<1>13. CASE inv.known /\ Legible(f, h) /\ inv.meaning[f.object] \ {Meaning(lib, f)} # {} /\ Fails(inv, new, s)
  <2>1. new.known = inv.known
    BY <1>2, <1>13 DEF Fails, InventoryState
  <2>2. PICK m \in inv.meaning[f.object] : m # Meaning(lib, f)
    BY <1>13
  <2>3. PICK g \in L : g.object = f.object /\ m = Meaning(lib, g)
    <3>1. f.object \in Object
      BY <1>1 DEF FileSays
    <3> QED BY <1>7, <1>13, <2>2, <3>1 DEF Holding, L
  <2>4. Disputed(lib, s)
    BY <1>12, <1>13, <2>2, <2>3
  <2>5. Holding(lib, k, new)
    BY <1>1, <1>2, <1>7, <1>13, <2>4, HoldsFailing DEF f, h, s
  <2> QED BY <1>13, <2>1, <2>5
<1>14. CASE /\ inv.known /\ Legible(f, h) /\ Taken(inv, f, s) # {}
            /\ \E upto \in SUBSET Range1(f) : Takes(inv, new, f, s, upto, TRUE)
  <2>1. new.known = inv.known
    BY <1>14 DEF Takes
  <2>2. PICK n \in Range1(f) : \E x \in inv.holds : x[1] = s /\ x[2] = n /\ x[3] # f.object
    BY <1>14 DEF Taken
  <2>3. PICK x \in inv.holds : x[1] = s /\ x[2] = n /\ x[3] # f.object
    BY <2>2
  <2>4. PICK g \in L : x[1] = MeantSeason(lib, g) /\ x[2] \in Range1(g) /\ x[3] = g.object
    BY <1>7, <1>14 DEF Holding, L
  <2>5. Disputed(lib, s)
    <3>1. n \in Range1(f) \cap Range1(g) /\ f.object # g.object /\ s = MeantSeason(lib, g)
      BY <2>2, <2>3, <2>4
    <3> QED BY <1>12, <1>14, <3>1
  <2>6. Holding(lib, k, new)
    BY <1>1, <1>2, <1>7, <1>14, <2>5, HoldsTaking DEF f, h, s
  <2> QED BY <1>14, <2>1, <2>6
<1>15. CASE inv.known /\ Legible(f, h) /\ Taken(inv, f, s) = {} /\ Takes(inv, new, f, s, Range1(f), FALSE)
  <2>1. new.known = inv.known
    BY <1>15 DEF Takes
  <2>2. Holding(lib, k, new)
    <3>1. Range1(f) \in SUBSET Range1(f) /\ FALSE \in BOOLEAN
      OBVIOUS
    <3> QED BY <1>1, <1>2, <1>7, <1>15, <3>1, HoldsTaking DEF f, h, s
  <2> QED BY <1>15, <2>1, <2>2
<1> HIDE DEF Right
<1>16. \/ ~inv.known /\ new = inv
       \/ inv.known /\ ~Legible(f, h) /\ h = Unsaid /\ new = [inv EXCEPT !.known = FALSE]
       \/ inv.known /\ ~Legible(f, h) /\ h # Unsaid /\ Fails(inv, new, h)
       \/ inv.known /\ Legible(f, h) /\ inv.meaning[f.object] \ {Meaning(lib, f)} # {} /\ Fails(inv, new, s)
       \/ /\ inv.known /\ Legible(f, h) /\ Taken(inv, f, s) # {}
          /\ \E upto \in SUBSET Range1(f) : Takes(inv, new, f, s, upto, TRUE)
       \/ inv.known /\ Legible(f, h) /\ Taken(inv, f, s) = {} /\ Takes(inv, new, f, s, Range1(f), FALSE)
  BY <1>1, <1>2, ReadCases DEF f, h, s, new
<1> QED BY <1>9, <1>10, <1>11, <1>13, <1>14, <1>15, <1>16

LEMMA ScanEnds ==
  ASSUME NEW lib, lib.files \in Seq(FileSays)
  PROVE  ReadAt(lib, Len(lib.files), Scan(lib))
<1> DEFINE seq == lib.files
           n == Len(seq)
           V == InventoryState(Seasons(lib))
           Iter(it) == it = [T \in SUBSET DOMAIN seq |->
                         IF T = {} THEN Unread(lib) ELSE ReadFile(lib, it[T \ {Max(T)}], seq[Max(T)])]
           step == [i \in 1 .. n |-> [inv \in V |-> ReadFile(lib, inv, seq[i])]]
<1>1. n \in Nat /\ DOMAIN seq = 1 .. n
  BY Filed
<1>2. Unread(lib) \in V /\ ReadAt(lib, 0, Unread(lib))
  <2> DEFINE certain == Top \notin lib.issues
             shut == {Suggested(lib, k) : k \in lib.issues \ {Top}}
             none == [o \in Object |-> {}]
  <2>1. Unread(lib) = [Nothing EXCEPT !.known = certain, !.failed = shut]
    BY DEF Unread
  <2>2. certain \in BOOLEAN /\ shut \in SUBSET Seasons(lib)
    BY DEF Seasons
  <2> HIDE DEF certain, shut
  <2>3. Unread(lib) = [known |-> certain, eps |-> {}, failed |-> shut, meaning |-> none, holds |-> {}]
    BY <2>1 DEF Nothing
  <2>4. Unread(lib) \in V
    BY <2>2, <2>3 DEF InventoryState
  <2>5. Read(lib, 0) = {} /\ Legibles(lib, 0) = {}
    BY DEF Read, Legibles
  <2>6. \A s : UnreadSeason(lib, 0, s) <=> s \in shut
    BY <2>5 DEF UnreadSeason, shut
  <2>7. Holding(lib, 0, Unread(lib))
    BY <2>3, <2>5, <2>6 DEF Holding
  <2>8. Unread(lib).known <=> /\ Top \notin lib.issues
                              /\ \A f \in Read(lib, 0) \ Legibles(lib, 0) : HintOf(lib, f) # Unsaid
    <3>1. Unread(lib).known = certain /\ \A f \in Read(lib, 0) \ Legibles(lib, 0) : HintOf(lib, f) # Unsaid
      BY <2>3, <2>5
    <3> QED BY <3>1, Zenon DEF certain
  <2> QED BY <2>4, <2>7, <2>8 DEF ReadAt
<1>3. step \in [1 .. n -> [V -> V]]
  <2>1. ASSUME NEW i \in 1 .. n, NEW inv \in V PROVE ReadFile(lib, inv, seq[i]) \in V
    BY Filed, ReadType
  <2> HIDE DEF V
  <2> QED BY <2>1
<1>4. \E it : Iter(it)
  <2> HIDE DEF V
  <2>1. PICK it : Folds(n, V, Unread(lib), step, it)
    <3> HIDE DEF step, n
    <3> QED BY <1>1, <1>2, <1>3, FoldExists
  <2>2. ASSUME NEW T \in SUBSET (1 .. n), T # {}
        PROVE  step[Max(T)][it[T \ {Max(T)}]] = ReadFile(lib, it[T \ {Max(T)}], seq[Max(T)])
    <3>1. Max(T) \in T
      <4> HIDE DEF n
      <4> QED BY <1>1, <2>2, LastOfSubset
    <3>2. it[T \ {Max(T)}] \in V
      BY <2>1 DEF Folds
    <3> QED BY <3>1, <3>2
  <2>3. it = [T \in SUBSET (1 .. n) |->
                IF T = {} THEN Unread(lib) ELSE ReadFile(lib, it[T \ {Max(T)}], seq[Max(T)])]
    <3> HIDE DEF step
    <3> QED BY <2>1, <2>2 DEF Folds
  <2>4. Iter(it)
    <3> HIDE DEF n
    <3> QED BY <1>1, <2>3
  <2> HIDE DEF Iter
  <2> QED BY <2>4
<1>5. Iter(CHOOSE it : Iter(it))
  <2> HIDE DEF Iter
  <2> QED BY <1>4
<1>6. Scan(lib) = (CHOOSE it : Iter(it))[DOMAIN seq]
  BY DEF Scan, FoldLeft, MapThenFoldSet
<1>7. PICK it : Iter(it) /\ Scan(lib) = it[1 .. n]
  <2> HIDE DEF Iter
  <2> QED BY <1>1, <1>5, <1>6
<1> DEFINE good == {k \in 0 .. n : ReadAt(lib, k, it[1 .. k])}
<1>8. 0 \in good
  <2>1. it[{}] = Unread(lib) /\ 1 .. 0 = {} /\ 0 \in 0 .. n
    BY <1>1, <1>7
  <2> QED BY <1>2, <2>1
<1>9. ASSUME NEW k \in 1 .. n, k - 1 \in good PROVE k \in good
  <2>1. k \in Nat /\ k > 0 /\ 1 .. k \in SUBSET (1 .. n)
    BY <1>1
  <2>2. Max(1 .. k) = k /\ (1 .. k) \ {k} = 1 .. k - 1 /\ 1 .. k # {}
    BY <2>1, LastOfPrefix
  <2>3. it[1 .. k] = ReadFile(lib, it[1 .. k - 1], seq[k])
    <3> HIDE DEF n
    <3> QED BY <1>1, <1>7, <2>1, <2>2
  <2>4. ReadAt(lib, k - 1, it[1 .. k - 1])
    BY <1>9
  <2>5. ReadAt(lib, k, it[1 .. k])
    BY <2>3, <2>4, ReadStep
  <2> QED BY <2>5
<1>10. n \in good
  <2> HIDE DEF good, n
  <2>1. 0 .. n \subseteq good
    BY <1>1, <1>8, <1>9, UpTo
  <2> QED BY <1>1, <2>1
<1> QED BY <1>7, <1>10

(* However the files of a library are named, and in whatever order they are *)
(* met, what the inventory says of a season is sound.                      *)
THEOREM ScanSound ==
  ASSUME NEW lib, lib.files \in Seq(FileSays), NEW s
  PROVE  SoundFor(lib, s)
<1> DEFINE n == Len(lib.files)
           inv == Scan(lib)
           L == Legibles(lib, n)
           meant == UNION {Range1(f) : f \in MeantAs(lib, s)}
           unread == \/ Top \in lib.issues \/ \E k \in lib.issues \ {Top} : Suggested(lib, k) = s
                     \/ \E f \in Illegible(lib) : Hint(lib, f.folder) \in {Unsaid, s}
<1>1. ReadAt(lib, n, inv) /\ ToSet(lib.files) = Read(lib, n) /\ ToSet(lib.files) \subseteq FileSays
  BY ScanEnds, Filed
<1>2. /\ MeantAs(lib, s) = {f \in L : MeantSeason(lib, f) = s}
      /\ Illegible(lib) = Read(lib, n) \ L
      /\ \A f \in Read(lib, n) : HintOf(lib, f) = Hint(lib, f.folder)
  BY <1>1 DEF MeantAs, Illegible, Legibles, MeantSeason, HintOf
<1>3. \A f \in MeantAs(lib, s) : Range1(f) \subseteq Nat \ {0} /\ Range1(f) # {}
  <2>1. ASSUME NEW f \in MeantAs(lib, s) PROVE Range1(f) \subseteq Nat \ {0} /\ Range1(f) # {}
    <3>1. f.first \in Int /\ f.last \in Int /\ f.first > 0 /\ f.first <= f.last
      BY <1>1 DEF MeantAs, FileSays, Legible
    <3> QED BY <3>1 DEF Range1
  <2> QED BY <2>1
<1> HIDE DEF n, inv, L
<1>4. ASSUME KnownSeason(inv, s)
      PROVE  /\ ~unread /\ Episodes(inv, s) = meant
             /\ \A f, g \in MeantAs(lib, s) : f.object # g.object => Range1(f) \cap Range1(g) = {}
             /\ \A m \in GapsOf(inv, s) : Availability(inv, s, {m}) = "absent"
             /\ meant # {} => GapsOf(inv, s) = MissingOf(inv, s, Min(meant), Max(meant))
  <2>1. inv.known /\ s \notin inv.failed /\ Holding(lib, n, inv) /\ Top \notin lib.issues
        /\ \A f \in Read(lib, n) \ L : HintOf(lib, f) # Unsaid
    BY <1>1, <1>4 DEF KnownSeason, ReadAt, L
  <2>2. ~unread
    <3>1. ~UnreadSeason(lib, n, s)
      BY <2>1 DEF Holding
    <3> QED BY <1>2, <2>1, <3>1 DEF UnreadSeason, L
  <2>3. Episodes(inv, s) = meant
    <3>1. ASSUME NEW m \in meant PROVE m \in Episodes(inv, s)
      <4>1. PICK f \in MeantAs(lib, s) : m \in Range1(f)
        OBVIOUS
      <4>2. <<s, m>> \in inv.eps
        BY <1>2, <2>1, <4>1 DEF Holding, L
      <4> QED BY <4>2 DEF Episodes
    <3>2. ASSUME NEW m \in Episodes(inv, s) PROVE m \in meant
      <4>1. PICK p \in inv.eps : p[1] = s /\ p[2] = m
        BY DEF Episodes
      <4>2. PICK f \in L : p[1] = MeantSeason(lib, f) /\ p[2] \in Range1(f)
        BY <2>1 DEF Holding, L
      <4> QED BY <1>2, <4>1, <4>2
    <3> QED BY <3>1, <3>2
  <2>4. \A f, g \in MeantAs(lib, s) : f.object # g.object => Range1(f) \cap Range1(g) = {}
    BY <1>2, <2>1 DEF Holding, L
  <2>5. meant \subseteq Nat \ {0}
    BY <1>3
  <2> HIDE DEF meant, unread
  <2>6. GapsOf(inv, s) = IF meant = {} THEN {} ELSE (Min(meant) .. Max(meant)) \ meant
    <3>1. Episodes(inv, s) \ {0} = meant
      BY <2>3, <2>5
    <3> QED BY <1>4, <3>1 DEF GapsOf
  <2>7. \A m \in GapsOf(inv, s) : Availability(inv, s, {m}) = "absent"
    <3>1. \A m \in GapsOf(inv, s) : m \notin Episodes(inv, s)
      BY <2>3, <2>6
    <3> QED BY <1>4, <3>1 DEF Availability
  <2>8. ASSUME meant # {} PROVE GapsOf(inv, s) = MissingOf(inv, s, Min(meant), Max(meant))
    <3>1. PICK x \in meant : \A y \in meant : x <= y
      <4>1. meant \in SUBSET Nat
        BY <2>5
      <4> QED BY <2>8, <4>1, LeastOf
    <3>2. Min(meant) \in meant
      BY <3>1 DEF Min
    <3>3. ~(Min(meant) <= 0)
      <4>1. \A y \in Nat \ {0} : ~(y <= 0)
        OBVIOUS
      <4> QED BY <2>5, <3>2, <4>1
    <3> QED BY <1>4, <2>3, <2>6, <2>8, <3>3 DEF MissingOf
  <2> QED BY <2>2, <2>3, <2>4, <2>7, <2>8
<1>5. ASSUME ~KnownSeason(inv, s) PROVE unread \/ Disputed(lib, s)
  <2>1. CASE ~inv.known
    <3>1. Top \in lib.issues \/ \E f \in Read(lib, n) \ L : HintOf(lib, f) = Unsaid
      BY <1>1, <2>1 DEF ReadAt, L
    <3> QED BY <1>2, <3>1
  <2>2. CASE inv.known /\ s \in inv.failed
    <3>1. UnreadSeason(lib, n, s) \/ Disputed(lib, s)
      BY <1>1, <2>2 DEF ReadAt, Holding
    <3> QED BY <1>2, <3>1 DEF UnreadSeason, L
  <2> QED BY <1>5, <2>1, <2>2 DEF KnownSeason
<1> QED BY <1>4, <1>5 DEF SoundFor, inv

-----------------------------------------------------------------------------
(* The inputs of MCAlgorithms are of these kinds.                          *)

(* What the files of one source folder may say. *)
FileNames == [said : Int \cup {Unnamed}, first : Int, last : Int, group : Group \cup {Unnamed}]

LEMMA ValuesFinite ==
  ASSUME NEW n \in Nat, NEW a
  PROVE  IsFiniteSet({a[i] : i \in 1 .. n})
<1> DEFINE T == {a[i] : i \in 1 .. n}
           f == [i \in 1 .. n |-> a[i]]
<1>1. IsFiniteSet(1 .. n)
  <2>1. n \in Int /\ 1 \in Int
    OBVIOUS
  <2> QED BY <2>1, FS_Interval
<1>2. f \in Surjection(1 .. n, T)
  BY DEF Surjection
<1> HIDE DEF f, T
<1>3. IsFiniteSet(T)
  BY <1>1, <1>2, FS_Surjection
<1> QED BY <1>3 DEF T

LEMMA EvidenceIs ==
  ASSUME NEW files \in Seq(FileNames), NEW season, NEW offset
  PROVE  LET x == Evidence(season, offset, files)
         IN  x.season = season /\ x.min \in Int /\ x.max \in Int /\ x.groups \in [Group -> Nat]
<1> DEFINE n == Len(files)
           x == Evidence(season, offset, files)
<1>1. n \in Nat /\ DOMAIN files = 1 .. n /\ \A i \in 1 .. n : files[i] \in FileNames
  OBVIOUS
<1>2. x.season = season /\ x.groups = [g \in Group |-> Cardinality({i \in DOMAIN files : files[i].group = g})]
      /\ x.min = (IF files = <<>> THEN 0 ELSE Min({f.first : f \in ToSet(files)}))
      /\ x.max = (IF files = <<>> THEN 0 ELSE Max({f.last : f \in ToSet(files)}))
  BY DEF Evidence
<1>3. \A g \in Group : Cardinality({i \in DOMAIN files : files[i].group = g}) \in Nat
  <2>1. ASSUME NEW g \in Group PROVE Cardinality({i \in DOMAIN files : files[i].group = g}) \in Nat
    <3>1. IsFiniteSet(1 .. n) /\ {i \in DOMAIN files : files[i].group = g} \in SUBSET (1 .. n)
      BY <1>1, FS_Interval
    <3>2. IsFiniteSet({i \in DOMAIN files : files[i].group = g})
      BY <3>1, FS_Subset
    <3> QED BY <3>2, FS_CardinalityType
  <2> QED BY <2>1
<1>4. ASSUME files # <<>> PROVE Min({f.first : f \in ToSet(files)}) \in Int /\ Max({f.last : f \in ToSet(files)}) \in Int
  <2> DEFINE a == [i \in 1 .. n |-> files[i].first]
             b == [i \in 1 .. n |-> files[i].last]
             A == {a[i] : i \in 1 .. n}
             B == {b[i] : i \in 1 .. n}
  <2>1. A = {f.first : f \in ToSet(files)} /\ B = {f.last : f \in ToSet(files)}
    BY <1>1 DEF ToSet
  <2>2. 1 \in 1 .. n
    BY <1>1, <1>4
  <2>3. A \subseteq Int /\ B \subseteq Int /\ A # {} /\ B # {}
    BY <1>1, <2>2 DEF FileNames
  <2>4. IsFiniteSet(A) /\ IsFiniteSet(B)
    <3> HIDE DEF a, b
    <3> QED BY <1>1, ValuesFinite
  <2> HIDE DEF A, B
  <2>5. Min(A) \in A
    BY <2>3, <2>4, MinMax
  <2>6. Max(B) \in B
    BY <2>3, <2>4, MinMax
  <2> QED BY <2>1, <2>3, <2>5, <2>6
<1> HIDE DEF x
<1>5. x.season = season /\ x.min \in Int /\ x.max \in Int /\ x.groups \in [Group -> Nat]
  BY <1>2, <1>3, <1>4
<1> QED BY <1>5 DEF x

(* The inputs of each part. *)
Evidences == {Evidence(s, o, fs) : fs \in FolderFiles, s \in {1, 2}, o \in {0, 2}}

InputInv ==
  /\ part \in {"selection", "inventory", "projection"}
  /\ part = "selection" => input \in Seq(Interval)
  /\ part = "inventory" => input \in Seq(FileSays)
  /\ part = "projection" => input \in Seq(Evidences)

LEMMA InputInit == Init => InputInv
BY DEF Init, InputInv

LEMMA NamesSay ==
  ASSUME NEW k \in {Top, 1, 2}, NEW o \in Object
  PROVE  Names(k, o) \subseteq FileSays
<1>1. k \in Int
  BY DEF Top
<1>3. \A s \in {Unsaid, 1} : /\ Name(s, 1, 1, FALSE, k, o) \in FileSays
                             /\ Name(s, 3, 3, FALSE, k, o) \in FileSays
                             /\ Name(s, 1, 2, FALSE, k, o) \in FileSays
  BY <1>1 DEF Name, FileSays
<1>4. Name(Unsaid, 2, 2, TRUE, k, o) \in FileSays /\ Name(Unsaid, 0, 0, FALSE, k, o) \in FileSays
  BY <1>1 DEF Name, FileSays
<1>5. \A s \in {Unsaid, 1} :
        {Name(s, 1, 1, FALSE, k, o), Name(s, 3, 3, FALSE, k, o), Name(s, 1, 2, FALSE, k, o)} \subseteq FileSays
  BY <1>3
<1> QED BY <1>4, <1>5, Zenon DEF Names

LEMMA InputNext == InputInv /\ [Next]_vars => InputInv'
<1> SUFFICES ASSUME InputInv, [Next]_vars PROVE InputInv'
  OBVIOUS
<1>1. CASE Offer
  <2>1. PICK i \in Interval : Grow(i, MaxOffers)
    BY <1>1 DEF Offer
  <2>2. part = "selection" /\ part' = part /\ input' = Append(input, i) /\ input \in Seq(Interval)
    BY <1>1, <2>1 DEF Offer, Grow, InputInv
  <2> QED BY <2>2 DEF InputInv
<1>2. CASE File
  <2>1. PICK k \in {Top, 1, 2}, o \in Object : \E f \in Names(k, o) : Grow(f, MaxFiles)
    BY <1>2 DEF File
  <2>2. PICK f \in FileSays : Grow(f, MaxFiles)
    BY <2>1, NamesSay
  <2>3. part = "inventory" /\ part' = part /\ input' = Append(input, f) /\ input \in Seq(FileSays)
    BY <1>2, <2>2 DEF File, Grow, InputInv
  <2> QED BY <2>3 DEF InputInv
<1>3. CASE Folder
  <2>1. PICK x \in Evidences : Grow(x, MaxFolders)
    BY <1>3 DEF Folder, Evidences
  <2>2. part = "projection" /\ part' = part /\ input' = Append(input, x) /\ input \in Seq(Evidences)
    BY <1>3, <2>1 DEF Folder, Grow, InputInv
  <2> QED BY <2>2 DEF InputInv
<1>4. CASE UNCHANGED vars
  BY <1>4 DEF vars, InputInv
<1> QED BY <1>1, <1>2, <1>3, <1>4 DEF Next

LEMMA FilesNamed == FolderFiles \subseteq Seq(FileNames)
<1>1. g1 \in Group /\ g2 \in Group
  BY AlgorithmsAssumption
<1>2. \A s \in {Unnamed, 1}, f \in Int, l \in Int, g \in {g1, g2, Unnamed} : Source(s, f, l, g) \in FileNames
  BY <1>1 DEF Source, FileNames
<1>3. ASSUME NEW a \in FileNames, NEW b \in FileNames PROVE <<a>> \in Seq(FileNames) /\ <<a, b>> \in Seq(FileNames)
  OBVIOUS
<1>4. \A s \in {Unnamed, 1}, f \in {1, 3}, l \in {3, 4}, g \in {g1, g2} : <<Source(s, f, l, g)>> \in Seq(FileNames)
  BY <1>2, <1>3
<1>5. \A g \in {g1, Unnamed}, h \in {g1, g2} :
        <<Source(Unnamed, 1, 1, g), Source(Unnamed, 2, 2, h)>> \in Seq(FileNames)
  BY <1>2, <1>3
<1>6. <<>> \in Seq(FileNames)
  OBVIOUS
<1> DEFINE One == {<<Source(s, f, l, g)>> : s \in {Unnamed, 1}, f \in {1, 3}, l \in {3, 4}, g \in {g1, g2}}
           Two == {<<Source(Unnamed, 1, 1, g), Source(Unnamed, 2, 2, h)>> : g \in {g1, Unnamed}, h \in {g1, g2}}
<1>7. ASSUME NEW x \in One PROVE x \in Seq(FileNames)
  <2>1. PICK s \in {Unnamed, 1}, f \in {1, 3}, l \in {3, 4}, g \in {g1, g2} : x = <<Source(s, f, l, g)>>
    OBVIOUS
  <2>2. <<Source(s, f, l, g)>> \in Seq(FileNames)
    BY <1>4
  <2> QED BY <2>1, <2>2
<1>8. ASSUME NEW x \in Two PROVE x \in Seq(FileNames)
  <2>1. PICK g \in {g1, Unnamed}, h \in {g1, g2} : x = <<Source(Unnamed, 1, 1, g), Source(Unnamed, 2, 2, h)>>
    OBVIOUS
  <2> QED BY <1>5, <2>1
<1>9. FolderFiles = {<<>>} \cup One \cup Two
  BY DEF FolderFiles
<1> HIDE DEF One, Two
<1> QED BY <1>6, <1>7, <1>8, <1>9

LEMMA FoldersOK ==
  ASSUME input \in Seq(Evidences)
  PROVE  EvidenceOK(input) /\ IsFiniteSet(Targets)
<1>1. ASSUME NEW x \in Evidences
      PROVE  x.season \in 1 .. 2 /\ x.min \in Int /\ x.max \in Int /\ x.groups \in [Group -> Nat]
  <2>1. PICK fs \in FolderFiles, s \in {1, 2}, o \in {0, 2} : x = Evidence(s, o, fs)
    BY DEF Evidences
  <2>2. fs \in Seq(FileNames)
    BY FilesNamed
  <2>3. x.season = s /\ x.min \in Int /\ x.max \in Int /\ x.groups \in [Group -> Nat]
    BY <2>1, <2>2, EvidenceIs
  <2> QED BY <2>3
<1>2. Len(input) \in Nat /\ DOMAIN input = 1 .. Len(input) /\ \A i \in DOMAIN input : input[i] \in Evidences
  OBVIOUS
<1>3. EvidenceOK(input)
  BY <1>1, <1>2, AlgorithmsAssumption DEF EvidenceOK
<1>4. Targets \in SUBSET (1 .. 2)
  BY <1>1, <1>2 DEF Targets
<1>5. IsFiniteSet(1 .. 2)
  <2>1. 1 \in Int /\ 2 \in Int
    OBVIOUS
  <2> QED BY <2>1, FS_Interval
<1> QED BY <1>3, <1>4, <1>5, FS_Subset

(* However many folders a series has, and whatever the seasons, episodes and *)
(* groups of their files (catalog.go, ProjectObservedEpisode and            *)
(* StableObservedGroup).                                                   *)
THEOREM FollowingEvidence == Spec => []ProjectionFollowsEvidence
<1>1. ASSUME InputInv PROVE ProjectionFollowsEvidence
  <2>1. SUFFICES ASSUME part = "projection"
                 PROVE  GroupAgreed(input) /\ \A e \in 1 .. LastEpisode : FollowsEvidence(input, Targets, e)
    BY DEF ProjectionFollowsEvidence
  <2>2. EvidenceOK(input) /\ IsFiniteSet(Targets)
    BY <1>1, <2>1, FoldersOK DEF InputInv
  <2>3. GroupAgreed(input)
    BY <2>2, GroupsAgreed, AlgorithmsAssumption
  <2>4. \A e \in 1 .. LastEpisode : e \in Int /\ e > 0
    BY AlgorithmsAssumption
  <2>5. ASSUME NEW e \in 1 .. LastEpisode PROVE FollowsEvidence(input, Targets, e)
    BY <2>2, <2>4, EvidenceFollowed
  <2> QED BY <2>3, <2>5
<1> QED BY <1>1, InputInit, InputNext, PTL DEF Spec

(* However many files a library has, in however many folders, and however    *)
(* they are named (inventory.go, Scan).                                    *)
THEOREM InventoryIsSound == Spec => []InventorySound
<1>1. ASSUME InputInv PROVE InventorySound
  <2>1. SUFFICES ASSUME part = "inventory", NEW s \in 0 .. 3 PROVE SoundFor(Library, s)
    BY DEF InventorySound
  <2>2. Library.files \in Seq(FileSays)
    BY <1>1, <2>1 DEF InputInv, Library
  <2> QED BY <2>2, ScanSound
<1> QED BY <1>1, InputInit, InputNext, PTL DEF Spec

LEMMA Intervals ==
  ASSUME NEW x \in Interval, LastEpisode \in Nat
  PROVE  \E f, l \in 1 .. LastEpisode : f <= l /\ x = f .. l
<1>1. \E f, l \in 1 .. LastEpisode : x = f .. l
  BY DEF Interval
<1> QED BY <1>1 DEF Interval

(* However many candidates a season has, of whatever intervals of however    *)
(* many episodes (candidate/plan.go, selectBestByScore).                   *)
THEOREM SchedulingBest == Spec => []ScheduledIsBest
<1>1. ASSUME InputInv PROVE ScheduledIsBest
  <2>1. SUFFICES ASSUME part = "selection" PROVE Scheduled(DOMAIN input, input) = BestOf(DOMAIN input, input)
    BY DEF ScheduledIsBest
  <2>2. input \in Seq(Interval)
    BY <1>1, <2>1 DEF InputInv
  <2>3. Len(input) \in Nat /\ DOMAIN input = 1 .. Len(input) /\ \A r \in DOMAIN input : input[r] \in Interval
    BY <2>2
  <2>4. DOMAIN input \subseteq Nat /\ IsFiniteSet(DOMAIN input)
    BY <2>3, FS_Interval
  <2>5. LastEpisode \in Nat
    BY AlgorithmsAssumption
  <2>6. ASSUME NEW r \in DOMAIN input PROVE \E f, l \in 1 .. LastEpisode : f <= l /\ input[r] = f .. l
    BY <2>3, <2>5, Intervals
  <2>7. Season(DOMAIN input, input, LastEpisode)
    BY <2>4, <2>5, <2>6 DEF Season
  <2> QED BY <2>7, ScheduledBest
<1> QED BY <1>1, InputInit, InputNext, PTL DEF Spec
=============================================================================
