----------------------------- MODULE Selection -----------------------------
(***************************************************************************)
(* Which of the releases offered for one season, or for one movie, are to  *)
(* be downloaded.  Candidates are numbers, the smaller the better the      *)
(* release; eps gives the episodes each of them contains, an interval.     *)
(* Every operator takes eps, so that a specification can bring its own.    *)
(***************************************************************************)
EXTENDS Naturals, FiniteSets, FiniteSetsExt

\* A movie has no episode number, which is number 0; it overlaps nothing.
NoEpisode == 0

Overlaps(r, q, eps) == \E e \in eps[r] \cap eps[q] : e # NoEpisode

Coverage(S, eps) == Cardinality(UNION {eps[r] : r \in S})

\* How well a release goes with what the library has already decides which is
\* preferred; the candidates are numbered in that order.
Preferred(r, q) == r < q

-----------------------------------------------------------------------------
(* The programmed choice.                                                  *)

\* One selection is better than another if it covers more episodes or else, the
\* candidates of each taken from the best down, is better at the first difference.
Better(S, T, eps) ==
  \/ Coverage(S, eps) > Coverage(T, eps)
  \/ /\ Coverage(S, eps) = Coverage(T, eps)
     /\ \E r \in S \ T : \A q \in T \ S : Preferred(r, q)

\* Candidates are taken by their last episode, then their first, then the better.
SortsAfter(r, q, eps) ==
  \/ Max(eps[r]) > Max(eps[q])
  \/ /\ Max(eps[r]) = Max(eps[q])
     /\ \/ Min(eps[r]) > Min(eps[q])
        \/ Min(eps[r]) = Min(eps[q]) /\ Preferred(q, r)

\* Mutant: a candidate that begins with the other's last episode is taken to
\* follow it.
EndsBeforeOrAt(q, r, eps) == Max(eps[q]) <= Min(eps[r])

EndsBefore(q, r, eps) == Max(eps[q]) < Min(eps[r])

\* Weighted interval scheduling: the best selection from the candidates up to one
\* either leaves that one out or joins it to the best from those that end before
\* it begins.
Scheduled(S, eps) ==
  LET best[T \in SUBSET S] ==
        IF T = {} THEN {}
        ELSE LET last    == CHOOSE r \in T : \A q \in T \ {r} : SortsAfter(r, q, eps)
                 include == best[{q \in T \ {last} : EndsBefore(q, last, eps)}] \cup {last}
                 exclude == best[T \ {last}]
             IN IF Better(include, exclude, eps) THEN include ELSE exclude
  IN best[S]

-----------------------------------------------------------------------------
(* What it is to achieve.                                                  *)

\* Downloads that do no work twice.
Disjoint(S, eps) == \A r, q \in S : r # q => ~Overlaps(r, q, eps)

\* The candidates in the best of all disjoint selections.
BestOf(S, eps) ==
  {r \in S : \E T \in SUBSET S :
     /\ r \in T /\ Disjoint(T, eps)
     /\ \A U \in (SUBSET S) \ {T} : Disjoint(U, eps) => Better(T, U, eps)}

\* Of the releases of a movie the best one.
BestMovie(S) == {r \in S : \A q \in S \ {r} : Preferred(r, q)}
=============================================================================
