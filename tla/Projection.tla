----------------------------- MODULE Projection -----------------------------
(***************************************************************************)
(* To which season and episode of a series a release belongs.  The folders *)
(* of its source have a target season and an episode offset, declared; a   *)
(* release has no folder, so the files there are now must show which one   *)
(* it continues.                                                           *)
(*                                                                         *)
(* Evidence is a sequence with a record for each folder: its rule (season, *)
(* offset) and what its files say (source, the season if they name exactly *)
(* one; min and max, their episodes; count; groups, how many name each     *)
(* release group).                                                         *)
(***************************************************************************)
EXTENDS Integers, Sequences, SequencesExt, FiniteSets, FiniteSetsExt, Functions

CONSTANTS Unnamed, Group

(* Evidence of one folder: files, the readable ones, are records of said,   *)
(* first, last and group, Unnamed when the name has none.                   *)
Evidence(season, offset, files) ==
  LET seasons == {f.said : f \in ToSet(files)} \ {Unnamed}
      Naming(g) == Cardinality({i \in DOMAIN files : files[i].group = g})
  IN
  [season |-> season, offset |-> offset,
   source |-> IF Cardinality(seasons) = 1 THEN CHOOSE s \in seasons : TRUE ELSE Unnamed,
   min |-> IF files = <<>> THEN 0 ELSE Min({f.first : f \in ToSet(files)}),
   max |-> IF files = <<>> THEN 0 ELSE Max({f.last : f \in ToSet(files)}),
   count |-> FoldLeft(LAMBDA n, f : n + f.last - f.first + 1, 0, files),
   groups |-> [g \in Group |-> Naming(g)]]

-----------------------------------------------------------------------------
Nowhere == [season |-> Unnamed, episode |-> 0, folder |-> Unnamed]
Into(ev, i, e) == [season |-> ev[i].season, episode |-> e + ev[i].offset, folder |-> i]
AsSaid(s, e) == [season |-> s, episode |-> e, folder |-> Unnamed]

(* The loop over the folders that end before the episode. *)
Start == [best |-> -1, chosen |-> Unnamed, ambiguous |-> FALSE]

(* Mutant: an ambiguity that a later folder resolves stays. *)
ConsiderOnce(ev, e, loop, i) ==
  CASE ev[i].max <= 0 \/ ev[i].max >= e -> loop
    [] ev[i].max > 0 /\ ev[i].max < e /\ ev[i].max > loop.best ->
         [best |-> ev[i].max, chosen |-> i, ambiguous |-> loop.ambiguous]
    [] ev[i].max > 0 /\ ev[i].max < e /\ ev[i].max <= loop.best ->
         [loop EXCEPT !.ambiguous = @ \/ ev[i].max = loop.best]

Consider(ev, e, loop, i) ==
  CASE ev[i].max <= 0 \/ ev[i].max >= e -> loop
    [] ev[i].max > 0 /\ ev[i].max < e /\ ev[i].max > loop.best ->
         [best |-> ev[i].max, chosen |-> i, ambiguous |-> FALSE]
    [] ev[i].max > 0 /\ ev[i].max < e /\ ev[i].max <= loop.best ->
         [loop EXCEPT !.ambiguous = @ \/ ev[i].max = loop.best]

Loop(ev, e) ==
  FoldLeft(LAMBDA loop, i : Consider(ev, e, loop, i), Start, [i \in DOMAIN ev |-> i])

(* ProjectObservedEpisode: a season that is said leads to the one folder of *)
(* that season, or stands.  Otherwise the one folder whose episodes include *)
(* it, the one it continues, or the only one there is; or the only season.  *)
Project(ev, seasons, said, e) ==
  LET matching == {i \in DOMAIN ev : ev[i].source # Unnamed /\ ev[i].source = said}
      containing == {i \in DOMAIN ev : ev[i].min > 0 /\ e \in ev[i].min .. ev[i].max}
      loop == Loop(ev, e)
      The(S) == CHOOSE i \in S : TRUE
  IN
  CASE e <= 0 -> Nowhere
    [] e > 0 /\ said # Unnamed ->
         IF Cardinality(matching) = 1 THEN Into(ev, The(matching), e) ELSE AsSaid(said, e)
    [] e > 0 /\ said = Unnamed ->
         IF Cardinality(containing) = 1 THEN Into(ev, The(containing), e)
         ELSE IF loop.chosen # Unnamed /\ ~loop.ambiguous THEN Into(ev, loop.chosen, e)
         ELSE IF Len(ev) = 1 THEN Into(ev, 1, e)
         ELSE IF Cardinality(seasons) = 1 THEN AsSaid(The(seasons), e)
         ELSE Nowhere

(* evaluate: both ends of the release must be projected, into one season    *)
(* and, as far as they lead to folders, into one folder.                   *)
Rejected == [season |-> Unnamed, first |-> 0, last |-> 0, folder |-> Unnamed]
Evaluate(ev, seasons, said, first, last) ==
  LET a == Project(ev, seasons, said, first)
      z == Project(ev, seasons, said, IF last < first THEN first ELSE last)
  IN
  IF \/ a.season = Unnamed \/ a.episode <= 0
     \/ z.season # a.season \/ z.episode <= 0
     \/ a.folder # Unnamed /\ z.folder # Unnamed /\ a.folder # z.folder
  THEN Rejected
  ELSE [season |-> a.season, first |-> a.episode, last |-> z.episode,
        folder |-> IF a.folder = Unnamed THEN z.folder ELSE a.folder]

-----------------------------------------------------------------------------
(* The release group the files agree on *)

Stable(e) == IF e.count >= 2 /\ Cardinality({g \in Group : e.groups[g] > 0}) = 1
             THEN CHOOSE g \in Group : e.groups[g] > 0 ELSE Unnamed

(* StableObservedGroup: the loop gives up at the first folder that differs. *)
Agree(ev, loop, i) ==
  LET g == Stable(ev[i]) IN
  IF loop.split \/ g = Unnamed THEN loop
  ELSE IF loop.group \in {Unnamed, g}
  THEN [loop EXCEPT !.group = g, !.n = @ + ev[i].groups[g]]
  ELSE [loop EXCEPT !.split = TRUE]
Agreed(ev, S) ==
  LET loop == FoldLeft(LAMBDA l, i : IF i \in S THEN Agree(ev, l, i) ELSE l,
                       [group |-> Unnamed, n |-> 0, split |-> FALSE], [i \in DOMAIN ev |-> i])
  IN IF loop.split \/ loop.n < 2 THEN Unnamed ELSE loop.group

(* ReviewReason: a historical release of another group than the one the     *)
(* season has so far, or else the whole series, is not acquired unasked.   *)
NeedsReview(ev, season, group) ==
  LET own == Agreed(ev, {i \in DOMAIN ev : ev[i].season = season})
      expected == IF own # Unnamed THEN own ELSE Agreed(ev, DOMAIN ev)
  IN expected \notin {Unnamed, group}

-----------------------------------------------------------------------------
(* What it is to achieve *)

Nearest(ev, e) ==
  LET before == {i \in DOMAIN ev : ev[i].max > 0 /\ ev[i].max < e}
  IN {i \in before : \A j \in before : ev[j].max <= ev[i].max}

(* A release without a season goes to a folder only if that folder alone    *)
(* has the episode, or alone is the nearest to end before it, or is the    *)
(* only one; never to one of several equally good ones, in whatever order  *)
(* the folders are looked at.                                              *)
FollowsEvidence(ev, seasons, e) ==
  LET to == Project(ev, seasons, Unnamed, e)
      containing == {i \in DOMAIN ev : ev[i].min > 0 /\ ev[i].min <= e /\ e <= ev[i].max}
      certain == IF Cardinality(containing) = 1 THEN containing
                 ELSE IF Cardinality(Nearest(ev, e)) = 1 THEN Nearest(ev, e)
                 ELSE IF Len(ev) = 1 THEN {1} ELSE {}
  IN IF certain # {} THEN to.folder \in certain
     ELSE to.folder = Unnamed /\ (to = Nowhere \/ seasons = {to.season})

(* Which group is expected depends neither on the order of the folders nor  *)
(* on a folder that cannot tell.                                           *)
GroupAgreed(ev) ==
  LET telling == {Stable(ev[i]) : i \in DOMAIN ev} \ {Unnamed}
      all == {i \in DOMAIN ev : Stable(ev[i]) # Unnamed}
      g == CHOOSE x \in telling : TRUE
  IN Agreed(ev, DOMAIN ev) =
       IF Cardinality(telling) = 1 /\ MapThenSumSet(LAMBDA i : ev[i].groups[g], all) >= 2
       THEN g ELSE Unnamed
=============================================================================
