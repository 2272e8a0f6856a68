---------------------------- MODULE MCAlgorithms ----------------------------
(***************************************************************************)
(* The algorithms without state, each against what it is to achieve, for    *)
(* every short input.  An input grows by one element in a step; `part'     *)
(* says for which algorithm it is.                                         *)
(***************************************************************************)
EXTENDS Selection, Inventory, Projection

CONSTANTS
  LastEpisode,
  MaxOffers,     \* candidates of a season
  MaxFiles,      \* files of a library with two folders
  MaxFolders,    \* source folders of a series
  g1, g2

ASSUME AlgorithmsAssumption ==
  /\ LastEpisode \in Nat
  /\ IsFiniteSet(Group) /\ {g1, g2} \subseteq Group
  /\ Unsaid \notin Int /\ Unnamed \notin Int \cup Group

VARIABLES part, input, named, issues
vars == <<part, input, named, issues>>

Grow(x, max) == Len(input) < max /\ input' = Append(input, x) /\ UNCHANGED <<part, named, issues>>

\* Candidates, the best first, each of an interval of the episodes of a season.
Interval == {f..l : f \in 1..LastEpisode, l \in 1..LastEpisode} \ {{}}
Offer == part = "selection" /\ \E i \in Interval : Grow(i, MaxOffers)

\* Names: of an episode or two, with and without a season; a bare number; none.
Name(s, f, l, b, k, o) ==
  [said |-> s, first |-> f, last |-> l, bare |-> b, folder |-> k, object |-> o]
Names(k, o) ==
  {Name(Unsaid, 2, 2, TRUE, k, o), Name(Unsaid, 0, 0, FALSE, k, o)}
    \cup UNION {{Name(s, 1, 1, FALSE, k, o), Name(s, 3, 3, FALSE, k, o), Name(s, 1, 2, FALSE, k, o)} :
                s \in {Unsaid, 1}}

\* The files of a folder follow one another in path order.
Contiguous(k) == \A i, j \in DOMAIN input :
  i < j /\ input[i].folder = k /\ k # Top => input[j].folder = k
File == /\ part = "inventory"
        /\ \E k \in {Top, 1, 2}, o \in Object :
             /\ Contiguous(k)
             /\ k = 1 => \A i \in DOMAIN input : input[i].folder # 2
             /\ \E f \in Names(k, o) : Grow(f, MaxFiles)
Library == [files |-> input, named |-> named, issues |-> issues]

\* Source folders with none, one or two episodes, of one season or of none.
Source(s, f, l, g) == [said |-> s, first |-> f, last |-> l, group |-> g]
FolderFiles == {<<>>}
  \cup {<<Source(s, f, l, g)>> : s \in {Unnamed, 1}, f \in {1, 3}, l \in {3, 4}, g \in {g1, g2}}
  \cup {<<Source(Unnamed, 1, 1, g), Source(Unnamed, 2, 2, h)>> : g \in {g1, Unnamed}, h \in {g1, g2}}
Folder == /\ part = "projection"
          /\ \E fs \in FolderFiles, s \in {1, 2}, o \in {0, 2} : Grow(Evidence(s, o, fs), MaxFolders)
Targets == {input[i].season : i \in DOMAIN input}

Init == /\ part \in {"selection", "inventory", "projection"} /\ input = <<>>
        /\ IF part = "inventory"
           THEN named \in {<<Unsaid, Unsaid>>, <<1, Unsaid>>, <<2, 0>>} /\ issues \in {{}, {Top}, {2}}
           ELSE named = <<>> /\ issues = {}
Next == Offer \/ File \/ Folder
Spec == Init /\ [][Next]_vars

-----------------------------------------------------------------------------
\* The dynamic programme finds the one best disjoint selection, although it only
\* ever compares two (candidate/plan.go, "weighted interval scheduling over the
\* inclusive episode ranges").
ScheduledIsBest ==
  part = "selection" => Scheduled(DOMAIN input, input) = BestOf(DOMAIN input, input)

\* inventory.go: files that "cannot be assigned to one unambiguous episode" make
\* their season unknown, and nothing else does; a known season is exact.
InventorySound == part = "inventory" => \A s \in 0 .. 3 : SoundFor(Library, s)

\* catalog.go, ProjectObservedEpisode and StableObservedGroup: "does not guess when
\* two folders have the same inferred boundary".
ProjectionFollowsEvidence ==
  part = "projection" =>
    GroupAgreed(input) /\ \A e \in 1 .. LastEpisode : FollowsEvidence(input, Targets, e)
=============================================================================
