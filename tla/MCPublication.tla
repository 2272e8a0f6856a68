---------------------------- MODULE MCPublication ----------------------------
(* Small instances of Publication: two folders of a series with a downloader *)
(* task in the first, and a movie next to a series folder.                   *)
EXTENDS Publication

CONSTANTS o1, o2, o3, d1, d2, d3, series, movie

\* Folder 1 holds sources 1 and 2, folder 2 holds source 3; task 3 is source 1.
SeriesScopes == [s \in 1..3 |-> CASE s = 1 -> {1, 2} [] s = 2 -> {3} [] s = 3 -> {1}]
SeriesRoot   == [s \in 1..3 |-> {d1, d2, d3}]
SeriesEntry  == [s \in 1..3 |-> series]

\* A rule gives sources 1, 2 and 3 a target; the task follows its folder.
Rule(t1, t2, t3) == [s \in 1..3 |-> <<t1, t2, t3>>]

\* An unrecognised name, an episode offset that moves every canonical name onto the
\* next one's, and a season change with a blacklist entry.
SeriesLayouts ==
  {Rule(d1, d2, Unmatched), Rule(d2, d3, Unmatched), Rule(d1, Excluded, d2)}

FileSystem(s1, s2, s3, l1, l2, l3) ==
  [n \in {1, 2, 3, d1, d2, d3} |->
     CASE n = 1 -> s1 [] n = 2 -> s2 [] n = 3 -> s3
       [] n = d1 -> l1 [] n = d2 -> l2 [] n = d3 -> l3]

\* A library published before; two source names of one object; one unpublished.
SeriesFiles ==
  {FileSystem(o1, o2, NoObject, o1, o2, NoObject),
   FileSystem(o1, o1, o3, NoObject, o1, NoObject)}

\* Scope 1 is a movie of two files, scope 2 a series folder, task 3 the movie's.
MovieScopes == [s \in 1..3 |-> CASE s = 1 -> {1, 2} [] s = 2 -> {3} [] s = 3 -> {1, 2}]
MovieRoot   == [s \in 1..3 |-> IF s = 2 THEN {d3} ELSE {d1, d2}]
MovieEntry  == [s \in 1..3 |-> IF s = 2 THEN series ELSE movie]
MovieLayouts ==
  {Rule(d1, Excluded, d3), Rule(d2, d1, d3), Rule(d1, d1, Unmatched)}
MovieFiles ==
  {FileSystem(o1, o2, o3, d, NoObject, e) : d \in {NoObject, o1}, e \in {o2, o3}}
=============================================================================
