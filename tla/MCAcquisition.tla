--------------------------- MODULE MCAcquisition ---------------------------
(* Small instances of Acquisition: a season with releases of two episodes    *)
(* and a pack that has both, and a movie with two releases.                  *)
EXTENDS Acquisition

CONSTANTS season, movie, other

\* Release 1 is of episode 2, release 3 of episode 3, release 2 of both.
SeasonEps == <<{2}, {2, 3}, {3}>>
SeasonOf  == <<season, season, season>>

\* The season lacks episodes 2 and 3 of four; the feed has both releases
\* of one episode or only the first, and the past has that one or the pack.
SeasonLibraries ==
  {[w \in {season, other} |-> IF w = season THEN {1, 4} ELSE {}]}
SeasonFeeds == {{1}, {1, 3}}
SeasonSearches == {{1}, {2}}

\* Releases 1 and 2 are of the movie.
MovieEps == <<{NoEpisode}, {NoEpisode}>>
MovieOf  == <<movie, movie>>
MovieLibraries == {[w \in {movie} |-> {}]}

=============================================================================
