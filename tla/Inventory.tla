----------------------------- MODULE Inventory ------------------------------
(***************************************************************************)
(* What the library of a series says that there is, season by season, read *)
(* from the names of its files.  The library is the only record of what    *)
(* aninode holds: a season that is read wrongly is searched for again, or  *)
(* never.                                                                  *)
(*                                                                         *)
(* A library is a record: its files in path order, each with its object    *)
(* and what its name says; the seasons its first-level folders, which are  *)
(* numbered in path order, are named for; and the folders below which      *)
(* something could not be read.  Folder Top is the series' own.            *)
(***************************************************************************)
EXTENDS Integers, Sequences, SequencesExt, FiniteSets, FiniteSetsExt

CONSTANTS Unsaid, Object

Top == 0
Folders(lib) == DOMAIN lib.named
Range1(f) == f.first .. f.last

-----------------------------------------------------------------------------
(* The season of a folder *)

Saying(lib, k, s) == {i \in DOMAIN lib.files : lib.files[i].folder = k /\ lib.files[i].said = s}
SaidIn(lib, k) == {lib.files[i].said : i \in {j \in DOMAIN lib.files : lib.files[j].folder = k}} \ {Unsaid}

(* The one it is named for, or else the one most of its files are of, the   *)
(* smallest of several.                                                    *)
Known(lib, k) ==
  LET More(s, t) == \/ Cardinality(Saying(lib, k, s)) > Cardinality(Saying(lib, k, t))
                    \/ Cardinality(Saying(lib, k, s)) = Cardinality(Saying(lib, k, t)) /\ s < t
  IN CASE lib.named[k] # Unsaid -> lib.named[k]
       [] lib.named[k] = Unsaid /\ SaidIn(lib, k) = {} -> Unsaid
       [] OTHER -> CHOOSE s \in SaidIn(lib, k) : \A t \in SaidIn(lib, k) \ {s} : More(s, t)

(* The others take the free numbers from 1 on, in path order. *)
Suggested(lib, k) ==
  LET used == {Known(lib, x) : x \in Folders(lib)} \ {Unsaid}
      place == Cardinality({x \in Folders(lib) : x <= k /\ Known(lib, x) = Unsaid})
  IN IF Known(lib, k) # Unsaid THEN Known(lib, k)
     ELSE CHOOSE n \in 1 .. place + Cardinality(used) :
            n \notin used /\ Cardinality((1 .. n) \ used) = place

Hint(lib, k) == IF k = Top THEN Unsaid ELSE Suggested(lib, k)

-----------------------------------------------------------------------------
(* The meaning of a file *)

(* A bare number is an episode only where the folder gives a season. *)
Legible(f, hint) == f.first > 0 /\ f.first <= f.last /\ (f.bare => hint # Unsaid)

(* A name without a season at the top is taken for a special. *)
SeasonOf(f, hint) == IF f.said # Unsaid THEN f.said ELSE IF hint # Unsaid THEN hint ELSE 0

-----------------------------------------------------------------------------
(* Scan *)

Nothing == [known |-> TRUE, eps |-> {}, failed |-> {},
            meaning |-> [o \in Object |-> {}], holds |-> {}]

Fail(inv, s) == [inv EXCEPT !.failed = @ \cup {s}]

(* Mutant: the next file makes a season known again. *)
AddReviving(inv, f, s) ==
  [inv EXCEPT !.meaning[f.object] = {<<s, f.first, f.last>>},
              !.holds = @ \cup {<<s, n, f.object>> : n \in Range1(f)},
              !.failed = @ \ {s},
              !.eps = @ \cup {<<s, n>> : n \in Range1(f)}]

(* A season that failed stays unknown, whatever follows. *)
Add(inv, f, s) ==
  [inv EXCEPT !.meaning[f.object] = {<<s, f.first, f.last>>},
              !.holds = @ \cup {<<s, n, f.object>> : n \in Range1(f)},
              !.eps = IF s \in inv.failed THEN @ ELSE @ \cup {<<s, n>> : n \in Range1(f)}]

(* Up to the first episode another object has, they are this one's. *)
Clash(inv, f, s, taken) ==
  Fail([inv EXCEPT !.meaning[f.object] = {<<s, f.first, f.last>>},
                   !.holds = @ \cup {<<s, n, f.object>> : n \in f.first .. Min(taken) - 1}], s)

ReadFile(lib, inv, f) ==
  LET hint == Hint(lib, f.folder)
      s == SeasonOf(f, hint)
      taken == {n \in Range1(f) : \E h \in inv.holds : h[1] = s /\ h[2] = n /\ h[3] # f.object}
  IN
  CASE ~inv.known -> inv
    [] inv.known /\ ~Legible(f, hint) ->
         IF hint = Unsaid THEN [inv EXCEPT !.known = FALSE] ELSE Fail(inv, hint)
    [] inv.known /\ Legible(f, hint) ->
         IF inv.meaning[f.object] \ {<<s, f.first, f.last>>} # {} THEN Fail(inv, s)
         ELSE IF taken # {} THEN Clash(inv, f, s, taken) ELSE Add(inv, f, s)

(* What could not be read below a folder may be of its season; directly at  *)
(* the top, of any.                                                        *)
Unread(lib) ==
  [Nothing EXCEPT !.known = Top \notin lib.issues,
                  !.failed = {Suggested(lib, k) : k \in lib.issues \ {Top}}]

Scan(lib) == FoldLeft(LAMBDA inv, f : ReadFile(lib, inv, f), Unread(lib), lib.files)

KnownSeason(inv, s) == inv.known /\ s \notin inv.failed
Episodes(inv, s) == {p[2] : p \in {q \in inv.eps : q[1] = s}}

(* Availability of the episodes of a release: "unknown", "absent", "present". *)
Availability(inv, s, eps) ==
  CASE ~KnownSeason(inv, s) -> "unknown"
    [] KnownSeason(inv, s) /\ eps \subseteq Episodes(inv, s) -> "present"
    [] OTHER -> "absent"

(* InternalGaps: a special without a number never counts. *)
GapsOf(inv, s) ==
  LET eps == Episodes(inv, s) \ {0} IN
  IF ~KnownSeason(inv, s) \/ eps = {} THEN {} ELSE (Min(eps) .. Max(eps)) \ eps

(* MissingInRange *)
MissingOf(inv, s, from, through) ==
  IF ~KnownSeason(inv, s) \/ from <= 0 THEN {} ELSE (from .. through) \ Episodes(inv, s)

-----------------------------------------------------------------------------
(* What it is to say *)

MeantAs(lib, s) ==
  {f \in ToSet(lib.files) : Legible(f, Hint(lib, f.folder)) /\ SeasonOf(f, Hint(lib, f.folder)) = s}
Illegible(lib) == {f \in ToSet(lib.files) : ~Legible(f, Hint(lib, f.folder))}

(* Some object that is in season s has two meanings, or some episode of it  *)
(* two objects.                                                            *)
Disputed(lib, s) ==
  \E f \in MeantAs(lib, s), g \in ToSet(lib.files) :
    /\ Legible(g, Hint(lib, g.folder))
    /\ \/ /\ f.object = g.object
          /\ SeasonOf(g, Hint(lib, g.folder)) # s \/ Range1(f) # Range1(g)
       \/ f.object # g.object /\ g \in MeantAs(lib, s) /\ Range1(f) \cap Range1(g) # {}

(* A season is known only if everything that could be of it was read and   *)
(* no two files of it disagree, and then it has exactly the episodes of    *)
(* its files; it is unknown only for such a reason; what is missing is no  *)
(* episode of any file.  However the files are named and in whatever order *)
(* they are met.                                                           *)
SoundFor(lib, s) ==
  LET inv == Scan(lib)
      meant == UNION {Range1(f) : f \in MeantAs(lib, s)}
      unread == \/ Top \in lib.issues \/ \E k \in lib.issues \ {Top} : Suggested(lib, k) = s
                \/ \E f \in Illegible(lib) : Hint(lib, f.folder) \in {Unsaid, s}
  IN
  /\ KnownSeason(inv, s) =>
       /\ ~unread /\ Episodes(inv, s) = meant
       /\ \A f, g \in MeantAs(lib, s) : f.object # g.object => Range1(f) \cap Range1(g) = {}
       /\ \A n \in GapsOf(inv, s) : Availability(inv, s, {n}) = "absent"
       /\ meant # {} => GapsOf(inv, s) = MissingOf(inv, s, Min(meant), Max(meant))
  /\ ~KnownSeason(inv, s) => unread \/ Disputed(lib, s)
=============================================================================
