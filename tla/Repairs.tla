------------------------------ MODULE Repairs -------------------------------
(***************************************************************************)
(* Filling the gaps of one season from the past: a search for what is      *)
(* missing, the releases that are acquired at once because they go with    *)
(* the files there are, and the others, which a user must confirm.  These   *)
(* wait in a queue in memory while the library, the configuration and the  *)
(* downloader go on changing.                                              *)
(*                                                                         *)
(* Releases are numbers, as in Selection, the smaller the better; a review *)
(* is its release.  One source is searched.                                *)
(***************************************************************************)
EXTENDS Selection

CONSTANTS
  Offer,        \* releases a search may find
  Holding,      \* the episodes of each, an interval
  Episodes,     \* 1 .. N
  Confident,    \* the sets of releases that may go with the files there are
  MaxEvents     \* things that happen meanwhile

ASSUME RepairAssumption ==
  /\ Offer \subseteq Nat
  /\ Episodes \subseteq Nat \ {NoEpisode} /\ IsFiniteSet(Episodes)
  /\ Holding \in [Offer -> SUBSET Episodes]
  /\ MaxEvents \in Nat

VARIABLES
  library,      \* the episodes in it
  legible,      \* whether it can be read
  entry,        \* whether the configuration has the entry
  allowed,      \* the releases its filters and sources admit
  tasks,        \* the releases the downloader has
  reviews,      \* the queue
  op,           \* what is done: one operation at a time
  manual,       \* whether a user asked for it
  known, held,  \* the library as the operation observed it
  trusted,      \* the releases that go with the files there are
  missing,      \* what it wants
  targets,      \* of that, what is yet to be searched for
  phase,        \* queries for the first of them
  results,      \* of all queries
  asking,       \* releases to ask the downloader for
  advice,       \* releases to be reviewed
  events, restarts
outside == <<library, legible, entry, allowed, tasks, events, restarts>>
search == <<trusted, missing, targets, phase, results>>
repairVars == <<outside, reviews, op, manual, known, held, search, asking, advice>>

RepairInit ==
  /\ library \in {{}, {1, Max(Episodes)}} /\ legible \in BOOLEAN
  /\ entry = TRUE /\ allowed = Offer /\ tasks = {} /\ reviews = {}
  /\ op = "idle" /\ manual = FALSE /\ known = TRUE /\ held = {}
  /\ trusted = {} /\ missing = {} /\ targets = {} /\ phase = 1 /\ results = {} /\ asking = {} /\ advice = {}
  /\ events = 0 /\ restarts = 0

-----------------------------------------------------------------------------
(* The queue                                                               *)

Rival(r, q) == Holding[r] \cap Holding[q] # {}

\* Mutant: a season that is not known needs nothing.
StillNeededKnown(r) == entry /\ known /\ ~ Holding[r] \subseteq held

StillNeeded(r) == entry /\ (known => ~ Holding[r] \subseteq held)

\* New advice takes the place of what it overlaps.
Advised(queue, new) == {q \in queue : \A r \in new : ~Rival(q, r)} \cup new

\* A cycle tidies the queue; a search by hand only adds to it.
Reconciled == Advised(IF manual THEN reviews ELSE {r \in reviews : StillNeeded(r)}, advice)

-----------------------------------------------------------------------------
(* Beginning: the library is observed.                                     *)

Observes == known' = legible /\ held' = library
Ends == op' = "idle" /\ manual' = FALSE /\ known' = TRUE /\ held' = {}
Begins(by, want) ==
  /\ op = "idle" /\ op' = "search" /\ manual' = by
  /\ trusted' \in (IF want = {} THEN {{}} ELSE Confident)
  /\ missing' = want /\ targets' = want
  /\ phase' = 1 /\ results' = {} /\ asking' = {} /\ advice' = {}
  /\ UNCHANGED <<outside, reviews>>

\* Gaps of the season that nothing selected from the feeds of this cycle fills.
Holes == {e \in Episodes \ library : \E f, g \in library : f < e /\ e < g}
Cycle ==
  /\ Observes
  /\ \E filled \in SUBSET (Offer \cap allowed) :
       Begins(FALSE, IF entry /\ legible THEN Holes \ UNION {Holding[r] : r \in filled} ELSE {})

\* A range given by a user, of a season that is known.
Backfill ==
  /\ entry /\ legible
  /\ Observes
  /\ \E from, through \in Episodes :
       /\ ~ from .. through \subseteq library
       /\ Begins(TRUE, (from .. through) \ library)

-----------------------------------------------------------------------------
(* Searching: for each episode first with the names of the files, then     *)
(* without its number, then the same with the declared title.              *)

Chosen(S) == BestOf(S \cap allowed, Holding)

\* The search for an episode is over when it found one that needs no review.
Acceptable(S, e) == \E r \in Chosen(S) \cap trusted : e \in Holding[r]

Target == Min(targets)
Query ==
  /\ op = "search" /\ targets # {}
  /\ \E hits \in SUBSET Offer :
       /\ results' = results \cup hits
       /\ IF phase = 4 \/ Acceptable(results', Target)
          THEN targets' = targets \ {Target} /\ phase' = 1
          ELSE phase' = phase + 1 /\ UNCHANGED targets
  /\ UNCHANGED <<outside, reviews, op, manual, known, held, trusted, missing, asking, advice>>

\* Of the best selection, what fills a gap; those that are there already are not
\* asked for, and of the others the ones in doubt are left to the user.
EndSearch == trusted' = {} /\ missing' = {} /\ targets' = {} /\ phase' = 1 /\ results' = {}
Lacking(r) == known /\ ~ Holding[r] \subseteq held
Plan ==
  /\ op = "search" /\ targets = {}
  /\ LET fills == {r \in Chosen(results) : Holding[r] \cap missing # {} /\ Lacking(r)}
     IN asking' = fills \cap trusted /\ advice' = fills \ trusted
  /\ op' = "acquire" /\ EndSearch
  /\ UNCHANGED <<outside, reviews, manual, known, held>>

\* The caller gives up: nothing is selected.
Cancel ==
  /\ op = "search"
  /\ op' = "acquire" /\ EndSearch /\ asking' = {} /\ advice' = {}
  /\ UNCHANGED <<outside, reviews, manual, known, held>>

\* The downloader has a release already, takes it, or does not.
Acquire ==
  /\ op = "acquire"
  /\ \E r \in asking : asking' = asking \ {r} /\ tasks' \in {tasks, tasks \cup {r}}
  /\ UNCHANGED <<library, legible, entry, allowed, events, restarts, reviews, op, manual, known, held,
                 search, advice>>

Finish ==
  /\ op = "acquire" /\ asking = {}
  /\ reviews' = Reconciled
  /\ advice' = {} /\ Ends
  /\ UNCHANGED <<outside, search, asking>>

-----------------------------------------------------------------------------
(* Confirming one review                                                   *)

\* What is there by now needs no decision; what cannot be told, or is no longer
\* admitted, is left as it is.
Confirm ==
  /\ op = "idle" /\ entry /\ legible
  /\ \E r \in reviews :
       IF Holding[r] \subseteq library
       THEN reviews' = reviews \ {r} /\ UNCHANGED <<op, asking>>
       ELSE r \in allowed /\ op' = "confirm" /\ asking' = {r} /\ UNCHANGED reviews
  /\ UNCHANGED <<outside, manual, known, held, search, advice>>

\* Only what the downloader accepts is decided.
Decide ==
  /\ op = "confirm"
  /\ op' = "idle" /\ asking' = {}
  /\ \/ /\ asking \cap tasks = {}
        /\ tasks' = tasks \cup asking /\ reviews' = reviews \ asking
     \/ /\ tasks' \in {tasks, tasks \cup asking} /\ UNCHANGED reviews
  /\ UNCHANGED <<library, legible, entry, allowed, events, restarts, manual, known, held, search, advice>>

-----------------------------------------------------------------------------
(* Meanwhile                                                               *)

Event == events < MaxEvents /\ events' = events + 1
Inside == <<reviews, op, manual, known, held, search, asking, advice>>
Arrive == Event /\ \E r \in tasks : library' = library \cup Holding[r]
          /\ UNCHANGED <<legible, entry, allowed, tasks, restarts, Inside>>
Delete == Event /\ \E e \in library : library' = library \ {e}
          /\ UNCHANGED <<legible, entry, allowed, tasks, restarts, Inside>>
Unreadable == Event /\ legible' = ~legible
              /\ UNCHANGED <<library, entry, allowed, tasks, restarts, Inside>>
\* The configuration is loaded anew between operations.
Reconfigure ==
  /\ op = "idle" /\ Event
  /\ \/ entry' = ~entry /\ UNCHANGED allowed
     \/ allowed' \in SUBSET Offer /\ UNCHANGED entry
  /\ UNCHANGED <<library, legible, tasks, restarts, Inside>>
\* The queue is kept in memory only.
Restart ==
  /\ Event /\ restarts' = restarts + 1
  /\ reviews' = {} /\ Ends /\ EndSearch /\ asking' = {} /\ advice' = {}
  /\ UNCHANGED <<library, legible, entry, allowed, tasks>>

-----------------------------------------------------------------------------
RepairNext ==
  \/ Cycle \/ Backfill \/ Query \/ Plan \/ Cancel \/ Acquire \/ Finish \/ Confirm \/ Decide
  \/ Arrive \/ Delete \/ Unreadable \/ Reconfigure \/ Restart

-----------------------------------------------------------------------------
\* "Reviews remain available across later repair scans until their episode range is
\* actually filled or the user confirms the candidate" (repair_review.go:27), or
\* newer advice takes their place: a library that cannot be read, a search that
\* finds nothing, a downloader that refuses do not decide for the user.  And no
\* episode ever waits for two decisions.
ReviewKept ==
  /\ \A r \in reviews \ reviews' :
       \/ restarts' # restarts
       \/ ~entry
       \/ op = "acquire" /\ known /\ Holding[r] \subseteq held
       \/ op = "idle" /\ legible /\ Holding[r] \subseteq library
       \/ \E q \in reviews' \cap advice : Rival(r, q)
       \/ op = "confirm" /\ asking = {r} /\ r \in tasks' \ tasks
  /\ \A r, q \in reviews' : r # q => ~Rival(r, q)
ReviewsKept == [][ReviewKept]_repairVars
=============================================================================
