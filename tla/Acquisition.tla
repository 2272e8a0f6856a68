---------------------------- MODULE Acquisition ----------------------------
(***************************************************************************)
(* Acquisition: which releases a cycle asks the downloader for.            *)
(*                                                                         *)
(* Nothing about earlier requests is kept.  A cycle knows what it has by   *)
(* walking the trees, by listing the downloader's tasks, and by finding    *)
(* the tasks' files among what it walked.  It selects from the releases a  *)
(* feed offers, and then from those a search of the past finds for the     *)
(* gaps in a season.  The downloader may accept a release and lose the     *)
(* reply, list a task late, and put its files in the wrong place; tasks    *)
(* fail, are removed, and come to the library while cycles go on.          *)
(***************************************************************************)
EXTENDS Selection

CONSTANTS
  Release,    \* releases, by acquisition identity, numbered the best first
  Work,       \* the seasons of series and the movies releases are selected for
  Movie,      \* the works that are movies
  WorkOf,     \* the work each release belongs to
  Eps,        \* the episodes each release contains
  Astray,     \* releases whose files first appear outside their work's folder
  Batch,      \* the downloader lists tasks together with their files
  Feeds,      \* what the feeds may offer to a cycle
  Searches,   \* what a search of the past may find
  Unreadable, \* the sets of works whose source may be unreadable during a cycle
  Hidden,     \* the sets of works whose library may be unreadable during a cycle
  Library0,   \* the libraries a run may start from
  MaxEvents   \* bound: failures, lost replies, removals and crashes

Episode == UNION {Eps[r] : r \in Release}

ASSUME ReleaseAssumption ==
  /\ Release \subseteq Nat \ {0}
  /\ Movie \subseteq Work
  /\ WorkOf \in [Release -> Work]
  /\ Eps \in [Release -> SUBSET Nat]
  /\ \A r \in Release : IF WorkOf[r] \in Movie THEN Eps[r] = {NoEpisode}
                        ELSE Eps[r] # {} /\ NoEpisode \notin Eps[r]
  /\ IsFiniteSet(Episode)
  /\ Astray \subseteq Release
  /\ Batch \in BOOLEAN

ASSUME InputAssumption ==
  /\ Feeds \subseteq SUBSET Release
  /\ Searches \subseteq SUBSET Release
  /\ Unreadable \subseteq SUBSET Work
  /\ Hidden \subseteq SUBSET Work
  /\ Library0 \subseteq [Work -> SUBSET Nat]
  /\ MaxEvents \in Nat

VARIABLES
  task,      \* what the downloader has of each release
  library,   \* the episodes of each work in the library
  events,    \* how many failures, lost replies, removals and crashes there were
  pc,        \* where the cycle stands
  inv,       \* the library as the cycle walked it
  hidden,    \* works whose library the cycle could not read
  graph,     \* releases whose files were below their work's source when walked
  uncertain, \* works whose source the cycle could not read
  current,   \* releases selected from the feeds and not in the library
  visited,   \* works a search has been made for
  todo,      \* selected releases of the running acquisition pass
  owned,     \* releases whose files the pass knows to belong to their work
  listed,    \* tasks the pass knows of, other than failed ones
  dead,      \* failed tasks the pass knows of
  misfiled,  \* tasks that had no files in place when they were listed with them
  release,   \* the release being acquired
  sent,      \* history: releases the cycle asked the downloader for
  reported,  \* history: releases the cycle reported as acquired
  accepted,  \* history: releases the downloader ever accepted
  calm       \* history: nothing outside the program happened since the walk

worldVars == <<task, library, events, accepted>>
walkVars  == <<inv, hidden, graph, uncertain>>
planVars  == <<current, visited>>
passVars  == <<todo, owned, listed, dead, misfiled, release>>
histVars  == <<sent, reported, calm>>
vars == <<worldVars, pc, walkVars, planVars, passVars, histVars>>

NoRelease == 0

\* A task is not known; accepted but not listed yet; listed without files; has
\* its files in the wrong place; has them in its work's folder; or has failed.
TaskState == {"none", "accepted", "listed", "astray", "placed", "failed"}

PCs == {"idle", "observe", "ensure", "add", "recover", "lookup", "repair", "gaps"}

TypeOK ==
  /\ task \in [Release -> TaskState]
  /\ library \in [Work -> SUBSET Nat]
  /\ events \in 0..MaxEvents
  /\ pc \in PCs
  /\ inv \in [Work -> SUBSET Nat]
  /\ hidden \subseteq Work
  /\ graph \subseteq Release
  /\ uncertain \subseteq Work
  /\ current \subseteq Release
  /\ visited \subseteq Work
  /\ todo \subseteq Release
  /\ owned \subseteq Release
  /\ listed \subseteq Release
  /\ dead \subseteq Release
  /\ misfiled \subseteq Release
  /\ release \in Release \cup {NoRelease}
  /\ sent \subseteq Release
  /\ reported \subseteq Release
  /\ accepted \subseteq Release
  /\ calm \in BOOLEAN

Init ==
  /\ task = [r \in Release |-> "none"]
  /\ library \in Library0
  /\ events = 0 /\ accepted = {}
  /\ pc = "idle"
  /\ inv = [w \in Work |-> {}] /\ hidden = {} /\ graph = {} /\ uncertain = {}
  /\ current = {} /\ visited = {}
  /\ todo = {} /\ owned = {} /\ listed = {} /\ dead = {} /\ misfiled = {}
  /\ release = NoRelease
  /\ sent = {} /\ reported = {} /\ calm = FALSE

\* What a pass, or a cycle, knew is gone when it is over.
ForgetPass ==
  /\ todo' = {} /\ owned' = {} /\ listed' = {} /\ dead' = {} /\ misfiled' = {}
  /\ release' = NoRelease

ForgetCycle ==
  /\ ForgetPass
  /\ pc' = "idle"
  /\ inv' = [w \in Work |-> {}] /\ hidden' = {} /\ graph' = {} /\ uncertain' = {}
  /\ current' = {} /\ visited' = {}
  /\ sent' = {} /\ reported' = {} /\ calm' = FALSE

\* A call fails, or something happens that the program neither causes nor awaits.
Mishap == events < MaxEvents /\ events' = events + 1

-----------------------------------------------------------------------------
(* What a cycle selects.                                                   *)

ReleasesOf(w, S) == {r \in S : WorkOf[r] = w}

\* Mutant: of a season's releases, too, only the best one is taken.
SelectedBest(S) == UNION {BestMovie(ReleasesOf(w, S)) : w \in Work}

Selected(S) ==
  UNION {IF w \in Movie THEN BestMovie(ReleasesOf(w, S))
                        ELSE BestOf(ReleasesOf(w, S), Eps) : w \in Work}

\* Mutant: a library that cannot be read is taken to be empty.
GateTrusting(S, lib, unread) ==
  {r \in S : WorkOf[r] \in Movie \/ ~ Eps[r] \subseteq lib[WorkOf[r]]}

\* The gate lets a release pass whose work's library was read and lacks one of its
\* episodes.  A season's inventory is looked up; a movie has none, and so passes.
Gate(S, lib, unread) ==
  {r \in S : /\ WorkOf[r] \notin unread
             /\ WorkOf[r] \in Movie \/ ~ Eps[r] \subseteq lib[WorkOf[r]]}

Placed == {r \in Release : task[r] = "placed"}

\* A cycle walks both trees and selects from what the feeds offer; one that only
\* looks after local files is offered nothing.
BeginCycle(feed, unread, dark) ==
  /\ pc = "idle"
  /\ pc' = "observe"
  /\ inv' = [w \in Work |-> IF w \in unread THEN {} ELSE library[w]]
  /\ hidden' = unread
  /\ graph' = {r \in Placed : WorkOf[r] \notin dark}
  /\ uncertain' = dark
  /\ current' = Gate(Selected(feed), inv', hidden')
  /\ todo' = current'
  /\ visited' = {}
  /\ sent' = {} /\ reported' = {} /\ calm' = TRUE
  /\ UNCHANGED <<worldVars, owned, listed, dead, misfiled, release>>

\* The episodes a season lacks between the first and the last it has; nobody
\* misses an episode number no release has.
Gaps(w) ==
  {e \in Episode \ inv[w] : \E f, g \in inv[w] : f < e /\ e < g}

\* Mutant: what was selected from the feeds is searched for again.
OpenWhatever(w) == IF w \in Movie \cup hidden THEN {} ELSE Gaps(w)

\* Gaps the selection from the feeds leaves open.
Open(w) ==
  IF w \in Movie \cup hidden THEN {}
  ELSE Gaps(w) \ UNION {Eps[r] : r \in ReleasesOf(w, current)}

\* Mutant: the trees are not walked again.
EndFeedsStale ==
  /\ pc = "ensure" /\ todo = {} /\ visited = {}
  /\ pc' = "gaps"
  /\ ForgetPass
  /\ UNCHANGED <<worldVars, walkVars, planVars, histVars>>

\* After the selection from the feeds was acquired the trees are walked again, if
\* there was one.
EndFeeds ==
  /\ pc = "ensure" /\ todo = {} /\ visited = {}
  /\ pc' = "gaps"
  /\ IF current = {}
     THEN UNCHANGED <<inv, graph, calm>>
     ELSE /\ inv' = [w \in Work |-> IF w \in hidden THEN {} ELSE library[w]]
          /\ graph' = {r \in Placed : WorkOf[r] \notin uncertain}
          /\ calm' = TRUE
  /\ ForgetPass
  /\ UNCHANGED <<worldVars, hidden, uncertain, planVars, sent, reported>>

\* The past is searched for a season with gaps.  Of the selection from what was
\* found, what fills a gap goes through the gate, unless a look at the release
\* group leaves it to the user.
Backfill(w, found, trusted) ==
  /\ pc = "gaps"
  /\ w \notin visited /\ Open(w) # {}
  /\ visited' = visited \cup {w}
  /\ todo' = {r \in Gate(Selected(ReleasesOf(w, found)), inv, hidden) :
                r \in trusted /\ Eps[r] \cap Open(w) # {}}
  /\ pc' = IF todo' = {} THEN "gaps" ELSE "observe"
  /\ UNCHANGED <<worldVars, walkVars, current, owned, listed, dead, misfiled, release, histVars>>

EndBackfill ==
  /\ pc = "ensure" /\ todo = {} /\ visited # {}
  /\ pc' = "gaps"
  /\ ForgetPass
  /\ UNCHANGED <<worldVars, walkVars, planVars, histVars>>

EndCycle ==
  /\ pc = "gaps"
  /\ \A w \in Work : w \in visited \/ Open(w) = {}
  /\ ForgetCycle
  /\ UNCHANGED worldVars

-----------------------------------------------------------------------------
(* One acquisition pass over the selected releases.                        *)

Live == {r \in Release : task[r] \in {"listed", "astray", "placed"}}
Dead == {r \in Release : task[r] = "failed"}

\* The tasks are listed once for the pass, which begins from the cycle's last walk.
\* If they cannot be listed every selected release fails.
Observe ==
  /\ pc = "observe"
  /\ pc' = "ensure"
  /\ owned' = graph
  /\ \/ /\ listed' = Live /\ dead' = Dead
        /\ misfiled' = IF Batch THEN (Live \cup Dead) \ Placed ELSE {}
        /\ UNCHANGED <<todo, events>>
     \/ Mishap /\ listed' = {} /\ dead' = {} /\ misfiled' = {} /\ todo' = {}
  /\ UNCHANGED <<task, library, accepted, walkVars, planVars, release, histVars>>

\* The task's files are where the pass knows them to belong to a work.  Nothing
\* is known of any other task while some other work's source is unreadable.
Claims(q) ==
  /\ q \in owned \ misfiled /\ task[q] = "placed"
  /\ uncertain \subseteq {WorkOf[q]}

\* Another live task has one of the release's episodes.
Taken(r) ==
  \E q \in listed \ {r} : Claims(q) /\ WorkOf[q] = WorkOf[r] /\ Overlaps(q, r, Eps)

\* After every release its work's source is walked again.
Done ==
  LET w == WorkOf[release'] IN
  /\ pc' = "ensure"
  /\ owned' = IF w \in uncertain THEN owned
              ELSE {r \in owned : WorkOf[r] # w} \cup ReleasesOf(w, {r \in Release : task'[r] = "placed"})

\* The downloader has the release's task, going on or failed.
Known(r) == r \in listed \cup dead

\* A release the downloader has is left alone, once its files are in place; so is
\* one whose episodes another task has, and one for which the files of some other
\* task could not be had, as when that was removed since the tasks were listed.
Ensure(r) ==
  /\ pc = "ensure"
  /\ r \in todo /\ todo' = todo \ {r}
  /\ release' = r
  /\ UNCHANGED <<task, library, accepted, walkVars, planVars, listed, dead, misfiled, histVars>>
  /\ \/ /\ Known(r) /\ UNCHANGED events
        /\ IF task[r] = "astray" THEN pc' = "repair" /\ UNCHANGED owned ELSE Done
     \/ /\ ~ Known(r) /\ UNCHANGED events
        /\ IF Taken(r) THEN Done ELSE pc' = "add" /\ UNCHANGED owned
     \/ /\ ~ Known(r) /\ listed # {}
        /\ IF \E q \in listed : task[q] = "none" THEN UNCHANGED events ELSE Mishap
        /\ Done

\* The downloader takes the release, unless it has it, and may list it at once.
Accepts(r) ==
  /\ accepted' = accepted \cup {r}
  /\ IF task[r] = "none"
     THEN \E t \in {"accepted", "listed"} : task' = [task EXCEPT ![r] = t]
     ELSE UNCHANGED task

\* The reply to the request names the task, or does not; or there is none,
\* whether the release was accepted or not.  A release the downloader has may be
\* refused.
Add ==
  /\ pc = "add"
  /\ sent' = sent \cup {release}
  /\ UNCHANGED <<library, walkVars, planVars, todo, dead, misfiled, release, calm>>
  /\ \/ /\ Accepts(release) /\ UNCHANGED events
        /\ IF task[release] = "astray"
           THEN pc' = "repair" /\ UNCHANGED <<owned, listed, reported>>
           ELSE Done /\ listed' = listed \cup {release} /\ reported' = reported \cup {release}
     \/ /\ Accepts(release) /\ UNCHANGED events
        /\ pc' = "lookup" /\ UNCHANGED <<owned, listed, reported>>
     \/ /\ Accepts(release) /\ Mishap
        /\ pc' = "recover" /\ UNCHANGED <<owned, listed, reported>>
     \/ /\ IF task[release] = "none" THEN Mishap ELSE UNCHANGED events
        /\ pc' = "recover" /\ UNCHANGED <<task, accepted, owned, listed, reported>>

\* Mutant: a request without a reply is taken for accepted.
RecoverBlindly ==
  /\ pc = "recover"
  /\ UNCHANGED <<worldVars, walkVars, planVars, todo, misfiled, release, sent, calm>>
  /\ listed' = Live /\ dead' = Dead
  /\ reported' = reported \cup {release}
  /\ Done

\* Without a reply the tasks are listed again, and the release is reported as
\* acquired if its task is there.
Recover ==
  /\ pc = "recover"
  /\ UNCHANGED <<task, library, accepted, walkVars, planVars, todo, misfiled, release, sent, calm>>
  /\ \/ /\ listed' = Live /\ dead' = Dead
        /\ reported' = reported \cup ({release} \cap (Live \cup Dead))
        /\ UNCHANGED events
     \/ Mishap /\ UNCHANGED <<listed, dead, reported>>
  /\ Done

\* After a reply without a name the tasks are listed to find the one that was
\* added.  That it is not there yet, or they cannot be listed, is no failure.
Lookup ==
  /\ pc = "lookup"
  /\ UNCHANGED <<task, library, accepted, walkVars, planVars, todo, dead, misfiled, release, sent, calm>>
  /\ \/ /\ release \in Live \cup Dead /\ task[release] = "astray"
        /\ pc' = "repair" /\ UNCHANGED <<owned, listed, reported, events>>
     \/ /\ release \in Live \cup Dead /\ task[release] # "astray"
        /\ listed' = listed \cup {release} /\ reported' = reported \cup {release}
        /\ Done /\ UNCHANGED events
     \/ /\ IF release \in Live \cup Dead THEN Mishap ELSE UNCHANGED events
        /\ reported' = reported \cup {release} /\ UNCHANGED listed
        /\ Done

\* The downloader is told to move the task's files below their work.  It may fail
\* to, or fail to show that it did, or turn out to have copied them.
Repair ==
  /\ pc = "repair"
  /\ UNCHANGED <<library, accepted, walkVars, planVars, todo, dead, misfiled, release, sent, calm>>
  /\ \/ /\ task[release] = "astray"
        /\ task' = [task EXCEPT ![release] = "placed"]
        /\ IF release \in sent
           THEN listed' = listed \cup {release} /\ reported' = reported \cup {release}
           ELSE UNCHANGED <<listed, reported>>
        /\ UNCHANGED events
     \/ /\ task[release] = "astray" /\ Mishap
        /\ \E t \in {"astray", "placed"} : task' = [task EXCEPT ![release] = t]
        /\ UNCHANGED <<listed, reported>>
     \/ /\ task[release] # "astray"
        /\ UNCHANGED <<task, events, listed, reported>>
  /\ Done

-----------------------------------------------------------------------------
(* Publication, between cycles' acquisitions, and what the program does not *)
(* control.                                                                *)

Publish(r) ==
  /\ pc = "idle"
  /\ task[r] = "placed"
  /\ library' = [library EXCEPT ![WorkOf[r]] = @ \cup Eps[r]]
  /\ library' # library
  /\ UNCHANGED <<task, events, accepted, pc, walkVars, planVars, passVars, histVars>>

\* The downloader goes on with a task: it lists it, then it has its files.
Progress(r) ==
  /\ \/ task[r] = "accepted" /\ task' = [task EXCEPT ![r] = "listed"]
     \/ /\ task[r] = "listed"
        /\ task' = [task EXCEPT ![r] = IF r \in Astray THEN "astray" ELSE "placed"]
  /\ calm' = FALSE
  /\ UNCHANGED <<library, events, accepted, pc, walkVars, planVars, passVars, sent, reported>>

\* A task fails, or is removed with its files.
Lose(r) ==
  /\ Mishap
  /\ task[r] # "none"
  /\ \E t \in {"failed", "none"} \ {task[r]} : task' = [task EXCEPT ![r] = t]
  /\ calm' = FALSE
  /\ UNCHANGED <<library, accepted, pc, walkVars, planVars, passVars, sent, reported>>

\* An episode is removed from the library.
Delete(w, e) ==
  /\ Mishap
  /\ e \in library[w]
  /\ library' = [library EXCEPT ![w] = @ \ {e}]
  /\ calm' = FALSE
  /\ UNCHANGED <<task, accepted, pc, walkVars, planVars, passVars, sent, reported>>

\* The process dies; what it knew is gone.
Crash ==
  /\ Mishap
  /\ pc # "idle"
  /\ ForgetCycle
  /\ UNCHANGED <<task, library, accepted>>

-----------------------------------------------------------------------------

\* The steps of a cycle once it has begun.
Cycle ==
  \/ EndFeeds
  \/ \E w \in Work, found \in Searches, trusted \in SUBSET Release :
       Backfill(w, found, trusted)
  \/ EndBackfill
  \/ EndCycle
  \/ Observe
  \/ \E r \in Release : Ensure(r)
  \/ Add
  \/ Recover
  \/ Lookup
  \/ Repair

Begin == \E feed \in Feeds, unread \in Hidden, dark \in Unreadable :
           BeginCycle(feed, unread, dark)

Environment ==
  \/ \E r \in Release : Publish(r) \/ Progress(r) \/ Lose(r)
  \/ \E w \in Work : \E e \in library[w] : Delete(w, e)
  \/ Crash

Next == Begin \/ Cycle \/ Environment

Spec == Init /\ [][Next]_vars

\* The scheduler starts cycles for ever, a started cycle runs on, and whatever the
\* feeds may offer, now and then a cycle gets it that can read every tree.
FairSpec ==
  /\ Spec
  /\ \A feed \in Feeds : SF_vars(BeginCycle(feed, {}, {}))
  /\ WF_vars(Cycle)
-----------------------------------------------------------------------------
(* Properties.                                                             *)

\* A task is known to the downloader only after it was accepted.
TasksAccepted == \A r \in Release : task[r] # "none" => r \in accepted

LookupAccepted == pc = "lookup" => release \in accepted

\* The releases a pass still has to look at, or is looking at.
Pending == todo \cup (IF pc = "add" THEN {release} ELSE {})

\* What the cycle asks for was selected from the feeds, or in a search it made.
AsksSelected ==
  sent \cup Pending \subseteq current \cup {r \in Release : WorkOf[r] \in visited}

\* Nothing is pending that the cycle has asked for.
PendingUnsent ==
  /\ Pending \cap sent = {}
  /\ pc \in {"add", "recover", "lookup", "repair"} => release \in Release \ todo

\* What is pending passed the gate, and nothing came to the library since.
PendingGated == Pending \subseteq Gate(Release, inv, hidden)
LibraryKept  == pc # "idle" => \A w \in Work \ hidden : library[w] \subseteq inv[w]

\* The type invariant and what every reachable state satisfies besides.
IInv == TypeOK /\ TasksAccepted /\ LookupAccepted /\ AsksSelected
          /\ PendingUnsent /\ PendingGated /\ LibraryKept

\* No release of a season is asked for whose episodes are all in the library
\* (availability.go, gateAvailability, and completeness.go, acquireAvailable).
SeasonsNotAskedAgain ==
  pc = "add" /\ WorkOf[release] \notin Movie =>
    ~ Eps[release] \subseteq library[WorkOf[release]]

\* Nor is a movie that is in the library (availability.go: "the single filesystem
\* availability gate for both current RSS and historical candidates").
MoviesNotAskedAgain ==
  pc = "add" /\ WorkOf[release] \in Movie =>
    ~ Eps[release] \subseteq library[WorkOf[release]]

\* No release is asked for when the files of another task below its work's source
\* have one of its episodes, if every source could be walked and nothing but the
\* program has changed anything since (automation.go: "target episode already has
\* an observable acquisition").
NeverAddsHeld ==
  pc = "add" /\ calm /\ uncertain = {} =>
    \A q \in Placed \ {release} :
      WorkOf[q] = WorkOf[release] => ~ Overlaps(q, release, Eps)

\* A cycle asks for a release at most once, although the search for gaps selects
\* anew and the downloader may not list yet what it accepted before.
AsksOncePerCycle == pc \in {"add", "recover", "lookup"} =>
  /\ release \notin todo
  /\ pc = "add" => release \notin sent

\* What a cycle reports as acquired the downloader has accepted, whatever replies
\* and listings were lost.
ReportsAccepted == reported \subseteq accepted

\* What the feeds offer again and again is at last in the library or with the
\* downloader (plan.go, on not to "accidentally leave E06 uncovered").
OfferedArrives ==
  <>[](\A r \in UNION Feeds : \A e \in Eps[r] :
         \/ e \in library[WorkOf[r]]
         \/ \E q \in Release : /\ WorkOf[q] = WorkOf[r] /\ e \in Eps[q]
                              /\ task[q] # "none")
=============================================================================
