----------------------------- MODULE Migration -----------------------------
(***************************************************************************)
(* Migration: an existing download task is moved below its work's source.  *)
(*                                                                         *)
(* A confirmed plan is applied by pausing the task, telling the downloader *)
(* to move its files, waiting until it says so, looking at the files again,*)
(* publishing them, declaring the work, and resuming the task.  Every step *)
(* is a remote call or a write that may fail, also after it took effect,   *)
(* and nothing is kept of an attempt but what can be observed.  The        *)
(* downloader pauses and moves in its own time, and may move by copying.   *)
(***************************************************************************)
EXTENDS Naturals

CONSTANTS
  File,      \* the wanted files of the task
  Media,     \* the media types a run may be about
  MayCopy,   \* the downloader may move a file by copying it
  MaxEvents  \* bound: failing calls and writes, crashes, users at the downloader

ASSUME MigrationAssumption ==
  /\ Media \subseteq {"series", "movie"}
  /\ MayCopy \in BOOLEAN
  /\ MaxEvents \in Nat

VARIABLES
  media,    \* the media type of the work
  at,       \* where each file is, at the old place or the new one
  object,   \* whether a file is the first object or a copy of it
  done,     \* the files that are complete
  state,    \* whether the downloader shows the task as running or paused
  stopping, \* a pause was accepted and does not show yet
  goal,     \* the place the downloader was last told to have the files at
  saved,    \* the place the downloader says it has them at
  link,     \* the object each file's library name is of, if there is one
  declared, \* the work is not declared, or is, or also says what the folder holds
  events,   \* how many failures, crashes and meddlings there were
  pc,       \* the step the attempt is at
  decision, \* whether the plan is to relocate the task or to adopt it in place
  paused,   \* the attempt knows that it paused the task
  moved,    \* the attempt has seen the task at the new place after telling it to go
  before,   \* the objects of the complete files before the move
  found,    \* the complete files seen after it
  outcome,  \* history: how the last attempt ended
  ours,     \* history: the task is not running because an attempt paused it
  excused,  \* history: a crash or a failed call came between pausing and resuming
  meddled   \* history: a user restarted the task during the attempt

worldVars == <<media, at, object, done, state, stopping, goal, saved>>
keptVars  == <<link, declared>>
planVars  == <<decision, moved, before, found>>
histVars  == <<ours, excused, meddled>>
vars == <<worldVars, keptVars, events, pc, paused, planVars, outcome, histVars>>

Place  == {"old", "new"}
Object == {"first", "copy"}

PCs == {"idle", "start", "pause", "wait paused", "relocate", "recheck", "wait moved",
        "reobserve", "organize", "declare", "project", "restart", "resume"}

TypeOK ==
  /\ media \in Media
  /\ at \in [File -> Place]
  /\ object \in [File -> Object]
  /\ done \subseteq File
  /\ state \in {"running", "paused"} /\ stopping \in BOOLEAN
  /\ goal \in Place /\ saved \in Place
  /\ link \in [File -> Object \cup {"none"}]
  /\ declared \in {"none", "entry", "projected"}
  /\ events \in 0..MaxEvents
  /\ pc \in PCs
  /\ decision \in {"adopt", "relocate"}
  /\ paused \in BOOLEAN /\ moved \in BOOLEAN
  /\ before \subseteq File \X Object
  /\ found \subseteq File
  /\ outcome \in {"none", "ok", "failed"}
  /\ ours \in BOOLEAN /\ excused \in BOOLEAN /\ meddled \in BOOLEAN

\* The work may be declared already, without a word on the task's folder, and some
\* of its files may have been published.
Init ==
  /\ media \in Media
  /\ at = [f \in File |-> "old"] /\ object = [f \in File |-> "first"]
  /\ done \in (SUBSET File) \ {{}}
  /\ state \in {"running", "paused"} /\ stopping = FALSE
  /\ goal = "old" /\ saved = "old"
  /\ link \in [File -> {"none", "first"}]
  /\ declared \in {"none", "entry"}
  /\ events = 0
  /\ pc = "idle"
  /\ decision = "adopt" /\ paused = FALSE /\ moved = FALSE /\ before = {} /\ found = {}
  /\ outcome = "none"
  /\ ours = FALSE /\ excused = FALSE /\ meddled = FALSE

\* A call or a write fails, or something happens that nobody asked for.
Mishap == events < MaxEvents /\ events' = events + 1

\* Complete files found where the downloader says they are.
Present == {f \in done : at[f] = saved}

\* The library name of a file is another object's.
Conflict == \E f \in Present : link[f] \notin {"none", object[f]}

-----------------------------------------------------------------------------
(* Planning.                                                               *)

\* Mutant: a task at the new place is taken for managed before its work is declared.
ManagedAnyway == saved = "new"

\* A task below a declared work's source is left to the cycles.
Managed == declared # "none" /\ saved = "new"

\* There is nothing at the new place yet.
Safe == saved = "old" => \A f \in File : at[f] = "old"

\* A scan offers every task of the source that is left to it and has a complete file.
Offered == ~ Managed /\ Present # {}

\* The task is offered, and the confirmed plan is made.
Plan ==
  /\ pc = "idle" /\ pc' = "start"
  /\ Offered /\ ~ Conflict /\ Safe
  /\ decision' = IF saved = "new" THEN "adopt" ELSE "relocate"
  /\ moved' = FALSE /\ before' = {} /\ found' = {}
  /\ outcome' = "none" /\ meddled' = FALSE
  /\ UNCHANGED <<worldVars, keptVars, events, paused, ours, excused>>

-----------------------------------------------------------------------------
(* Applying the plan.                                                      *)

Go(step) == pc' = step /\ UNCHANGED outcome

\* Mutant: the attempt is given up as it stands.
FailUnresumed == pc' = "idle" /\ outcome' = "failed"

\* The attempt is given up; a task it paused is resumed first.
Fail ==
  /\ pc' = IF paused THEN "resume" ELSE "idle"
  /\ outcome' = "failed"

FailsUnless(possible) == IF possible THEN Mishap /\ Fail ELSE UNCHANGED events /\ Fail

\* The task is observed anew.
Start ==
  /\ pc = "start"
  /\ UNCHANGED <<worldVars, keptVars, decision, paused, moved, found, histVars>>
  /\ \/ /\ Present # {} /\ UNCHANGED events
        /\ before' = {<<f, object[f]>> : f \in Present}
        /\ IF decision = "adopt" \/ saved = "new" THEN Go("reobserve")
           ELSE IF state = "running" THEN Go("pause") ELSE Go("relocate")
     \/ FailsUnless(Present # {}) /\ UNCHANGED before

\* A call to pause is accepted.
Accept == stopping' = (state = "running") /\ ours' = (ours \/ state = "running")

\* Mutant: the pause is noted only when it shows.
PauseUnmarked ==
  /\ pc = "pause"
  /\ UNCHANGED <<media, at, object, done, state, goal, saved, keptVars, planVars, paused, meddled>>
  /\ \/ Accept /\ excused' = FALSE /\ Go("wait paused") /\ UNCHANGED events
     \/ Mishap /\ Fail /\ UNCHANGED <<stopping, ours, excused>>
     \/ Mishap /\ Fail /\ Accept /\ excused' = ours'

\* Of a pause that fails, though the downloader accepted it, nothing is noted.
Pause ==
  /\ pc = "pause"
  /\ UNCHANGED <<media, at, object, done, state, goal, saved, keptVars, planVars, meddled>>
  /\ \/ Accept /\ excused' = FALSE /\ paused' = TRUE /\ Go("wait paused") /\ UNCHANGED events
     \/ Mishap /\ Fail /\ UNCHANGED <<stopping, ours, excused, paused>>
     \/ Mishap /\ Fail /\ Accept /\ excused' = ours' /\ UNCHANGED paused

WaitPaused ==
  /\ pc = "wait paused"
  /\ \/ state = "paused" /\ Go("relocate") /\ UNCHANGED events
     \/ Mishap /\ Fail
  /\ UNCHANGED <<worldVars, keptVars, paused, planVars, histVars>>

\* The downloader is told to move the task, and may do so even if the call fails.
Relocate ==
  /\ pc = "relocate"
  /\ UNCHANGED <<media, at, object, done, state, stopping, saved, keptVars, paused, planVars, histVars>>
  /\ \/ goal' = "new" /\ Go("wait moved") /\ UNCHANGED events
     \/ goal' \in {goal, "new"} /\ Go("recheck") /\ Mishap

\* Mutant: whatever is observed, the call is taken for accepted.
RecheckTolerant ==
  /\ pc = "recheck"
  /\ Go("wait moved") /\ UNCHANGED events
  /\ UNCHANGED <<worldVars, keptVars, paused, planVars, histVars>>

\* A call that failed counts as accepted if the move shows at once.
Recheck ==
  /\ pc = "recheck"
  /\ \/ saved = "new" /\ Go("wait moved") /\ UNCHANGED events
     \/ FailsUnless(saved = "new")
  /\ UNCHANGED <<worldVars, keptVars, paused, planVars, histVars>>

WaitMoved ==
  /\ pc = "wait moved"
  /\ \/ saved = "new" /\ moved' = TRUE /\ Go("reobserve") /\ UNCHANGED events
     \/ Mishap /\ Fail /\ UNCHANGED moved
  /\ UNCHANGED <<worldVars, keptVars, paused, decision, before, found, histVars>>

\* Mutant: after a move there only have to be as many files as before.
SameObjectsCounted == {f \in File : \E o \in Object : <<f, o>> \in before} = Present

\* After a move the same objects must be found.
SameObjects == {<<f, object[f]>> : f \in Present} = before

Acceptable == saved = "new" /\ Present # {} /\ (moved => SameObjects)

Reobserve ==
  /\ pc = "reobserve"
  /\ \/ Acceptable /\ found' = Present /\ Go("organize") /\ UNCHANGED events
     \/ FailsUnless(Acceptable) /\ UNCHANGED found
  /\ UNCHANGED <<worldVars, keptVars, paused, decision, moved, before, histVars>>

\* The library names that are free are linked; the others are conflicts, which are
\* reported and no failure.
Organize ==
  /\ pc = "organize"
  /\ \E S \in SUBSET {f \in found : link[f] = "none"} :
       /\ link' = [f \in File |-> IF f \in S THEN object[f] ELSE link[f]]
       /\ \/ S = {f \in found : link[f] = "none"} /\ Go("declare") /\ UNCHANGED events
          \/ Mishap /\ Fail
  /\ UNCHANGED <<worldVars, declared, paused, planVars, histVars>>

Finish == IF paused THEN Go("restart") ELSE pc' = "idle" /\ outcome' = "ok"

\* A work that is not declared is, where its files are now: of a movie there is
\* no more to say.  The declaration there is may not be readable, or may turn out
\* to be of another place.
Declare ==
  /\ pc = "declare"
  /\ \/ /\ declared' = (IF declared = "none" THEN "entry" ELSE declared)
        /\ IF declared = "none" /\ media = "movie" THEN Finish ELSE Go("project")
        /\ UNCHANGED events
     \/ /\ declared' \in {declared, IF declared = "none" THEN "entry" ELSE declared}
        /\ Mishap /\ Fail
  /\ UNCHANGED <<worldVars, link, paused, planVars, histVars>>

\* What a declaration that is written once more says.
Said == IF media = "series" THEN "projected" ELSE declared

\* The declaration is written once more if it does not say what the folder of a
\* series holds, or has other filters than the user confirmed.
Project ==
  /\ pc = "project"
  /\ \/ declared' = Said /\ Finish /\ UNCHANGED events
     \/ declared' \in {declared, Said} /\ Mishap /\ Fail
  /\ UNCHANGED <<worldVars, link, paused, planVars, histVars>>

\* The downloader resumes the task.
Resumed ==
  /\ state' = "running" /\ stopping' = FALSE
  /\ ours' = FALSE /\ excused' = FALSE

Restart ==
  /\ pc = "restart"
  /\ \/ Resumed /\ paused' = FALSE /\ pc' = "idle" /\ outcome' = "ok" /\ UNCHANGED events
     \/ Mishap /\ Fail /\ UNCHANGED <<state, stopping, paused, ours, excused>>
     \/ Mishap /\ Fail /\ Resumed /\ UNCHANGED paused
  /\ UNCHANGED <<media, at, object, done, goal, saved, keptVars, planVars, meddled>>

\* The last thing an attempt does that has paused the task and failed.
Resume ==
  /\ pc = "resume" /\ pc' = "idle"
  /\ paused' = FALSE
  /\ \/ Resumed /\ UNCHANGED events
     \/ Mishap /\ Resumed
     \/ Mishap /\ excused' = ours /\ UNCHANGED <<state, stopping, ours>>
  /\ UNCHANGED <<media, at, object, done, goal, saved, keptVars, planVars, outcome, meddled>>

\* The process dies.
Crash ==
  /\ pc # "idle" /\ pc' = "idle"
  /\ Mishap
  /\ paused' = FALSE /\ outcome' = "failed" /\ excused' = ours
  /\ UNCHANGED <<worldVars, keptVars, planVars, ours, meddled>>

-----------------------------------------------------------------------------
(* The downloader and its users.                                           *)

progVars == <<keptVars, pc, paused, planVars, outcome>>

ShowPaused ==
  /\ stopping /\ stopping' = FALSE /\ state' = "paused"
  /\ UNCHANGED <<media, at, object, done, goal, saved, events, progVars, histVars>>

ShowMoved ==
  /\ saved # goal /\ saved' = goal
  /\ UNCHANGED <<media, at, object, done, state, stopping, goal, events, progVars, histVars>>

\* A file is renamed, or copied and the old one removed.
Move(f) ==
  /\ at[f] # goal /\ at' = [at EXCEPT ![f] = goal]
  /\ \E o \in {object[f]} \cup (IF MayCopy THEN {"copy"} ELSE {}) :
       object' = [object EXCEPT ![f] = o]
  /\ UNCHANGED <<media, done, state, stopping, goal, saved, events, progVars, histVars>>

Complete(f) ==
  /\ state = "running" /\ f \notin done /\ done' = done \cup {f}
  /\ UNCHANGED <<media, at, object, state, stopping, goal, saved, events, progVars, histVars>>

\* A user starts the task, or pauses it.
Meddle ==
  /\ Mishap
  /\ \/ Resumed /\ meddled' = TRUE
     \/ /\ state = "running" /\ ~ stopping /\ state' = "paused"
        /\ UNCHANGED <<stopping, histVars>>
  /\ UNCHANGED <<media, at, object, done, goal, saved, progVars>>

-----------------------------------------------------------------------------

\* The steps of an attempt.
Apply ==
  \/ Start \/ Pause \/ WaitPaused \/ Relocate \/ Recheck \/ WaitMoved \/ Reobserve
  \/ Organize \/ Declare \/ Project \/ Restart \/ Resume

Downloader == ShowPaused \/ ShowMoved \/ \E f \in File : Move(f)

Next ==
  \/ Plan \/ Apply \/ Crash
  \/ Downloader \/ (\E f \in File : Complete(f)) \/ Meddle

Spec == Init /\ [][Next]_vars

\* A migration that is offered is asked for again, an attempt goes on, and the
\* downloader does what it accepted.
FairSpec == Spec /\ SF_vars(Plan) /\ WF_vars(Apply) /\ WF_vars(Downloader)
-----------------------------------------------------------------------------
(* Properties.                                                             *)

\* A task that does not run because it was paused here will be resumed, unless the
\* attempt does not know or can no longer do anything about it.
PauseKnown ==
  /\ ours => paused \/ excused
  /\ paused => pc \in {"wait paused", "relocate", "recheck", "wait moved", "reobserve",
                       "organize", "declare", "project", "restart", "resume"}
  /\ pc \in {"restart", "resume"} => paused

\* What was accepted after a move are the objects seen before it.
MovedKept ==
  pc \in {"organize", "declare", "project", "restart"} /\ moved =>
    \A p \in before : at[p[1]] = "new" /\ object[p[1]] = p[2]

\* The downloader does not say that it moved what it was not told to.
MovedWhenTold == saved = "new" => goal = "new"

MovedOnceSeen ==
  pc \in {"organize", "declare", "project", "restart"} => saved = "new"

\* The type invariant and what every reachable state satisfies besides.
IInv == TypeOK /\ PauseKnown /\ MovedWhenTold /\ MovedOnceSeen /\ MovedKept

\* Between attempts no task is left paused by one, unless the process died, the
\* pause was accepted without a reply, or the last call to resume failed
\* (docs/FILESYSTEM_MODEL.md: "If migration paused a running task and then failed,
\* attempt to resume it").
ResumesWhatItPaused == pc = "idle" /\ ours => excused

\* After a move the work is declared, and success reported, only if every complete
\* file is still the object it was (docs/FILESYSTEM_MODEL.md: "Explicit migration
\* requires the same object set").
AcceptsOnlySameObjects ==
  [][ /\ declared' # declared \/ (outcome' = "ok" /\ outcome # "ok")
      /\ moved
      => \A p \in before : at[p[1]] = "new" /\ object[p[1]] = p[2] ]_vars

\* An attempt ends, unless a user restarts the task it waits to be paused.
MigrationEnds == pc # "idle" ~> pc = "idle" \/ meddled

\* The task comes to lie below the source of its declared work, whatever failed on
\* the way, unless a copy of a published file is in conflict with its library name.
MigrationSettles ==
  <>[](\/ saved = "new" /\ declared # "none"
       \/ \E f \in File : link[f] \notin {"none", object[f]}
       \/ meddled /\ pc # "idle")

\* Then a series' declaration says what the folder holds (migration.go: "persist
\* that projection").
ProjectionSettles ==
  <>[](\/ media = "series" /\ saved = "new" => declared = "projected"
       \/ pc # "idle"
       \/ \E f \in File : link[f] \notin {"none", object[f]})
=============================================================================
