---------------------------- MODULE Publication ----------------------------
(***************************************************************************)
(* Hardlink publication: how one reconciliation pass turns the files found *)
(* under the source tree into canonical names in the library tree.         *)
(*                                                                         *)
(* The file system is a function from names to objects, an object standing *)
(* for a (device, inode) pair.  A pass walks both trees once, then, for    *)
(* every publication scope in turn, plans against that snapshot, links the *)
(* missing canonical names, and removes the other library names of the     *)
(* objects whose canonical names it has just seen in place.  All the while *)
(* users, media servers and downloaders change names as they like.         *)
(*                                                                         *)
(* A local scope is one first-level folder of a series entry, or one movie *)
(* entry; a task scope is one downloader task.                             *)
(***************************************************************************)
EXTENDS Naturals, FiniteSets

CONSTANTS
  Object,     \* the file objects (inodes)
  NoObject,   \* what a name that does not exist names
  Source,     \* names below the source tree, numbered in path order
  Library,    \* names below the managed library tree
  Entry,      \* catalog entries
  Local,      \* local scopes, numbered in the order a pass visits them
  Task,       \* task scopes, numbered after every local scope
  Movie,      \* the scopes planned as movies
  EntryOf,    \* the entry of each scope
  Files,      \* the source names of each scope
  Root,       \* the library names below the publication root of each scope
  Layouts,    \* the naming rules the declarations may come to give
  Files0,     \* the file systems a run may start from
  MaxEvents,  \* bound: declaration edits, external changes and crashes
  RaceWindows \* TRUE iff a name may change between two system calls of a link
              \* or of a removal

Scope == Local \cup Task
Name  == Source \cup Library

\* A rule sends a source name to a library name, or excludes it (blacklist),
\* or does not recognise it.
Excluded  == "excluded"
Unmatched == "unmatched"
NoName    == "none"
Target == Library \cup {Excluded, Unmatched}
Layout == [Scope -> [Source -> Target]]

ASSUME ScopeAssumption ==
  /\ Local \subseteq Nat \ {0}
  /\ Task \subseteq Nat \ {0}
  /\ \A l \in Local, t \in Task : l < t
  /\ Movie \subseteq Scope
  /\ EntryOf \in [Scope -> Entry]
  /\ Files \in [Scope -> SUBSET Source]
  /\ Root \in [Scope -> SUBSET Library]

ASSUME NameAssumption ==
  /\ Source \subseteq Nat \ {0}
  /\ Source \cap Library = {}
  /\ Excluded \notin Library
  /\ Unmatched \notin Library
  /\ NoName \notin Library
  /\ NoObject \notin Object
  /\ Layouts \subseteq Layout
  /\ \A l \in Layouts, s \in Scope : \A p \in Files[s] :
       l[s][p] \in Root[s] \cup {Excluded, Unmatched}
  /\ Files0 \subseteq [Name -> Object \cup {NoObject}]

ASSUME BoundAssumption == MaxEvents \in Nat /\ RaceWindows \in BOOLEAN

VARIABLES
  names,    \* the file system
  layout,   \* the naming rules of the declarations in force
  events,   \* how many edits, external changes and crashes have happened
  pc,       \* where the pass stands
  walked,   \* the trees this pass has walked
  seen,     \* the snapshot plans are made from
  aliases,  \* the library snapshot stale names are looked up in
  queue,    \* scopes this pass has still to visit
  full,     \* the pass visits every scope, not one entry's local scopes only
  mutated,  \* a local scope of this pass changed the library
  scope,    \* the scope being published
  object,   \* what the plan took each source name to name
  action,   \* what the plan decided for each source name
  links,    \* planned links still to be made
  item,     \* the source name being linked
  sweep,    \* objects whose stale names are still to be looked for
  target,   \* the object whose stale names are being removed
  stale,    \* the names of target still to be removed
  victim,   \* the name being removed
  fresh,    \* history: nothing external happened since target was proven
  quiet     \* history: nothing external happened since the pass began

envVars  == <<names, layout, events>>
snapVars == <<walked, seen, aliases, queue, full, mutated>>
planVars == <<scope, object, action>>
linkVars == <<links, item>>
tidyVars == <<sweep, target, stale, victim>>
histVars == <<fresh, quiet>>
vars == <<envVars, pc, snapVars, planVars, linkVars, tidyVars, histVars>>

NoScope   == 0
NoItem    == 0
Nowhere   == [n \in Name |-> NoObject]
Unplanned == [p \in Source |-> "none"]

Actions == {"none", "link", "existing", "conflict", "excluded", "unmatched"}
PCs == {"idle", "walk", "visit", "apply", "linkat", "verify", "prove", "sweep",
        "unlink"}

TypeOK ==
  /\ names \in [Name -> Object \cup {NoObject}]
  /\ layout \in Layout
  /\ events \in 0..MaxEvents
  /\ pc \in PCs
  /\ walked \subseteq {"source", "library"}
  /\ seen \in [Name -> Object \cup {NoObject}]
  /\ aliases \in [Library -> Object \cup {NoObject}]
  /\ queue \subseteq Scope
  /\ full \in BOOLEAN
  /\ mutated \in BOOLEAN
  /\ scope \in Scope \cup {NoScope}
  /\ object \in [Source -> Object \cup {NoObject}]
  /\ action \in [Source -> Actions]
  /\ links \subseteq Source
  /\ item \in Source \cup {NoItem}
  /\ sweep \subseteq Object
  /\ target \in Object \cup {NoObject}
  /\ stale \subseteq Library
  /\ victim \in Library \cup {NoName}
  /\ fresh \in BOOLEAN
  /\ quiet \in BOOLEAN

Init ==
  /\ names \in Files0
  /\ layout \in Layouts
  /\ events = 0
  /\ pc = "idle"
  /\ walked = {} /\ seen = Nowhere /\ aliases = [d \in Library |-> NoObject]
  /\ queue = {} /\ full = FALSE /\ mutated = FALSE
  /\ scope = NoScope
  /\ object = [p \in Source |-> NoObject]
  /\ action = Unplanned
  /\ links = {} /\ item = NoItem
  /\ sweep = {} /\ target = NoObject /\ stale = {} /\ victim = NoName
  /\ fresh = FALSE /\ quiet = FALSE

-----------------------------------------------------------------------------
(* Observation.                                                            *)

\* A pass begins, with these scopes to visit.
Begin(scopes, all) ==
  /\ pc = "idle"
  /\ pc' = "walk"
  /\ queue' = scopes
  /\ full' = all
  /\ walked' = {} /\ seen' = Nowhere /\ mutated' = FALSE
  /\ quiet' = TRUE
  /\ UNCHANGED <<names, aliases, planVars, linkVars, tidyVars, fresh>>

\* A reconciliation cycle visits every scope.
BeginCycle == Begin(Scope, TRUE) /\ UNCHANGED <<layout, events>>

\* The declaration of entry e is written, changed or not, and in the same
\* operation its local scopes are published.
PutEntry(e, l) ==
  /\ Begin({s \in Local : EntryOf[s] = e}, FALSE)
  /\ \A s \in Scope : EntryOf[s] # e => l[s] = layout[s]
  /\ layout' = l
  /\ IF l = layout THEN UNCHANGED events
                   ELSE events < MaxEvents /\ events' = events + 1

\* What is known of the tree's names is replaced by what is there.
Observed(below) == [n \in Name |-> IF n \in below THEN names[n] ELSE seen[n]]

\* One tree of the common namespace is walked; the other may be walked after
\* names have changed again.
Walk(tree) ==
  LET below == IF tree = "source" THEN Source ELSE Library IN
  /\ pc = "walk"
  /\ tree \notin walked
  /\ walked' = walked \cup {tree}
  /\ seen' = Observed(below)
  /\ aliases' = [d \in Library |-> seen'[d]]
  /\ pc' = IF walked' = {"source", "library"} THEN "visit" ELSE "walk"
  /\ UNCHANGED <<envVars, queue, full, mutated, planVars, linkVars, tidyVars,
                 histVars>>

\* After the local scopes the library is observed again if they changed it, but
\* only the snapshot stale names are looked up in, not the one plans are made
\* from.  If that observation fails the pass goes on with the old one.
Refresh ==
  /\ pc = "visit"
  /\ queue \cap Local = {}
  /\ full /\ mutated
  /\ \/ aliases' = [d \in Library |-> names[d]]
     \/ UNCHANGED aliases
  /\ mutated' = FALSE
  /\ UNCHANGED <<envVars, pc, walked, seen, queue, full, planVars, linkVars,
                 tidyVars, histVars>>

-----------------------------------------------------------------------------
(* Planning.                                                               *)

\* Observed files of scope s with the destination of p.
Sharing(s, p, taken) ==
  {q \in Files[s] : taken[q] # NoObject /\ layout[s][q] = layout[s][p]}

\* Two files of a movie mapped to one name are both in conflict; of the files of
\* a series the first keeps the name, for every file that is the same object.
Outranked(s, p, taken) ==
  IF s \in Movie
  THEN Sharing(s, p, taken) # {p}
  ELSE \E q \in Sharing(s, p, taken) :
         /\ \A r \in Sharing(s, p, taken) : q <= r
         /\ taken[q] # taken[p]

\* The destination is another object's, or is to be; of a series file already at
\* its destination it does not matter what else is to go there.
Contested(s, p, taken) ==
  \/ seen[layout[s][p]] \notin {NoObject, taken[p]}
  \/ Outranked(s, p, taken) /\ (s \in Movie \/ seen[layout[s][p]] # taken[p])

\* What the plan decides for source name p, taken giving the observed objects.
Decision(s, p, taken) ==
  IF p \notin Files[s] \/ taken[p] = NoObject      THEN "none"
  ELSE IF layout[s][p] \in {Excluded, Unmatched}   THEN layout[s][p]
  ELSE IF Contested(s, p, taken)                   THEN "conflict"
  ELSE IF seen[layout[s][p]] = taken[p]            THEN "existing"
  ELSE                                                  "link"

Plan(s, taken) ==
  /\ scope' = s
  /\ object' = taken
  /\ action' = [p \in Source |-> Decision(s, p, taken)]
  /\ links' = {p \in Source : action'[p] = "link"}
  /\ pc' = "apply"

NextScope(s) == s \in queue /\ \A t \in queue : s <= t

PlanLocal(s) ==
  /\ pc = "visit"
  /\ s \in Local /\ NextScope(s)
  /\ queue' = queue \ {s}
  /\ Plan(s, [p \in Source |-> IF p \in Files[s] THEN seen[p] ELSE NoObject])
  /\ UNCHANGED <<envVars, walked, seen, aliases, full, mutated, item, tidyVars,
                 histVars>>

\* A task is published only when every wanted file is there and exactly one
\* entry's source tree, as walked, has all of their objects.
Owners(taken) ==
  {e \in Entry :
     \A o \in taken :
       \E s \in Local : EntryOf[s] = e /\ \E p \in Files[s] : seen[p] = o}

Claimed(s) ==
  LET taken == {names[p] : p \in Files[s]} IN
  /\ NoObject \notin taken
  /\ Owners(taken) = {EntryOf[s]}

PlanTask(s) ==
  /\ pc = "visit"
  /\ s \in Task /\ NextScope(s) /\ ~mutated
  /\ Claimed(s)
  /\ queue' = queue \ {s}
  /\ Plan(s, [p \in Source |-> IF p \in Files[s] THEN names[p] ELSE NoObject])
  /\ UNCHANGED <<envVars, walked, seen, aliases, full, mutated, item, tidyVars,
                 histVars>>

SkipTask(s) ==
  /\ pc = "visit"
  /\ s \in Task /\ NextScope(s) /\ ~mutated
  /\ ~Claimed(s)
  /\ queue' = queue \ {s}
  /\ UNCHANGED <<envVars, pc, walked, seen, aliases, full, mutated, planVars,
                 linkVars, tidyVars, histVars>>

Finish ==
  /\ pc = "visit"
  /\ queue = {} /\ ~(full /\ mutated)
  /\ pc' = "idle"
  /\ UNCHANGED <<envVars, snapVars, planVars, linkVars, tidyVars, histVars>>

-----------------------------------------------------------------------------
(* Applying the links of a plan, in path order.                            *)

DestinationOf(p) == layout[scope][p]

\* The source name is opened and must still name the planned object.
OpenSource(p) ==
  /\ pc = "apply"
  /\ p \in links /\ \A q \in links : p <= q
  /\ links' = links \ {p}
  /\ IF names[p] = object[p]
     THEN item' = p /\ pc' = "linkat"
     ELSE UNCHANGED <<item, pc>>
  /\ UNCHANGED <<envVars, snapVars, planVars, tidyVars, histVars>>

\* Mutant: an existing destination is replaced.
LinkAtReplacing ==
  /\ pc = "linkat"
  /\ IF names[item] # NoObject
     THEN /\ names' = [names EXCEPT ![DestinationOf(item)] = names[item]]
          /\ pc' = "verify"
          /\ UNCHANGED item
     ELSE pc' = "apply" /\ item' = NoItem /\ UNCHANGED names
  /\ UNCHANGED <<layout, events, snapVars, planVars, links, tidyVars, histVars>>

\* linkat(2) goes by the source name and never replaces an existing name.
LinkAt ==
  /\ pc = "linkat"
  /\ IF names[item] # NoObject /\ names[DestinationOf(item)] = NoObject
     THEN /\ names' = [names EXCEPT ![DestinationOf(item)] = names[item]]
          /\ pc' = "verify"
          /\ UNCHANGED item
     ELSE pc' = "apply" /\ item' = NoItem /\ UNCHANGED names
  /\ UNCHANGED <<layout, events, snapVars, planVars, links, tidyVars, histVars>>

\* The new name is opened; if it does not name the planned object it is taken
\* back, by name.
VerifyLink ==
  LET d == DestinationOf(item) IN
  /\ pc = "verify"
  /\ IF names[d] = object[item]
     THEN mutated' = (scope \in Local \/ mutated) /\ UNCHANGED names
     ELSE names' = [names EXCEPT ![d] = NoObject] /\ UNCHANGED mutated
  /\ pc' = "apply" /\ item' = NoItem
  /\ UNCHANGED <<layout, events, walked, seen, aliases, queue, full, planVars,
                 links, tidyVars, histVars>>

-----------------------------------------------------------------------------
(* Removing the other library names of the objects of a plan.              *)

\* Mutant: only new links count, not names already in place.
DesiredLinked(o) == {DestinationOf(p) : p \in {q \in Source : object[q] = o /\ action[q] = "link"}}

\* The names the plan wants an object to have.
Desired(o) ==
  {DestinationOf(p) : p \in {q \in Source : /\ object[q] = o
                                            /\ action[q] \in {"link", "existing"}}}

\* Mutant: excluded objects keep their names.
ManagedIncluded == {object[p] : p \in {q \in Source : action[q] \in {"link", "existing"}}}

Managed == {object[p] : p \in {q \in Source :
                                 action[q] \in {"link", "existing", "excluded"}}}

EndApply ==
  /\ pc = "apply"
  /\ links = {}
  /\ sweep' = Managed
  /\ pc' = "prove"
  /\ UNCHANGED <<envVars, snapVars, planVars, linkVars, target, stale, victim,
                 histVars>>

\* Mutant: the desired names need not be in place.
ProveAnyway(o) ==
  /\ pc = "prove"
  /\ o \in sweep
  /\ sweep' = sweep \ {o}
  /\ target' = o
  /\ stale' = {d \in Root[scope] : aliases[d] = o} \ Desired(o)
  /\ fresh' = TRUE
  /\ pc' = "sweep"
  /\ UNCHANGED <<envVars, snapVars, planVars, linkVars, victim, quiet>>

\* Mutant: nothing is ever stale.
ProveNothingStale(o) ==
  /\ pc = "prove"
  /\ o \in sweep
  /\ sweep' = sweep \ {o}
  /\ UNCHANGED <<envVars, pc, snapVars, planVars, linkVars, target, stale, victim,
                 histVars>>

\* Mutant: the desired names are as stale as the others.
ProveAllStale(o) ==
  /\ pc = "prove"
  /\ o \in sweep
  /\ sweep' = sweep \ {o}
  /\ IF \A d \in Desired(o) : names[d] = o
     THEN /\ target' = o
          /\ stale' = {d \in Root[scope] : aliases[d] = o}
          /\ fresh' = TRUE
          /\ pc' = "sweep"
     ELSE UNCHANGED <<target, stale, fresh, pc>>
  /\ UNCHANGED <<envVars, snapVars, planVars, linkVars, victim, quiet>>

\* Every desired name must name the object now; only then are the object's
\* other observed names stale.  An excluded object desires no name.
Prove(o) ==
  /\ pc = "prove"
  /\ o \in sweep
  /\ sweep' = sweep \ {o}
  /\ IF \A d \in Desired(o) : names[d] = o
     THEN /\ target' = o
          /\ stale' = {d \in Root[scope] : aliases[d] = o} \ Desired(o)
          /\ fresh' = TRUE
          /\ pc' = "sweep"
     ELSE UNCHANGED <<target, stale, fresh, pc>>
  /\ UNCHANGED <<envVars, snapVars, planVars, linkVars, victim, quiet>>

\* Mutant: the observed name is removed without a second look.
OpenStaleUnchecked(d) ==
  /\ pc = "sweep"
  /\ d \in stale
  /\ stale' = stale \ {d}
  /\ victim' = d /\ pc' = "unlink"
  /\ UNCHANGED <<envVars, snapVars, planVars, linkVars, sweep, target, histVars>>

\* The name is opened and must still name the object.  A name already gone is
\* counted as removed, unless its directory is gone too.
OpenStale(d) ==
  /\ pc = "sweep"
  /\ d \in stale
  /\ stale' = stale \ {d}
  /\ IF names[d] = target
     THEN victim' = d /\ pc' = "unlink" /\ UNCHANGED mutated
     ELSE /\ \E counted \in {FALSE, names[d] = NoObject /\ scope \in Local} :
               mutated' = (mutated \/ counted)
          /\ UNCHANGED <<victim, pc>>
  /\ UNCHANGED <<envVars, walked, seen, aliases, queue, full, planVars,
                 linkVars, sweep, target, histVars>>

\* unlinkat(2) goes by name.
Unlink ==
  /\ pc = "unlink"
  /\ names' = [names EXCEPT ![victim] = NoObject]
  /\ mutated' = (scope \in Local \/ mutated)
  /\ victim' = NoName
  /\ pc' = "sweep"
  /\ UNCHANGED <<layout, events, walked, seen, aliases, queue, full, planVars,
                 linkVars, sweep, target, stale, histVars>>

EndSweep ==
  /\ pc = "sweep"
  /\ stale = {}
  /\ target' = NoObject
  /\ pc' = "prove"
  /\ UNCHANGED <<envVars, snapVars, planVars, linkVars, sweep, stale, victim,
                 histVars>>

EndScope ==
  /\ pc = "prove"
  /\ sweep = {}
  /\ scope' = NoScope
  /\ object' = [p \in Source |-> NoObject]
  /\ action' = Unplanned
  /\ pc' = "visit"
  /\ UNCHANGED <<envVars, snapVars, linkVars, tidyVars, histVars>>

-----------------------------------------------------------------------------
(* Everything the pass does not control.                                   *)

\* Declarations are edited by hand, or the pass that was to follow a change of
\* one failed; a pass goes by the declarations it read when it began.
Edit(l) ==
  /\ events < MaxEvents
  /\ pc = "idle"
  /\ l # layout
  /\ layout' = l
  /\ events' = events + 1
  /\ quiet' = FALSE
  /\ UNCHANGED <<names, pc, snapVars, planVars, linkVars, tidyVars, fresh>>

\* A user, a downloader or a media server makes name n name o, or removes it.
\* An inode number may be used again for a new file.
External(n, o) ==
  /\ events < MaxEvents
  /\ RaceWindows \/ pc \notin {"linkat", "verify", "unlink"}
  /\ names[n] # o
  /\ names' = [names EXCEPT ![n] = o]
  /\ events' = events + 1
  /\ fresh' = FALSE /\ quiet' = FALSE
  /\ UNCHANGED <<layout, pc, snapVars, planVars, linkVars, tidyVars>>

\* The process dies; nothing of a pass survives it.
Crash ==
  /\ events < MaxEvents
  /\ pc # "idle"
  /\ events' = events + 1
  /\ pc' = "idle"
  /\ walked' = {} /\ seen' = Nowhere /\ aliases' = [d \in Library |-> NoObject]
  /\ queue' = {} /\ full' = FALSE /\ mutated' = FALSE
  /\ scope' = NoScope
  /\ object' = [p \in Source |-> NoObject]
  /\ action' = Unplanned
  /\ links' = {} /\ item' = NoItem
  /\ sweep' = {} /\ target' = NoObject /\ stale' = {} /\ victim' = NoName
  /\ fresh' = FALSE /\ quiet' = FALSE
  /\ UNCHANGED <<names, layout>>

-----------------------------------------------------------------------------

\* The steps of a pass once it has begun.
Pass ==
  \/ \E tree \in {"source", "library"} : Walk(tree)
  \/ Refresh
  \/ \E s \in Local : PlanLocal(s)
  \/ \E s \in Task : PlanTask(s)
  \/ \E s \in Task : SkipTask(s)
  \/ Finish
  \/ \E p \in Source : OpenSource(p)
  \/ LinkAt
  \/ VerifyLink
  \/ EndApply
  \/ \E o \in Object : Prove(o)
  \/ \E d \in Library : OpenStale(d)
  \/ Unlink
  \/ EndSweep
  \/ EndScope

System == BeginCycle \/ (\E e \in Entry, l \in Layouts : PutEntry(e, l)) \/ Pass

Environment ==
  \/ \E l \in Layouts : Edit(l)
  \/ \E n \in Name : \E o \in Object \cup {NoObject} : External(n, o)
  \/ Crash

Next == System \/ Environment

Spec == Init /\ [][Next]_vars

\* The scheduler starts cycles for ever and a started pass runs on.
FairSpec == Spec /\ WF_vars(BeginCycle) /\ WF_vars(Pass)
-----------------------------------------------------------------------------
(* The inductive invariant.                                                *)

\* A scope is being published from the plan to the end of the clean-up.
Publishing == pc \in {"apply", "linkat", "verify", "prove", "sweep", "unlink"}

\* The plan is sound: what is to be linked or kept has a library name and an
\* object, and only planned links are made.
PlanInv ==
  Publishing =>
    /\ scope \in Scope
    /\ \A p \in Source : action[p] \in {"link", "existing"} =>
         DestinationOf(p) \in Library
    /\ \A p \in Source : action[p] # "none" => object[p] \in Object
    /\ links \subseteq {p \in Source : action[p] = "link"}

LinkInv ==
  pc \in {"linkat", "verify"} => item \in Source /\ action[item] = "link"

SweepInv ==
  /\ pc \in {"prove", "sweep", "unlink"} => sweep \subseteq Managed
  /\ pc \in {"sweep", "unlink"} =>
       /\ target \in Managed
       /\ stale \subseteq Root[scope] \ Desired(target)
       /\ fresh => \A c \in Desired(target) : names[c] = target

UnlinkInv == pc = "unlink" => victim \in Root[scope] \ Desired(target)

\* Between two system calls nothing has changed unless the environment may and
\* did change it.
Undisturbed == fresh \/ ~RaceWindows

StepInv ==
  Undisturbed =>
    /\ pc = "linkat" => names[item] = object[item]
    /\ pc = "verify" => names[DestinationOf(item)] = object[item]
    /\ pc = "unlink" => names[victim] = target

\* The plan, link and clean-up invariants together with the types: a plan names
\* only objects and library names, a proof holds until something external happens,
\* and what was verified before linkat(2) or unlinkat(2) still holds at it.
IInv == TypeOK /\ PlanInv /\ LinkInv /\ SweepInv /\ UnlinkInv /\ StepInv

-----------------------------------------------------------------------------
(* Properties.                                                             *)

\* Every environment step counts as an event; no step of the program does.
Removed(d) == names[d] # NoObject /\ names'[d] # names[d]

\* Linking and cleaning never put another object under a name in use and never
\* touch a source name, whatever changes under the program's hands
\* (link_linux.go: "destination creation is atomic and never replaces an
\* existing entry").
NeverReplaces ==
  [][events' = events =>
       \A n \in Name : names'[n] # names[n] =>
          n \in Library /\ NoObject \in {names[n], names'[n]}]_vars

\* What the program removes is a library name, below the publication root of
\* the scope it publishes, of an object of that scope's plan, and not one of the
\* names the plan wants for that object (remove_linux.go: "a stale observation
\* cannot cause removal of a replacement file").
RemovesOnlyStaleNames ==
  [][events' = events =>
       \A d \in Library : Removed(d) =>
          /\ d \in Root[scope]
          /\ names[d] \in Managed
          /\ d \notin Desired(names[d])]_vars

\* Unless somebody else interferes after the proof, a name is removed only while
\* every name the plan wants for the same object is in place, so cleaning one
\* alias after another never takes the last name of an object that is wanted
\* (plan.go: "the new canonical projection must exist before any old name is
\* removed").
KeepsCanonical ==
  [][events' = events /\ fresh =>
       \A d \in Library : Removed(d) =>
          \A c \in Desired(names[d]) : c # d /\ names'[c] = names[d]]_vars

\* The names scope s gives object o in file system fs.
Canonical(s, o, fs) ==
  {layout[s][p] : p \in {q \in Files[s] : fs[q] = o}} \cap Library

\* Scopes that have the same object want the same names for it.
Agreeing(fs) ==
  \A s, t \in Scope : \A p \in Files[s], q \in Files[t] :
    fs[p] = fs[q] /\ fs[p] # NoObject =>
      Canonical(s, fs[p], fs) = Canonical(t, fs[p], fs)

\* Nothing else has, or is to get, a canonical name of o; o is recognised or
\* excluded; and no movie has two names of it.
Uncontested(s, o, fs) ==
  /\ o # NoObject
  /\ \A p \in Files[s] : fs[p] = o =>
       /\ layout[s][p] # Unmatched
       /\ layout[s][p] \in Library => fs[layout[s][p]] \in {NoObject, o}
  /\ \A t \in Scope : \A q \in Files[t] :
       fs[q] \notin {NoObject, o} => layout[t][q] \notin Canonical(s, o, fs)
  /\ \A t \in Movie : \A p, q \in Files[t] : fs[p] = o /\ fs[q] = o => p = q

\* A cycle nobody disturbs leaves every uncontested object of a source tree with
\* its canonical names in place and no other name below its publication root,
\* although every scope of the cycle planned from one snapshot taken before the
\* first of them changed the library (docs/FILESYSTEM_MODEL.md, "Hardlink
\* publication").
CycleLeavesCanonical ==
  pc = "idle" /\ full /\ quiet /\ Agreeing(seen) =>
    \A s \in Local : \A p \in Files[s] :
      Uncontested(s, seen[p], seen) =>
        {d \in Root[s] : names[d] = seen[p]} = Canonical(s, seen[p], seen)

\* The source objects that are to have library name d.
Claimants(d) ==
  {names[p] : p \in {q \in Source :
     names[q] # NoObject /\ \E s \in Scope : q \in Files[s] /\ layout[s][q] = d}}

\* Some wanted name is wanted for two objects, or is held by an object no source
\* name in a scope names.
Disputed ==
  \E d \in Library :
    /\ Claimants(d) # {}
    /\ \/ Cardinality(Claimants(d)) > 1
       \/ names[d] # NoObject /\ ~ \E s \in Scope : \E p \in Files[s] :
            names[p] = names[d] /\ layout[s][p] # Unmatched

\* Some wanted names are each held by an object that is itself to move to one of
\* them.
Entangled ==
  \E S \in (SUBSET Library) \ {{}} :
    \A d \in S : /\ Claimants(d) # {}
                 /\ names[d] \in Object \ Claimants(d)
                 /\ \E e \in S : names[d] \in Claimants(e)

Settled ==
  \A s \in Local : \A p \in Files[s] :
    names[p] # NoObject /\ layout[s][p] \in Library => names[layout[s][p]] = names[p]

\* Once edits, external changes and crashes stop, cycles bring every source file
\* under its canonical name, for good, even if that takes a cycle for every file
\* of a chain in which each waits for the name the next one has; only a disputed
\* name, or a ring of such waits, stands in the way (docs/FILESYSTEM_MODEL.md: the
\* clean-up "allows title and projection changes to converge").
ChainsConverge ==
  <>[](Agreeing(names) /\ ~Disputed /\ ~Entangled => Settled)

\* Once nothing outside changes, the program stops changing names, unless two
\* scopes want the names of one object to differ.
RestsWhenAgreed == <>[][Agreeing(names) => names' = names]_vars
=============================================================================
