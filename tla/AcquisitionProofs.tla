------------------------- MODULE AcquisitionProofs -------------------------
(***************************************************************************)
(* What acquisition guarantees for every set of releases, every library    *)
(* and every number of lost replies, removals and crashes: a cycle asks    *)
(* for a release at most once, never for a season's episodes that are all  *)
(* in the library or held by another task, and reports only what the       *)
(* downloader accepted.                                                    *)
(***************************************************************************)
EXTENDS Acquisition, CommonProofs

-----------------------------------------------------------------------------
(* What is selected is among what is offered, and so is what is gated.     *)

LEMMA SelectedLemma ==
  ASSUME NEW S \in SUBSET Release
  PROVE  Selected(S) \subseteq S
  BY DEF Selected, ReleasesOf, BestOf, BestMovie

LEMMA GateLemma ==
  ASSUME NEW S, NEW lib, NEW unread
  PROVE  /\ Gate(S, lib, unread) \subseteq S
         /\ S \subseteq Release => Gate(S, lib, unread) \subseteq Gate(Release, lib, unread)
  BY DEF Gate

LEMMA BeginSelects ==
  ASSUME NEW feed \in Feeds, NEW unread \in Hidden, NEW dark \in Unreadable,
         BeginCycle(feed, unread, dark)
  PROVE  /\ current' \subseteq Release
         /\ current' \subseteq Gate(Release, inv', hidden')
<1>1. feed \in SUBSET Release
  BY InputAssumption
<1>2. Selected(feed) \subseteq Release
  BY <1>1, SelectedLemma
<1>3. current' = Gate(Selected(feed), inv', hidden')
  BY DEF BeginCycle
<1>4. QED
  BY <1>2, <1>3, GateLemma

LEMMA BackfillSelects ==
  ASSUME TypeOK, NEW w \in Work, NEW found \in Searches, NEW trusted \in SUBSET Release,
         Backfill(w, found, trusted)
  PROVE  /\ todo' \subseteq {r \in Release : WorkOf[r] = w}
         /\ todo' \subseteq Gate(Release, inv, hidden)
         /\ todo' \cap current = {}
<1> DEFINE offered == ReleasesOf(w, found)
<1>1. offered \in SUBSET Release /\ \A r \in offered : WorkOf[r] = w
  BY InputAssumption DEF ReleasesOf
<1>2. Selected(offered) \subseteq offered
  BY <1>1, SelectedLemma
<1>3. todo' = {r \in Gate(Selected(offered), inv, hidden) :
                 r \in trusted /\ Eps[r] \cap Open(w) # {}}
  BY DEF Backfill
<1> HIDE DEF offered
<1>4. Gate(Selected(offered), inv, hidden) \subseteq Selected(offered)
      /\ Gate(Selected(offered), inv, hidden) \subseteq Gate(Release, inv, hidden)
  BY <1>1, <1>2, GateLemma
<1>5. \A r \in current : WorkOf[r] = w => Eps[r] \cap Open(w) = {}
  BY DEF Open, ReleasesOf
<1>6. QED
  BY <1>1, <1>2, <1>3, <1>4, <1>5

-----------------------------------------------------------------------------
(* Types.                                                                  *)

USE DEF NoRelease

LEMMA InitType == Init => TypeOK
<1> SUFFICES ASSUME Init PROVE TypeOK
  OBVIOUS
<1>1. library \in [Work -> SUBSET Nat]
  BY InputAssumption DEF Init
<1>2. events \in 0..MaxEvents
  BY InputAssumption DEF Init
<1>3. QED
  BY <1>1, <1>2 DEF Init, TypeOK, TaskState, PCs

LEMMA MishapType == TypeOK /\ Mishap => events' \in 0..MaxEvents
  BY InputAssumption DEF TypeOK, Mishap

\* The steps that bring something of a type of its own.
LEMMA BeginType ==
  ASSUME TypeOK, NEW feed \in Feeds, NEW unread \in Hidden, NEW dark \in Unreadable,
         BeginCycle(feed, unread, dark)
  PROVE  TypeOK'
<1>1. current' \subseteq Release
  BY BeginSelects
<1>2. unread \subseteq Work /\ dark \subseteq Work
  BY InputAssumption
<1>3. inv' \in [Work -> SUBSET Nat]
  BY DEF BeginCycle, TypeOK
<1>4. QED
  BY <1>1, <1>2, <1>3 DEF BeginCycle, TypeOK, PCs, Placed, worldVars

LEMMA WalkType ==
  ASSUME TypeOK, EndFeeds
  PROVE  TypeOK'
<1>1. inv' \in [Work -> SUBSET Nat]
  BY DEF EndFeeds, TypeOK
<1>2. graph' \subseteq Release /\ calm' \in BOOLEAN
  BY DEF EndFeeds, TypeOK, Placed
<1>3. QED
  BY <1>1, <1>2 DEF EndFeeds, TypeOK, PCs, ForgetPass, worldVars, planVars

LEMMA ForgetType ==
  ASSUME TypeOK, ForgetCycle, UNCHANGED <<task, library, accepted>>,
         events' \in 0..MaxEvents
  PROVE  TypeOK'
<1>1. inv' \in [Work -> SUBSET Nat]
  BY DEF ForgetCycle
<1>2. QED
  BY <1>1 DEF ForgetCycle, ForgetPass, TypeOK, PCs

LEMMA DoneType ==
  ASSUME TypeOK, Done
  PROVE  pc' \in PCs /\ pc' = "ensure" /\ owned' \subseteq Release
  BY DEF Done, TypeOK, PCs, ReleasesOf

LEMMA AcceptsType ==
  ASSUME TypeOK, release \in Release, Accepts(release)
  PROVE  task' \in [Release -> TaskState] /\ accepted' \subseteq Release
  BY DEF Accepts, TypeOK, TaskState

LEMMA PassType ==
  ASSUME IInv, Cycle
  PROVE  TypeOK'
<1>0. TypeOK /\ TasksAccepted /\ PendingUnsent
  BY DEF IInv
<1>1. ASSUME EndFeeds PROVE TypeOK'
  BY <1>0, <1>1, WalkType
<1>2. ASSUME NEW w \in Work, NEW found \in Searches, NEW trusted \in SUBSET Release,
             Backfill(w, found, trusted)
      PROVE  TypeOK'
  <2>1. todo' \subseteq Release
    BY <1>0, <1>2, BackfillSelects
  <2>2. QED
    BY <1>0, <1>2, <2>1 DEF Backfill, TypeOK, PCs, worldVars, walkVars, histVars
<1>3. ASSUME EndBackfill PROVE TypeOK'
  BY <1>0, <1>3 DEF EndBackfill, ForgetPass, TypeOK, PCs, worldVars, walkVars, planVars, histVars
<1>4. ASSUME EndCycle PROVE TypeOK'
  BY <1>0, <1>4, ForgetType DEF EndCycle, worldVars, TypeOK
<1>5. ASSUME Observe PROVE TypeOK'
  <2>1. events' \in 0..MaxEvents
    BY <1>0, <1>5, MishapType DEF Observe, TypeOK
  <2>2. todo' \subseteq Release /\ listed' \subseteq Release /\ dead' \subseteq Release
        /\ misfiled' \subseteq Release
    BY <1>0, <1>5 DEF Observe, TypeOK, Live, Dead
  <2>3. QED
    BY <1>0, <1>5, <2>1, <2>2 DEF Observe, TypeOK, PCs, walkVars, planVars, histVars
<1>6. ASSUME NEW r \in Release, Ensure(r) PROVE TypeOK'
  <2>1. events' \in 0..MaxEvents
    BY <1>0, <1>6, MishapType DEF Ensure, TypeOK
  <2>2. pc' \in PCs /\ owned' \subseteq Release
    BY <1>0, <1>6, DoneType DEF Ensure, TypeOK, PCs
  <2>3. QED
    BY <1>0, <1>6, <2>1, <2>2 DEF Ensure, TypeOK, walkVars, planVars, histVars
<1>7. ASSUME Add PROVE TypeOK'
  <2>0. release \in Release
    BY <1>0, <1>7 DEF Add, PendingUnsent
  <2>1. events' \in 0..MaxEvents
    BY <1>0, <1>7, MishapType DEF Add, TypeOK
  <2>2. pc' \in PCs /\ owned' \subseteq Release
    BY <1>0, <1>7, DoneType DEF Add, TypeOK, PCs
  <2>3. task' \in [Release -> TaskState] /\ accepted' \subseteq Release
    BY <1>0, <1>7, <2>0, AcceptsType DEF Add, TypeOK
  <2>4. listed' \subseteq Release /\ reported' \subseteq Release /\ sent' \subseteq Release
    BY <1>0, <1>7, <2>0 DEF Add, TypeOK
  <2>5. QED
    BY <1>0, <1>7, <2>1, <2>2, <2>3, <2>4 DEF Add, TypeOK, walkVars, planVars
<1>8. ASSUME Recover PROVE TypeOK'
  <2>1. events' \in 0..MaxEvents
    BY <1>0, <1>8, MishapType DEF Recover, TypeOK
  <2>2. pc' \in PCs /\ owned' \subseteq Release
    BY <1>0, <1>8, DoneType DEF Recover
  <2>3. listed' \subseteq Release /\ dead' \subseteq Release /\ reported' \subseteq Release
    BY <1>0, <1>8 DEF Recover, TypeOK, Live, Dead
  <2>4. QED
    BY <1>0, <1>8, <2>1, <2>2, <2>3 DEF Recover, TypeOK, walkVars, planVars
<1>9. ASSUME Lookup PROVE TypeOK'
  <2>0. release \in Release
    BY <1>0, <1>9 DEF Lookup, PendingUnsent
  <2>1. events' \in 0..MaxEvents
    BY <1>0, <1>9, MishapType DEF Lookup, TypeOK
  <2>2. pc' \in PCs /\ owned' \subseteq Release
    BY <1>0, <1>9, DoneType DEF Lookup, TypeOK, PCs
  <2>3. listed' \subseteq Release /\ reported' \subseteq Release
    BY <1>0, <1>9, <2>0 DEF Lookup, TypeOK
  <2>4. QED
    BY <1>0, <1>9, <2>1, <2>2, <2>3 DEF Lookup, TypeOK, walkVars, planVars
<1>10. ASSUME Repair PROVE TypeOK'
  <2>0. release \in Release
    BY <1>0, <1>10 DEF Repair, PendingUnsent
  <2>1. events' \in 0..MaxEvents
    BY <1>0, <1>10, MishapType DEF Repair, TypeOK
  <2>2. pc' \in PCs /\ owned' \subseteq Release
    BY <1>0, <1>10, DoneType DEF Repair
  <2>3. task' \in [Release -> TaskState]
    BY <1>0, <1>10 DEF Repair, TypeOK, TaskState
  <2>4. listed' \subseteq Release /\ reported' \subseteq Release
    BY <1>0, <1>10, <2>0 DEF Repair, TypeOK
  <2>5. QED
    BY <1>0, <1>10, <2>1, <2>2, <2>3, <2>4 DEF Repair, TypeOK, walkVars, planVars
<1>11. QED
  BY <1>1, <1>2, <1>3, <1>4, <1>5, <1>6, <1>7, <1>8, <1>9, <1>10 DEF Cycle

LEMMA EnvironmentType ==
  ASSUME TypeOK, Environment
  PROVE  TypeOK'
<1>1. ASSUME NEW r \in Release, Publish(r) PROVE TypeOK'
  <2>1. Eps[r] \subseteq Nat /\ WorkOf[r] \in Work
    BY ReleaseAssumption
  <2>2. library' \in [Work -> SUBSET Nat]
    BY <1>1, <2>1 DEF Publish, TypeOK
  <2>3. QED
    BY <1>1, <2>2 DEF Publish, TypeOK, walkVars, planVars, passVars, histVars
<1>2. ASSUME NEW r \in Release, Progress(r) PROVE TypeOK'
  <2>1. task' \in [Release -> TaskState]
    BY <1>2 DEF Progress, TypeOK, TaskState
  <2>2. QED
    BY <1>2, <2>1 DEF Progress, TypeOK, walkVars, planVars, passVars
<1>3. ASSUME NEW r \in Release, Lose(r) PROVE TypeOK'
  <2>1. task' \in [Release -> TaskState]
    BY <1>3 DEF Lose, TypeOK, TaskState
  <2>2. events' \in 0..MaxEvents
    BY <1>3, MishapType DEF Lose
  <2>3. QED
    BY <1>3, <2>1, <2>2 DEF Lose, TypeOK, walkVars, planVars, passVars
<1>4. ASSUME NEW w \in Work, NEW e \in library[w], Delete(w, e) PROVE TypeOK'
  <2>1. library' \in [Work -> SUBSET Nat]
    BY <1>4 DEF Delete, TypeOK
  <2>2. events' \in 0..MaxEvents
    BY <1>4, MishapType DEF Delete
  <2>3. QED
    BY <1>4, <2>1, <2>2 DEF Delete, TypeOK, walkVars, planVars, passVars
<1>5. ASSUME Crash PROVE TypeOK'
  <2>1. events' \in 0..MaxEvents
    BY <1>5, MishapType DEF Crash
  <2>2. QED
    BY <1>5, <2>1, ForgetType DEF Crash
<1>6. QED
  BY <1>1, <1>2, <1>3, <1>4, <1>5 DEF Environment
-----------------------------------------------------------------------------
(* The rest of the invariant.                                              *)

Rest == TasksAccepted /\ LookupAccepted /\ AsksSelected
          /\ PendingUnsent /\ PendingGated /\ LibraryKept

LEMMA InitRest == Init => Rest
  BY DEF Init, Rest, TasksAccepted, LookupAccepted, AsksSelected, Pending,
         PendingUnsent, PendingGated, LibraryKept

\* Where nothing is pending and nothing was sent only the tasks matter.
LEMMA ForgetRest ==
  ASSUME Rest, ForgetCycle, UNCHANGED <<task, accepted>>
  PROVE  Rest'
  BY DEF ForgetCycle, ForgetPass, Rest, TasksAccepted, LookupAccepted, AsksSelected,
         Pending, PendingUnsent, PendingGated, LibraryKept

\* A step between two releases of a pass, by which nothing more becomes pending.
LEMMA NextReleaseRest ==
  ASSUME Rest, TasksAccepted', pc # "idle", UNCHANGED <<library, walkVars, planVars, release, sent>>,
         todo' = todo, pc' \in {"ensure", "recover", "lookup", "repair"},
         pc' # "ensure" => release \in Release \ todo,
         pc' = "lookup" => release \in accepted'
  PROVE  Rest'
  BY DEF Rest, LookupAccepted, AsksSelected, Pending, PendingUnsent, PendingGated,
         LibraryKept, Gate, walkVars, planVars

LEMMA BeginRest ==
  ASSUME IInv, NEW feed \in Feeds, NEW unread \in Hidden, NEW dark \in Unreadable,
         BeginCycle(feed, unread, dark)
  PROVE  Rest'
<1>0. TypeOK /\ Rest
  BY DEF IInv, Rest
<1>1. current' \subseteq Release /\ current' \subseteq Gate(Release, inv', hidden')
  BY BeginSelects
<1>2. pc' = "observe" /\ todo' = current' /\ sent' = {} /\ visited' = {}
      /\ UNCHANGED <<task, library, accepted>>
  BY DEF BeginCycle, worldVars
<1>3. TasksAccepted' /\ LookupAccepted' /\ AsksSelected' /\ PendingUnsent'
  BY <1>0, <1>1, <1>2 DEF Rest, TasksAccepted, LookupAccepted, AsksSelected, Pending,
     PendingUnsent
<1>4. PendingGated'
  BY <1>1, <1>2 DEF PendingGated, Pending, Gate
<1>5. LibraryKept'
  BY <1>0, <1>2 DEF BeginCycle, LibraryKept, TypeOK
<1>6. QED
  BY <1>3, <1>4, <1>5 DEF Rest

LEMMA CycleRest ==
  ASSUME IInv, Cycle
  PROVE  Rest'
<1>0. TypeOK /\ Rest
  BY DEF IInv, Rest
<1>1. ASSUME EndFeeds PROVE Rest'
  <2>1. \A w \in Work \ hidden' : library'[w] \subseteq inv'[w]
    BY <1>0, <1>1 DEF EndFeeds, Rest, LibraryKept, TypeOK, worldVars
  <2>2. QED
    BY <1>0, <1>1, <2>1 DEF EndFeeds, ForgetPass, Rest, TasksAccepted, LookupAccepted,
       AsksSelected, Pending, PendingUnsent, PendingGated, LibraryKept, worldVars, planVars
<1>2. ASSUME NEW w \in Work, NEW found \in Searches, NEW trusted \in SUBSET Release,
             Backfill(w, found, trusted)
      PROVE  Rest'
  <2>1. /\ todo' \subseteq {r \in Release : WorkOf[r] = w}
        /\ todo' \subseteq Gate(Release, inv, hidden)
        /\ todo' \cap current = {}
    BY <1>0, <1>2, BackfillSelects
  <2>2. /\ pc = "gaps" /\ w \notin visited /\ visited' = visited \cup {w}
        /\ pc' \in {"gaps", "observe"}
        /\ UNCHANGED <<task, library, accepted, walkVars, current, release, sent>>
    BY <1>2 DEF Backfill, worldVars, histVars
  <2>3. TasksAccepted' /\ LookupAccepted'
    BY <1>0, <2>2 DEF Rest, TasksAccepted, LookupAccepted
  <2>4. AsksSelected'
    BY <1>0, <2>1, <2>2 DEF Rest, AsksSelected, Pending
  <2>5. PendingUnsent'
    BY <1>0, <2>1, <2>2 DEF Rest, AsksSelected, PendingUnsent, Pending
  <2>6. PendingGated' /\ LibraryKept'
    BY <1>0, <2>1, <2>2 DEF Rest, PendingGated, Pending, LibraryKept, Gate, walkVars
  <2>7. QED
    BY <2>3, <2>4, <2>5, <2>6 DEF Rest
<1>3. ASSUME EndBackfill PROVE Rest'
  BY <1>0, <1>3 DEF EndBackfill, ForgetPass, Rest, TasksAccepted, LookupAccepted, AsksSelected,
     Pending, PendingUnsent, PendingGated, LibraryKept, worldVars, walkVars, planVars, histVars
<1>4. ASSUME EndCycle PROVE Rest'
  BY <1>0, <1>4, ForgetRest DEF EndCycle, worldVars
<1>5. ASSUME Observe PROVE Rest'
  <2>1. todo' \subseteq todo /\ pc = "observe" /\ pc' = "ensure"
        /\ UNCHANGED <<task, library, accepted, walkVars, planVars, sent, release>>
    BY <1>5 DEF Observe, histVars
  <2>2. QED
    BY <1>0, <2>1 DEF Rest, TasksAccepted, LookupAccepted, AsksSelected, Pending,
       PendingUnsent, PendingGated, LibraryKept, Gate, walkVars, planVars
<1>6. ASSUME NEW r \in Release, Ensure(r) PROVE Rest'
  <2>1. /\ r \in todo /\ todo' = todo \ {r} /\ release' = r
        /\ pc = "ensure" /\ pc' \in {"ensure", "add", "repair"}
        /\ UNCHANGED <<task, library, accepted, walkVars, planVars, sent>>
    BY <1>6 DEF Ensure, Done, histVars
  <2>2. Pending' \subseteq Pending
    BY <2>1 DEF Pending
  <2>3. QED
    BY <1>0, <2>1, <2>2 DEF Rest, TasksAccepted, LookupAccepted, AsksSelected, Pending,
       PendingUnsent, PendingGated, LibraryKept, Gate, walkVars, planVars
<1>7. ASSUME Add PROVE Rest'
  <2>1. /\ pc = "add" /\ pc' \in {"ensure", "recover", "lookup", "repair"}
        /\ todo' = todo /\ sent' = sent \cup {release}
        /\ UNCHANGED <<library, walkVars, planVars, release>>
    BY <1>7 DEF Add, Done
  <2>2. release \in Release \ todo
    BY <1>0, <2>1 DEF Rest, PendingUnsent
  <2>3. TasksAccepted' /\ LookupAccepted'
    BY <1>0, <1>7, <2>2 DEF Add, Accepts, Done, Rest, TasksAccepted, LookupAccepted, TypeOK
  <2>4. AsksSelected' /\ PendingUnsent'
    BY <1>0, <2>1, <2>2 DEF Rest, AsksSelected, Pending, PendingUnsent, planVars
  <2>5. PendingGated' /\ LibraryKept'
    BY <1>0, <2>1 DEF Rest, PendingGated, Pending, LibraryKept, Gate, walkVars
  <2>6. QED
    BY <2>3, <2>4, <2>5 DEF Rest
<1>8. ASSUME Recover PROVE Rest'
  <2>1. /\ pc = "recover" /\ pc' = "ensure" /\ todo' = todo
        /\ UNCHANGED <<task, library, accepted, walkVars, planVars, release, sent>>
    BY <1>8 DEF Recover, Done
  <2>2. TasksAccepted'
    BY <1>0, <2>1 DEF Rest, TasksAccepted
  <2>3. QED
    BY <1>0, <2>1, <2>2, NextReleaseRest
<1>9. ASSUME Lookup PROVE Rest'
  <2>1. /\ pc = "lookup" /\ pc' \in {"ensure", "repair"} /\ todo' = todo
        /\ UNCHANGED <<task, library, accepted, walkVars, planVars, release, sent>>
    BY <1>9 DEF Lookup, Done
  <2>2. TasksAccepted' /\ release \in Release \ todo
    BY <1>0, <2>1 DEF Rest, TasksAccepted, PendingUnsent
  <2>3. QED
    BY <1>0, <2>1, <2>2, NextReleaseRest
<1>10. ASSUME Repair PROVE Rest'
  <2>1. /\ pc = "repair" /\ pc' = "ensure" /\ todo' = todo
        /\ UNCHANGED <<library, accepted, walkVars, planVars, release, sent>>
    BY <1>10 DEF Repair, Done
  <2>2. TasksAccepted'
    BY <1>0, <1>10 DEF Repair, Rest, TasksAccepted, TypeOK
  <2>3. QED
    BY <1>0, <2>1, <2>2, NextReleaseRest
<1>11. QED
  BY <1>1, <1>2, <1>3, <1>4, <1>5, <1>6, <1>7, <1>8, <1>9, <1>10 DEF Cycle

LEMMA EnvironmentRest ==
  ASSUME IInv, Environment
  PROVE  Rest'
<1>0. TypeOK /\ Rest
  BY DEF IInv, Rest
<1>1. ASSUME NEW r \in Release, Publish(r) PROVE Rest'
  BY <1>0, <1>1 DEF Publish, Rest, TasksAccepted, LookupAccepted, AsksSelected, Pending,
     PendingUnsent, PendingGated, LibraryKept, Gate, walkVars, planVars, passVars, histVars
<1>2. ASSUME UNCHANGED <<pc, accepted, walkVars, planVars, passVars, sent>>,
             TasksAccepted', \A w \in Work : library'[w] \subseteq library[w]
      PROVE  Rest'
  BY <1>0, <1>2 DEF Rest, LookupAccepted, AsksSelected, Pending, PendingUnsent, PendingGated,
     LibraryKept, Gate, walkVars, planVars, passVars
<1>3. ASSUME NEW r \in Release, Progress(r) PROVE Rest'
  <2>1. TasksAccepted'
    BY <1>0, <1>3 DEF Progress, Rest, TasksAccepted, TypeOK
  <2>2. QED
    BY <1>2, <1>3, <2>1 DEF Progress
<1>4. ASSUME NEW r \in Release, Lose(r) PROVE Rest'
  <2>1. TasksAccepted'
    BY <1>0, <1>4 DEF Lose, Rest, TasksAccepted, TypeOK
  <2>2. QED
    BY <1>2, <1>4, <2>1 DEF Lose
<1>5. ASSUME NEW w \in Work, NEW e \in library[w], Delete(w, e) PROVE Rest'
  <2>1. TasksAccepted' /\ \A v \in Work : library'[v] \subseteq library[v]
    BY <1>0, <1>5 DEF Delete, Rest, TasksAccepted, TypeOK
  <2>2. QED
    BY <1>2, <1>5, <2>1 DEF Delete
<1>6. ASSUME Crash PROVE Rest'
  BY <1>0, <1>6, ForgetRest DEF Crash
<1>7. QED
  BY <1>1, <1>3, <1>4, <1>5, <1>6 DEF Environment

-----------------------------------------------------------------------------
(* The theorems.                                                           *)

\* The invariant holds in every reachable state: it begins true, and every step of
\* a cycle (service.go cycle, automation.go Acquire), of the downloader and of the
\* user keeps it.
THEOREM Invariant == Spec => []IInv
<1>1. Init => IInv
  BY InitType, InitRest DEF IInv, Rest
<1>2. IInv /\ [Next]_vars => IInv'
  <2> SUFFICES ASSUME IInv, [Next]_vars PROVE IInv'
    OBVIOUS
  <2>1. CASE Begin
    BY <2>1, BeginType, BeginRest DEF Begin, IInv, Rest
  <2>2. CASE Cycle
    BY <2>2, PassType, CycleRest DEF IInv, Rest
  <2>3. CASE Environment
    BY <2>3, EnvironmentType, EnvironmentRest DEF IInv, Rest
  <2>4. CASE UNCHANGED vars
    BY <2>4 DEF vars, worldVars, walkVars, planVars, passVars, histVars, IInv, TypeOK,
       TasksAccepted, LookupAccepted, AsksSelected, Pending, PendingUnsent, PendingGated,
       LibraryKept, Gate
  <2>5. QED
    BY <2>1, <2>2, <2>3, <2>4 DEF Next
<1>3. QED
  BY <1>1, <1>2, PTL DEF Spec

\* No release of a season whose episodes are all in the library is asked for,
\* whatever is lost or removed while the cycle runs (availability.go,
\* gateAvailability).
THEOREM NotAskingAgain == Spec => []SeasonsNotAskedAgain
<1>1. IInv => SeasonsNotAskedAgain
  <2> SUFFICES ASSUME IInv, pc = "add", WorkOf[release] \notin Movie
               PROVE  ~ Eps[release] \subseteq library[WorkOf[release]]
    BY DEF SeasonsNotAskedAgain
  <2>1. release \in Gate(Release, inv, hidden)
    BY DEF IInv, PendingGated, Pending
  <2>2. /\ release \in Release /\ WorkOf[release] \notin hidden
        /\ ~ Eps[release] \subseteq inv[WorkOf[release]]
    BY <2>1 DEF Gate
  <2>3. WorkOf[release] \in Work
    BY <2>2, ReleaseAssumption
  <2>4. library[WorkOf[release]] \subseteq inv[WorkOf[release]]
    BY <2>2, <2>3 DEF IInv, LibraryKept
  <2>5. QED
    BY <2>2, <2>4
<1>2. QED
  BY <1>1, Invariant, PTL

\* A cycle asks for a release at most once (completeness.go, uncoveredMissing, and
\* automation.go, "duplicate acquisition suppressed in cycle").
THEOREM AskingOnce == Spec => []AsksOncePerCycle
<1>1. IInv => AsksOncePerCycle
  BY DEF IInv, PendingUnsent, Pending, AsksOncePerCycle
<1>2. QED
  BY <1>1, Invariant, PTL

\* Only what the downloader accepted is reported as acquired (automation.go,
\* AcquireSubmitted and AcquireRecovered).
THEOREM ReportingAccepted == Spec => []ReportsAccepted
<1>1. Init => ReportsAccepted
  BY DEF Init, ReportsAccepted
<1>2. IInv /\ ReportsAccepted /\ [Next]_vars => ReportsAccepted'
  <2> SUFFICES ASSUME IInv, ReportsAccepted, [Next]_vars PROVE ReportsAccepted'
    OBVIOUS
  <2>0. TypeOK /\ TasksAccepted /\ LookupAccepted /\ PendingUnsent
    BY DEF IInv
  <2>1. CASE Add
    BY <2>0, <2>1 DEF Add, Accepts, ReportsAccepted
  <2>2. CASE Recover
    BY <2>0, <2>2 DEF Recover, ReportsAccepted, TasksAccepted, PendingUnsent, Live, Dead
  <2>3. CASE Lookup
    BY <2>0, <2>3 DEF Lookup, ReportsAccepted, LookupAccepted
  <2>4. CASE Repair
    BY <2>0, <2>4 DEF Repair, ReportsAccepted, TasksAccepted, PendingUnsent
  <2>5. ASSUME reported' \in {reported, {}}, accepted' = accepted PROVE ReportsAccepted'
    BY <2>5 DEF ReportsAccepted
  <2>6. CASE Begin \/ EndFeeds \/ EndBackfill \/ EndCycle \/ Observe \/ Environment
    BY <2>5, <2>6 DEF Begin, BeginCycle, EndFeeds, EndBackfill, EndCycle, Observe, ForgetCycle,
       Environment, Publish, Progress, Lose, Delete, Crash, worldVars, histVars
  <2>7. ASSUME NEW w \in Work, NEW found \in Searches, NEW trusted \in SUBSET Release,
               Backfill(w, found, trusted)
        PROVE  ReportsAccepted'
    BY <2>5, <2>7 DEF Backfill, worldVars, histVars
  <2>8. ASSUME NEW r \in Release, Ensure(r) PROVE ReportsAccepted'
    BY <2>5, <2>8 DEF Ensure, histVars
  <2>9. CASE UNCHANGED vars
    BY <2>5, <2>9 DEF vars, worldVars, histVars
  <2>10. QED
    BY <2>1, <2>2, <2>3, <2>4, <2>6, <2>7, <2>8, <2>9 DEF Next, Cycle
<1>3. QED
  BY <1>1, <1>2, Invariant, PTL DEF Spec

-----------------------------------------------------------------------------
(* No release is asked for whose episodes another task holds.  What was     *)
(* placed when the trees were walked the pass knows of; what has been       *)
(* placed since was moved by the cycle itself, and shares no episode with   *)
(* what is left, because the two were selected together or are of           *)
(* different works.                                                        *)

InPass == {"add", "recover", "lookup", "repair"}

\* The releases a pass is not done with, and those it, or one before it, moved.
Active == todo \cup (IF pc \in InPass THEN {release} ELSE {})
Moved  == Placed \ graph

Rivals(r, q) == r # q /\ WorkOf[r] = WorkOf[q] /\ Overlaps(r, q, Eps)

ActiveApart == \A r, q \in Active : ~Rivals(r, q)
ActiveOrigin ==
  Active \subseteq IF visited = {} THEN current ELSE {r \in Release : WorkOf[r] \in visited}

MovedApart  == \A q \in Moved, r \in Active : ~Rivals(q, r)
MovedOrigin ==
  \A q \in Moved : WorkOf[q] \in visited \/ (q \in current /\ visited = {} /\ pc # "gaps")

GraphPlaced == graph \subseteq Placed
GraphKnown ==
  pc \in InPass \/ (pc = "ensure" /\ todo # {}) =>
    graph \subseteq owned \cap listed /\ graph \cap misfiled = {}

Undisturbed == calm /\ uncertain = {}

HeldInv ==
  /\ ActiveApart /\ ActiveOrigin
  /\ Undisturbed => MovedApart /\ MovedOrigin /\ GraphPlaced /\ GraphKnown
  /\ NeverAddsHeld

LEMMA SelectedApart ==
  ASSUME NEW S \in SUBSET Release
  PROVE  \A r, q \in Selected(S) : ~Rivals(r, q)
<1> SUFFICES ASSUME NEW r \in Selected(S), NEW q \in Selected(S), Rivals(r, q)
             PROVE  FALSE
  OBVIOUS
<1> DEFINE T == ReleasesOf(WorkOf[r], S)
<1>1. T \in SUBSET Nat /\ \A x \in T : Eps[x] \subseteq Episode
  BY ReleaseAssumption DEF ReleasesOf, Episode
<1>2. r \in Release /\ WorkOf[r] \notin Movie
  <2>1. r \in Release
    BY SelectedLemma
  <2> QED BY <2>1, ReleaseAssumption DEF Rivals, Overlaps
<1>3. r \in BestOf(T, Eps) /\ q \in BestOf(T, Eps)
  BY <1>2 DEF Selected, BestOf, BestMovie, ReleasesOf, Rivals
<1>4. Disjoint(BestOf(T, Eps), Eps)
  BY <1>1, BestApart, ReleaseAssumption
<1> QED BY <1>3, <1>4 DEF Disjoint, Rivals

LEMMA HeldInit == Init => HeldInv
BY DEF Init, HeldInv, ActiveApart, ActiveOrigin, Active, Undisturbed, NeverAddsHeld, InPass

LEMMA HeldForget == ForgetCycle => HeldInv'
BY DEF ForgetCycle, ForgetPass, HeldInv, ActiveApart, ActiveOrigin, Active, Undisturbed,
       NeverAddsHeld, InPass

\* A pass leaves behind what it is done with, and goes on in what it began with.
LEMMA HeldShrinks ==
  ASSUME HeldInv, Active' \subseteq Active, UNCHANGED <<graph, uncertain, planVars>>,
         pc' # "gaps", pc' # "add" \/ ~calm', calm' => calm,
         Undisturbed' => MovedApart' /\ MovedOrigin' /\ GraphPlaced' /\ GraphKnown'
  PROVE  HeldInv'
BY DEF HeldInv, ActiveApart, ActiveOrigin, NeverAddsHeld, planVars

LEMMA HeldBegin ==
  ASSUME TypeOK, NEW feed \in Feeds, NEW unread \in Hidden, NEW dark \in Unreadable,
         BeginCycle(feed, unread, dark)
  PROVE  HeldInv'
<1>1. feed \in SUBSET Release
  BY InputAssumption
<1>2. current' \subseteq Selected(feed)
  BY GateLemma DEF BeginCycle
<1>3. Active' = current' /\ visited' = {} /\ pc' = "observe"
  BY DEF BeginCycle, Active, InPass
<1>4. ActiveApart' /\ ActiveOrigin'
  BY <1>1, <1>2, <1>3, SelectedApart DEF ActiveApart, ActiveOrigin, Rivals
<1>5. ASSUME uncertain' = {} PROVE Moved' = {} /\ GraphPlaced'
  BY <1>5 DEF BeginCycle, Moved, Placed, GraphPlaced, worldVars
<1> QED BY <1>3, <1>4, <1>5 DEF HeldInv, Undisturbed, MovedApart, MovedOrigin, GraphKnown, InPass,
           NeverAddsHeld

LEMMA HeldFeeds ==
  ASSUME TypeOK, HeldInv, EndFeeds
  PROVE  HeldInv'
<1>1. Active' = {} /\ pc' = "gaps" /\ Placed' = Placed
  BY DEF EndFeeds, ForgetPass, Active, InPass, Placed, worldVars
<1>2. ASSUME Undisturbed' PROVE Moved' = {} /\ GraphPlaced'
  <2>1. CASE current = {}
    BY <1>1, <1>2, <2>1 DEF EndFeeds, HeldInv, Undisturbed, MovedOrigin, Moved, GraphPlaced
  <2>2. CASE current # {}
    BY <1>1, <1>2, <2>2 DEF EndFeeds, Undisturbed, Moved, GraphPlaced, Placed
  <2> QED BY <2>1, <2>2
<1> QED BY <1>1, <1>2 DEF HeldInv, ActiveApart, ActiveOrigin, MovedApart, MovedOrigin, GraphKnown,
           NeverAddsHeld, InPass

LEMMA HeldBackfill ==
  ASSUME TypeOK, HeldInv, NEW w \in Work, NEW found \in Searches, NEW trusted \in SUBSET Release,
         Backfill(w, found, trusted)
  PROVE  HeldInv'
<1> DEFINE offered == ReleasesOf(w, found)
<1>1. offered \in SUBSET Release
  BY InputAssumption DEF ReleasesOf
<1>2. todo' \subseteq Selected(offered)
  BY GateLemma DEF Backfill
<1>3. todo' \subseteq {r \in Release : WorkOf[r] = w}
  BY BackfillSelects
<1>4. /\ pc = "gaps" /\ w \notin visited /\ visited' = visited \cup {w}
      /\ pc' \in {"gaps", "observe"} /\ Active' = todo'
      /\ UNCHANGED <<Placed, graph, uncertain, calm, current>>
  BY DEF Backfill, Active, InPass, Placed, worldVars, walkVars, histVars
<1> HIDE DEF offered
<1>5. ActiveApart'
  BY <1>1, <1>2, <1>4, SelectedApart DEF ActiveApart, Rivals
<1>6. ActiveOrigin'
  BY <1>3, <1>4 DEF ActiveOrigin
<1>7. ASSUME Undisturbed' PROVE MovedApart' /\ MovedOrigin' /\ GraphPlaced' /\ GraphKnown'
  <2>1. GraphPlaced' /\ MovedOrigin /\ Moved' = Moved
    BY <1>4, <1>7 DEF Undisturbed, HeldInv, GraphPlaced, Moved
  <2>2. \A q \in Moved : WorkOf[q] \in visited
    BY <1>4, <2>1 DEF MovedOrigin
  <2> QED BY <1>3, <1>4, <2>1, <2>2 DEF MovedApart, MovedOrigin, Rivals, GraphKnown, InPass
<1> QED BY <1>4, <1>5, <1>6, <1>7 DEF HeldInv, NeverAddsHeld

LEMMA HeldObserve ==
  ASSUME TypeOK, HeldInv, Observe
  PROVE  HeldInv'
<1>1. /\ pc = "observe" /\ pc' = "ensure" /\ todo' \subseteq todo
      /\ UNCHANGED <<Placed, graph, uncertain, calm, current, visited>>
  BY DEF Observe, walkVars, planVars, histVars, Placed
<1>2. Active' \subseteq Active
  BY <1>1 DEF Active, InPass
<1>3. ASSUME Undisturbed' PROVE MovedApart' /\ MovedOrigin' /\ GraphPlaced' /\ GraphKnown'
  <2>1. MovedApart /\ MovedOrigin /\ GraphPlaced /\ Moved' = Moved
    BY <1>1, <1>3 DEF Undisturbed, HeldInv, Moved
  <2>2. GraphKnown'
    BY <1>1, <2>1 DEF Observe, GraphKnown, GraphPlaced, Placed, Live, InPass
  <2> QED BY <1>1, <1>2, <2>1, <2>2 DEF MovedApart, MovedOrigin, GraphPlaced, Rivals
<1> QED BY <1>1, <1>2, <1>3, HeldShrinks DEF planVars

LEMMA HeldEnsure ==
  ASSUME IInv, HeldInv, NEW r \in Release, Ensure(r)
  PROVE  HeldInv'
<1>1. /\ r \in todo /\ todo' = todo \ {r} /\ release' = r
      /\ pc = "ensure" /\ pc' \in {"ensure", "add", "repair"}
      /\ UNCHANGED <<Placed, graph, uncertain, calm, current, visited, listed, misfiled, task>>
  BY DEF Ensure, Done, walkVars, planVars, histVars, Placed
<1>2. Active' \subseteq Active
  BY <1>1 DEF Active, InPass
<1>3. ActiveApart' /\ ActiveOrigin'
  BY <1>1, <1>2 DEF HeldInv, ActiveApart, ActiveOrigin, Rivals
<1>4. ASSUME Undisturbed PROVE MovedApart' /\ MovedOrigin' /\ GraphPlaced' /\ GraphKnown'
  <2>1. MovedApart /\ MovedOrigin /\ GraphPlaced /\ GraphKnown /\ Moved' = Moved
    BY <1>1, <1>4 DEF HeldInv, Moved
  <2>2. graph \subseteq owned'
    BY <1>1, <2>1 DEF Ensure, Done, GraphKnown, GraphPlaced, ReleasesOf, Placed
  <2> QED BY <1>1, <1>2, <2>1, <2>2 DEF MovedApart, MovedOrigin, GraphPlaced, GraphKnown, Rivals
<1>5. NeverAddsHeld'
  <2> SUFFICES ASSUME pc' = "add", Undisturbed, NEW q \in Placed \ {r}, WorkOf[q] = WorkOf[r],
                      Overlaps(q, r, Eps)
               PROVE  FALSE
    BY <1>1 DEF NeverAddsHeld, Undisturbed
  <2>1. ~Taken(r)
    BY DEF Ensure, Done
  <2>2. MovedApart /\ GraphKnown
    BY DEF HeldInv
  <2>3. q \in graph
    BY <1>1, <2>2 DEF MovedApart, Moved, Active, Rivals
  <2>4. q \in listed \ {r} /\ Claims(q)
    BY <1>1, <2>2, <2>3 DEF GraphKnown, Claims, Placed, Undisturbed
  <2> QED BY <2>1, <2>4 DEF Taken
<1> QED BY <1>1, <1>3, <1>4, <1>5 DEF HeldInv, Undisturbed

\* A step of an acquisition that is under way.
LEMMA HeldAcquires ==
  ASSUME IInv, HeldInv, Add \/ Recover \/ Lookup \/ Repair
  PROVE  HeldInv'
<1>1. /\ pc \in InPass /\ pc' \in (InPass \ {"add"}) \cup {"ensure"} /\ release \in Release
      /\ UNCHANGED <<todo, release, graph, uncertain, calm, current, visited, misfiled>>
  BY DEF Add, Recover, Lookup, Repair, Done, walkVars, planVars, IInv, PendingUnsent, InPass
<1>2. Active' \subseteq Active /\ release \in Active
  BY <1>1 DEF Active
<1>3. Placed \subseteq Placed' /\ Placed' \subseteq Placed \cup {release}
  BY <1>1 DEF Add, Accepts, Recover, Lookup, Repair, Placed, IInv, TypeOK
<1>4. ASSUME Undisturbed PROVE MovedApart' /\ MovedOrigin' /\ GraphPlaced' /\ GraphKnown'
  <2>1. MovedApart /\ MovedOrigin /\ GraphPlaced /\ GraphKnown /\ Moved' \subseteq Moved \cup {release}
    BY <1>1, <1>3, <1>4 DEF HeldInv, Moved
  <2>2. MovedApart'
    BY <1>1, <1>2, <2>1 DEF MovedApart, HeldInv, ActiveApart, Rivals
  <2>3. MovedOrigin'
    BY <1>1, <1>2, <2>1 DEF MovedOrigin, HeldInv, ActiveOrigin, InPass
  <2>4. graph \subseteq owned' /\ graph \subseteq Placed'
    <3>1. graph \subseteq owned /\ graph \subseteq Placed'
      BY <1>1, <1>3, <2>1 DEF GraphKnown, GraphPlaced
    <3> QED BY <1>1, <3>1 DEF Add, Recover, Lookup, Repair, Done, Placed, ReleasesOf
  <2>5. graph \subseteq listed'
    <3>1. graph \subseteq listed /\ graph \subseteq Live
      BY <1>1, <2>1 DEF GraphKnown, GraphPlaced, Placed, Live
    <3> QED BY <3>1 DEF Add, Recover, Lookup, Repair
  <2> QED BY <1>1, <2>1, <2>2, <2>3, <2>4, <2>5 DEF GraphPlaced, GraphKnown
<1> QED BY <1>1, <1>2, <1>4, HeldShrinks DEF Undisturbed, planVars, InPass

LEMMA HeldEnvironment ==
  ASSUME HeldInv, Environment
  PROVE  HeldInv'
<1>1. CASE \E r \in Release : Publish(r)
  BY <1>1 DEF Publish, walkVars, planVars, passVars, histVars, HeldInv, ActiveApart, ActiveOrigin,
     Active, Moved, Placed, MovedApart, MovedOrigin, GraphPlaced, GraphKnown, Undisturbed,
     NeverAddsHeld, Rivals
<1>2. CASE Crash
  BY <1>2, HeldForget DEF Crash
<1>3. ASSUME ~calm', UNCHANGED <<pc, walkVars, planVars, passVars>> PROVE HeldInv'
  BY <1>3 DEF walkVars, planVars, passVars, HeldInv, ActiveApart, ActiveOrigin, Active,
     Undisturbed, NeverAddsHeld, Rivals
<1> QED BY <1>1, <1>2, <1>3 DEF Environment, Progress, Lose, Delete

\* Nothing another task holds is asked for, unless something outside the program
\* happened since the trees were walked or a source could not be (automation.go,
\* Acquire, and claim.go, Task).
THEOREM NotAddingHeld == Spec => []NeverAddsHeld
<1>1. IInv /\ HeldInv /\ [Next]_vars => HeldInv'
  <2> SUFFICES ASSUME IInv, HeldInv, [Next]_vars PROVE HeldInv'
    OBVIOUS
  <2>0. TypeOK
    BY DEF IInv
  <2>1. CASE Begin
    BY <2>0, <2>1, HeldBegin DEF Begin
  <2>2. CASE EndFeeds
    BY <2>0, <2>2, HeldFeeds
  <2>3. CASE \E w \in Work, found \in Searches, trusted \in SUBSET Release :
               Backfill(w, found, trusted)
    BY <2>0, <2>3, HeldBackfill
  <2>4. CASE EndBackfill
    <3>1. /\ Active' = {} /\ pc' = "gaps" /\ visited # {}
          /\ UNCHANGED <<Placed, graph, uncertain, calm, current, visited>>
      BY <2>4 DEF EndBackfill, ForgetPass, Active, InPass, Placed, worldVars, walkVars, planVars,
         histVars
    <3> QED BY <3>1 DEF HeldInv, ActiveApart, ActiveOrigin, MovedApart, MovedOrigin, Moved,
               GraphPlaced, GraphKnown, InPass, Undisturbed, NeverAddsHeld
  <2>5. CASE EndCycle
    BY <2>5, HeldForget DEF EndCycle
  <2>6. CASE Observe
    BY <2>0, <2>6, HeldObserve
  <2>7. CASE \E r \in Release : Ensure(r)
    BY <2>7, HeldEnsure
  <2>8. CASE Add \/ Recover \/ Lookup \/ Repair
    BY <2>8, HeldAcquires
  <2>9. CASE Environment
    BY <2>9, HeldEnvironment
  <2>10. CASE UNCHANGED vars
    BY <2>10 DEF vars, worldVars, walkVars, planVars, passVars, histVars, HeldInv, ActiveApart,
       ActiveOrigin, Active, Moved, Placed, MovedApart, MovedOrigin, GraphPlaced, GraphKnown,
       Undisturbed, NeverAddsHeld, Rivals
  <2> QED BY <2>1, <2>2, <2>3, <2>4, <2>5, <2>6, <2>7, <2>8, <2>9, <2>10 DEF Next, Cycle
<1>2. HeldInv => NeverAddsHeld
  BY DEF HeldInv
<1> QED BY <1>1, <1>2, HeldInit, Invariant, PTL DEF Spec
=============================================================================
