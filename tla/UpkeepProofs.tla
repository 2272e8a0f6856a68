--------------------------- MODULE UpkeepProofs -----------------------------
(***************************************************************************)
(* Theorems of Declarations and Repairs, each by itself: the program leaves *)
(* to users what is theirs.                                                *)
(***************************************************************************)
EXTENDS Declarations, Repairs, CommonProofs

DeclSpec == DeclInit /\ [][DeclNext]_declVars
RepairSpec == RepairInit /\ [][RepairNext]_repairVars

-----------------------------------------------------------------------------
(* Declarations.  Between reading a declaration and writing its rules, what *)
(* was read is what is there unless somebody else wrote, and a folder is    *)
(* there or is known to have been away.                                    *)

Syncing == pc \in {"infer", "list", "write"}

SyncInv ==
  /\ Syncing => (stale \/ decl = read) /\ Folder \ dirs \subseteq gone
  /\ pc = "write" => \A f \in Folder \ gone : read[f] # NoRule => wanted[f] = read[f]

LEMMA SyncInit == DeclInit => SyncInv
BY DEF DeclInit, SyncInv, Syncing

LEMMA SyncStep == SyncInv /\ [DeclNext]_declVars => SyncInv'
<1> SUFFICES ASSUME SyncInv, [DeclNext]_declVars PROVE SyncInv'
  OBVIOUS
<1> USE DEF SyncInv, Syncing, Goto, Asks, Trouble, localVars
<1>1. CASE Cycles
  <2>1. CASE ReadRules
    BY <2>1 DEF ReadRules, Reads
  <2>2. CASE Infer
    BY <2>2 DEF Infer
  <2>3. CASE List
    BY <2>3 DEF List, InStep
  <2>4. CASE WriteRules
    BY <2>4 DEF WriteRules, Writes
  <2>5. CASE BeginSync \/ AdoptSeries \/ AdoptMovie
    BY <2>5 DEF BeginSync, AdoptSeries, AdoptMovie
  <2>6. CASE Create
    BY <2>6 DEF Create, Writes
  <2> QED BY <1>1, <2>1, <2>2, <2>3, <2>4, <2>5, <2>6 DEF Cycles
<1>2. CASE Finishes
  BY <1>2 DEF Finishes, Put, Accept, Refuse, Reloading, Revert, WriteNew, AcceptNew, RefuseNew, CleanUp, Writes
<1>3. CASE PutRule \/ PutDeclaration \/ CreateEntry \/ FailNew \/ Abandon
  BY <1>3 DEF PutRule, PutDeclaration, CreateEntry, FailNew, CleanUp, Abandon, Reads
<1>4. CASE EditDeclaration
  BY <1>4 DEF EditDeclaration
<1>5. CASE MoveFolder
  BY <1>5 DEF MoveFolder
<1>6. CASE UNCHANGED declVars
  BY <1>6 DEF declVars
<1> QED BY <1>1, <1>2, <1>3, <1>4, <1>5, <1>6 DEF DeclNext

(* However users edit a declaration and move folders between the steps of   *)
(* a cycle, adoption replaces no declaration, and the upkeep of the rules   *)
(* keeps that of every folder that was there all the time.                 *)
THEOREM KeepingRules == DeclSpec => RulesKept
<1>1. SyncInv /\ [DeclNext]_declVars => [RuleKept]_declVars
  <2> SUFFICES ASSUME SyncInv, DeclNext, pc' # pc, decl' # decl PROVE RuleKept
    BY DEF RuleKept
  <2>1. CASE pc = "create"
    <3>1. Create
      BY <2>1 DEF DeclNext, Cycles, BeginSync, AdoptSeries, AdoptMovie, ReadRules, Infer, List,
                  WriteRules, Finishes, Put, Accept, Refuse, Reloading, Revert, WriteNew, AcceptNew, RefuseNew,
                  FailNew, CleanUp, Abandon, PutRule, PutDeclaration, CreateEntry, EditDeclaration, MoveFolder
    <3> QED BY <2>1, <3>1 DEF Create, Writes, RuleKept
  <2>2. CASE pc = "write"
    <3>1. WriteRules
      BY <2>2 DEF DeclNext, Cycles, BeginSync, AdoptSeries, AdoptMovie, ReadRules, Infer, List,
                  Create, Finishes, Put, Accept, Refuse, Reloading, Revert, WriteNew, AcceptNew, RefuseNew,
                  FailNew, CleanUp, Abandon, PutRule, PutDeclaration, CreateEntry, EditDeclaration, MoveFolder
    <3> QED BY <2>2, <3>1 DEF WriteRules, Writes, RuleKept, SyncInv, Syncing
  <2> QED BY <2>1, <2>2 DEF RuleKept
<1> QED BY <1>1, SyncInit, SyncStep, PTL DEF DeclSpec, RulesKept

-----------------------------------------------------------------------------
(* Declarations, left alone.  A cycle that nobody disturbs leaves the rules *)
(* in step, and an operation under way has at most six steps left.         *)

(* A step of an operation under way, or the beginning of a cycle. *)
Upkeeping == Cycles \/ Finishes

Idle == pc = "idle"
OneLeft == pc \in {"write", "revert", "check"}
TwoLeft == pc \in {"list", "reload", "reload rule", "new"}
ThreeLeft == pc \in {"infer", "put", "put rule"}

DeclTypes ==
  /\ decl \in Rules \cup {Absent, Invalid} /\ read \in Rules /\ guess \in Rules /\ wanted \in Rules
  /\ series \in BOOLEAN /\ dirs \subseteq Folder
  /\ Idle \/ OneLeft \/ TwoLeft \/ ThreeLeft \/ pc = "sync" \/ pc = "create" \/ pc = "adopt"

LEMMA DeclTypesInit == DeclInit => DeclTypes
BY DEF DeclInit, DeclTypes, Rules, NoRules, Idle

LEMMA DeclTypesStep == DeclTypes /\ [DeclNext]_declVars => DeclTypes'
<1> SUFFICES ASSUME DeclTypes, [DeclNext]_declVars PROVE DeclTypes'
  OBVIOUS
<1> USE DEF DeclTypes, Goto, Asks, Trouble, localVars, Idle, OneLeft, TwoLeft, ThreeLeft
<1>0. NoRules \in Rules
  BY DEF NoRules, Rules
<1>1. CASE BeginSync \/ AdoptSeries \/ AdoptMovie \/ Infer
  BY <1>0, <1>1 DEF BeginSync, AdoptSeries, AdoptMovie, Infer, Inferred
<1>2. CASE Create \/ ReadRules \/ WriteRules
  BY <1>2 DEF Create, Writes, ReadRules, Reads, WriteRules, Declared
<1>3. CASE List
  BY <1>3 DEF List, InStep, Rules
<1>4. CASE Put \/ Accept \/ Refuse \/ Revert \/ WriteNew \/ AcceptNew
  BY <1>4 DEF Put, Accept, Refuse, Reloading, Revert, WriteNew, AcceptNew, Writes
<1>5. CASE RefuseNew \/ FailNew
  BY <1>5 DEF RefuseNew, FailNew, CleanUp
<1>6. CASE PutRule
  BY <1>6 DEF PutRule, Reads, Listed, Declared, Rules
<1>7. CASE PutDeclaration
  BY <1>0, <1>7 DEF PutDeclaration, Reads, Listed, Declared
<1>8. CASE CreateEntry
  <2>1. \A f \in Folder, r \in Rule \cup {NoRule} : [NoRules EXCEPT ![f] = r] \in Rules
    BY DEF NoRules, Rules
  <2> QED BY <1>0, <1>8, <2>1 DEF CreateEntry
<1>9. CASE Abandon
  BY <1>9 DEF Abandon
<1>10. CASE EditDeclaration
  BY <1>0, <1>10 DEF EditDeclaration
<1>11. CASE MoveFolder
  BY <1>11 DEF MoveFolder
<1>12. CASE UNCHANGED declVars
  BY <1>12 DEF declVars
<1> QED BY <1>1, <1>2, <1>3, <1>4, <1>5, <1>6, <1>7, <1>8, <1>9, <1>10, <1>11, <1>12 DEF DeclNext, Cycles, Finishes

(* A cycle nobody disturbed, at each of its steps. *)
Agrees(rules) == \A f \in Folder : rules[f] # NoRule <=> f \in dirs

Upkept ==
  /\ pc \in {"idle", "adopt", "create", "sync", "infer", "list", "write"}
  /\ pc = "idle" => InStepNow
  /\ pc = "adopt" => decl = Absent
  /\ pc = "create" => decl = Absent /\ (IF series THEN dirs # {} /\ Agrees(guess) ELSE guess = NoRules)
  /\ pc = "sync" => series /\ Declared
  /\ pc \in {"infer", "list"} => series /\ Declared /\ decl = read
  /\ pc = "list" => Agrees(guess)
  /\ pc = "write" => series /\ Declared /\ Agrees(wanted)

LEMMA UpkeptBegins == DeclTypes /\ BeginSync => Upkept'
<1> SUFFICES ASSUME DeclTypes, BeginSync PROVE Upkept'
  OBVIOUS
<1>1. CASE decl = Absent
  BY <1>1 DEF BeginSync, Goto, Asks, Upkept
<1>2. CASE Declared /\ series
  BY <1>2 DEF BeginSync, Goto, Asks, Upkept, Declared
<1>3. CASE Declared /\ ~series
  BY <1>3 DEF BeginSync, Goto, Asks, Upkept, Declared, InStepNow
<1> QED BY <1>1, <1>2, <1>3 DEF BeginSync, Declared

LEMMA UpkeptStep == DeclTypes /\ Upkept /\ [Upkeeping]_declVars => Upkept' /\ (InStepNow => InStepNow')
<1> SUFFICES ASSUME DeclTypes, Upkept, [Upkeeping]_declVars PROVE Upkept' /\ (InStepNow => InStepNow')
  OBVIOUS
<1> USE DEF Goto, Asks, localVars
<1>1. CASE BeginSync
  <2>1. Upkept'
    BY <1>1, UpkeptBegins
  <2>2. InStepNow => InStepNow'
    BY <1>1 DEF BeginSync, InStepNow, Declared
  <2> QED BY <2>1, <2>2
<1>2. CASE AdoptSeries
  BY <1>2 DEF AdoptSeries, Upkept, InStepNow, Inferred, Agrees, Declared
<1>3. CASE AdoptMovie
  BY <1>3 DEF AdoptMovie, Upkept, InStepNow, Declared
<1>4. CASE Create
  <2>1. decl' = guess /\ decl = Absent /\ Declared' /\ UNCHANGED <<series, dirs>>
    BY <1>4, DeclAssumption DEF Create, Writes, Upkept, DeclTypes, Declared, Rules
  <2>2. ~InStepNow
    BY <1>4, DeclAssumption DEF Create, Upkept, InStepNow, Declared
  <2>3. CASE series
    BY <1>4, <2>1, <2>2, <2>3 DEF Create, Upkept
  <2>4. CASE ~series
    BY <1>4, <2>1, <2>2, <2>4 DEF Create, Upkept, InStepNow, Declared
  <2> QED BY <2>3, <2>4
<1>5. CASE ReadRules
  BY <1>5 DEF ReadRules, Reads, Upkept, InStepNow, Declared
<1>6. CASE Infer
  BY <1>6 DEF Infer, Upkept, InStepNow, Declared, Inferred, Agrees
<1>7. CASE List
  <2>1. series /\ Declared /\ decl = read /\ Agrees(guess) /\ UNCHANGED <<series, dirs, decl>>
        /\ seen' = dirs /\ wanted' = InStep /\ pc' = IF Dirty THEN "write" ELSE "idle"
    BY <1>7 DEF List, Upkept
  <2>2. \A f \in Folder : wanted'[f] = IF f \in dirs /\ read[f] # NoRule THEN read[f] ELSE guess[f]
    BY <2>1 DEF InStep
  <2>3. Agrees(wanted')
    BY <2>1, <2>2 DEF Agrees
  <2>4. ~Dirty => Agrees(decl)
    BY <2>1 DEF Dirty, Agrees
  <2>5. ~Dirty => InStepNow
    BY <2>1, <2>4 DEF InStepNow, Agrees
  <2>6. InStepNow <=> InStepNow'
    BY <2>1 DEF InStepNow, Declared
  <2> QED BY <2>1, <2>3, <2>5, <2>6 DEF Upkept, Agrees, Declared
<1>8. CASE WriteRules
  <2>1. decl' = wanted /\ series /\ Agrees(wanted) /\ UNCHANGED <<series, dirs>> /\ pc' = "idle"
    BY <1>8 DEF WriteRules, Writes, Upkept
  <2>2. Declared'
    BY <2>1, DeclAssumption DEF DeclTypes, Declared, Rules
  <2> QED BY <2>1, <2>2 DEF Upkept, InStepNow, Agrees
<1>9. CASE Finishes
  BY <1>9 DEF Finishes, Put, Accept, Refuse, Reloading, Revert, WriteNew, AcceptNew, RefuseNew, Upkept
<1>10. CASE UNCHANGED declVars
  BY <1>10 DEF declVars, Upkept, InStepNow, Agrees, Declared
<1> QED BY <1>1, <1>2, <1>3, <1>4, <1>5, <1>6, <1>7, <1>8, <1>9, <1>10 DEF Upkeeping, Cycles

(* Nothing is left to do: a cycle would begin and change nothing, or not begin. *)
Rests == Idle /\ (decl = Invalid \/ (Declared /\ ~series))

LEMMA RestsInStep == Rests => InStepNow
BY DEF Rests, InStepNow

LEMMA IdleInStep == Upkept /\ Idle => InStepNow
BY DEF Upkept, Idle

LEMMA RestsStays == Rests /\ [Upkeeping]_declVars => Rests'
<1> SUFFICES ASSUME Rests, [Upkeeping]_declVars PROVE Rests'
  OBVIOUS
<1>1. CASE Upkeeping
  <2>1. BeginSync
    BY <1>1 DEF Rests, Idle, Upkeeping, Cycles, Finishes, AdoptSeries, AdoptMovie, Create, ReadRules, Infer, List, WriteRules,
                Put, Accept, Refuse, Reloading, Revert, WriteNew, AcceptNew, RefuseNew
  <2> QED BY <2>1 DEF BeginSync, Goto, Asks, Rests, Idle, Declared
<1>2. CASE UNCHANGED declVars
  BY <1>2 DEF declVars, Rests, Idle, Declared
<1> QED BY <1>1, <1>2

(* How many steps an operation has left at most. *)
Left1 == Idle \/ OneLeft
Left2 == Left1 \/ TwoLeft
Left3 == Left2 \/ ThreeLeft
Left4 == Left3 \/ pc = "sync"
Left5 == Left4 \/ pc = "create"
Left6 == Left5 \/ pc = "adopt"

LEMMA LeftStays ==
  /\ UNCHANGED declVars => (Idle' <=> Idle) /\ (OneLeft' <=> OneLeft) /\ (TwoLeft' <=> TwoLeft)
                           /\ (ThreeLeft' <=> ThreeLeft) /\ (pc' = pc)
BY DEF declVars, Idle, OneLeft, TwoLeft, ThreeLeft

LEMMA LeftDecreases ==
  ASSUME Upkeeping
  PROVE  /\ Idle => BeginSync
         /\ OneLeft => Idle'
         /\ TwoLeft => Left1'
         /\ ThreeLeft => Left2'
         /\ pc = "sync" => Left3'
         /\ pc = "create" => Left4'
         /\ pc = "adopt" => Left5'
<1> USE DEF Goto, Idle, OneLeft, TwoLeft, ThreeLeft, Left1, Left2, Left3, Left4, Left5
<1>1. CASE BeginSync \/ AdoptSeries \/ AdoptMovie \/ Create
  BY <1>1 DEF BeginSync, AdoptSeries, AdoptMovie, Create
<1>2. CASE ReadRules \/ Infer \/ List \/ WriteRules
  BY <1>2 DEF ReadRules, Infer, List, WriteRules
<1>3. CASE Finishes
  BY <1>3 DEF Finishes, Put, Accept, Refuse, Reloading, Revert, WriteNew, AcceptNew, RefuseNew, CleanUp
<1> QED BY <1>1, <1>2, <1>3 DEF Upkeeping, Cycles

(* Weak fairness of Upkeeping, spelled out: while there is something to do  *)
(* a step is taken in the end.                                             *)
FairUpkeep == []<>Rests \/ []<><<Upkeeping>>_declVars

(* Once users leave an entry alone and no call fails, and its upkeep goes   *)
(* on, its rules become and remain those of the folders there are: from     *)
(* whatever operation was under way, and whatever it left, the next cycle   *)
(* that begins ends in step.                                               *)
THEOREM RulesSettling == DeclSpec /\ <>[][Upkeeping]_declVars /\ FairUpkeep => RulesSettle
<1>2. DeclTypes => Left6
  BY DEF DeclTypes, Left1, Left2, Left3, Left4, Left5, Left6
<1>10. DeclTypes /\ Idle /\ <<Upkeeping>>_declVars => Upkept'
  BY LeftDecreases, UpkeptBegins
<1>11. Left1 /\ ~Idle /\ [Upkeeping]_declVars => Left1'
  BY LeftDecreases, LeftStays DEF Left1
<1>12. Left1 /\ ~Idle /\ <<Upkeeping>>_declVars => Idle'
  BY LeftDecreases DEF Left1
<1>21. Left2 /\ ~Left1 /\ [Upkeeping]_declVars => Left2'
  BY LeftDecreases, LeftStays DEF Left2, Left1
<1>22. Left2 /\ ~Left1 /\ <<Upkeeping>>_declVars => Left1'
  BY LeftDecreases DEF Left2
<1>31. Left3 /\ ~Left2 /\ [Upkeeping]_declVars => Left3'
  BY LeftDecreases, LeftStays DEF Left3, Left2, Left1
<1>32. Left3 /\ ~Left2 /\ <<Upkeeping>>_declVars => Left2'
  BY LeftDecreases DEF Left3
<1>41. Left4 /\ ~Left3 /\ [Upkeeping]_declVars => Left4'
  BY LeftDecreases, LeftStays DEF Left4, Left3, Left2, Left1
<1>42. Left4 /\ ~Left3 /\ <<Upkeeping>>_declVars => Left3'
  BY LeftDecreases DEF Left4
<1>51. Left5 /\ ~Left4 /\ [Upkeeping]_declVars => Left5'
  BY LeftDecreases, LeftStays DEF Left5, Left4, Left3, Left2, Left1
<1>52. Left5 /\ ~Left4 /\ <<Upkeeping>>_declVars => Left4'
  BY LeftDecreases DEF Left5
<1>62. Left6 /\ ~Left5 /\ <<Upkeeping>>_declVars => Left5'
  BY LeftDecreases DEF Left6
<1>7. (DeclTypes /\ Idle /\ ~Upkept /\ [Upkeeping]_declVars) => Idle' \/ Upkept'
  BY LeftDecreases, LeftStays, UpkeptBegins
<1> QED BY <1>2, <1>10, <1>11, <1>12, <1>21, <1>22, <1>31, <1>32, <1>41, <1>42, <1>51, <1>52, <1>62, <1>7,
           DeclTypesInit, DeclTypesStep, UpkeptStep, RestsStays, RestsInStep, IdleInStep, PTL
        DEF DeclSpec, FairUpkeep, RulesSettle

-----------------------------------------------------------------------------
(* Repairs.  What a search selects shares no episode. *)

LEMMA ChosenApart ==
  ASSUME NEW S \in SUBSET Offer, NEW r \in Chosen(S), NEW q \in Chosen(S), r # q
  PROVE  r \in S /\ q \in S /\ ~Rival(r, q)
<1>1. r \in S /\ q \in S
  BY DEF Chosen, BestOf
<1>2. ~Overlaps(r, q, Holding)
  BY RepairAssumption, BestApart DEF Chosen, Disjoint
<1>3. NoEpisode \notin Holding[r]
  BY <1>1, RepairAssumption
<1> QED BY <1>1, <1>2, <1>3 DEF Overlaps, Rival

(* No episode waits for two decisions, in the queue or in what comes to it; *)
(* and a confirmation is of one review.                                    *)
Apart(Q) == \A r, q \in Q : r # q => ~Rival(r, q)

QueueInv ==
  /\ reviews \subseteq Offer /\ results \subseteq Offer
  /\ advice \subseteq Offer /\ asking \subseteq Offer
  /\ restarts \in Nat
  /\ Apart(reviews) /\ Apart(advice)
  /\ op = "confirm" => \E r \in reviews : asking = {r}

LEMMA QueueInit == RepairInit => QueueInv
BY DEF RepairInit, QueueInv, Apart

LEMMA QueueReconciled ==
  ASSUME QueueInv
  PROVE  Reconciled \subseteq Offer /\ Apart(Reconciled)
<1>1. PICK Q \in SUBSET reviews : Reconciled = Advised(Q, advice)
  BY DEF Reconciled
<1>2. \A r, q : Rival(r, q) <=> Rival(q, r)
  BY DEF Rival
<1> QED BY <1>1, <1>2 DEF Advised, QueueInv, Apart

LEMMA QueueStep == QueueInv /\ [RepairNext]_repairVars => QueueInv'
<1> SUFFICES ASSUME QueueInv, [RepairNext]_repairVars PROVE QueueInv'
  OBVIOUS
<1> USE DEF outside, search, Ends, EndSearch
<1>1. CASE Cycle \/ Backfill
  <2>1. /\ UNCHANGED <<reviews, restarts>> /\ op' = "search"
        /\ results' = {} /\ asking' = {} /\ advice' = {}
    BY <1>1 DEF Cycle, Backfill, Begins
  <2> QED BY <2>1 DEF QueueInv, Apart, Rival
<1>2. CASE Query
  BY <1>2 DEF Query, QueueInv, Apart, Rival
<1>3. CASE Plan
  <2>1. /\ UNCHANGED <<reviews, restarts>> /\ op' = "acquire" /\ results' = {}
        /\ asking' \subseteq Chosen(results) /\ advice' \subseteq Chosen(results)
    BY <1>3 DEF Plan
  <2>2. Chosen(results) \subseteq Offer
    BY DEF Chosen, BestOf, QueueInv
  <2>3. Apart(advice)'
    BY <2>1, ChosenApart DEF QueueInv, Apart, Rival
  <2> QED BY <2>1, <2>2, <2>3 DEF QueueInv, Apart, Rival
<1>4. CASE Cancel
  BY <1>4 DEF Cancel, QueueInv, Apart, Rival
<1>5. CASE Acquire
  BY <1>5 DEF Acquire, QueueInv, Apart, Rival
<1>6. CASE Finish
  <2>1. /\ reviews' = Reconciled /\ advice' = {} /\ op' = "idle"
        /\ UNCHANGED <<restarts, results, asking>>
    BY <1>6 DEF Finish
  <2> QED BY <2>1, QueueReconciled DEF QueueInv, Apart, Rival
<1>7. CASE Confirm
  BY <1>7 DEF Confirm, QueueInv, Apart, Rival
<1>8. CASE Decide
  BY <1>8 DEF Decide, QueueInv, Apart, Rival
<1>9. CASE Arrive \/ Delete \/ Unreadable \/ Reconfigure
  BY <1>9 DEF Arrive, Delete, Unreadable, Reconfigure, Inside, QueueInv, Apart, Rival
<1>10. CASE Restart
  BY <1>10 DEF Restart, QueueInv, Apart, Rival
<1>11. CASE UNCHANGED repairVars
  BY <1>11 DEF repairVars, QueueInv, Apart, Rival
<1> QED BY <1>1, <1>2, <1>3, <1>4, <1>5, <1>6, <1>7, <1>8, <1>9, <1>10, <1>11 DEF RepairNext

LEMMA ReviewLeaves ==
  ASSUME QueueInv, RepairNext, NEW r \in reviews \ reviews'
  PROVE  \/ restarts' # restarts
         \/ ~entry
         \/ op = "acquire" /\ known /\ Holding[r] \subseteq held
         \/ op = "idle" /\ legible /\ Holding[r] \subseteq library
         \/ \E q \in reviews' \cap advice : Rival(r, q)
         \/ op = "confirm" /\ asking = {r} /\ r \in tasks' \ tasks
<1> USE DEF outside, search, Ends, EndSearch
<1>1. CASE Finish
  <2>1. reviews' = Reconciled /\ op = "acquire"
    BY <1>1 DEF Finish
  <2>2. CASE manual \/ StillNeeded(r)
    <3>1. PICK q \in advice : Rival(r, q)
      BY <2>1, <2>2 DEF Reconciled, Advised
    <3> QED BY <2>1, <3>1 DEF Reconciled, Advised
  <2>3. CASE ~StillNeeded(r)
    BY <2>1, <2>3 DEF StillNeeded
  <2> QED BY <2>2, <2>3
<1>2. CASE Confirm
  BY <1>2 DEF Confirm
<1>3. CASE Decide
  BY <1>3 DEF Decide, QueueInv
<1>4. CASE Restart
  BY <1>4 DEF Restart, QueueInv
<1>5. CASE Cycle \/ Backfill \/ Query \/ Plan \/ Cancel \/ Acquire
  BY <1>5 DEF Cycle, Backfill, Begins, Query, Plan, Cancel, Acquire
<1>6. CASE Arrive \/ Delete \/ Unreadable \/ Reconfigure
  BY <1>6 DEF Arrive, Delete, Unreadable, Reconfigure, Inside
<1> QED BY <1>1, <1>2, <1>3, <1>4, <1>5, <1>6 DEF RepairNext

(* Whatever a library, a search or a downloader fails to do, a review stays *)
(* until its episodes are there, its user decides or newer advice replaces  *)
(* it, and no two reviews are ever about one episode.                      *)
THEOREM KeepingReviews == RepairSpec => ReviewsKept
<1>1. QueueInv /\ [RepairNext]_repairVars => [ReviewKept]_repairVars
  <2> SUFFICES ASSUME QueueInv, RepairNext PROVE ReviewKept
    OBVIOUS
  <2>1. Apart(reviews)'
    BY QueueStep DEF QueueInv
  <2> QED BY <2>1, ReviewLeaves DEF ReviewKept, Apart, Rival
<1> QED BY <1>1, QueueInit, QueueStep, PTL DEF RepairSpec, ReviewsKept
=============================================================================
