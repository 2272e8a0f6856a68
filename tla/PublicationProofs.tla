-------------------------- MODULE PublicationProofs --------------------------
(***************************************************************************)
(* What publication guarantees for every file system, every declaration    *)
(* and every number of scopes: it never replaces a name, what it removes   *)
(* is a stale name of an object it manages, it keeps the canonical names   *)
(* of that object, and an undisturbed cycle leaves it with those alone.    *)
(***************************************************************************)
EXTENDS Publication, TLAPS


LEMMA DecisionLemma ==
  ASSUME TypeOK, NEW s \in Scope, NEW p \in Source,
         NEW taken \in [Source -> Object \cup {NoObject}]
  PROVE  /\ Decision(s, p, taken) \in Actions
         /\ Decision(s, p, taken) \in {"link", "existing"} => layout[s][p] \in Library
         /\ Decision(s, p, taken) # "none" => taken[p] \in Object
<1>1. layout[s][p] \in Library \cup {Excluded, Unmatched}
  BY DEF TypeOK, Layout, Target
<1>2. QED
  BY <1>1 DEF Decision, Actions, Excluded, Unmatched

LEMMA PlanLemma ==
  ASSUME TypeOK, NEW s \in Scope,
         NEW taken \in [Source -> Object \cup {NoObject}],
         Plan(s, taken)
  PROVE  /\ scope' \in Scope
         /\ object' \in [Source -> Object \cup {NoObject}]
         /\ action' \in [Source -> Actions]
         /\ links' = {p \in Source : action'[p] = "link"}
         /\ \A p \in Source : action'[p] \in {"link", "existing"} => layout[s][p] \in Library
         /\ \A p \in Source : action'[p] # "none" => object'[p] \in Object
         /\ pc' = "apply"
         /\ scope' = s
<1>1. \A p \in Source : /\ Decision(s, p, taken) \in Actions
                        /\ Decision(s, p, taken) \in {"link", "existing"} => layout[s][p] \in Library
                        /\ Decision(s, p, taken) # "none" => taken[p] \in Object
  BY DecisionLemma
<1>2. QED
  BY <1>1 DEF Plan
-----------------------------------------------------------------------------
(* Types.                                                                  *)

USE DEF NoScope, NoItem, NoName

LEMMA InitType == Init => TypeOK
<1> SUFFICES ASSUME Init PROVE TypeOK
  OBVIOUS
<1>1. names \in [Name -> Object \cup {NoObject}] /\ layout \in Layout
  BY NameAssumption DEF Init
<1>2. events \in 0..MaxEvents
  BY BoundAssumption DEF Init
<1>3. action \in [Source -> Actions] /\ pc \in PCs
  BY DEF Init, Unplanned, Actions, PCs
<1>4. QED
  BY <1>1, <1>2, <1>3 DEF Init, TypeOK, Nowhere

LEMMA PassType == IInv /\ Pass => TypeOK'
<1> SUFFICES ASSUME IInv, Pass PROVE TypeOK'
  OBVIOUS
<1>0. TypeOK /\ PlanInv /\ LinkInv
  BY DEF IInv
<1> USE <1>0
<1> USE DEF TypeOK, PCs, envVars, snapVars, planVars, linkVars, tidyVars, histVars
<1>1. ASSUME NEW tree \in {"source", "library"}, Walk(tree) PROVE TypeOK'
  BY <1>1 DEF Walk, Observed, Name
<1>2. CASE Refresh
  BY <1>2 DEF Refresh, Name
<1>3. ASSUME NEW s \in Local, PlanLocal(s) PROVE TypeOK'
  <2> DEFINE taken == [p \in Source |-> IF p \in Files[s] THEN seen[p] ELSE NoObject]
  <2>1. s \in Scope /\ taken \in [Source -> Object \cup {NoObject}] /\ Plan(s, taken)
    BY <1>3 DEF PlanLocal, Scope, Name
  <2> HIDE DEF taken
  <2>2. QED
    BY <1>3, <2>1, PlanLemma DEF PlanLocal
<1>4. ASSUME NEW s \in Task, PlanTask(s) PROVE TypeOK'
  <2> DEFINE taken == [p \in Source |-> IF p \in Files[s] THEN names[p] ELSE NoObject]
  <2>1. s \in Scope /\ taken \in [Source -> Object \cup {NoObject}] /\ Plan(s, taken)
    BY <1>4 DEF PlanTask, Scope, Name
  <2> HIDE DEF taken
  <2>2. QED
    BY <1>4, <2>1, PlanLemma DEF PlanTask
<1>5. ASSUME NEW s \in Task, SkipTask(s) PROVE TypeOK'
  BY <1>5 DEF SkipTask
<1>6. CASE Finish
  BY <1>6 DEF Finish
<1>7. ASSUME NEW p \in Source, OpenSource(p) PROVE TypeOK'
  BY <1>7 DEF OpenSource
<1>8. CASE LinkAt
  <2>1. names[item] \in Object \cup {NoObject}
    BY <1>8 DEF LinkAt, LinkInv, Name
  <2>2. QED
    BY <1>8, <2>1 DEF LinkAt
<1>9. CASE VerifyLink
  BY <1>9 DEF VerifyLink
<1>10. CASE EndApply
  <2>1. Managed \subseteq Object
    BY <1>10 DEF EndApply, Managed, PlanInv, Publishing
  <2>2. QED
    BY <1>10, <2>1 DEF EndApply
<1>11. ASSUME NEW o \in Object, Prove(o) PROVE TypeOK'
  <2>1. Root[scope] \subseteq Library
    BY <1>11, ScopeAssumption DEF Prove, PlanInv, Publishing
  <2>2. QED
    BY <1>11, <2>1 DEF Prove
<1>12. ASSUME NEW d \in Library, OpenStale(d) PROVE TypeOK'
  BY <1>12 DEF OpenStale
<1>13. CASE Unlink
  BY <1>13 DEF Unlink
<1>14. CASE EndSweep
  BY <1>14 DEF EndSweep
<1>15. CASE EndScope
  BY <1>15 DEF EndScope, Unplanned, Actions
<1>16. QED
  BY <1>1, <1>2, <1>3, <1>4, <1>5, <1>6, <1>7, <1>8, <1>9, <1>10, <1>11, <1>12,
     <1>13, <1>14, <1>15 DEF Pass

LEMMA NextType == IInv /\ [Next]_vars => TypeOK'
<1> SUFFICES ASSUME IInv, [Next]_vars PROVE TypeOK'
  OBVIOUS
<1>0. TypeOK
  BY DEF IInv
<1>e. events < MaxEvents => events + 1 \in 0..MaxEvents
  BY <1>0, BoundAssumption DEF TypeOK
<1> USE <1>0
<1>1. ASSUME NEW scopes \in SUBSET Scope, NEW all \in BOOLEAN, Begin(scopes, all),
             layout' \in Layout, events' \in 0..MaxEvents
      PROVE  TypeOK'
  <2>1. Nowhere \in [Name -> Object \cup {NoObject}]
    BY DEF Nowhere
  <2>2. QED
    BY <1>1, <2>1 DEF Begin, TypeOK, PCs, envVars, snapVars, planVars, linkVars,
                      tidyVars, histVars
<1>2. CASE System
  <2>1. ASSUME NEW e \in Entry, NEW l \in Layouts, PutEntry(e, l) PROVE TypeOK'
    <3>1. layout' \in Layout
      BY <2>1, NameAssumption DEF PutEntry
    <3>2. events' \in 0..MaxEvents
      BY <2>1, <1>e DEF PutEntry, TypeOK
    <3>3. QED
      BY <2>1, <3>1, <3>2, <1>1 DEF PutEntry, Scope
  <2>2. CASE BeginCycle
    <3>1. layout' \in Layout /\ events' \in 0..MaxEvents
      BY <2>2 DEF BeginCycle, TypeOK
    <3>2. QED
      BY <2>2, <3>1, <1>1 DEF BeginCycle
  <2>3. QED
    BY <1>2, <2>1, <2>2, PassType DEF System
<1>3. ASSUME NEW l \in Layouts, Edit(l) PROVE TypeOK'
  <2>1. l \in Layout
    BY NameAssumption
  <2>2. QED
    BY <1>3, <2>1, <1>e
       DEF Edit, TypeOK, snapVars, planVars, linkVars, tidyVars
<1>4. ASSUME NEW n \in Name, NEW o \in Object \cup {NoObject}, External(n, o)
      PROVE  TypeOK'
  BY <1>4, <1>e
     DEF External, TypeOK, snapVars, planVars, linkVars, tidyVars
<1>5. CASE Crash
  <2>1. Nowhere \in [Name -> Object \cup {NoObject}] /\ Unplanned \in [Source -> Actions]
    BY DEF Nowhere, Unplanned, Actions
  <2>2. QED
    BY <1>5, <2>1, <1>e DEF Crash, TypeOK, PCs
<1>6. CASE UNCHANGED vars
  BY <1>6 DEF vars, envVars, snapVars, planVars, linkVars, tidyVars, histVars, TypeOK
<1>7. QED
  BY <1>2, <1>3, <1>4, <1>5, <1>6 DEF Next, Environment

-----------------------------------------------------------------------------
(* The inductive invariant.                                                *)

Rest == PlanInv /\ LinkInv /\ SweepInv /\ UnlinkInv /\ StepInv

\* Outside a publication and between two scopes there is nothing to hold.
LEMMA IdleRest ==
  ASSUME pc' \in {"idle", "walk", "visit"}
  PROVE  Rest'
BY DEF Rest, PlanInv, Publishing, LinkInv, SweepInv, UnlinkInv, StepInv

LEMMA PlanRest ==
  ASSUME TypeOK, NEW s \in Scope,
         NEW taken \in [Source -> Object \cup {NoObject}],
         Plan(s, taken), layout' = layout
  PROVE  Rest'
<1>1. PlanInv'
  BY PlanLemma DEF PlanInv, DestinationOf
<1>2. pc' = "apply"
  BY DEF Plan
<1>3. QED
  BY <1>1, <1>2 DEF Rest, LinkInv, SweepInv, UnlinkInv, StepInv

LEMMA PassRest == IInv /\ Pass => Rest'
<1> SUFFICES ASSUME IInv, Pass PROVE Rest'
  OBVIOUS
<1>0. TypeOK /\ PlanInv /\ LinkInv /\ SweepInv /\ UnlinkInv /\ StepInv
  BY DEF IInv
<1> USE <1>0
<1> USE DEF envVars, snapVars, planVars, linkVars, tidyVars, histVars
<1>1. ASSUME NEW tree \in {"source", "library"}, Walk(tree) PROVE Rest'
  BY <1>1, IdleRest DEF Walk
<1>2. CASE Refresh
  BY <1>2, IdleRest DEF Refresh
<1>3. ASSUME NEW s \in Local, PlanLocal(s) PROVE Rest'
  <2> DEFINE taken == [p \in Source |-> IF p \in Files[s] THEN seen[p] ELSE NoObject]
  <2>1. /\ s \in Scope
        /\ taken \in [Source -> Object \cup {NoObject}]
        /\ Plan(s, taken)
        /\ layout' = layout
    BY <1>3 DEF PlanLocal, Scope, Name, TypeOK
  <2> HIDE DEF taken
  <2>2. QED
    BY <2>1, PlanRest
<1>4. ASSUME NEW s \in Task, PlanTask(s) PROVE Rest'
  <2> DEFINE taken == [p \in Source |-> IF p \in Files[s] THEN names[p] ELSE NoObject]
  <2>1. /\ s \in Scope
        /\ taken \in [Source -> Object \cup {NoObject}]
        /\ Plan(s, taken)
        /\ layout' = layout
    BY <1>4 DEF PlanTask, Scope, Name, TypeOK
  <2> HIDE DEF taken
  <2>2. QED
    BY <2>1, PlanRest
<1>5. ASSUME NEW s \in Task, SkipTask(s) PROVE Rest'
  BY <1>5, IdleRest DEF SkipTask
<1>6. CASE Finish
  BY <1>6, IdleRest DEF Finish
<1>7. ASSUME NEW p \in Source, OpenSource(p) PROVE Rest'
  <2>1. PlanInv'
    BY <1>7 DEF OpenSource, PlanInv, Publishing, DestinationOf
  <2>2. LinkInv'
    BY <1>7 DEF OpenSource, LinkInv, PlanInv, Publishing
  <2>3. StepInv'
    BY <1>7 DEF OpenSource, StepInv, Undisturbed
  <2>4. SweepInv' /\ UnlinkInv'
    BY <1>7 DEF OpenSource, SweepInv, UnlinkInv
  <2>5. QED
    BY <2>1, <2>2, <2>3, <2>4 DEF Rest
<1>8. CASE LinkAt
  <2>1. PlanInv'
    BY <1>8 DEF LinkAt, PlanInv, Publishing, DestinationOf
  <2>2. LinkInv'
    BY <1>8 DEF LinkAt, LinkInv
  <2>3. StepInv'
    <3>1. DestinationOf(item) \in Name
      BY <1>8 DEF LinkAt, LinkInv, PlanInv, Publishing, Name
    <3>2. CASE names' = [names EXCEPT ![DestinationOf(item)] = names[item]]
      BY <1>8, <3>1, <3>2 DEF LinkAt, StepInv, Undisturbed, DestinationOf, TypeOK
    <3>3. CASE pc' = "apply"
      BY <3>3 DEF StepInv
    <3>4. QED
      BY <1>8, <3>2, <3>3 DEF LinkAt
  <2>4. SweepInv' /\ UnlinkInv'
    BY <1>8 DEF LinkAt, SweepInv, UnlinkInv
  <2>5. QED
    BY <2>1, <2>2, <2>3, <2>4 DEF Rest
<1>9. CASE VerifyLink
  <2>1. PlanInv'
    BY <1>9 DEF VerifyLink, PlanInv, Publishing, DestinationOf
  <2>2. LinkInv' /\ SweepInv' /\ UnlinkInv' /\ StepInv'
    BY <1>9 DEF VerifyLink, LinkInv, SweepInv, UnlinkInv, StepInv
  <2>3. QED
    BY <2>1, <2>2 DEF Rest
<1>10. CASE EndApply
  <2>1. PlanInv'
    BY <1>10 DEF EndApply, PlanInv, Publishing, DestinationOf
  <2>2. SweepInv'
    BY <1>10 DEF EndApply, SweepInv, Managed
  <2>3. LinkInv' /\ UnlinkInv' /\ StepInv'
    BY <1>10 DEF EndApply, LinkInv, UnlinkInv, StepInv
  <2>4. QED
    BY <2>1, <2>2, <2>3 DEF Rest
<1>11. ASSUME NEW o \in Object, Prove(o) PROVE Rest'
  <2>1. PlanInv'
    BY <1>11 DEF Prove, PlanInv, Publishing, DestinationOf
  <2>2. SweepInv'
    <3>1. Managed' = Managed /\ Desired(o)' = Desired(o)
      BY <1>11 DEF Prove, Managed, Desired, DestinationOf
    <3>2. Managed \subseteq Object
      BY <1>11 DEF Prove, PlanInv, Publishing, Managed
    <3>3. sweep' \subseteq Managed'
      BY <1>11, <3>1 DEF Prove, SweepInv
    <3>4. CASE \A d \in Desired(o) : names[d] = o
      BY <1>11, <3>1, <3>3, <3>4 DEF Prove, SweepInv
    <3>5. CASE ~ \A d \in Desired(o) : names[d] = o
      BY <1>11, <3>1, <3>3, <3>5 DEF Prove, SweepInv
    <3>6. QED
      BY <3>4, <3>5
  <2>3. LinkInv' /\ UnlinkInv' /\ StepInv'
    BY <1>11 DEF Prove, LinkInv, UnlinkInv, StepInv
  <2>4. QED
    BY <2>1, <2>2, <2>3 DEF Rest
<1>12. ASSUME NEW d \in Library, OpenStale(d) PROVE Rest'
  <2>1. PlanInv'
    BY <1>12 DEF OpenStale, PlanInv, Publishing, DestinationOf
  <2>2. Managed' = Managed /\ Desired(target)' = Desired(target)
    BY <1>12 DEF OpenStale, Managed, Desired, DestinationOf
  <2>3. SweepInv'
    BY <1>12, <2>2 DEF OpenStale, SweepInv
  <2>4. UnlinkInv'
    BY <1>12, <2>2 DEF OpenStale, UnlinkInv, SweepInv
  <2>5. LinkInv' /\ StepInv'
    BY <1>12 DEF OpenStale, LinkInv, StepInv
  <2>6. QED
    BY <2>1, <2>3, <2>4, <2>5 DEF Rest
<1>13. CASE Unlink
  <2>1. PlanInv'
    BY <1>13 DEF Unlink, PlanInv, Publishing, DestinationOf
  <2>2. Managed' = Managed /\ Desired(target)' = Desired(target)
    BY <1>13 DEF Unlink, Managed, Desired, DestinationOf
  <2>3. SweepInv'
    <3>1. Desired(target) \subseteq Library
      BY <1>13 DEF Unlink, PlanInv, Publishing, Desired
    <3>2. QED
      BY <1>13, <2>2, <3>1 DEF Unlink, SweepInv, UnlinkInv, TypeOK, Name
  <2>4. LinkInv' /\ UnlinkInv' /\ StepInv'
    BY <1>13 DEF Unlink, LinkInv, UnlinkInv, StepInv
  <2>5. QED
    BY <2>1, <2>3, <2>4 DEF Rest
<1>14. CASE EndSweep
  <2>1. PlanInv'
    BY <1>14 DEF EndSweep, PlanInv, Publishing, DestinationOf
  <2>2. SweepInv'
    BY <1>14 DEF EndSweep, SweepInv, Managed
  <2>3. LinkInv' /\ UnlinkInv' /\ StepInv'
    BY <1>14 DEF EndSweep, LinkInv, UnlinkInv, StepInv
  <2>4. QED
    BY <2>1, <2>2, <2>3 DEF Rest
<1>15. CASE EndScope
  BY <1>15, IdleRest DEF EndScope
<1>16. QED
  BY <1>1, <1>2, <1>3, <1>4, <1>5, <1>6, <1>7, <1>8, <1>9, <1>10, <1>11, <1>12,
     <1>13, <1>14, <1>15 DEF Pass

LEMMA NextRest == IInv /\ [Next]_vars => Rest'
<1> SUFFICES ASSUME IInv, [Next]_vars PROVE Rest'
  OBVIOUS
<1>0. TypeOK /\ PlanInv /\ LinkInv /\ SweepInv /\ UnlinkInv /\ StepInv
  BY DEF IInv
<1> USE <1>0
<1>1. ASSUME NEW scopes, NEW all, Begin(scopes, all) PROVE Rest'
  BY <1>1, IdleRest DEF Begin
<1>2. CASE System
  BY <1>2, <1>1, PassRest DEF System, BeginCycle, PutEntry
<1>3. ASSUME NEW l \in Layouts, Edit(l) PROVE Rest'
  BY <1>3, IdleRest DEF Edit
<1>4. ASSUME NEW n \in Name, NEW o \in Object \cup {NoObject}, External(n, o)
      PROVE  Rest'
  <2> USE <1>4 DEF External, snapVars, planVars, linkVars, tidyVars
  <2>1. PlanInv'
    BY DEF PlanInv, Publishing, DestinationOf
  <2>2. Managed' = Managed /\ Desired(target)' = Desired(target)
    BY DEF Managed, Desired, DestinationOf
  <2>3. SweepInv' /\ UnlinkInv'
    BY <2>2 DEF SweepInv, UnlinkInv
  <2>4. LinkInv' /\ StepInv'
    BY DEF LinkInv, StepInv, Undisturbed
  <2>5. QED
    BY <2>1, <2>3, <2>4 DEF Rest
<1>5. CASE Crash
  BY <1>5, IdleRest DEF Crash
<1>6. CASE UNCHANGED vars
  <2> USE <1>6 DEF vars, envVars, planVars, linkVars, tidyVars, histVars
  <2>1. PlanInv'
    BY DEF PlanInv, Publishing, DestinationOf
  <2>2. Managed' = Managed /\ Desired(target)' = Desired(target)
    BY DEF Managed, Desired, DestinationOf
  <2>3. SweepInv' /\ UnlinkInv'
    BY <2>2 DEF SweepInv, UnlinkInv
  <2>4. LinkInv' /\ StepInv'
    BY DEF LinkInv, StepInv, Undisturbed, DestinationOf
  <2>5. QED
    BY <2>1, <2>3, <2>4 DEF Rest
<1>7. QED
  BY <1>2, <1>3, <1>4, <1>5, <1>6 DEF Next, Environment

\* Every reachable state, of any file system, declarations and scopes, is well
\* typed, and a pass names only objects it planned, holds its proof of the
\* canonical names until something external happens, and without a race acts on
\* what it verified.
THEOREM Invariant == Spec => []IInv
<1>1. Init => IInv
  BY InitType, IdleRest
     DEF Init, IInv, PlanInv, Publishing, LinkInv, SweepInv, UnlinkInv, StepInv
<1>2. IInv /\ [Next]_vars => IInv'
  BY NextType, NextRest DEF IInv, Rest
<1>3. QED
  BY <1>1, <1>2, PTL DEF Spec

\* Type correctness.
THEOREM Types == Spec => []TypeOK
<1>1. IInv => TypeOK
  BY DEF IInv
<1>2. QED
  BY <1>1, Invariant, PTL

-----------------------------------------------------------------------------
(* What a step may never do.                                               *)

\* A step that is not an event is a step of the program, and the program changes
\* names only by linking, by taking a link back and by unlinking.
LEMMA NameSteps ==
  ASSUME TypeOK, [Next]_vars, events' = events, names' # names
  PROVE  LinkAt \/ VerifyLink \/ Unlink
<1>1. ~ Environment
  <2>1. events + 1 # events
    BY BoundAssumption DEF TypeOK
  <2>2. QED
    BY <2>1 DEF Environment, Edit, External, Crash
<1>2. ~ UNCHANGED vars
  BY DEF vars, envVars
<1>3. ASSUME NEW scopes, NEW all, Begin(scopes, all) PROVE FALSE
  BY <1>3 DEF Begin
<1>4. Pass
  BY <1>1, <1>2, <1>3 DEF Next, System, BeginCycle, PutEntry
<1>5. QED
  BY <1>4 DEF Pass, Walk, Refresh, PlanLocal, PlanTask, SkipTask, Finish, OpenSource,
              EndApply, Prove, OpenStale, EndSweep, EndScope, envVars

LEMMA NeverReplacesStep ==
  ASSUME IInv, [Next]_vars, events' = events,
         NEW n \in Name, names'[n] # names[n]
  PROVE  n \in Library /\ NoObject \in {names[n], names'[n]}
<1>0. TypeOK /\ PlanInv /\ LinkInv /\ UnlinkInv
  BY DEF IInv
<1>1. LinkAt \/ VerifyLink \/ Unlink
  BY <1>0, NameSteps
<1>2. CASE LinkAt
  BY <1>0, <1>2 DEF LinkAt, LinkInv, PlanInv, Publishing, TypeOK
<1>3. CASE VerifyLink
  BY <1>0, <1>3 DEF VerifyLink, LinkInv, PlanInv, Publishing, TypeOK
<1>4. CASE Unlink
  BY <1>0, <1>4, ScopeAssumption DEF Unlink, UnlinkInv, PlanInv, Publishing, TypeOK
<1>5. QED
  BY <1>1, <1>2, <1>3, <1>4

\* Whatever the environment does, between any two system calls, the program never
\* puts an object under a name in use and never changes a source name.
THEOREM NeverReplacing == Spec => NeverReplaces
<1>1. IInv /\ [Next]_vars =>
        [events' = events =>
           \A n \in Name : names'[n] # names[n] =>
              n \in Library /\ NoObject \in {names[n], names'[n]}]_vars
  BY NeverReplacesStep
<1>2. QED
  BY <1>1, Invariant, PTL DEF Spec, NeverReplaces

\* As long as nothing changed between the check and the unlinkat(2), what goes is
\* a checked stale name of the object being cleaned, and nothing is taken back.
LEMMA RemovalStep ==
  ASSUME IInv, [Next]_vars, events' = events, Undisturbed,
         NEW d \in Library, Removed(d)
  PROVE  /\ Unlink
         /\ names[d] = target
         /\ d = victim
         /\ names' = [names EXCEPT ![victim] = NoObject]
         /\ target \in Managed
         /\ victim \in Root[scope] \ Desired(target)
<1>0. TypeOK /\ PlanInv /\ LinkInv /\ SweepInv /\ UnlinkInv /\ StepInv
  BY DEF IInv
<1>1. d \in Name /\ names' # names
  BY DEF Removed, Name
<1>2. LinkAt \/ VerifyLink \/ Unlink
  BY <1>0, <1>1, NameSteps
<1>3. ~ LinkAt
  BY <1>0, <1>1 DEF LinkAt, Removed, TypeOK
<1>4. ~ VerifyLink
  BY <1>0, <1>1 DEF VerifyLink, Removed, StepInv
<1>5. Unlink
  BY <1>2, <1>3, <1>4
<1>6. d = victim
  BY <1>0, <1>1, <1>5 DEF Unlink, Removed, TypeOK
<1>7. QED
  BY <1>0, <1>5, <1>6 DEF Unlink, StepInv, SweepInv, UnlinkInv

\* With or without races, and whatever other scopes want, a canonical name proven
\* in place stays while the other names of its object go.
THEOREM KeepingCanonical == Spec => KeepsCanonical
<1>1. ASSUME IInv, [Next]_vars, events' = events, fresh,
             NEW d \in Library, Removed(d), NEW c \in Desired(names[d])
      PROVE  c # d /\ names'[c] = names[d]
  <2>1. Undisturbed
    BY <1>1 DEF Undisturbed
  <2>2. /\ Unlink
        /\ names[d] = target
        /\ d = victim
        /\ names' = [names EXCEPT ![victim] = NoObject]
        /\ victim \in Root[scope] \ Desired(target)
    BY <1>1, <2>1, RemovalStep
  <2>3. c # d
    BY <1>1, <2>2
  <2>4. c \in Name /\ names[c] = target
    BY <1>1, <2>2 DEF IInv, SweepInv, PlanInv, Publishing, Unlink, Desired, Name
  <2>5. QED
    BY <1>1, <2>2, <2>3, <2>4 DEF IInv, TypeOK
<1>2. IInv /\ [Next]_vars =>
        [events' = events /\ fresh =>
           \A d \in Library : Removed(d) =>
              \A c \in Desired(names[d]) : c # d /\ names'[c] = names[d]]_vars
  BY <1>1
<1>3. QED
  BY <1>2, Invariant, PTL DEF Spec, KeepsCanonical

\* When no name changes between two system calls of a link or of a removal, all
\* the program removes is stale names of objects it manages.
THEOREM RemovingOnlyStaleNames ==
  ASSUME ~RaceWindows
  PROVE  Spec => RemovesOnlyStaleNames
<1>1. ASSUME IInv, [Next]_vars, events' = events, NEW d \in Library, Removed(d)
      PROVE  /\ d \in Root[scope]
             /\ names[d] \in Managed
             /\ d \notin Desired(names[d])
  BY <1>1, RemovalStep DEF Undisturbed
<1>2. IInv /\ [Next]_vars =>
        [events' = events =>
           \A d \in Library : Removed(d) =>
              /\ d \in Root[scope]
              /\ names[d] \in Managed
              /\ d \notin Desired(names[d])]_vars
  BY <1>1
<1>3. QED
  BY <1>2, Invariant, PTL DEF Spec, RemovesOnlyStaleNames

-----------------------------------------------------------------------------
(* What a cycle leaves behind.  While nobody disturbs it, a cycle plans     *)
(* every scope from the trees as they were when it began, and knows what    *)
(* has become of them: names are as they were, gone, or as some scope       *)
(* wants them.  So the plans of all scopes that have an object agree, and   *)
(* no scope takes back what another did for it.                            *)

Steady  == full /\ quiet /\ pc # "walk"
Known(tree) == IF tree = "source" THEN Source ELSE Library
Decided ==
  /\ object = [p \in Source |-> IF p \in Files[scope] THEN seen[p] ELSE NoObject]
  /\ action = [p \in Source |-> Decision(scope, p, object)]
Wanted(d, o) == \E t \in Scope : \E p \in Files[t] : seen[p] = o /\ layout[t][p] = d

WalkInv ==
  /\ layout \in Layouts
  /\ pc = "walk" /\ full => queue = Scope
  /\ pc = "idle" /\ quiet => queue = {}
  /\ pc = "walk" /\ quiet =>
       /\ walked # {"source", "library"}
       /\ \A tree \in walked : \A n \in Known(tree) : seen[n] = names[n]

SteadyInv ==
  Steady =>
    /\ \A p \in Source : names[p] = seen[p]
    /\ \A d \in Library : names[d] \in {seen[d], NoObject} \/ Wanted(d, names[d])
    /\ pc = "verify" => names[DestinationOf(item)] = object[item]
    /\ pc = "unlink" => names[victim] = target
    /\ queue \cap Local # {} \/ (Publishing /\ scope \in Local) =>
         \A d \in Library : aliases[d] = seen[d]
    /\ Publishing => Decided

Harmony == Agreeing(seen)
Canon(s, o) == Canonical(s, o, seen)
Marked(s, o) ==
  s \in Local /\ o \in Object /\ Uncontested(s, o, seen) /\ \E p \in Files[s] : seen[p] = o

\* A canonical name still to be made, and another name still to be removed.
Linking(s, o, d) ==
  /\ scope = s
  /\ \E p \in Source :
       /\ object[p] = o /\ DestinationOf(p) = d
       /\ \/ pc \in {"apply", "linkat", "verify"} /\ p \in links
          \/ pc = "linkat" /\ p = item
Tidying(s, o, d) ==
  /\ scope = s
  /\ \/ pc \in {"apply", "linkat", "verify"}
     \/ pc \in {"prove", "sweep", "unlink"} /\ o \in sweep
     \/ pc \in {"sweep", "unlink"} /\ target = o /\ d \in stale
     \/ pc = "unlink" /\ target = o /\ d = victim

Keeps(s, o) == \A d \in Canon(s, o) : seen[d] = o => names[d] = o
Leaves(s, o) ==
  /\ \A d \in Canon(s, o) : names[d] = o \/ Linking(s, o, d)
  /\ \A d \in Root[s] : names[d] = o => d \in Canon(s, o) \/ Tidying(s, o, d)

CanonInv ==
  Steady /\ Harmony =>
    \A s \in Local, o \in Object :
      Marked(s, o) => Keeps(s, o) /\ (s \notin queue => Leaves(s, o))

LEMMA DecidedObject ==
  ASSUME Decided
  PROVE  \A p \in Source : object[p] = IF p \in Files[scope] THEN seen[p] ELSE NoObject
BY DEF Decided

LEMMA LocalNoTask == \A t \in Task : t \notin Local
BY ScopeAssumption

LEMMA WalkInit == Init => WalkInv /\ SteadyInv /\ CanonInv
BY DEF Init, WalkInv, SteadyInv, CanonInv, Steady

LEMMA WalkStep == IInv /\ WalkInv /\ [Next]_vars => WalkInv'
<1> SUFFICES ASSUME IInv, WalkInv, [Next]_vars PROVE WalkInv'
  OBVIOUS
<1>0. TypeOK
  BY DEF IInv
<1>1. CASE System /\ ~Pass
  BY <1>1 DEF System, BeginCycle, PutEntry, Begin, WalkInv
<1>2. ASSUME NEW tree \in {"source", "library"}, Walk(tree) PROVE WalkInv'
  <2>1. /\ walked' = walked \cup {tree} /\ pc = "walk"
        /\ pc' \in {"walk", "visit"} /\ (pc' = "walk" => walked' # {"source", "library"})
        /\ UNCHANGED <<names, layout, queue, full, quiet>>
    BY <1>2 DEF Walk, envVars, histVars
  <2>2. \A n \in Name : seen'[n] = IF n \in Known(tree) THEN names[n] ELSE seen[n]
    BY <1>2 DEF Walk, Observed, Known
  <2>3. \A x \in walked' : Known(x) \subseteq Name
    BY DEF Known, Name
  <2> QED BY <2>1, <2>2, <2>3 DEF WalkInv
<1>3. CASE Pass /\ pc # "walk"
  <2>1. pc' # "walk" /\ layout' = layout /\ (pc' = "idle" => queue' = {})
    BY <1>3 DEF Pass, Walk, Refresh, PlanLocal, PlanTask, SkipTask, Plan, Finish, OpenSource, LinkAt,
       VerifyLink, EndApply, Prove, OpenStale, Unlink, EndSweep, EndScope, envVars, snapVars
  <2> QED BY <2>1 DEF WalkInv
<1>4. CASE Pass /\ pc = "walk"
  BY <1>2, <1>4 DEF Pass, Refresh, PlanLocal, PlanTask, SkipTask, Finish, OpenSource, LinkAt,
     VerifyLink, EndApply, Prove, OpenStale, Unlink, EndSweep, EndScope
<1>5. CASE Environment
  BY <1>5 DEF Environment, Edit, External, Crash, WalkInv, snapVars
<1>6. CASE UNCHANGED vars
  BY <1>6 DEF vars, envVars, snapVars, histVars, WalkInv, Known
<1> QED BY <1>1, <1>3, <1>4, <1>5, <1>6 DEF Next

-----------------------------------------------------------------------------
(* Plans agree. *)

\* A name an uncontested object is to have is no other object's.
LEMMA CanonFree ==
  ASSUME TypeOK, SteadyInv, Steady, NEW s, NEW o, Marked(s, o), NEW d \in Canon(s, o)
  PROVE  /\ d \in Library
         /\ seen[d] \in {NoObject, o}
         /\ names[d] \in {NoObject, o}
         /\ \A t \in Scope : \A q \in Files[t] : layout[t][q] = d => seen[q] \in {NoObject, o}
<1>1. d \in Library /\ \E p \in Files[s] : seen[p] = o /\ layout[s][p] = d
  BY DEF Canon, Canonical
<1>2. seen[d] \in {NoObject, o}
  BY <1>1 DEF Marked, Uncontested
<1>3. \A t \in Scope : \A q \in Files[t] : layout[t][q] = d => seen[q] \in {NoObject, o}
  BY DEF Marked, Uncontested, Canon
<1>4. names[d] \in {NoObject, o}
  BY <1>1, <1>2, <1>3 DEF SteadyInv, Wanted
<1> QED BY <1>1, <1>2, <1>3, <1>4

\* All scopes that have the object want the same names for it.
LEMMA CanonShared ==
  ASSUME Harmony, NEW s, NEW o, Marked(s, o), NEW t \in Scope, NEW p \in Files[t], seen[p] = o
  PROVE  Canon(t, o) = Canon(s, o)
<1>1. PICK q \in Files[s] : seen[q] = o
  BY DEF Marked
<1>2. s \in Scope /\ o # NoObject
  BY DEF Marked, Scope, Uncontested
<1> QED BY <1>1, <1>2 DEF Harmony, Agreeing, Canon

\* Every scope plans to give it those.
LEMMA CanonPlanned ==
  ASSUME TypeOK, SteadyInv, Steady, Harmony, NEW s, NEW o, Marked(s, o),
         NEW t \in Scope, NEW taken,
         taken = [p \in Source |-> IF p \in Files[t] THEN seen[p] ELSE NoObject],
         NEW p \in Source, taken[p] = o
  PROVE  /\ p \in Files[t] /\ seen[p] = o
         /\ layout[t][p] \in Library <=> Decision(t, p, taken) \in {"link", "existing"}
         /\ Decision(t, p, taken) = "existing" => seen[layout[t][p]] = o
         /\ layout[t][p] = Excluded => Decision(t, p, taken) = "excluded"
         /\ layout[t][p] \in Library => layout[t][p] \in Canon(s, o)
<1>0. o # NoObject /\ Files[t] \subseteq Source
  BY ScopeAssumption DEF Marked, Uncontested
<1>1. p \in Files[t] /\ seen[p] = o
  BY <1>0
<1>2. layout[t][p] \in Library \cup {Excluded, Unmatched}
  BY DEF TypeOK, Layout, Target
<1>3. CASE layout[t][p] \notin Library
  <2>1. Decision(t, p, taken) = layout[t][p]
    BY <1>0, <1>1, <1>2, <1>3 DEF Decision
  <2> QED BY <1>1, <1>2, <1>3, <2>1 DEF Excluded, Unmatched
<1>4. CASE layout[t][p] \in Library
  <2>1. layout[t][p] \in Canon(s, o)
    <3>1. layout[t][p] \in Canon(t, o)
      BY <1>1, <1>4 DEF Canon, Canonical
    <3> QED BY <1>1, <3>1, CanonShared
  <2>2. \A q \in Sharing(t, p, taken) : q \in Source /\ q \in Files[t] /\ taken[q] = o /\ seen[q] = o
    <3> SUFFICES ASSUME NEW q \in Sharing(t, p, taken)
                 PROVE  q \in Source /\ q \in Files[t] /\ taken[q] = o /\ seen[q] = o
      OBVIOUS
    <3>1. q \in Files[t] /\ q \in Source /\ taken[q] # NoObject /\ layout[t][q] = layout[t][p]
      BY <1>0 DEF Sharing
    <3>2. taken[q] = seen[q]
      BY <3>1
    <3>3. seen[q] \in {NoObject, o}
      BY <2>1, <3>1, CanonFree
    <3> QED BY <3>1, <3>2, <3>3
  <2>3. ~Outranked(t, p, taken)
    <3>1. CASE t \in Movie
      <4>1. \A q \in Sharing(t, p, taken) : q = p
        BY <1>1, <2>2, <3>1 DEF Marked, Uncontested
      <4>2. p \in Sharing(t, p, taken)
        BY <1>0, <1>1 DEF Sharing
      <4> QED BY <3>1, <4>1, <4>2 DEF Outranked
    <3>2. CASE t \notin Movie
      BY <2>2, <3>2 DEF Outranked
    <3> QED BY <3>1, <3>2
  <2>4. ~Contested(t, p, taken)
    BY <2>1, <2>3, CanonFree DEF Contested
  <2>5. layout[t][p] \notin {Excluded, Unmatched}
    BY <1>4, NameAssumption
  <2>6. Decision(t, p, taken) = IF seen[layout[t][p]] = taken[p] THEN "existing" ELSE "link"
    BY <1>0, <1>1, <2>4, <2>5 DEF Decision
  <2> QED BY <1>1, <1>4, <2>1, <2>5, <2>6
<1> QED BY <1>2, <1>3, <1>4

\* And so what it plans for the object is what the object is to have.
LEMMA CanonDesired ==
  ASSUME TypeOK, PlanInv, SteadyInv, Steady, Harmony, Publishing, NEW s, NEW o, Marked(s, o)
  PROVE  /\ Desired(o) \subseteq Canon(s, o)
         /\ o \in Managed => Desired(o) = Canon(s, o)
         /\ s = scope => o \in Managed
<1>0. scope \in Scope /\ Decided
  BY DEF PlanInv, SteadyInv
<1>1. \A p \in Source : object[p] = o =>
         /\ p \in Files[scope] /\ seen[p] = o
         /\ DestinationOf(p) \in Library <=> action[p] \in {"link", "existing"}
         /\ DestinationOf(p) = Excluded => action[p] = "excluded"
         /\ DestinationOf(p) \in Library => DestinationOf(p) \in Canon(s, o)
  BY <1>0, CanonPlanned DEF Decided, DestinationOf
<1>2. Files[scope] \subseteq Source
  BY <1>0, ScopeAssumption
<1>3. Desired(o) \subseteq Canon(s, o)
  BY <1>1 DEF Desired
<1>4. ASSUME o \in Managed PROVE Canon(s, o) \subseteq Desired(o)
  <2>1. PICK p \in Source : object[p] = o
    BY <1>4 DEF Managed
  <2>2. Canon(s, o) = Canon(scope, o)
    BY <1>0, <1>1, <2>1, CanonShared
  <2>3. SUFFICES ASSUME NEW q \in Files[scope], seen[q] = o, DestinationOf(q) \in Library
                 PROVE  DestinationOf(q) \in Desired(o)
    BY <2>2 DEF Canon, Canonical, DestinationOf
  <2>4. q \in Source /\ object[q] = o
    BY <1>0, <1>2, <2>3, DecidedObject
  <2>5. action[q] \in {"link", "existing"}
    BY <1>1, <2>3, <2>4
  <2> QED BY <2>4, <2>5 DEF Desired
<1>5. ASSUME s = scope PROVE o \in Managed
  <2>1. PICK p \in Files[s] : seen[p] = o /\ layout[s][p] # Unmatched
    BY DEF Marked, Uncontested
  <2>2. p \in Source /\ object[p] = o
    BY <1>0, <1>2, <1>5, <2>1 DEF Decided
  <2>3. DestinationOf(p) \in Library \cup {Excluded}
    BY <1>0, <1>5, <2>1, <2>2 DEF DestinationOf, TypeOK, Layout, Target
  <2> QED BY <1>1, <2>2, <2>3 DEF Managed
<1> QED BY <1>3, <1>4, <1>5

-----------------------------------------------------------------------------
(* The pass as seen by the invariants: what its steps leave alone. *)

LEMMA SteadyFrame ==
  ASSUME Pass, Steady
  PROVE  Steady' /\ UNCHANGED <<layout, seen>> /\ ~ \E tree \in {"source", "library"} : Walk(tree)
BY DEF Pass, Steady, Walk, Refresh, PlanLocal, PlanTask, SkipTask, Plan, Finish, OpenSource, LinkAt,
   VerifyLink, EndApply, Prove, OpenStale, Unlink, EndSweep, EndScope, envVars, snapVars, histVars

LEMMA FactsFrame ==
  ASSUME UNCHANGED <<layout, seen>>
  PROVE  /\ Harmony' = Harmony
         /\ \A s, o : Canon(s, o)' = Canon(s, o) /\ Marked(s, o)' = Marked(s, o)
<1>1. Harmony' = Harmony
  BY DEF Harmony, Agreeing, Canonical
<1>2. \A s, o : Canon(s, o)' = Canon(s, o)
  BY DEF Canon, Canonical
<1>3. \A s, o : Marked(s, o)' = Marked(s, o)
  BY DEF Marked, Uncontested, Canonical
<1> QED BY <1>1, <1>2, <1>3

LEMMA DecidedFrame ==
  ASSUME UNCHANGED <<layout, seen, scope, object, action>>, Decided
  PROVE  Decided'
BY DEF Decided, Decision, Contested, Outranked, Sharing

\* Only a link and an unlinked name change the file system, and the link is of an
\* object that is to have the name.
LEMMA SteadyLink ==
  ASSUME TypeOK, PlanInv, LinkInv, SteadyInv, Steady, pc \in {"linkat", "verify"}
  PROVE  /\ item \in Source /\ item \in Files[scope] /\ scope \in Scope
         /\ DestinationOf(item) \in Library
         /\ object[item] = seen[item] /\ names[item] = seen[item] /\ seen[item] \in Object
<1>1. item \in Source /\ action[item] = "link" /\ scope \in Scope /\ Decided
  BY DEF LinkInv, PlanInv, Publishing, SteadyInv
<1>2. DestinationOf(item) \in Library /\ object[item] \in Object
  BY <1>1 DEF PlanInv, Publishing
<1>3. Decision(scope, item, object) # "none"
  BY <1>1 DEF Decided
<1>4. item \in Files[scope]
  BY <1>3 DEF Decision
<1> QED BY <1>1, <1>2, <1>4 DEF Decided, SteadyInv

LEMMA SteadyNames ==
  ASSUME IInv, SteadyInv, Steady, Pass
  PROVE  \/ names' = names
         \/ /\ LinkAt /\ pc' = "verify" /\ names[DestinationOf(item)] = NoObject
            /\ names' = [names EXCEPT ![DestinationOf(item)] = seen[item]]
         \/ Unlink /\ names' = [names EXCEPT ![victim] = NoObject] /\ names[victim] = target
<1>1. CASE LinkAt
  BY <1>1, SteadyLink DEF LinkAt, IInv
<1>2. CASE VerifyLink
  BY <1>2 DEF VerifyLink, SteadyInv
<1>3. CASE Unlink
  BY <1>3 DEF Unlink, SteadyInv
<1> QED BY <1>1, <1>2, <1>3, SteadyFrame DEF Pass, Walk, Refresh, PlanLocal, PlanTask, SkipTask,
        Finish, OpenSource, EndApply, Prove, OpenStale, EndSweep, EndScope, envVars

LEMMA SteadyStep ==
  ASSUME IInv, WalkInv, SteadyInv, [Next]_vars
  PROVE  SteadyInv'
<1>0. TypeOK /\ PlanInv /\ LinkInv /\ UnlinkInv
  BY DEF IInv
<1> SUFFICES ASSUME Steady' PROVE SteadyInv'
  BY DEF SteadyInv
<1>1. CASE System /\ ~Pass
  BY <1>1 DEF System, BeginCycle, PutEntry, Begin, Steady
<1>2. CASE Environment
  BY <1>2 DEF Environment, Edit, External, Crash, Steady
<1>3. CASE UNCHANGED vars
  <2>1. /\ Steady
        /\ UNCHANGED <<names, seen, layout, pc, item, object, action, victim, target, queue, scope, aliases>>
    BY <1>3 DEF vars, envVars, snapVars, planVars, linkVars, tidyVars, histVars, Steady
  <2>2. Decided => Decided'
    BY <2>1, DecidedFrame
  <2> QED BY <2>1, <2>2 DEF SteadyInv, Wanted, Publishing, DestinationOf
<1>4. ASSUME NEW tree \in {"source", "library"}, Walk(tree) PROVE SteadyInv'
  <2>1. pc = "walk" /\ pc' = "visit" /\ walked' = {"source", "library"} /\ names' = names /\ quiet
    BY <1>4 DEF Walk, Steady, envVars, histVars
  <2>2. \A n \in Name : seen'[n] = names[n]
    BY <1>4, <2>1 DEF Walk, Observed, WalkInv, Known, Name
  <2>3. \A d \in Library : aliases'[d] = seen'[d]
    BY <1>4 DEF Walk
  <2>4. \A n \in Source \cup Library : n \in Name
    BY DEF Name
  <2> QED BY <2>1, <2>2, <2>3, <2>4 DEF SteadyInv, Publishing
<1>5. CASE Pass /\ Steady
  <2>0. UNCHANGED <<layout, seen>> /\ ~ \E tree \in {"source", "library"} : Walk(tree)
    BY <1>5, SteadyFrame
  <2>1. \A p \in Source : names'[p] = seen'[p]
    <3> SUFFICES ASSUME NEW p \in Source PROVE names'[p] = names[p]
      BY <1>5, <2>0 DEF SteadyInv
    <3>1. p \notin Library /\ p \in Name
      BY NameAssumption DEF Name
    <3>2. CASE LinkAt
      BY <1>0, <1>5, <3>1, <3>2, SteadyLink, SteadyNames DEF TypeOK, LinkAt
    <3>3. CASE Unlink
      <4>1. victim \in Library
        BY <1>0, <3>3, ScopeAssumption DEF UnlinkInv, Unlink, PlanInv, Publishing
      <4> QED BY <1>0, <1>5, <3>1, <3>3, <4>1 DEF TypeOK, Unlink
    <3> QED BY <1>5, <3>2, <3>3, SteadyNames
  <2>2. \A d \in Library : names'[d] \in {seen[d], NoObject} \/ Wanted(d, names'[d])
    <3> SUFFICES ASSUME NEW d \in Library, names'[d] # names[d], names'[d] # NoObject
                 PROVE  Wanted(d, names'[d])
      BY <1>5 DEF SteadyInv
    <3>0. d \in Name
      BY DEF Name
    <3>1. LinkAt /\ names' = [names EXCEPT ![DestinationOf(item)] = seen[item]]
      BY <1>0, <1>5, <3>0, SteadyNames DEF TypeOK
    <3>2. d = DestinationOf(item) /\ names'[d] = seen[item]
      BY <1>0, <3>0, <3>1 DEF TypeOK
    <3> QED BY <1>0, <1>5, <3>1, <3>2, SteadyLink DEF Wanted, LinkAt, DestinationOf
  <2>7. (\A d \in Library : names[d] \in {seen[d], NoObject} \/ Wanted(d, names[d]))'
    BY <2>0, <2>2 DEF Wanted
  <2>3. (pc = "verify" => names[DestinationOf(item)] = object[item])'
    <3>1. CASE LinkAt /\ pc' = "verify"
      <4>1. /\ UNCHANGED <<item, object, scope>>
            /\ names' = [names EXCEPT ![DestinationOf(item)] = seen[item]]
        BY <1>0, <1>5, <3>1, SteadyLink DEF LinkAt, planVars
      <4>2. DestinationOf(item) \in Name /\ object[item] = seen[item]
        BY <1>0, <1>5, <3>1, SteadyLink DEF LinkAt, Name
      <4>3. DestinationOf(item)' = DestinationOf(item)
        BY <2>0, <4>1 DEF DestinationOf
      <4> QED BY <1>0, <4>1, <4>2, <4>3 DEF TypeOK
    <3> QED BY <1>5, <2>0, <3>1 DEF Pass, Refresh, PlanLocal, PlanTask, SkipTask, Plan, Finish,
            OpenSource, LinkAt, VerifyLink, EndApply, Prove, OpenStale, Unlink, EndSweep, EndScope
  <2>4. (pc = "unlink" => names[victim] = target)'
    BY <1>5, <2>0 DEF Pass, Refresh, PlanLocal, PlanTask, SkipTask, Plan, Finish,
       OpenSource, LinkAt, VerifyLink, EndApply, Prove, OpenStale, Unlink, EndSweep, EndScope, envVars
  <2>5. (queue \cap Local # {} \/ (Publishing /\ scope \in Local) =>
           \A d \in Library : aliases[d] = seen[d])'
    <3>1. CASE Refresh
      BY <3>1 DEF Refresh, Publishing, planVars
    <3>2. CASE ~Refresh
      <4>1. /\ aliases' = aliases /\ queue' \subseteq queue
            /\ Publishing' => (Publishing /\ scope' = scope) \/ \E s \in queue : scope' = s
        BY <1>5, <2>0, <3>2 DEF Pass, PlanLocal, PlanTask, SkipTask, Plan, Finish, NextScope,
           OpenSource, LinkAt, VerifyLink, EndApply, Prove, OpenStale, Unlink, EndSweep, EndScope,
           Publishing, snapVars, planVars
      <4> QED BY <1>5, <2>0, <4>1 DEF SteadyInv
    <3> QED BY <3>1, <3>2
  <2>6. Publishing' => Decided'
    <3>1. ASSUME NEW s \in Local, PlanLocal(s) PROVE Decided'
      <4>1. object' = [p \in Source |-> IF p \in Files[s] THEN seen[p] ELSE NoObject] /\ scope' = s
            /\ action' = [p \in Source |-> Decision(s, p, object')]
        BY <3>1 DEF PlanLocal, Plan
      <4> QED BY <2>0, <4>1 DEF Decided, Decision, Contested, Outranked, Sharing
    <3>2. ASSUME NEW s \in Task, PlanTask(s) PROVE Decided'
      <4>1. object' = [p \in Source |-> IF p \in Files[s] THEN names[p] ELSE NoObject] /\ scope' = s
            /\ action' = [p \in Source |-> Decision(s, p, object')]
        BY <3>2 DEF PlanTask, Plan
      <4>2. object' = [p \in Source |-> IF p \in Files[s] THEN seen[p] ELSE NoObject]
        BY <1>5, <4>1 DEF SteadyInv
      <4> QED BY <2>0, <4>1, <4>2 DEF Decided, Decision, Contested, Outranked, Sharing
    <3>3. ASSUME UNCHANGED planVars, Publishing PROVE Decided'
      BY <1>5, <2>0, <3>3, DecidedFrame DEF SteadyInv, planVars
    <3> QED BY <1>5, <2>0, <3>1, <3>2, <3>3 DEF Pass, Refresh, SkipTask, Finish,
            OpenSource, LinkAt, VerifyLink, EndApply, Prove, OpenStale, Unlink, EndSweep, EndScope,
            Publishing
  <2> QED BY <2>1, <2>3, <2>4, <2>5, <2>6, <2>7 DEF SteadyInv
<1>6. CASE Pass /\ ~Steady
  <2>1. pc = "walk"
    BY <1>6 DEF Pass, Steady, Walk, Refresh, PlanLocal, PlanTask, SkipTask, Plan, Finish, OpenSource,
       LinkAt, VerifyLink, EndApply, Prove, OpenStale, Unlink, EndSweep, EndScope, snapVars, histVars
  <2> QED BY <1>4, <1>6, <2>1 DEF Pass, Refresh, PlanLocal, PlanTask, SkipTask, Finish, OpenSource,
       LinkAt, VerifyLink, EndApply, Prove, OpenStale, Unlink, EndSweep, EndScope
<1> QED BY <1>1, <1>2, <1>3, <1>5, <1>6 DEF Next

-----------------------------------------------------------------------------
(* What has been brought about stays. *)

\* No step takes a canonical name from its object, or gives the object another.
LEMMA CanonStays ==
  ASSUME IInv, SteadyInv, Steady, Harmony, Pass, NEW s \in Local, NEW o \in Object, Marked(s, o)
  PROVE  /\ \A d \in Canon(s, o) : names[d] = o => names'[d] = o
         /\ \A d \in Library : names'[d] = o => names[d] = o \/ d \in Canon(s, o)
<1>0. TypeOK /\ PlanInv /\ LinkInv /\ SweepInv /\ UnlinkInv /\ o # NoObject
  BY NameAssumption DEF IInv
<1>1. \A d \in Library : d \in Name
  BY DEF Name
<1>2. CASE names' = names
  BY <1>2
<1>3. CASE LinkAt /\ pc' = "verify" /\ names' = [names EXCEPT ![DestinationOf(item)] = seen[item]]
           /\ names[DestinationOf(item)] = NoObject
  <2>1. \A d \in Canon(s, o) : names[d] = o => names'[d] = o
    BY <1>0, <1>1, <1>3, CanonFree DEF TypeOK
  <2>2. ASSUME NEW d \in Library, names'[d] = o, names[d] # o PROVE d \in Canon(s, o)
    <3>1. d = DestinationOf(item) /\ seen[item] = o
      BY <1>0, <1>1, <1>3, <2>2 DEF TypeOK
    <3>2. scope \in Scope /\ item \in Files[scope] /\ DestinationOf(item) \in Library
      BY <1>0, <1>3, SteadyLink DEF LinkAt
    <3>3. d \in Canon(scope, o)
      BY <3>1, <3>2 DEF Canon, Canonical, DestinationOf
    <3> QED BY <3>1, <3>2, <3>3, CanonShared
  <2> QED BY <2>1, <2>2
<1>4. CASE Unlink /\ names' = [names EXCEPT ![victim] = NoObject] /\ names[victim] = target
  <2>1. Publishing /\ target \in Managed /\ victim \notin Desired(target)
    BY <1>0, <1>4 DEF Unlink, Publishing, SweepInv, UnlinkInv
  <2>2. ASSUME target = o PROVE victim \notin Canon(s, o)
    BY <1>0, <2>1, <2>2, CanonDesired
  <2>3. \A d \in Canon(s, o) : d \in Library
    BY <1>0, CanonFree
  <2> QED BY <1>0, <1>1, <1>4, <2>2, <2>3 DEF TypeOK
<1> QED BY <1>2, <1>3, <1>4, SteadyNames

LEMMA KeepsStep ==
  ASSUME IInv, SteadyInv, CanonInv, Steady, Harmony, Pass,
         NEW s \in Local, NEW o \in Object, Marked(s, o)
  PROVE  Keeps(s, o)'
<1>1. Keeps(s, o)
  BY DEF CanonInv
<1>2. seen' = seen /\ Canon(s, o)' = Canon(s, o)
  BY SteadyFrame, FactsFrame
<1> QED BY <1>1, <1>2, CanonStays DEF Keeps

\* A scope that has been visited.
LEMMA LeavesDone ==
  ASSUME IInv, SteadyInv, CanonInv, Steady, Harmony, Pass,
         NEW s \in Local, NEW o \in Object, Marked(s, o), s \notin queue,
         ~Publishing \/ scope # s
  PROVE  Leaves(s, o)'
<1>1. Leaves(s, o)
  BY DEF CanonInv
<1>2. \A d : ~Linking(s, o, d) /\ ~Tidying(s, o, d)
  BY DEF Linking, Tidying, Publishing
<1>3. seen' = seen /\ Canon(s, o)' = Canon(s, o)
  BY SteadyFrame, FactsFrame
<1>4. Root[s] \subseteq Library
  BY ScopeAssumption DEF Scope
<1> QED BY <1>1, <1>2, <1>3, <1>4, CanonStays DEF Leaves

\* A scope that is planned has everything to do.
LEMMA LeavesPlanned ==
  ASSUME IInv, SteadyInv, CanonInv, Steady, Harmony,
         NEW s \in Local, NEW o \in Object, Marked(s, o), PlanLocal(s)
  PROVE  Leaves(s, o)'
<1>0. TypeOK /\ s \in Scope /\ o # NoObject /\ Files[s] \subseteq Source
  BY NameAssumption, ScopeAssumption DEF IInv, Scope
<1> DEFINE taken == [p \in Source |-> IF p \in Files[s] THEN seen[p] ELSE NoObject]
<1>1. /\ scope' = s /\ object' = taken /\ pc' = "apply"
      /\ \A p \in Source : action'[p] = Decision(s, p, taken)
      /\ links' = {p \in Source : action'[p] = "link"}
      /\ UNCHANGED <<names, layout, seen>>
  BY DEF PlanLocal, Plan, envVars
<1>2. Canon(s, o)' = Canon(s, o)
  BY <1>1, FactsFrame
<1>3. ASSUME NEW d \in Canon(s, o), names[d] # o PROVE Linking(s, o, d)'
  <2>1. PICK p \in Files[s] : seen[p] = o /\ layout[s][p] = d /\ d \in Library
    BY DEF Canon, Canonical
  <2>2. p \in Source /\ taken[p] = o
    BY <1>0, <2>1
  <2>3. /\ Decision(s, p, taken) \in {"link", "existing"}
        /\ Decision(s, p, taken) = "existing" => seen[d] = o
    BY <1>0, <2>1, <2>2, CanonPlanned
  <2>4. seen[d] # o
    BY <1>3 DEF CanonInv, Keeps
  <2>5. p \in links'
    BY <1>1, <2>2, <2>3, <2>4
  <2> QED BY <1>1, <2>1, <2>2, <2>5 DEF Linking, DestinationOf
<1>4. \A d : Tidying(s, o, d)'
  BY <1>1 DEF Tidying
<1> QED BY <1>1, <1>2, <1>3, <1>4 DEF Leaves

\* A scope that is being published: its links are made, or still to be made.
LEMMA LinksMade ==
  ASSUME IInv, SteadyInv, CanonInv, Steady, Harmony, Pass,
         NEW s \in Local, NEW o \in Object, Marked(s, o), s \notin queue,
         Publishing, scope = s, NEW d \in Canon(s, o)
  PROVE  names'[d] = o \/ Linking(s, o, d)'
<1>0. TypeOK /\ PlanInv /\ LinkInv /\ Decided /\ o # NoObject
  BY NameAssumption DEF IInv, SteadyInv
<1> SUFFICES ASSUME names'[d] # o PROVE Linking(s, o, d)'
  OBVIOUS
<1>1. names[d] # o /\ Linking(s, o, d)
  BY CanonStays DEF CanonInv, Leaves
<1>2. PICK p \in Source : /\ object[p] = o /\ DestinationOf(p) = d
                          /\ \/ pc \in {"apply", "linkat", "verify"} /\ p \in links
                             \/ pc = "linkat" /\ p = item
  BY <1>1 DEF Linking
<1>3. layout' = layout /\ seen' = seen
  BY SteadyFrame
<1>4. ASSUME NEW q \in Source, OpenSource(q) PROVE Linking(s, o, d)'
  <2>1. object[q] = names[q]
    <3>1. action[q] = "link"
      BY <1>0, <1>4 DEF OpenSource, PlanInv, Publishing
    <3>2. object[q] \in Object
      BY <1>0, <3>1 DEF PlanInv
    <3> QED BY <1>0, <3>2, DecidedObject, NameAssumption DEF SteadyInv
  <2>2. /\ links' = links \ {q} /\ item' = q /\ pc' = "linkat" /\ pc = "apply"
        /\ UNCHANGED <<scope, object>>
    BY <1>4, <2>1 DEF OpenSource, planVars
  <2> QED BY <1>2, <1>3, <2>2 DEF Linking, DestinationOf
<1>5. CASE LinkAt
  <2>1. p # item
    <3> SUFFICES ASSUME p = item PROVE FALSE
      OBVIOUS
    <3>1. names[item] = o /\ d \in Name /\ names[d] = NoObject
      BY <1>0, <1>1, <1>2, <1>5, SteadyLink, CanonFree DEF LinkAt, Name
    <3> QED BY <1>0, <1>2, <1>5, <3>1 DEF LinkAt, TypeOK
  <2>2. pc' \in {"apply", "verify"} /\ UNCHANGED <<links, scope, object>>
    BY <1>5 DEF LinkAt, planVars
  <2> QED BY <1>2, <1>3, <2>1, <2>2 DEF Linking, DestinationOf
<1>6. CASE VerifyLink
  <2>1. pc = "verify" /\ pc' = "apply" /\ UNCHANGED <<links, scope, object>>
    BY <1>6 DEF VerifyLink, planVars
  <2> QED BY <1>2, <1>3, <2>1 DEF Linking, DestinationOf
<1> QED BY <1>2, <1>4, <1>5, <1>6, SteadyFrame DEF Pass, Refresh, PlanLocal, PlanTask, SkipTask,
        Finish, EndApply, Prove, OpenStale, Unlink, EndSweep, EndScope, Publishing

\* Its other names are removed, or still to be removed.
LEMMA NamesTidied ==
  ASSUME IInv, SteadyInv, CanonInv, Steady, Harmony, Pass,
         NEW s \in Local, NEW o \in Object, Marked(s, o), s \notin queue,
         Publishing, scope = s, NEW d \in Root[s], names'[d] = o, d \notin Canon(s, o)
  PROVE  Tidying(s, o, d)'
<1>0. TypeOK /\ PlanInv /\ Decided /\ o # NoObject /\ d \in Library /\ d \in Name
  BY NameAssumption, ScopeAssumption DEF IInv, SteadyInv, Scope, Name
<1>1. names[d] = o /\ Tidying(s, o, d)
  BY <1>0, CanonStays DEF CanonInv, Leaves
<1>2. Desired(o) \subseteq Canon(s, o) /\ o \in Managed
  BY <1>0, CanonDesired
<1>3. CASE EndApply
  BY <1>2, <1>3 DEF EndApply, Tidying, planVars
<1>4. ASSUME NEW x \in Object, Prove(x) PROVE Tidying(s, o, d)'
  <2>1. pc = "prove" /\ o \in sweep /\ scope' = s /\ sweep' = sweep \ {x}
        /\ pc' \in {"prove", "sweep"}
    BY <1>1, <1>4 DEF Prove, Tidying, planVars
  <2>2. CASE x # o
    BY <2>1, <2>2 DEF Tidying
  <2>3. CASE x = o
    <3>1. \A c \in Desired(o) : names[c] = o
      BY <1>2, <2>1 DEF CanonInv, Leaves, Linking
    <3>2. pc' = "sweep" /\ target' = o /\ stale' = {c \in Root[s] : aliases[c] = o} \ Desired(o)
      BY <1>4, <2>3, <3>1 DEF Prove
    <3>3. aliases[d] = seen[d]
      BY <1>0 DEF SteadyInv
    <3>4. ~Wanted(d, o)
      <4> SUFFICES ASSUME NEW t \in Scope, NEW p \in Files[t], seen[p] = o, layout[t][p] = d
                   PROVE  FALSE
        BY DEF Wanted
      <4>1. d \in Canon(t, o)
        BY <1>0 DEF Canon, Canonical
      <4> QED BY <4>1, CanonShared
    <3>5. seen[d] = o
      BY <1>0, <1>1, <3>4 DEF SteadyInv
    <3> QED BY <1>2, <2>1, <3>2, <3>3, <3>5 DEF Tidying
  <2> QED BY <2>2, <2>3
<1>5. ASSUME NEW x \in Library, OpenStale(x) PROVE Tidying(s, o, d)'
  BY <1>1, <1>5 DEF OpenStale, Tidying, planVars
<1>6. CASE Unlink
  BY <1>0, <1>1, <1>6 DEF Unlink, Tidying, TypeOK, planVars
<1>7. CASE EndSweep
  BY <1>1, <1>7 DEF EndSweep, Tidying, planVars
<1>8. CASE EndScope
  BY <1>1, <1>8 DEF EndScope, Tidying
<1>9. ASSUME pc \in {"apply", "linkat", "verify"}, pc' \in {"apply", "linkat", "verify"}, scope' = scope
      PROVE  Tidying(s, o, d)'
  BY <1>9 DEF Tidying
<1> QED BY <1>3, <1>4, <1>5, <1>6, <1>7, <1>8, <1>9, SteadyFrame DEF Pass, Refresh, PlanLocal,
        PlanTask, SkipTask, Finish, OpenSource, LinkAt, VerifyLink, Publishing, planVars

LEMMA CanonStep ==
  ASSUME IInv, WalkInv, SteadyInv, CanonInv, [Next]_vars
  PROVE  CanonInv'
<1> SUFFICES ASSUME Steady', Harmony', NEW s \in Local, NEW o \in Object, Marked(s, o)'
             PROVE  Keeps(s, o)' /\ (s \notin queue' => Leaves(s, o)')
  BY DEF CanonInv
<1>0. TypeOK /\ s \in Scope /\ Root[s] \subseteq Library
  BY ScopeAssumption DEF IInv, Scope
<1>1. CASE System /\ ~Pass
  BY <1>1 DEF System, BeginCycle, PutEntry, Begin, Steady
<1>2. CASE Environment
  BY <1>2 DEF Environment, Edit, External, Crash, Steady
<1>3. CASE UNCHANGED vars
  <2>1. /\ Steady
        /\ UNCHANGED <<names, seen, layout, pc, item, object, victim, target, queue, scope, links,
                       sweep, stale>>
    BY <1>3 DEF vars, envVars, snapVars, planVars, linkVars, tidyVars, histVars, Steady
  <2>2. Harmony /\ Marked(s, o) /\ Canon(s, o)' = Canon(s, o)
    BY <2>1, FactsFrame
  <2>3. \A d : Linking(s, o, d)' = Linking(s, o, d) /\ Tidying(s, o, d)' = Tidying(s, o, d)
    BY <2>1 DEF Linking, Tidying, DestinationOf
  <2> QED BY <2>1, <2>2, <2>3 DEF CanonInv, Keeps, Leaves
<1>4. CASE Pass /\ ~Steady
  <2>1. pc = "walk"
    BY <1>4 DEF Pass, Steady, Walk, Refresh, PlanLocal, PlanTask, SkipTask, Plan, Finish, OpenSource,
       LinkAt, VerifyLink, EndApply, Prove, OpenStale, Unlink, EndSweep, EndScope, snapVars, histVars
  <2>2. PICK tree \in {"source", "library"} : Walk(tree)
    BY <1>4, <2>1 DEF Pass, Refresh, PlanLocal, PlanTask, SkipTask, Finish, OpenSource, LinkAt,
       VerifyLink, EndApply, Prove, OpenStale, Unlink, EndSweep, EndScope
  <2>3. /\ pc' = "visit" /\ walked' = {"source", "library"} /\ names' = names /\ quiet /\ full
        /\ queue' = queue
    BY <2>2 DEF Walk, Steady, envVars, histVars
  <2>4. \A n \in Name : seen'[n] = names[n]
    BY <2>2, <2>3 DEF Walk, Observed, WalkInv, Known, Name
  <2>5. Canon(s, o)' \subseteq Name
    BY DEF Canon, Canonical, Name
  <2>6. s \in queue'
    BY <1>0, <2>1, <2>3 DEF WalkInv
  <2> QED BY <2>3, <2>4, <2>5, <2>6 DEF Keeps
<1>5. CASE Pass /\ Steady
  <2>1. seen' = seen /\ layout' = layout /\ Harmony /\ Marked(s, o) /\ Canon(s, o)' = Canon(s, o)
    BY <1>5, SteadyFrame, FactsFrame
  <2>2. Keeps(s, o)'
    BY <1>5, <2>1, KeepsStep
  <2>3. CASE s \notin queue /\ (~Publishing \/ scope # s)
    BY <1>5, <2>1, <2>2, <2>3, LeavesDone
  <2>4. CASE s \notin queue /\ Publishing /\ scope = s
    BY <1>5, <2>1, <2>2, <2>4, LinksMade, NamesTidied DEF Leaves
  <2>5. CASE s \in queue /\ s \notin queue'
    <3>1. PlanLocal(s)
      BY <1>5, <2>5, SteadyFrame, LocalNoTask DEF Pass, Refresh, PlanLocal, PlanTask, SkipTask, Finish,
         OpenSource, LinkAt, VerifyLink, EndApply, Prove, OpenStale, Unlink, EndSweep, EndScope, snapVars
    <3> QED BY <1>5, <2>1, <2>2, <3>1, LeavesPlanned
  <2> QED BY <2>2, <2>3, <2>4, <2>5
<1> QED BY <1>1, <1>2, <1>3, <1>4, <1>5 DEF Next

\* A cycle in which nobody interferes brings every uncontested source file under
\* exactly the names its declarations give it, although local and task scopes all
\* plan from the trees as they were when it began (organizer/plan.go Build and
\* Apply, automation.go publication passes).
THEOREM LeavingCanonical == Spec => []CycleLeavesCanonical
<1>1. IInv /\ WalkInv /\ SteadyInv /\ CanonInv => CycleLeavesCanonical
  <2> SUFFICES ASSUME TypeOK, WalkInv, SteadyInv, CanonInv, pc = "idle", full, quiet, Harmony,
                      NEW s \in Local, NEW p \in Files[s], Uncontested(s, seen[p], seen)
               PROVE  {d \in Root[s] : names[d] = seen[p]} = Canon(s, seen[p])
    BY DEF IInv, CycleLeavesCanonical, Harmony, Canon
  <2> DEFINE o == seen[p]
  <2>1. s \in Scope /\ Files[s] \subseteq Source /\ Root[s] \subseteq Library
    BY ScopeAssumption DEF Scope
  <2>2. o \in Object /\ Marked(s, o)
    <3>1. p \in Name /\ o # NoObject
      BY <2>1 DEF Name, Uncontested
    <3> QED BY <3>1 DEF TypeOK, Marked
  <2>3. Leaves(s, o)
    BY <2>2 DEF CanonInv, Steady, WalkInv
  <2>4. Canon(s, o) \subseteq Root[s]
    <3>1. \A q \in Files[s] : layout[s][q] \in Root[s] \cup {Excluded, Unmatched}
      BY <2>1, NameAssumption DEF WalkInv
    <3> QED BY <3>1, NameAssumption DEF Canon, Canonical
  <2>5. \A d : ~Linking(s, o, d) /\ ~Tidying(s, o, d)
    BY DEF Linking, Tidying
  <2> QED BY <2>3, <2>4, <2>5 DEF Leaves
<1> QED BY <1>1, WalkInit, WalkStep, SteadyStep, CanonStep, Invariant, PTL DEF Spec

-----------------------------------------------------------------------------
(* A cycle that finds everything in order plans no link, finds no other     *)
(* name of what it has planned, and so leaves everything as it is.         *)

\* All files of a task are there, and files of exactly its entry.
ClaimedIn(s, fs) ==
  LET taken == {fs[p] : p \in Files[s]} IN
  /\ NoObject \notin taken
  /\ {e \in Entry : \A o \in taken :
        \E t \in Local : EntryOf[t] = e /\ \E p \in Files[t] : fs[p] = o} = {EntryOf[s]}

\* The objects of every scope that is published have exactly the names they are to
\* have below its root, and no two files of a movie are to have one name.
InOrder(fs) ==
  \A s \in Scope : (s \in Task => ClaimedIn(s, fs)) =>
    \A p \in Files[s] : fs[p] # NoObject /\ layout[s][p] # Unmatched =>
      /\ {d \in Root[s] : fs[d] = fs[p]} = Canonical(s, fs[p], fs)
      /\ s \in Movie /\ layout[s][p] \in Library =>
           \A q \in Files[s] : fs[q] # NoObject /\ layout[s][q] = layout[s][p] => q = p

OrderInv ==
  Steady /\ InOrder(seen) =>
    /\ \A n \in Name : names[n] = seen[n]
    /\ \A d \in Library : aliases[d] = seen[d]
    /\ Publishing =>
         /\ scope \in Task => ClaimedIn(scope, seen)
         /\ pc \in {"apply", "prove", "sweep"}
         /\ pc = "apply" => links = {}
         /\ pc = "sweep" => stale = {}

\* What a scope plans there: it keeps what it recognises, and makes nothing.
LEMMA OrderPlanned ==
  ASSUME TypeOK, InOrder(seen), NEW s \in Scope, s \in Task => ClaimedIn(s, seen), NEW taken,
         taken = [p \in Source |-> IF p \in Files[s] THEN seen[p] ELSE NoObject],
         NEW p \in Source
  PROVE  /\ Decision(s, p, taken) # "link"
         /\ p \in Files[s] /\ taken[p] # NoObject /\ layout[s][p] \in Library
              => Decision(s, p, taken) = "existing"
<1>1. CASE p \notin Files[s] \/ taken[p] = NoObject \/ layout[s][p] \in {Excluded, Unmatched}
  BY <1>1, NameAssumption DEF Decision, Excluded, Unmatched
<1>2. CASE p \in Files[s] /\ taken[p] # NoObject /\ layout[s][p] \notin {Excluded, Unmatched}
  <2>0. taken[p] = seen[p]
    BY <1>2
  <2>1. layout[s][p] \in Library
    BY <1>2 DEF TypeOK, Layout, Target
  <2>2. layout[s][p] \in Canonical(s, seen[p], seen)
    BY <1>2, <2>1 DEF Canonical
  <2>3. seen[layout[s][p]] = seen[p]
    BY <1>2, <2>0, <2>2 DEF InOrder
  <2>4. s \in Movie => Sharing(s, p, taken) = {p}
    <3> SUFFICES ASSUME s \in Movie, NEW q \in Files[s], taken[q] # NoObject, layout[s][q] = layout[s][p]
                 PROVE  q = p
      BY <1>2 DEF Sharing
    <3>1. Files[s] \subseteq Source
      BY ScopeAssumption
    <3>2. taken[q] = seen[q]
      BY <3>1
    <3> QED BY <1>2, <2>0, <2>1, <3>2 DEF InOrder
  <2>5. ~Contested(s, p, taken)
    BY <2>0, <2>3, <2>4 DEF Contested, Outranked
  <2> QED BY <1>2, <2>0, <2>3, <2>5 DEF Decision
<1> QED BY <1>1, <1>2

LEMMA OrderDecided ==
  ASSUME TypeOK, InOrder(seen), Decided, scope \in Scope, scope \in Task => ClaimedIn(scope, seen)
  PROVE  /\ \A p \in Source : action[p] # "link"
         /\ \A o \in Managed : {d \in Root[scope] : seen[d] = o} \subseteq Desired(o)
<1>1. /\ \A p \in Source : action[p] = Decision(scope, p, object)
      /\ object = [p \in Source |-> IF p \in Files[scope] THEN seen[p] ELSE NoObject]
      /\ Files[scope] \subseteq Source
  BY ScopeAssumption DEF Decided
<1>2. \A p \in Source : action[p] # "link"
  BY <1>1, OrderPlanned
<1>3. ASSUME NEW o \in Managed, NEW d \in Root[scope], seen[d] = o PROVE d \in Desired(o)
  <2>1. PICK p \in Source : object[p] = o /\ action[p] \in {"link", "existing", "excluded"}
    BY DEF Managed
  <2>2. Decision(scope, p, object) \in {"existing", "excluded"}
    BY <1>1, <1>2, <2>1
  <2>3. p \in Files[scope] /\ object[p] # NoObject /\ layout[scope][p] # Unmatched
    BY <2>2 DEF Decision, Unmatched, Excluded
  <2>4. d \in Canonical(scope, o, seen)
    BY <1>1, <1>3, <2>1, <2>3 DEF InOrder
  <2>5. PICK q \in Files[scope] : seen[q] = o /\ layout[scope][q] = d /\ d \in Library
    BY <2>4 DEF Canonical
  <2>6. action[q] = "existing" /\ object[q] = o
    BY <1>1, <2>1, <2>3, <2>5, OrderPlanned
  <2> QED BY <1>1, <2>5, <2>6 DEF Desired, DestinationOf
<1> QED BY <1>2, <1>3

LEMMA OrderFrame ==
  ASSUME UNCHANGED <<layout, seen>>
  PROVE  InOrder(seen)' = InOrder(seen) /\ \A s : ClaimedIn(s, seen)' = ClaimedIn(s, seen)
<1>1. \A s : ClaimedIn(s, seen)' = ClaimedIn(s, seen)
  BY DEF ClaimedIn
<1> QED BY <1>1 DEF InOrder, Canonical, ClaimedIn

LEMMA OrderStep ==
  ASSUME IInv, WalkInv, SteadyInv, OrderInv, [Next]_vars
  PROVE  OrderInv'
<1> SUFFICES ASSUME Steady', InOrder(seen)' PROVE OrderInv'
  BY DEF OrderInv
<1>0. TypeOK /\ PlanInv /\ SweepInv
  BY DEF IInv
<1>1. CASE System /\ ~Pass
  BY <1>1 DEF System, BeginCycle, PutEntry, Begin, Steady
<1>2. CASE Environment
  BY <1>2 DEF Environment, Edit, External, Crash, Steady
<1>3. CASE UNCHANGED vars
  <2>1. Steady /\ UNCHANGED <<names, seen, layout, aliases, pc, scope, links, stale>>
    BY <1>3 DEF vars, envVars, snapVars, planVars, linkVars, tidyVars, histVars, Steady
  <2> QED BY <2>1, OrderFrame DEF OrderInv, Publishing
<1>4. ASSUME NEW tree \in {"source", "library"}, Walk(tree) PROVE OrderInv'
  <2>1. pc = "walk" /\ pc' = "visit" /\ walked' = {"source", "library"} /\ names' = names /\ quiet
    BY <1>4 DEF Walk, Steady, envVars, histVars
  <2>2. \A n \in Name : seen'[n] = names[n]
    BY <1>4, <2>1 DEF Walk, Observed, WalkInv, Known, Name
  <2>3. \A d \in Library : aliases'[d] = seen'[d]
    BY <1>4 DEF Walk
  <2> QED BY <2>1, <2>2, <2>3 DEF OrderInv, Publishing
<1>5. CASE Pass /\ Steady
  <2>0. UNCHANGED <<layout, seen>> /\ ~ \E tree \in {"source", "library"} : Walk(tree)
    BY <1>5, SteadyFrame
  <2>1. InOrder(seen) /\ \A s : ClaimedIn(s, seen)' = ClaimedIn(s, seen)
    BY <2>0, OrderFrame
  <2>2. /\ \A n \in Name : names[n] = seen[n]
        /\ \A d \in Library : aliases[d] = seen[d]
        /\ Publishing => /\ scope \in Task => ClaimedIn(scope, seen)
                         /\ pc \in {"apply", "prove", "sweep"}
                         /\ pc = "apply" => links = {}
                         /\ pc = "sweep" => stale = {}
    BY <1>5, <2>1 DEF OrderInv
  <2>3. pc \notin {"linkat", "verify", "unlink"}
    BY <2>2 DEF Publishing
  <2>4. names' = names
    BY <1>5, <2>3, SteadyNames DEF LinkAt, Unlink
  <2>5. \A d \in Library : aliases'[d] = seen[d]
    <3>1. CASE Refresh
      BY <2>2, <3>1 DEF Refresh, Name
    <3> QED BY <1>5, <2>0, <2>2, <3>1 DEF Pass, PlanLocal, PlanTask, SkipTask, Finish, OpenSource,
            LinkAt, VerifyLink, EndApply, Prove, OpenStale, Unlink, EndSweep, EndScope, snapVars
  <2> DEFINE Tidy == Publishing => /\ scope \in Task => ClaimedIn(scope, seen)
                                   /\ pc \in {"apply", "prove", "sweep"}
                                   /\ pc = "apply" => links = {}
                                   /\ pc = "sweep" => stale = {}
  <2>6. ASSUME NEW s \in Local, PlanLocal(s) PROVE Tidy'
    <3>1. /\ scope' = s /\ pc' = "apply" /\ links' = {p \in Source : action'[p] = "link"}
          /\ action' = [p \in Source |-> Decision(s, p, [q \in Source |-> IF q \in Files[s] THEN seen[q] ELSE NoObject])]
      BY <2>6 DEF PlanLocal, Plan
    <3>2. s \in Scope /\ s \notin Task
      BY LocalNoTask DEF Scope
    <3>3. links' = {}
      BY <1>0, <2>1, <3>1, <3>2, OrderPlanned
    <3> QED BY <3>1, <3>2, <3>3
  <2>7. ASSUME NEW s \in Task, PlanTask(s) PROVE Tidy'
    <3>1. /\ scope' = s /\ pc' = "apply" /\ links' = {p \in Source : action'[p] = "link"}
          /\ action' = [p \in Source |-> Decision(s, p, [q \in Source |-> IF q \in Files[s] THEN names[q] ELSE NoObject])]
          /\ Claimed(s)
      BY <2>7 DEF PlanTask, Plan
    <3>2. s \in Scope /\ Files[s] \subseteq Source
      BY ScopeAssumption DEF Scope
    <3>3. \A q \in Source : names[q] = seen[q]
      BY <2>2 DEF Name
    <3>4. ClaimedIn(s, seen)
      <4>1. {names[p] : p \in Files[s]} = {seen[p] : p \in Files[s]}
        BY <3>2, <3>3
      <4> QED BY <3>1, <4>1 DEF Claimed, ClaimedIn, Owners
    <3>5. [q \in Source |-> IF q \in Files[s] THEN names[q] ELSE NoObject]
            = [q \in Source |-> IF q \in Files[s] THEN seen[q] ELSE NoObject]
      BY <3>3
    <3>6. links' = {}
      BY <1>0, <2>1, <3>1, <3>2, <3>4, <3>5, OrderPlanned
    <3> QED BY <2>1, <3>1, <3>4, <3>6
  <2>8. ASSUME NEW o \in Object, Prove(o) PROVE Tidy'
    <3>1. pc = "prove" /\ o \in sweep /\ pc' \in {"prove", "sweep"} /\ scope' = scope
      BY <2>8 DEF Prove, planVars
    <3>2. o \in Managed /\ scope \in Scope /\ Decided /\ (scope \in Task => ClaimedIn(scope, seen))
      BY <1>0, <1>5, <2>2, <3>1 DEF SweepInv, PlanInv, SteadyInv, Publishing
    <3>3. {d \in Root[scope] : seen[d] = o} \subseteq Desired(o)
      BY <1>0, <2>1, <3>2, OrderDecided
    <3>4. Root[scope] \subseteq Library
      BY <3>2, ScopeAssumption
    <3>5. pc' = "sweep" => stale' = {d \in Root[scope] : aliases[d] = o} \ Desired(o)
      BY <2>8, <3>1 DEF Prove
    <3>6. pc' = "sweep" => stale' = {}
      BY <2>2, <3>3, <3>4, <3>5
    <3> QED BY <2>1, <3>1, <3>2, <3>6
  <2>9. ASSUME UNCHANGED <<scope, links, stale>>, Publishing' => Publishing /\ pc' \in {"prove", pc}
        PROVE  Tidy'
    BY <2>1, <2>2, <2>9 DEF Publishing
  <2>10. Tidy'
    BY <1>5, <2>0, <2>2, <2>6, <2>7, <2>8, <2>9 DEF Pass, Refresh, SkipTask, Finish, OpenSource, LinkAt, VerifyLink,
       EndApply, OpenStale, Unlink, EndSweep, EndScope, Publishing, planVars, linkVars, tidyVars
  <2> QED BY <2>0, <2>2, <2>4, <2>5, <2>10 DEF OrderInv
<1>6. CASE Pass /\ ~Steady
  <2>1. pc = "walk"
    BY <1>6 DEF Pass, Steady, Walk, Refresh, PlanLocal, PlanTask, SkipTask, Plan, Finish, OpenSource,
       LinkAt, VerifyLink, EndApply, Prove, OpenStale, Unlink, EndSweep, EndScope, snapVars, histVars
  <2> QED BY <1>4, <1>6, <2>1 DEF Pass, Refresh, PlanLocal, PlanTask, SkipTask, Finish, OpenSource,
       LinkAt, VerifyLink, EndApply, Prove, OpenStale, Unlink, EndSweep, EndScope
<1> QED BY <1>1, <1>2, <1>3, <1>5, <1>6 DEF Next

OrderStays == Steady /\ InOrder(seen) => \A n \in Name : names[n] = seen[n]

\* A cycle that finds the names of everything it publishes in order changes no name
\* from its beginning to its end: publishing again is doing nothing, also for what
\* has several names or is excluded, and whatever the library snapshots are taken
\* for (organizer/plan.go Build and Apply).
THEOREM StayingInOrder == Spec => []OrderStays
<1>1. Init => OrderInv
  BY DEF Init, OrderInv, Steady
<1>2. OrderInv => OrderStays
  BY DEF OrderInv, OrderStays
<1> QED BY <1>1, <1>2, WalkInit, WalkStep, SteadyStep, OrderStep, Invariant, PTL DEF Spec

\* No object is contested.  Every scope of an entry publishes below one root
\* (configstore/config.go: the target of its kind of media).
Clear(fs) == \A s \in Local : \A p \in Files[s] : fs[p] # NoObject => Uncontested(s, fs[p], fs)
SameRoots == \A s \in Local, t \in Task : EntryOf[s] = EntryOf[t] => Root[s] = Root[t]

OrderLeft == SameRoots /\ pc = "idle" /\ full /\ quiet /\ Agreeing(seen) /\ Clear(seen) => InOrder(names)

\* A cycle in which nobody interferes, over trees whose scopes agree and contest
\* nothing, leaves everything in order, the names of every task that is published
\* with those of the folders its files are in.
THEOREM LeavingInOrder == Spec => []OrderLeft
<1>1. SteadyInv /\ TypeOK /\ CycleLeavesCanonical => OrderLeft
  <2> SUFFICES ASSUME SteadyInv, TypeOK, CycleLeavesCanonical, SameRoots, pc = "idle", full, quiet, Agreeing(seen), Clear(seen),
                      NEW s \in Scope, s \in Task => ClaimedIn(s, names),
                      NEW p \in Files[s], names[p] # NoObject, layout[s][p] # Unmatched
               PROVE  /\ {d \in Root[s] : names[d] = names[p]} = Canonical(s, names[p], names)
                      /\ s \in Movie /\ layout[s][p] \in Library =>
                           \A q \in Files[s] : names[q] # NoObject /\ layout[s][q] = layout[s][p] => q = p
    BY DEF OrderLeft, InOrder
  <2>1. /\ \A q \in Source : names[q] = seen[q]
        /\ \A t \in Scope : Files[t] \subseteq Source
    BY ScopeAssumption DEF SteadyInv, Steady
  <2>2. PICK t \in Local : (\E r \in Files[t] : seen[r] = seen[p]) /\ Root[t] = Root[s]
    <3>1. CASE s \in Local
      BY <3>1
    <3>2. CASE s \in Task
      <4>1. EntryOf[s] \in {e \in Entry : \A o \in {names[q] : q \in Files[s]} :
              \E t \in Local : EntryOf[t] = e /\ \E q \in Files[t] : names[q] = o}
        BY <3>2 DEF ClaimedIn
      <4>2. PICK t \in Local : EntryOf[t] = EntryOf[s] /\ \E q \in Files[t] : names[q] = names[p]
        BY <4>1
      <4>3. t \in Scope
        BY DEF Scope
      <4> QED BY <2>1, <3>2, <4>2, <4>3 DEF SameRoots
    <3> QED BY <3>1, <3>2 DEF Scope
  <2>3. t \in Scope /\ seen[p] # NoObject /\ names[p] = seen[p]
    BY <2>1 DEF Scope
  <2>4. Uncontested(t, seen[p], seen)
    BY <2>2, <2>3 DEF Clear
  <2>5. {d \in Root[t] : names[d] = seen[p]} = Canonical(t, seen[p], seen)
    BY <2>2, <2>4 DEF CycleLeavesCanonical
  <2>6. Canonical(t, seen[p], seen) = Canonical(s, seen[p], seen)
    BY <2>2, <2>3 DEF Agreeing
  <2>7. Canonical(s, seen[p], seen) = Canonical(s, seen[p], names)
    BY <2>1 DEF Canonical
  <2>8. ASSUME s \in Movie, layout[s][p] \in Library,
               NEW q \in Files[s], names[q] # NoObject, layout[s][q] = layout[s][p]
        PROVE  q = p
    <3>1. layout[s][p] \in Canonical(t, seen[p], seen)
      BY <2>6, <2>8 DEF Canonical
    <3>2. seen[q] = seen[p]
      BY <2>1, <2>4, <2>8, <3>1 DEF Uncontested
    <3> QED BY <2>4, <2>8, <3>2 DEF Uncontested
  <2> QED BY <2>2, <2>3, <2>5, <2>6, <2>7, <2>8
<1> QED BY <1>1, WalkInit, WalkStep, SteadyStep, LeavingCanonical, Invariant, PTL DEF Spec, IInv

-----------------------------------------------------------------------------
(* Cycles alone.  One that begins when nothing is contested leaves order;   *)
(* from then on nothing changes.                                           *)
Publishes == BeginCycle \/ Pass
Ready(fs) == SameRoots /\ Agreeing(fs) /\ Clear(fs)

Waiting == pc = "idle" /\ Ready(names)
Looking == pc = "walk" /\ full /\ quiet /\ Ready(names)
Working == pc # "idle" /\ Steady /\ Ready(seen)
Resting ==
  \/ pc = "idle" /\ InOrder(names)
  \/ pc = "walk" /\ full /\ quiet /\ InOrder(names)
  \/ pc # "idle" /\ Steady /\ InOrder(seen)

Facts == IInv /\ WalkInv /\ SteadyInv /\ OrderInv /\ OrderLeft

\* The same trees are in order, and ready, whoever knows them.
LEMMA NamesFrame ==
  ASSUME UNCHANGED layout, names' = names
  PROVE  InOrder(names)' = InOrder(names) /\ Ready(names)' = Ready(names)
<1>1. \A s, o : Canonical(s, o, names)' = Canonical(s, o, names)
  BY DEF Canonical
<1>2. \A s : ClaimedIn(s, names)' = ClaimedIn(s, names)
  BY DEF ClaimedIn
<1>3. InOrder(names)' = InOrder(names)
  BY <1>1, <1>2 DEF InOrder
<1>4. Agreeing(names)' = Agreeing(names)
  BY <1>1 DEF Agreeing
<1>5. \A s, o : Uncontested(s, o, names)' = Uncontested(s, o, names)
  BY <1>1 DEF Uncontested
<1> QED BY <1>3, <1>4, <1>5 DEF Ready, Clear, SameRoots

LEMMA SeenFrame ==
  ASSUME UNCHANGED layout, seen' = seen
  PROVE  InOrder(seen)' = InOrder(seen) /\ Ready(seen)' = Ready(seen)
<1>1. \A s, o : Canonical(s, o, seen)' = Canonical(s, o, seen)
  BY DEF Canonical
<1>2. \A s : ClaimedIn(s, seen)' = ClaimedIn(s, seen)
  BY DEF ClaimedIn
<1>3. InOrder(seen)' = InOrder(seen)
  BY <1>1, <1>2 DEF InOrder
<1>4. Agreeing(seen)' = Agreeing(seen)
  BY <1>1 DEF Agreeing
<1>5. \A s, o : Uncontested(s, o, seen)' = Uncontested(s, o, seen)
  BY <1>1 DEF Uncontested
<1> QED BY <1>3, <1>4, <1>5 DEF Ready, Clear, SameRoots

LEMMA WalkedFrame ==
  ASSUME UNCHANGED layout, seen' = names
  PROVE  InOrder(seen)' = InOrder(names) /\ Ready(seen)' = Ready(names)
<1>1. \A s, o : Canonical(s, o, seen)' = Canonical(s, o, names)
  BY DEF Canonical
<1>2. \A s : ClaimedIn(s, seen)' = ClaimedIn(s, names)
  BY DEF ClaimedIn
<1>3. InOrder(seen)' = InOrder(names)
  BY <1>1, <1>2 DEF InOrder
<1>4. Agreeing(seen)' = Agreeing(names)
  BY <1>1 DEF Agreeing
<1>5. \A s, o : Uncontested(s, o, seen)' = Uncontested(s, o, names)
  BY <1>1 DEF Uncontested
<1> QED BY <1>3, <1>4, <1>5 DEF Ready, Clear, SameRoots

LEMMA LeftFrame ==
  ASSUME UNCHANGED layout, names' = seen
  PROVE  InOrder(names)' = InOrder(seen) /\ Ready(names)' = Ready(seen)
<1>1. \A s, o : Canonical(s, o, names)' = Canonical(s, o, seen)
  BY DEF Canonical
<1>2. \A s : ClaimedIn(s, names)' = ClaimedIn(s, seen)
  BY DEF ClaimedIn
<1>3. InOrder(names)' = InOrder(seen)
  BY <1>1, <1>2 DEF InOrder
<1>4. Agreeing(names)' = Agreeing(seen)
  BY <1>1 DEF Agreeing
<1>5. \A s, o : Uncontested(s, o, names)' = Uncontested(s, o, seen)
  BY <1>1 DEF Uncontested
<1> QED BY <1>3, <1>4, <1>5 DEF Ready, Clear, SameRoots

LEMMA WalkedAll ==
  ASSUME IInv, WalkInv, NEW tree \in {"source", "library"}, Walk(tree), full, quiet
  PROVE  /\ UNCHANGED <<layout, names, full, quiet>>
         /\ pc' \in {"walk", "visit"}
         /\ pc' = "visit" => seen' = names
<1>0. TypeOK
  BY DEF IInv
<1>1. /\ UNCHANGED <<layout, names, full, quiet>> /\ pc = "walk" /\ pc' \in {"walk", "visit"}
      /\ pc' = "visit" => walked' = {"source", "library"}
  BY <1>0 DEF Walk, envVars, histVars
<1>2. seen' = [n \in Name |-> IF n \in Known(tree) THEN names[n] ELSE seen[n]]
  BY DEF Walk, Observed, Known
<1>3. ASSUME pc' = "visit" PROVE \A n \in Name : seen'[n] = names[n]
  <2>1. walked \cup {tree} = {"source", "library"}
    BY <1>1, <1>3 DEF Walk
  <2>2. \A n \in Name : n \in Known(tree) \/ \E other \in walked : n \in Known(other)
    BY <2>1 DEF Known, Name
  <2> QED BY <1>1, <1>2, <2>2 DEF WalkInv
<1>4. names = [n \in Name |-> names[n]]
  BY <1>0 DEF TypeOK
<1>5. pc' = "visit" => seen' = [n \in Name |-> names[n]]
  BY <1>2, <1>3
<1> QED BY <1>1, <1>4, <1>5

LEMMA FoundInOrder ==
  ASSUME IInv, OrderInv, Steady, InOrder(seen)
  PROVE  names = seen
<1>1. \A n \in Name : names[n] = seen[n]
  BY DEF OrderInv
<1>2. names = [n \in Name |-> names[n]] /\ seen = [n \in Name |-> seen[n]]
  BY DEF IInv, TypeOK
<1> QED BY <1>1, <1>2

LEMMA WaitingStep ==
  ASSUME Waiting, [Publishes]_vars
  PROVE  /\ Waiting' \/ Looking'
         /\ <<BeginCycle>>_vars => Looking'
<1>1. CASE BeginCycle
  <2>1. pc' = "walk" /\ full' /\ quiet' /\ UNCHANGED <<layout, names>>
    BY <1>1 DEF BeginCycle, Begin
  <2> QED BY <2>1, NamesFrame DEF Waiting, Looking
<1>2. CASE Pass
  BY <1>2 DEF Waiting, Pass, Walk, Refresh, PlanLocal, PlanTask, SkipTask, Finish, OpenSource, LinkAt, VerifyLink,
     EndApply, Prove, OpenStale, Unlink, EndSweep, EndScope
<1>3. CASE UNCHANGED vars
  <2>1. UNCHANGED <<layout, names, pc>>
    BY <1>3 DEF vars, envVars
  <2> QED BY <1>3, <2>1, NamesFrame DEF Waiting
<1> QED BY <1>1, <1>2, <1>3 DEF Publishes

LEMMA LookingStep ==
  ASSUME Facts, Looking, [Publishes]_vars
  PROVE  /\ Looking' \/ Working'
         /\ ~BeginCycle
<1>1. ~BeginCycle
  BY DEF Looking, BeginCycle, Begin
<1>2. CASE Pass
  <2>1. PICK tree \in {"source", "library"} : Walk(tree)
    BY <1>2 DEF Looking, Pass, Refresh, PlanLocal, PlanTask, SkipTask, Finish, OpenSource, LinkAt, VerifyLink,
       EndApply, Prove, OpenStale, Unlink, EndSweep, EndScope
  <2>2. /\ UNCHANGED <<layout, names, full, quiet>> /\ pc' \in {"walk", "visit"}
        /\ pc' = "visit" => seen' = names
    BY <2>1, WalkedAll DEF Facts, Looking
  <2>3. CASE pc' = "walk"
    BY <1>1, <2>2, <2>3, NamesFrame DEF Looking
  <2>4. CASE pc' = "visit"
    BY <1>1, <2>2, <2>4, WalkedFrame DEF Looking, Working, Steady
  <2> QED BY <2>2, <2>3, <2>4
<1>3. CASE UNCHANGED vars
  <2>1. UNCHANGED <<layout, names, pc, full, quiet>>
    BY <1>3 DEF vars, envVars, snapVars, histVars
  <2> QED BY <1>1, <2>1, NamesFrame DEF Looking
<1> QED BY <1>1, <1>2, <1>3 DEF Publishes

LEMMA WorkingStep ==
  ASSUME Facts, Working, [Publishes]_vars, OrderLeft'
  PROVE  /\ Working' \/ Resting'
         /\ ~BeginCycle
<1>1. ~BeginCycle
  BY DEF Working, BeginCycle, Begin
<1>2. CASE Pass
  <2>1. Steady' /\ UNCHANGED <<layout, seen>>
    BY <1>2, SteadyFrame DEF Working
  <2>2. Ready(seen)'
    BY <2>1, SeenFrame DEF Working
  <2>3. CASE pc' = "idle"
    BY <1>1, <2>1, <2>2, <2>3 DEF OrderLeft, Ready, Resting, Steady, SameRoots
  <2> QED BY <1>1, <2>1, <2>2, <2>3 DEF Working
<1>3. CASE UNCHANGED vars
  <2>1. UNCHANGED <<layout, seen, pc, full, quiet>>
    BY <1>3 DEF vars, envVars, snapVars, histVars
  <2> QED BY <1>1, <2>1, SeenFrame DEF Working, Steady
<1> QED BY <1>1, <1>2, <1>3 DEF Publishes

LEMMA RestingStep ==
  ASSUME Facts, OrderInv', Resting, [Publishes]_vars, TypeOK'
  PROVE  Resting' /\ names' = names
<1>1. CASE BeginCycle
  <2>1. pc = "idle" /\ pc' = "walk" /\ full' /\ quiet' /\ UNCHANGED <<layout, names>>
    BY <1>1 DEF BeginCycle, Begin
  <2> QED BY <2>1, NamesFrame DEF Resting
<1>2. CASE Pass /\ pc = "walk"
  <2>0. full /\ quiet /\ InOrder(names)
    BY <1>2 DEF Resting, Steady
  <2>1. PICK tree \in {"source", "library"} : Walk(tree)
    BY <1>2 DEF Pass, Refresh, PlanLocal, PlanTask, SkipTask, Finish, OpenSource, LinkAt, VerifyLink,
       EndApply, Prove, OpenStale, Unlink, EndSweep, EndScope
  <2>2. /\ UNCHANGED <<layout, names, full, quiet>> /\ pc' \in {"walk", "visit"}
        /\ pc' = "visit" => seen' = names
    BY <2>0, <2>1, WalkedAll DEF Facts
  <2>3. CASE pc' = "walk"
    BY <2>0, <2>2, <2>3, NamesFrame DEF Resting
  <2>4. CASE pc' = "visit"
    BY <2>0, <2>2, <2>4, WalkedFrame DEF Resting, Steady
  <2> QED BY <2>2, <2>3, <2>4
<1>3. CASE Pass /\ pc # "walk"
  <2>1. pc # "idle"
    BY <1>3 DEF Pass, Walk, Refresh, PlanLocal, PlanTask, SkipTask, Finish, OpenSource, LinkAt, VerifyLink,
       EndApply, Prove, OpenStale, Unlink, EndSweep, EndScope
  <2>2. Steady /\ InOrder(seen)
    BY <1>3, <2>1 DEF Resting
  <2>3. Steady' /\ UNCHANGED <<layout, seen>>
    BY <1>3, <2>2, SteadyFrame
  <2>4. names = seen
    BY <2>2, FoundInOrder DEF Facts
  <2>5. InOrder(seen)'
    BY <2>2, <2>3, SeenFrame
  <2>6. names' = seen'
    <3>1. \A n \in Name : names'[n] = seen'[n]
      BY <2>3, <2>5 DEF OrderInv
    <3>2. names' = [n \in Name |-> names'[n]] /\ seen' = [n \in Name |-> seen'[n]]
      BY DEF TypeOK
    <3> QED BY <3>1, <3>2
  <2>7. pc' = "idle" => InOrder(names)'
    BY <2>2, <2>3, <2>6, LeftFrame
  <2> QED BY <2>3, <2>4, <2>5, <2>6, <2>7 DEF Resting
<1>4. CASE UNCHANGED vars
  <2>1. UNCHANGED <<layout, names, seen, pc, full, quiet>>
    BY <1>4 DEF vars, envVars, snapVars, histVars
  <2> QED BY <2>1, NamesFrame, SeenFrame DEF Resting, Steady
<1> QED BY <1>1, <1>2, <1>3, <1>4 DEF Publishes

LEMMA RestingSettled == Facts /\ Resting => Settled
<1> SUFFICES ASSUME Facts, Resting, NEW s \in Local, NEW p \in Files[s], names[p] # NoObject, layout[s][p] \in Library
             PROVE  names[layout[s][p]] = names[p]
  BY DEF Settled
<1>1. InOrder(names)
  <2>1. CASE pc # "idle" /\ Steady /\ InOrder(seen)
    BY <2>1, FoundInOrder DEF Facts
  <2> QED BY <2>1 DEF Resting
<1>2. s \in Scope /\ s \notin Task
  BY LocalNoTask DEF Scope
<1>3. layout[s][p] \in Canonical(s, names[p], names) /\ layout[s][p] # Unmatched
  BY NameAssumption DEF Canonical
<1> QED BY <1>1, <1>2, <1>3 DEF InOrder

\* If from some moment between two passes, when scopes agree and nothing is
\* contested, only cycles happen, and cycles begin again and again, then every
\* source file comes to have its canonical name, and the program comes to change no
\* name any more: a case of ChainsConverge and RestsWhenAgreed, with what is to be
\* assumed of the schedule in place of fairness.
THEOREM CyclesSettling ==
  Spec /\ <>(Waiting /\ [][Publishes]_vars) /\ []<><<BeginCycle>>_vars
    => <>[]Settled /\ <>[][names' = names]_vars
<1>1. Spec => []Facts
  <2>1. Init => OrderInv
    BY DEF Init, OrderInv, Steady
  <2> QED BY <2>1, WalkInit, WalkStep, SteadyStep, OrderStep, Invariant, LeavingInOrder, PTL DEF Spec, Facts
<1>2. Waiting /\ [Publishes]_vars => Waiting' \/ Looking'
  BY WaitingStep
<1>3. Waiting /\ [Publishes]_vars /\ <<BeginCycle>>_vars => Looking'
  BY WaitingStep
<1>4. Facts /\ Looking /\ [Publishes]_vars => (Looking' \/ Working') /\ ~<<BeginCycle>>_vars
  BY LookingStep
<1>5. Facts /\ Facts' /\ Working /\ [Publishes]_vars => (Working' \/ Resting') /\ ~<<BeginCycle>>_vars
  BY WorkingStep DEF Facts
<1>6. Facts /\ Facts' /\ Resting /\ [Publishes]_vars => Resting' /\ [names' = names]_vars
  BY RestingStep DEF Facts, IInv
<1> QED BY <1>1, <1>2, <1>3, <1>4, <1>5, <1>6, RestingSettled, PTL
=============================================================================
