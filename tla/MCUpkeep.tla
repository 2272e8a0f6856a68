------------------------------ MODULE MCUpkeep ------------------------------
(***************************************************************************)
(* What waits for, or comes from, a user: the declaration of an entry, and  *)
(* the queue of reviews.  They share no state.  One run explores both, each *)
(* by itself: `part' says which, from the start.                           *)
(***************************************************************************)
EXTENDS Declarations, Repairs, TLC

VARIABLE part
vars == <<declVars, repairVars, part>>

Packs == 1 :> {2} @@ 2 :> {2, 3} @@ 3 :> {3}
Trusts == {{}, {1}}

Init ==
  /\ DeclInit /\ RepairInit
  /\ \/ part = "repairs" /\ series = TRUE /\ dirs = {} /\ decl = Absent
     \/ part = "declaration" /\ library = {} /\ legible = TRUE
Declaring == part = "declaration" /\ DeclNext /\ UNCHANGED <<repairVars, part>>
Repairing == part = "repairs" /\ RepairNext /\ UNCHANGED <<declVars, part>>
Next == Declaring \/ Repairing

\* Cycles recur (LocalCyclesRecur of Runner), and an operation that has begun ends.
Upkeep == part = "declaration" /\ (Cycles \/ Finishes) /\ UNCHANGED <<repairVars, part>>
Spec == Init /\ [][Next]_vars /\ WF_vars(Upkeep)
=============================================================================
