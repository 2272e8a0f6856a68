---------------------------- MODULE Declarations ----------------------------
(***************************************************************************)
(* The declaration of an entry: a file .aninode.json in its source         *)
(* directory that has, for a series, a rule for each of its folders.  The  *)
(* program creates it where there is none, keeps its rules in step with    *)
(* the folders that exist, and writes what a user asks for.  Users edit    *)
(* the same file and move the same folders whenever they like, between any *)
(* two steps.  Rules are opaque; files are replaced at once or not at all. *)
(***************************************************************************)
EXTENDS Naturals

CONSTANTS
  Folder,       \* possible first-level directories of the entry
  Rule,         \* seasons and offsets
  NoRule,       \* a folder the declaration does not mention
  Absent,       \* there is no declaration
  Invalid,      \* there is one that cannot be read
  MaxEdits      \* things that happen outside or fail

\* Having no rule, no declaration or an unreadable one is none of the others.
ASSUME DeclAssumption ==
  /\ NoRule \notin Rule
  /\ Absent # Invalid
  /\ Absent \notin [Folder -> Rule \cup {NoRule}]
  /\ Invalid \notin [Folder -> Rule \cup {NoRule}]

VARIABLES
  series,       \* a movie has a declaration, but no rules
  dirs,         \* the folders that exist
  decl,         \* Absent, Invalid, or the rule of each folder
  pc,           \* the operation under way; the operation lock admits one
  read,         \* the declaration it read
  guess,        \* the rules it inferred from names
  seen,         \* the folders it listed, or made
  wanted,       \* what a user asked it to declare
  edits,
  \* history since the operation read the declaration:
  gone,         \* folders that did not exist for a while
  stale         \* the declaration was changed by somebody else
declVars == <<series, dirs, decl, pc, read, guess, seen, wanted, edits, gone, stale>>
localVars == <<read, guess, seen, wanted>>

Rules == [Folder -> Rule \cup {NoRule}]
NoRules == [f \in Folder |-> NoRule]
Declared == decl \notin {Absent, Invalid}

DeclInit ==
  /\ series \in BOOLEAN
  /\ dirs \in {d : d \in SUBSET Folder}
  /\ decl \in {Absent, Invalid, NoRules}
  /\ pc = "idle" /\ read = NoRules /\ guess = NoRules /\ seen = {} /\ wanted = NoRules
  /\ edits = 0 /\ gone = {} /\ stale = FALSE

Goto(step) == pc' = step
Reads(d) == read' = d /\ gone' = Folder \ dirs /\ stale' = FALSE
Writes(d) == decl' = d /\ UNCHANGED <<series, dirs, edits, gone, stale>>
Asks == UNCHANGED <<series, dirs, decl, edits>>
Trouble == edits < MaxEdits /\ edits' = edits + 1

-----------------------------------------------------------------------------
(* A cycle: adopt, then bring the rules in step.                           *)

\* Any rules, for the folders there are: names of directories and files are data.
Inferred == {g \in Rules : \A f \in Folder : g[f] # NoRule <=> f \in dirs}

\* An unreadable declaration ends the cycle; so it does wherever it is read.
BeginSync ==
  /\ pc = "idle" /\ decl # Invalid
  /\ Goto(IF decl = Absent THEN "adopt" ELSE IF series THEN "sync" ELSE "idle")
  /\ Asks /\ UNCHANGED <<localVars, gone, stale>>

\* A series needs a folder to be adopted; for a movie its place is enough.
AdoptSeries ==
  /\ pc = "adopt" /\ series
  /\ guess' \in Inferred
  /\ Goto(IF dirs = {} THEN "idle" ELSE "create")
  /\ Asks /\ UNCHANGED <<read, seen, wanted, gone, stale>>
AdoptMovie ==
  /\ pc = "adopt" /\ ~series
  /\ guess' = NoRules
  /\ Goto("create")
  /\ Asks /\ UNCHANGED <<read, seen, wanted, gone, stale>>

\* It is created by a link, which fails when there is one by now.
Create ==
  /\ pc = "create"
  /\ Writes(IF decl = Absent THEN guess ELSE decl)
  /\ Goto(IF series THEN "sync" ELSE "idle")
  /\ UNCHANGED localVars

ReadRules ==
  /\ pc = "sync"
  /\ IF Declared THEN Reads(decl) /\ Goto("infer") ELSE Goto("idle") /\ UNCHANGED <<read, gone, stale>>
  /\ Asks /\ UNCHANGED <<guess, seen, wanted>>

Infer ==
  /\ pc = "infer"
  /\ guess' \in Inferred
  /\ Goto("list")
  /\ Asks /\ UNCHANGED <<read, seen, wanted, gone, stale>>

\* Mutant: what is inferred wins over what is declared.
InStepInferred == [f \in Folder |->
  IF guess[f] # NoRule THEN guess[f] ELSE IF f \in seen' THEN read[f] ELSE NoRule]

\* Mutant: rules of folders that are gone stay.
InStepAdding == [f \in Folder |-> IF read[f] # NoRule THEN read[f] ELSE guess[f]]

\* Rules of folders that were not listed go; those that have none get a guess,
\* also a folder that disappeared since the guess was made.
InStep == [f \in Folder |->
  IF f \in seen' /\ read[f] # NoRule THEN read[f] ELSE guess[f]]
Dirty == \E f \in Folder :
  IF read[f] # NoRule THEN f \notin seen' ELSE guess[f] # NoRule

List ==
  /\ pc = "list"
  /\ seen' = dirs
  /\ wanted' = InStep
  /\ Goto(IF Dirty THEN "write" ELSE "idle")
  /\ Asks /\ UNCHANGED <<read, guess, gone, stale>>

WriteRules ==
  /\ pc = "write"
  /\ Writes(wanted)
  /\ Goto("idle")
  /\ UNCHANGED localVars

-----------------------------------------------------------------------------
(* What a user asks for.  An entry is known by its declaration, a series    *)
(* only if that or a folder gives it a season.                             *)

Listed == Declared /\ (series => dirs # {} \/ decl # NoRules)

\* One rule, for a folder that exists, or the whole declaration.
PutRule ==
  /\ pc = "idle" /\ Listed /\ series
  /\ Reads(decl)
  /\ \E f \in dirs, r \in Rule : wanted' = [decl EXCEPT ![f] = r]
  /\ Goto("put rule")
  /\ Trouble
  /\ UNCHANGED <<series, dirs, decl, guess, seen>>
PutDeclaration ==
  /\ pc = "idle" /\ Listed
  /\ Reads(decl)
  /\ wanted' \in IF series THEN Rules ELSE {NoRules}
  /\ Goto("put")
  /\ Trouble
  /\ UNCHANGED <<series, dirs, decl, guess, seen>>

Put ==
  /\ pc \in {"put", "put rule"}
  /\ Writes(wanted) /\ Goto(IF pc = "put" THEN "reload" ELSE "reload rule")
  /\ UNCHANGED localVars

\* The configuration is loaded with the new declaration, which must bring the
\* entry back; a rule is accepted also if the declaration has gone since.
Loaded == IF pc = "reload" THEN Listed ELSE decl # Invalid
Reloading == pc \in {"reload", "reload rule"}
Accept == Reloading /\ Loaded /\ Goto("idle") /\ Asks /\ UNCHANGED <<localVars, gone, stale>>

\* Otherwise the old one is written back.
Refuse ==
  /\ Reloading /\ Goto("revert")
  /\ IF Loaded THEN Trouble ELSE UNCHANGED edits
  /\ UNCHANGED <<series, dirs, decl, localVars, gone, stale>>
Revert == pc = "revert" /\ Writes(read) /\ Goto("idle") /\ UNCHANGED localVars

\* A new entry gets its folder, unless it exists, and then its declaration;
\* both go again if it cannot be written or loaded.
CreateEntry ==
  /\ pc = "idle" /\ decl = Absent
  /\ \E f \in Folder :
       /\ dirs' = IF series THEN dirs \cup {f} ELSE dirs
       /\ seen' = dirs' \ dirs
       /\ wanted' \in IF series THEN {[NoRules EXCEPT ![f] = r] : r \in Rule \cup {NoRule}}
                      ELSE {NoRules}
  /\ Goto("new")
  /\ Trouble
  /\ UNCHANGED <<series, decl, read, guess, gone, stale>>
WriteNew == pc = "new" /\ Writes(wanted) /\ Goto("check") /\ UNCHANGED localVars
AcceptNew == pc = "check" /\ Listed /\ Goto("idle") /\ Asks /\ UNCHANGED <<localVars, gone, stale>>

\* Whatever declaration is there by now is removed, and the folder if it is empty.
CleanUp ==
  /\ decl' = Absent
  /\ dirs' \in {dirs, dirs \ seen}
  /\ Goto("idle")
  /\ UNCHANGED <<series, localVars, gone, stale>>
RefuseNew == pc = "check" /\ (IF Listed THEN Trouble ELSE UNCHANGED edits) /\ CleanUp
FailNew == pc = "new" /\ Trouble /\ CleanUp

\* A call fails, or the process ends: only what was written remains.
Abandon == pc # "idle" /\ Goto("idle") /\ Trouble
           /\ UNCHANGED <<series, dirs, decl, localVars, gone, stale>>

-----------------------------------------------------------------------------
(* Users, at any moment.                                                   *)

EditDeclaration ==
  /\ Trouble
  /\ decl' \in {Absent, Invalid} \cup (IF series THEN Rules ELSE {NoRules})
  /\ decl' # decl
  /\ stale' = TRUE
  /\ UNCHANGED <<series, dirs, pc, localVars, gone>>
MoveFolder ==
  /\ Trouble
  /\ \E f \in Folder : dirs' = (dirs \ {f}) \cup ({f} \ dirs)
  /\ gone' = gone \cup (Folder \ dirs')
  /\ UNCHANGED <<series, decl, pc, localVars, stale>>

-----------------------------------------------------------------------------
Cycles == BeginSync \/ AdoptSeries \/ AdoptMovie \/ Create \/ ReadRules \/ Infer \/ List \/ WriteRules
Finishes == Put \/ Accept \/ Refuse \/ Revert \/ WriteNew \/ AcceptNew \/ RefuseNew
DeclNext == Cycles \/ Finishes \/ FailNew \/ Abandon \/ PutRule \/ PutDeclaration \/ CreateEntry
              \/ EditDeclaration \/ MoveFolder

-----------------------------------------------------------------------------
\* Adoption and the upkeep of the rules never undo what a user declared: a
\* declaration is created only where there is none; and the rule of a folder that
\* was there all the time since the declaration was read stays, unless somebody
\* edited the file meanwhile (catalog.go, AdoptStructuredSources,
\* SyncFolderProjections).
RuleKept ==
  pc' # pc /\ decl' # decl =>
    /\ pc = "create" => decl = Absent
    /\ pc = "write" /\ ~stale =>
         \A f \in Folder \ gone : decl[f] # NoRule => decl'[f] = decl[f]
RulesKept == [][RuleKept]_declVars

\* Once users leave an entry alone its rules are those of the folders there are,
\* unless its declaration cannot be read; a movie, or a series with a folder, has
\* one.
InStepNow ==
  \/ decl = Invalid
  \/ decl = Absent /\ series /\ dirs = {}
  \/ Declared /\ (series => \A f \in Folder : decl[f] # NoRule <=> f \in dirs)
RulesSettle == <>[]InStepNow
=============================================================================
