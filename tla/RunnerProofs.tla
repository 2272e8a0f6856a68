---------------------------- MODULE RunnerProofs ----------------------------
(***************************************************************************)
(* What the reconciliation runner guarantees for every number of           *)
(* goroutines and web requests and for all intervals.                      *)
(***************************************************************************)
EXTENDS Runner, TLAPS

USE DEF Kinds, Remote, Modes, PCs, loopVars, workVars, clockVars, serveVars

\* The conjuncts about the goroutines and the work they are given.
Work ==
  /\ running \in Modes /\ pending \in Modes
  /\ pc \in [Loop -> PCs]
  /\ mode \in [Loop -> Modes]
  /\ report \in [Loop -> SUBSET Kinds]
  /\ OneRunner
  /\ running = {} => pending = {}
  /\ \A l \in Loop : pc[l] = "refreshed" => "rss" \in mode[l]

\* The conjuncts about what has been completed, and the rest of the types.
Types ==
  /\ completed \subseteq Kinds
  /\ scheduler \in BOOLEAN
  /\ toLocal \in 0..LocalInterval /\ toFull \in 0..Interval
  /\ serve \in {"up", "shutdown", "drained", "waiting", "stopped"}
  /\ connected \in BOOLEAN
  /\ handlers \in 0..MaxHandlers
  /\ owed \subseteq {"local", "rss"}
  /\ finished \subseteq Kinds
  /\ since \in 0..Interval
  /\ abandoned \in BOOLEAN

Deadline == scheduler /\ finished \cap Remote = {} => toFull + since >= Interval

Stages ==
  /\ serve \in {"drained", "waiting", "stopped"} /\ ~abandoned => handlers = 0 /\ ~connected
  /\ serve \in {"waiting", "stopped"} => ~scheduler
  /\ StopsQuietly

LEMMA Parts ==
  IInv <=> /\ Work /\ Types /\ CompletionsKept /\ SenderNeverBlocks
           /\ LocalNeverForgotten /\ Deadline /\ Stages
BY DEF IInv, TypeOK, Work, Types, Deadline, Stages

LEMMA NextParts ==
  /\ Work' /\ Types' /\ CompletionsKept' /\ SenderNeverBlocks'
  /\ LocalNeverForgotten' /\ Deadline' /\ Stages'
  => IInv'
BY DEF IInv, TypeOK, Work, Types, Deadline, Stages

LEMMA Initially == Init => IInv
<1> SUFFICES ASSUME Init PROVE IInv
  OBVIOUS
<1>1. Work
  BY DEF Init, Work, OneRunner, Active
<1>2. Types /\ Deadline
  <2>1. /\ toLocal \in 0..LocalInterval /\ toFull \in 0..Interval
        /\ since \in 0..Interval /\ handlers \in 0..MaxHandlers
        /\ toFull + since >= Interval
    BY IntervalAssumption DEF Init
  <2>2. QED
    BY <2>1 DEF Init, Types, Deadline
<1>3. CompletionsKept /\ SenderNeverBlocks /\ LocalNeverForgotten /\ Stages
  BY DEF Init, CompletionsKept, SenderNeverBlocks, LocalNeverForgotten, Stages, StopsQuietly
<1>4. QED
  BY <1>1, <1>2, <1>3, Parts
-----------------------------------------------------------------------------
(* A request.                                                              *)

LEMMA CoalesceLemma ==
  ASSUME NEW kind \in Kinds, pending \in Modes
  PROVE  /\ Coalesce(kind) \in Modes
         /\ pending \cap {"local", "full"} # {} => Coalesce(kind) \cap {"local", "full"} # {}
         /\ kind = "local" => Coalesce(kind) \cap {"local", "full"} # {}
BY DEF Coalesce, Subsumed

LEMMA RequestLemma ==
  ASSUME Work, Types, CompletionsKept, SenderNeverBlocks, LocalNeverForgotten,
         NEW kind \in Kinds, Request(kind),
         UNCHANGED <<completed, finished, serve>>
  PROVE  /\ Work'
         /\ owed' \subseteq {"local", "rss"}
         /\ CompletionsKept'
         /\ SenderNeverBlocks'
         /\ LocalNeverForgotten'
<1>1. owed' \subseteq {"local", "rss"}
  BY DEF Request, Types
<1>2. CASE running # {}
  <2>1. /\ pending' = Coalesce(kind)
        /\ UNCHANGED <<running, pc, mode, report>>
    BY <1>2 DEF Request
  <2>2. Work'
    BY <1>2, <2>1, CoalesceLemma DEF Work, OneRunner, Active
  <2>3. CompletionsKept' /\ SenderNeverBlocks'
    BY <2>1 DEF CompletionsKept, SenderNeverBlocks, Unsent
  <2>4. LocalNeverForgotten'
    BY <2>1, CoalesceLemma DEF Work, Request, LocalNeverForgotten, Cancelled
  <2>5. QED
    BY <1>1, <2>2, <2>3, <2>4
<1>3. CASE running = {}
  <2>1. PICK l \in Loop : /\ pc[l] = "none"
                          /\ pc' = [pc EXCEPT ![l] = "start"]
                          /\ mode' = [mode EXCEPT ![l] = {kind}]
    BY <1>3 DEF Request
  <2>2. running' = {kind} /\ UNCHANGED <<pending, report>>
    BY <1>3 DEF Request
  <2>3. \A m \in Loop : ~Active(m)
    BY <1>3 DEF Work, OneRunner
  <2>4. Work'
    <3>1. running' \in Modes /\ pending' \in Modes /\ running' # {}
      BY <2>2 DEF Work
    <3>2. pc' \in [Loop -> PCs] /\ mode' \in [Loop -> Modes] /\ report' \in [Loop -> SUBSET Kinds]
      BY <2>1, <2>2 DEF Work
    <3>3. \A m \in Loop : Active(m)' <=> m = l
      BY <2>1, <2>3 DEF Work, Active
    <3>4. OneRunner'
      BY <2>1, <2>2, <3>1, <3>3 DEF Work, OneRunner
    <3>5. \A m \in Loop : pc'[m] = "refreshed" => "rss" \in mode'[m]
      BY <2>1 DEF Work
    <3>6. QED
      BY <3>1, <3>2, <3>4, <3>5 DEF Work
  <2>5. CompletionsKept'
    BY <2>1, <2>2, <2>3 DEF Work, CompletionsKept, Unsent, Active
  <2>6. SenderNeverBlocks'
    BY <2>1 DEF Work, SenderNeverBlocks
  <2>7. LocalNeverForgotten'
    <3>1. "local" \notin owed \/ Cancelled
      BY <1>3, <2>3 DEF LocalNeverForgotten, Work, Active
    <3>2. CASE kind = "local"
      BY <2>1, <3>2 DEF Work, LocalNeverForgotten
    <3>3. CASE kind # "local"
      BY <3>1, <3>3 DEF Request, LocalNeverForgotten, Cancelled
    <3>4. QED
      BY <3>2, <3>3
  <2>8. QED
    BY <1>1, <2>4, <2>5, <2>6, <2>7
<1>4. QED
  BY <1>2, <1>3
-----------------------------------------------------------------------------
(* A step of the goroutine.                                                *)

\* A goroutine that moves on without letting go of the runner.
LEMMA StayActive ==
  ASSUME Work, NEW l \in Loop, Active(l), NEW next \in PCs \ {"none", "done"},
         pc' = [pc EXCEPT ![l] = next],
         next = "refreshed" => "rss" \in mode[l],
         report' \in [Loop -> SUBSET Kinds],
         UNCHANGED <<running, pending, mode>>
  PROVE  Work'
<1>1. \A m \in Loop : Active(m)' <=> Active(m)
  BY DEF Work, Active
<1>2. OneRunner'
  BY <1>1 DEF Work, OneRunner
<1>3. QED
  BY <1>2 DEF Work

LEMMA LoopStepKeeps ==
  ASSUME IInv, NEW l \in Loop, LoopStep(l)
  PROVE  IInv'
<1>0. /\ Work /\ Types /\ CompletionsKept /\ SenderNeverBlocks
      /\ LocalNeverForgotten /\ Deadline /\ Stages
  BY Parts
<1>a. pc[l] # "none" /\ UNCHANGED <<serve, connected, handlers, scheduler, abandoned>>
  BY DEF LoopStep, RefreshRSS, RefreshOnly, BeginCycle, EndCycle, Notify, Merge, Resend,
         Continue, Exit
<1>b. Stages'
  BY <1>0, <1>a DEF Stages, StopsQuietly
<1> USE <1>0
<1>1. CASE RefreshRSS(l)
  <2>1. Work'
    BY <1>1, StayActive DEF RefreshRSS, Active, Work
  <2>2. Types' /\ Deadline'
    BY <1>1 DEF RefreshRSS, Types, Deadline
  <2>3. CompletionsKept' /\ SenderNeverBlocks'
    BY <1>1 DEF RefreshRSS, CompletionsKept, SenderNeverBlocks, Unsent, Work
  <2>4. LocalNeverForgotten'
    BY <1>1 DEF RefreshRSS, LocalNeverForgotten, Cancelled, Work
  <2>5. QED
    BY <1>b, <2>1, <2>2, <2>3, <2>4, NextParts
<1>2. CASE RefreshOnly(l) \/ EndCycle(l)
  <2>1. /\ pc[l] \in {"refreshed", "cycle"} /\ Over(l)
        /\ UNCHANGED <<running, pending, mode, completed, toFull, toLocal, serve, connected, scheduler>>
        /\ owed' \subseteq owed
    BY <1>2 DEF RefreshOnly, EndCycle
  <2>2. Work'
    <3>1. report' \in [Loop -> SUBSET Kinds] /\ Active(l)
      BY <2>1 DEF Over, Work, Active
    <3>2. QED
      BY <2>1, <3>1, StayActive DEF Over
  <2>3. mode[l] \subseteq Kinds
    BY DEF Work
  <2>4. Types' /\ Deadline'
    <3>1. since' \in 0..Interval
      BY <2>1, IntervalAssumption DEF Over, Types
    <3>2. Types'
      BY <1>a, <2>1, <2>3, <3>1 DEF Over, Types
    <3>3. Deadline'
      BY <2>1 DEF Over, Deadline
    <3>4. QED
      BY <3>2, <3>3
  <2>5. CompletionsKept'
    BY <2>1, <2>3 DEF Over, CompletionsKept, Unsent, Work
  <2>6. SenderNeverBlocks'
    BY <2>1 DEF Over, SenderNeverBlocks, Work
  <2>7. LocalNeverForgotten'
    <3>1. CASE RefreshOnly(l) /\ ~Cancelled
      BY <3>1 DEF RefreshOnly, Over, LocalNeverForgotten, Cancelled, Work
    <3>2. CASE Cancelled
      BY <2>1, <3>2 DEF LocalNeverForgotten, Cancelled
    <3>3. CASE EndCycle(l)
      BY <2>1, <3>3 DEF EndCycle, Over, LocalNeverForgotten, Cancelled, Work
    <3>4. QED
      BY <1>2, <3>1, <3>2, <3>3
  <2>8. QED
    BY <1>b, <2>2, <2>4, <2>5, <2>6, <2>7, NextParts
<1>3. CASE BeginCycle(l)
  <2>1. Work'
    BY <1>3, StayActive DEF BeginCycle, Active, Work
  <2>2. Types' /\ Deadline'
    BY <1>3 DEF BeginCycle, Types, Deadline
  <2>3. CompletionsKept' /\ SenderNeverBlocks'
    BY <1>3 DEF BeginCycle, CompletionsKept, SenderNeverBlocks, Unsent, Work
  <2>4. LocalNeverForgotten'
    BY <1>3 DEF BeginCycle, LocalNeverForgotten
  <2>5. QED
    BY <1>b, <2>1, <2>2, <2>3, <2>4, NextParts
<1>4. CASE Notify(l) \/ Resend(l)
  <2>1. CASE Send(l) /\ completed = {} /\ pc[l] \in {"notify", "resend"}
    <3>1. /\ UNCHANGED <<running, pending, mode, scheduler, toLocal, toFull, since,
                         serve, connected, handlers, owed, finished, abandoned>>
          /\ report[l] \subseteq Kinds
          /\ Active(l)
      BY <1>4, <2>1 DEF Notify, Resend, Work, Active
    <3>2. Work'
      <4>1. report' \in [Loop -> SUBSET Kinds]
        BY <2>1 DEF Send, Work
      <4>2. QED
        BY <2>1, <3>1, <4>1, StayActive DEF Send
    <3>3. Types' /\ Deadline'
      BY <2>1, <3>1 DEF Send, Types, Deadline
    <3>4. CompletionsKept'
      <4>1. SUFFICES ASSUME NEW kind \in finished
                     PROVE  kind \in completed' \/ \E m \in Loop : Unsent(kind, m)'
        BY <3>1 DEF CompletionsKept
      <4>2. PICK m \in Loop : Unsent(kind, m)
        BY <2>1 DEF CompletionsKept
      <4>3. CASE m = l
        BY <2>1, <4>2, <4>3 DEF Send, Unsent
      <4>4. CASE m # l
        BY <2>1, <4>2, <4>4 DEF Send, Unsent, Work
      <4>5. QED
        BY <4>3, <4>4
    <3>5. SenderNeverBlocks'
      BY <2>1, <3>1 DEF Send, SenderNeverBlocks, Work, OneRunner, Active
    <3>6. LocalNeverForgotten'
      BY <2>1, <3>1 DEF Send, LocalNeverForgotten, Cancelled, Work
    <3>7. QED
      BY <1>b, <3>2, <3>3, <3>4, <3>5, <3>6, NextParts
  <2>2. CASE Notify(l) /\ completed # {}
    <3>1. Work'
      BY <2>2, StayActive DEF Notify, Active, Work
    <3>2. Types' /\ Deadline'
      BY <2>2 DEF Notify, Types, Deadline
    <3>3. CompletionsKept' /\ SenderNeverBlocks'
      BY <2>2 DEF Notify, CompletionsKept, SenderNeverBlocks, Unsent, Work
    <3>4. LocalNeverForgotten'
      BY <2>2 DEF Notify, LocalNeverForgotten, Cancelled, Work
    <3>5. QED
      BY <1>b, <3>1, <3>2, <3>3, <3>4, NextParts
  <2>3. QED
    BY <1>4, <2>1, <2>2 DEF Notify, Resend
<1>5. CASE Merge(l)
  <2>1. Work'
    <3>1. report' \in [Loop -> SUBSET Kinds] /\ Active(l)
      BY <1>5 DEF Merge, Work, Types, Active
    <3>2. QED
      BY <1>5, <3>1, StayActive DEF Merge
  <2>2. Types' /\ Deadline'
    BY <1>5 DEF Merge, Types, Deadline
  <2>3. CompletionsKept'
    <3>1. SUFFICES ASSUME NEW kind \in finished
                   PROVE  \E m \in Loop : Unsent(kind, m)'
      BY <1>5 DEF Merge, CompletionsKept
    <3>2. CASE kind \in completed
      BY <1>5, <3>2 DEF Merge, Unsent, Work
    <3>3. ASSUME NEW m \in Loop, Unsent(kind, m) PROVE Unsent(kind, m)'
      BY <1>5, <3>3 DEF Merge, Unsent, Work
    <3>4. QED
      BY <3>2, <3>3 DEF CompletionsKept
  <2>4. SenderNeverBlocks'
    BY <1>5 DEF Merge, SenderNeverBlocks
  <2>5. LocalNeverForgotten'
    BY <1>5 DEF Merge, LocalNeverForgotten, Cancelled, Work
  <2>6. QED
    BY <1>b, <2>1, <2>2, <2>3, <2>4, <2>5, NextParts
<1>6. CASE Continue(l)
  <2>1. Active(l) /\ \A m \in Loop : m # l => ~Active(m)
    BY <1>6 DEF Continue, Work, OneRunner, Active
  <2>2. Types' /\ Deadline'
    BY <1>6 DEF Continue, Types, Deadline
  <2>3. CompletionsKept' /\ SenderNeverBlocks'
    BY <1>6 DEF Continue, CompletionsKept, SenderNeverBlocks, Unsent, Work
  <2>4. CASE pending # {} /\ ~Cancelled
    <3>1. Work'
      <4>1. \A m \in Loop : Active(m)' <=> m = l
        BY <1>6, <2>1, <2>4 DEF Continue, Work, Active
      <4>2. OneRunner'
        BY <1>6, <2>4, <4>1 DEF Continue, Work, OneRunner
      <4>3. QED
        BY <1>6, <2>4, <4>2 DEF Continue, Work
    <3>2. LocalNeverForgotten'
      BY <1>6, <2>1, <2>4 DEF Continue, LocalNeverForgotten, Cancelled, Work, Active
    <3>3. QED
      BY <1>b, <2>2, <2>3, <3>1, <3>2, NextParts
  <2>5. CASE ~(pending # {} /\ ~Cancelled)
    <3>1. Work'
      <4>1. \A m \in Loop : ~Active(m)'
        BY <1>6, <2>1, <2>5 DEF Continue, Work, Active
      <4>2. OneRunner'
        BY <1>6, <2>5, <4>1 DEF Continue, OneRunner
      <4>3. QED
        BY <1>6, <2>5, <4>2 DEF Continue, Work
    <3>2. LocalNeverForgotten'
      BY <1>6, <2>1, <2>5 DEF Continue, LocalNeverForgotten, Cancelled, Work, Active
    <3>3. QED
      BY <1>b, <2>2, <2>3, <3>1, <3>2, NextParts
  <2>6. QED
    BY <2>4, <2>5
<1>7. CASE Exit(l)
  <2>1. Work'
    <3>1. \A m \in Loop : Active(m)' <=> Active(m)
      BY <1>7 DEF Exit, Work, Active
    <3>2. OneRunner'
      BY <1>7, <3>1 DEF Exit, Work, OneRunner
    <3>3. QED
      BY <1>7, <3>2 DEF Exit, Work
  <2>2. Types' /\ Deadline'
    BY <1>7 DEF Exit, Types, Deadline
  <2>3. CompletionsKept' /\ SenderNeverBlocks'
    BY <1>7 DEF Exit, CompletionsKept, SenderNeverBlocks, Unsent, Work
  <2>4. LocalNeverForgotten'
    BY <1>7 DEF Exit, LocalNeverForgotten, Cancelled, Work
  <2>5. QED
    BY <1>b, <2>1, <2>2, <2>3, <2>4, NextParts
<1>8. QED
  BY <1>1, <1>2, <1>3, <1>4, <1>5, <1>6, <1>7 DEF LoopStep
-----------------------------------------------------------------------------
(* The other steps.                                                        *)

\* Where the goroutines and the work given to them are left alone.
LEMMA WorkUnchanged ==
  ASSUME Work, UNCHANGED <<workVars, loopVars>>
  PROVE  Work'
<1>1. \A l \in Loop : Active(l)' <=> Active(l)
  BY DEF Active
<1>2. OneRunner'
  BY <1>1 DEF Work, OneRunner
<1>3. QED
  BY <1>2 DEF Work

LEMMA Later ==
  ASSUME NEW a \in Nat, NEW b \in Nat, NEW c \in Nat, NEW d \in Nat,
         b >= a, a + c >= d
  PROVE  b + c >= d
OBVIOUS

LEMMA RequestStepKeeps ==
  ASSUME IInv, (\E kind \in Remote : Handle(kind)) \/ TimerFull \/ TimerLocal
  PROVE  IInv'
<1>0. /\ Work /\ Types /\ CompletionsKept /\ SenderNeverBlocks
      /\ LocalNeverForgotten /\ Deadline /\ Stages
  BY Parts
<1> USE <1>0
<1>1. PICK kind \in Kinds : Request(kind)
  BY DEF Handle, TimerFull, TimerLocal
<1>2. UNCHANGED <<completed, finished, serve, connected, since, scheduler, abandoned>>
  BY DEF Handle, TimerFull, TimerLocal
<1>3. /\ Work' /\ CompletionsKept' /\ SenderNeverBlocks' /\ LocalNeverForgotten'
      /\ owed' \subseteq {"local", "rss"}
  BY <1>1, <1>2, RequestLemma
<1>4. /\ toLocal' \in 0..LocalInterval /\ toFull' \in {toFull, Interval}
      /\ handlers' \in 0..MaxHandlers /\ handlers' <= handlers
  BY IntervalAssumption DEF Handle, TimerFull, TimerLocal, Types
<1>5. Types' /\ Deadline'
  <2>1. toFull' \in 0..Interval /\ toFull' >= toFull
    BY <1>4, IntervalAssumption DEF Types
  <2>2. Types'
    BY <1>2, <1>3, <1>4, <2>1 DEF Types
  <2>3. Deadline'
    <3>1. /\ toFull \in Nat /\ toFull' \in Nat /\ since \in Nat /\ Interval \in Nat
          /\ since' = since /\ finished' = finished /\ scheduler' = scheduler
      BY <1>2, <2>1, IntervalAssumption DEF Types
    <3>2. toFull + since >= Interval => toFull' + since >= Interval
      BY <2>1, <3>1, Later
    <3>3. QED
      BY <3>1, <3>2 DEF Deadline
  <2>4. QED
    BY <2>2, <2>3
<1>6. Stages'
  <2>1. CASE serve = "stopped" /\ ~abandoned
    <3>1. handlers = 0 /\ ~scheduler
      BY <2>1 DEF Stages
    <3>2. QED
      BY <3>1 DEF Handle, TimerFull, TimerLocal
  <2>2. CASE ~(serve = "stopped" /\ ~abandoned)
    <3>1. handlers = 0 => handlers' = 0
      BY <1>4 DEF Types
    <3>2. QED
      BY <1>2, <2>2, <3>1 DEF Stages, StopsQuietly
  <2>3. QED
    BY <2>1, <2>2
<1>7. QED
  BY <1>3, <1>5, <1>6, NextParts

LEMMA OtherStepKeeps ==
  ASSUME IInv,
         \/ Arrive \/ Reject \/ Receive \/ Quit \/ Tick
         \/ Shutdown \/ Stopping \/ ServerFails \/ UNCHANGED vars
  PROVE  IInv'
<1>0. /\ Work /\ Types /\ CompletionsKept /\ SenderNeverBlocks
      /\ LocalNeverForgotten /\ Deadline /\ Stages
  BY Parts
<1>a. \/ UNCHANGED vars
      \/ Arrive \/ Reject
      \/ Receive
      \/ Quit
      \/ Tick
      \/ Shutdown
      \/ Stopping \/ ServerFails
  OBVIOUS
<1> USE <1>0
<1>1. /\ UNCHANGED <<running, pending, pc, mode, report, owed>>
      /\ (finished' = finished /\ completed' = completed) \/ Receive
      /\ serve' = serve \/ serve' # "up"
  BY <1>a DEF Arrive, Reject, Receive, Quit, Tick, Shutdown, Stopping, Drain, WaitScheduler,
              WaitLoops, ServerFails, Move, vars
<1>2. Work'
  BY <1>1, WorkUnchanged
<1>3. CompletionsKept'
  BY <1>1 DEF CompletionsKept, Unsent, Receive
<1>4. SenderNeverBlocks'
  BY <1>1 DEF SenderNeverBlocks, Receive
<1>5. LocalNeverForgotten'
  BY <1>1 DEF LocalNeverForgotten, Cancelled
<1>6. Types' /\ Deadline' /\ Stages'
  <2>1. CASE UNCHANGED vars
    BY <2>1 DEF vars, Types, Deadline, Stages, StopsQuietly
  <2>2. CASE Arrive \/ Reject
    <3>1. handlers' \in 0..MaxHandlers /\ (handlers = 0 /\ ~connected => handlers' = 0)
      BY <2>2, IntervalAssumption DEF Arrive, Reject, Types
    <3>2. UNCHANGED <<running, pc, completed, scheduler, toLocal, toFull, since, serve, connected, owed,
                      finished, abandoned>>
      BY <2>2 DEF Arrive, Reject
    <3>3. QED
      BY <3>1, <3>2 DEF Types, Deadline, Stages, StopsQuietly
  <2>3. CASE Receive
    <3>1. toLocal' \in 0..LocalInterval /\ toFull' \in {toFull, Interval} /\ toFull' \in 0..Interval
      BY <2>3, IntervalAssumption DEF Receive, Types
    <3>2. Types'
      BY <2>3, <3>1 DEF Receive, Types
    <3>3. Deadline'
      BY <2>3, IntervalAssumption DEF Receive, Deadline, Types
    <3>4. Stages'
      BY <2>3 DEF Receive, Stages, StopsQuietly
    <3>5. QED
      BY <3>2, <3>3, <3>4
  <2>4. CASE Quit
    <3>1. 0 \in 0..LocalInterval /\ 0 \in 0..Interval
      BY IntervalAssumption
    <3>2. /\ ~scheduler' /\ toLocal' = 0 /\ toFull' = 0
          /\ UNCHANGED <<running, pc, completed, since, serve, connected, handlers, owed, finished,
                        abandoned>>
      BY <2>4 DEF Quit
    <3>3. Types'
      BY <2>4, <3>1, <3>2 DEF Types, Quit
    <3>4. Deadline' /\ Stages'
      BY <3>2 DEF Deadline, Stages, StopsQuietly
    <3>5. QED
      BY <3>3, <3>4
  <2>5. CASE Tick
    <3>1. /\ toLocal' \in 0..LocalInterval /\ toFull' \in 0..Interval /\ since' \in 0..Interval
          /\ toFull + since >= Interval => toFull' + since' >= Interval
      BY <2>5, IntervalAssumption DEF Tick, Types
    <3>2. UNCHANGED <<running, pc, completed, scheduler, serve, connected, handlers, owed, finished,
                      abandoned>>
      BY <2>5 DEF Tick
    <3>3. QED
      BY <3>1, <3>2 DEF Types, Deadline, Stages, StopsQuietly
  <2>6. CASE Shutdown
    BY <2>6 DEF Shutdown, Move, Types, Deadline, Stages, StopsQuietly
  <2>7. CASE Stopping \/ ServerFails
    <3>1. UNCHANGED <<running, pc, completed, scheduler, toLocal, toFull, since, handlers,
                      owed, finished>>
      BY <2>7 DEF Stopping, Drain, WaitScheduler, WaitLoops, ServerFails, Move
    <3>2. /\ serve' \in {"drained", "waiting", "stopped"}
          /\ abandoned' \in BOOLEAN /\ connected' \in BOOLEAN
      <4>1. serve' \in {"drained", "waiting", "stopped"}
        BY <2>7 DEF Stopping, Drain, WaitScheduler, WaitLoops, ServerFails, Move
      <4>2. abandoned' \in {handlers > 0, TRUE, abandoned} /\ connected' \in {FALSE, connected}
        BY <2>7, Zenon DEF Stopping, Drain, WaitScheduler, WaitLoops, ServerFails
      <4>3. (handlers > 0) \in BOOLEAN
        OBVIOUS
      <4>4. QED
        BY <4>1, <4>2, <4>3, Zenon DEF Types
    <3>3. Types' /\ Deadline'
      BY <3>1, <3>2 DEF Types, Deadline
    <3>4. CASE Drain \/ ServerFails
      <4>1. serve' = "drained" /\ ((abandoned' = (handlers > 0) /\ ~connected') \/ abandoned')
        BY <3>4 DEF Drain, ServerFails, Move
      <4>2. handlers > 0 \/ handlers = 0
        BY IntervalAssumption DEF Types
      <4>3. abandoned' \/ (handlers' = 0 /\ ~connected')
        BY <3>1, <4>1, <4>2, Zenon
      <4>4. QED
        BY <3>3, <4>1, <4>3 DEF Stages, StopsQuietly
    <3>5. CASE WaitScheduler
      <4>1. serve = "drained" /\ serve' = "waiting" /\ ~scheduler
            /\ abandoned' = abandoned /\ connected' = connected
        BY <3>5 DEF WaitScheduler, Move
      <4>2. Stages'
        BY <3>1, <4>1, Zenon DEF Stages, StopsQuietly
      <4>3. QED
        BY <3>3, <4>2
    <3>6. CASE WaitLoops
      <4>1. running = {} /\ \A l \in Loop : pc[l] = "none"
        BY <3>6 DEF WaitLoops, Work, OneRunner, Active
      <4>2. serve = "waiting" /\ serve' = "stopped"
            /\ abandoned' = abandoned /\ connected' = connected
        BY <3>6 DEF WaitLoops, Move
      <4>3. Stages'
        BY <3>1, <4>1, <4>2, Zenon DEF Stages, StopsQuietly
      <4>4. QED
        BY <3>3, <4>3
    <3>7. QED
      BY <2>7, <3>4, <3>5, <3>6 DEF Stopping
  <2>8. QED
    BY <1>a, <2>1, <2>2, <2>3, <2>4, <2>5, <2>6, <2>7
<1>7. QED
  BY <1>2, <1>3, <1>4, <1>5, <1>6, NextParts

\* Every reachable state, for any number of goroutines and web requests and any
\* intervals, satisfies the inductive invariant.
THEOREM Invariant == Spec => []IInv
<1>1. IInv /\ [Next]_vars => IInv'
  BY LoopStepKeeps, RequestStepKeeps, OtherStepKeeps DEF Next
<1>2. QED
  BY <1>1, Initially, PTL DEF Spec

\* One goroutine at most runs cycles, and only while the runner is marked so.
THEOREM OnlyRunner == Spec => []OneRunner
<1>1. IInv => OneRunner
  BY DEF IInv
<1>2. QED
  BY <1>1, Invariant, PTL

\* No completed kind of work is lost on its way to the scheduler.
THEOREM KeepingCompletions == Spec => []CompletionsKept
<1>1. IInv => CompletionsKept
  BY DEF IInv
<1>2. QED
  BY <1>1, Invariant, PTL

\* The runner is never stopped by a scheduler that does not receive.
THEOREM NeverBlocking == Spec => []SenderNeverBlocks
<1>1. IInv => SenderNeverBlocks
  BY DEF IInv
<1>2. QED
  BY <1>1, Invariant, PTL

\* Every local request is followed by an observation that begins after it.
THEOREM NeverForgetting == Spec => []LocalNeverForgotten
<1>1. IInv => LocalNeverForgotten
  BY DEF IInv
<1>2. QED
  BY <1>1, Invariant, PTL

\* An orderly shutdown leaves no goroutine behind.
THEOREM StoppingQuietly == Spec => []StopsQuietly
<1>1. IInv => StopsQuietly
  BY DEF IInv
<1>2. QED
  BY <1>1, Invariant, PTL

\* A completed observation, manual or not, always postpones the timer's next one
\* by the whole interval, once the scheduler has heard of it.
THEOREM WaitingTheInterval == Spec => NoEarlyObservation
<1>1. IInv /\ TimerFull => since = Interval \/ finished \cap Remote # {}
  BY IntervalAssumption DEF IInv, TypeOK, TimerFull, FullDue
<1>2. IInv /\ [Next]_vars =>
        [TimerFull => since = Interval \/ finished \cap Remote # {}]_vars
  BY <1>1
<1>3. QED
  BY <1>2, Invariant, PTL DEF Spec, NoEarlyObservation

-----------------------------------------------------------------------------
(* Serving.  While a local request waits some goroutine holds the runner, and *)
(* has at most seven steps to its next mode and two more to the observation. *)

Observing(m) == m \cap {"local", "full"} # {}
Owed == "local" \in owed /\ ~Cancelled

\* The request is coalesced and the runner is at p; or it has been taken up.
Due(p)   == Owed /\ Observing(pending) /\ \E l \in Loop : pc[l] = p
Taken(p) == Owed /\ \E l \in Loop : pc[l] = p /\ Observing(mode[l])

Left1 == Taken("refreshed")
Left2 == Left1 \/ Taken("start")
Left3 == Left2 \/ Due("next")
Left4 == Left3 \/ Due("resend")
Left5 == Left4 \/ Due("merge")
Left6 == Left5 \/ Due("notify")
Left7 == Left6 \/ Due("cycle")
Left8 == Left7 \/ Due("refreshed")
Left9 == Left8 \/ Due("start")

\* Some goroutine holds the runner; it takes a step.
Held == \E l \in Loop : Active(l)
Advance == \E l \in Loop : Active(l) /\ LoopStep(l)

LEMMA OwedLeft == IInv /\ Owed => Left9
<1> SUFFICES ASSUME IInv, Owed PROVE Left9
  OBVIOUS
<1>0. Work /\ LocalNeverForgotten
  BY Parts
<1>1. CASE Observing(pending)
  <2>1. PICK l \in Loop : Active(l)
    BY <1>0, <1>1 DEF Work, OneRunner, Observing
  <2>2. pc[l] \in {"start", "refreshed", "cycle", "notify", "merge", "resend", "next"}
    BY <1>0, <2>1 DEF Work, Active
  <2> QED BY <1>1, <2>2 DEF Due, Left9, Left8, Left7, Left6, Left5, Left4, Left3
<1>2. CASE \E l \in Loop : pc[l] \in {"start", "refreshed"} /\ Observing(mode[l])
  BY <1>2 DEF Taken, Left9, Left8, Left7, Left6, Left5, Left4, Left3, Left2, Left1
<1> QED BY <1>0, <1>1, <1>2 DEF LocalNeverForgotten, Owed, Observing

\* Nobody but the goroutine itself moves it, and what is coalesced stays so.
LEMMA OthersStay ==
  ASSUME Work, NEW x \in Loop, Active(x), [Next]_vars, ~LoopStep(x)
  PROVE  /\ pc'[x] = pc[x] /\ mode'[x] = mode[x]
         /\ Observing(pending) => Observing(pending')
<1> USE DEF Observing
<1>1. ASSUME NEW kind \in Kinds, Request(kind)
      PROVE  UNCHANGED <<pc, mode>> /\ (Observing(pending) => Observing(pending'))
  <2>1. running # {}
    BY DEF Work, OneRunner
  <2> QED BY <1>1, <2>1, CoalesceLemma DEF Request, Work
<1>2. CASE (\E kind \in Remote : Handle(kind)) \/ TimerFull \/ TimerLocal
  BY <1>1, <1>2 DEF Handle, TimerFull, TimerLocal
<1>3. ASSUME NEW l \in Loop, LoopStep(l)
      PROVE  pc'[x] = pc[x] /\ mode'[x] = mode[x] /\ pending' = pending
  <2>1. l # x /\ ~Active(l)
    BY <1>3 DEF Work, OneRunner
  <2>2. Exit(l)
    BY <1>3, <2>1 DEF LoopStep, Active, RefreshRSS, RefreshOnly, BeginCycle, EndCycle, Notify, Merge, Resend, Continue
  <2> QED BY <2>1, <2>2 DEF Exit, Work
<1>4. CASE Arrive \/ Reject \/ Receive \/ Quit \/ Tick \/ Shutdown \/ Stopping \/ ServerFails \/ UNCHANGED vars
  BY <1>4 DEF Arrive, Reject, Receive, Quit, Tick, Shutdown, Stopping, Drain, WaitScheduler, WaitLoops, ServerFails, Move, vars
<1> QED BY <1>2, <1>3, <1>4 DEF Next

\* A step of it brings it nearer.
LEMMA StepAdvances ==
  ASSUME IInv, NEW x \in Loop, Active(x), LoopStep(x), Owed'
  PROVE  /\ pc[x] = "refreshed" /\ Observing(mode[x]) => FALSE
         /\ pc[x] = "start" /\ Observing(mode[x]) => Left1'
         /\ pc[x] = "next" /\ Observing(pending) => Left2'
         /\ pc[x] = "resend" /\ Observing(pending) => Left3'
         /\ pc[x] = "merge" /\ Observing(pending) => Left4'
         /\ pc[x] = "notify" /\ Observing(pending) => Left5'
         /\ pc[x] = "cycle" /\ Observing(pending) => Left6'
         /\ pc[x] = "refreshed" /\ Observing(pending) => Left7'
         /\ pc[x] = "start" /\ Observing(pending) => Left8'
<1> USE DEF Observing, Left1, Left2, Left3, Left4, Left5, Left6, Left7, Left8, Due, Taken
<1>0. Work /\ UNCHANGED serve
  BY Parts DEF LoopStep, RefreshRSS, RefreshOnly, BeginCycle, EndCycle, Notify, Merge, Resend, Continue, Exit
<1>1. CASE RefreshRSS(x)
  BY <1>0, <1>1 DEF RefreshRSS, Work, Owed
<1>2. CASE RefreshOnly(x)
  BY <1>0, <1>2 DEF RefreshOnly, Over, Work, Owed, Cancelled
<1>3. CASE BeginCycle(x)
  BY <1>0, <1>3 DEF BeginCycle, Work, Owed
<1>4. CASE EndCycle(x)
  BY <1>0, <1>4 DEF EndCycle, Over, Work
<1>5. CASE Notify(x)
  BY <1>0, <1>5 DEF Notify, Send, Work
<1>6. CASE Merge(x)
  BY <1>0, <1>6 DEF Merge, Work
<1>7. CASE Resend(x)
  BY <1>0, <1>7 DEF Resend, Send, Work
<1>8. CASE Continue(x)
  BY <1>0, <1>8 DEF Continue, Work, Owed, Cancelled
<1>9. CASE Exit(x)
  BY <1>9 DEF Exit, Active
<1> QED BY <1>1, <1>2, <1>3, <1>4, <1>5, <1>6, <1>7, <1>8, <1>9 DEF LoopStep

LEMMA LeftStays ==
  ASSUME IInv, [Next]_vars, ~Advance, Owed'
  PROVE  \A p \in PCs \ {"none", "done"} : (Due(p) => Due(p)') /\ (Taken(p) => Taken(p)')
<1>1. Work
  BY Parts
<1>2. ASSUME NEW p \in PCs \ {"none", "done"}, NEW x \in Loop, pc[x] = p
      PROVE  /\ pc'[x] = p /\ mode'[x] = mode[x]
             /\ Observing(pending) => Observing(pending')
  <2>1. Active(x) /\ ~LoopStep(x)
    BY <1>2 DEF Active, Advance
  <2> QED BY <1>1, <1>2, <2>1, OthersStay
<1> QED BY <1>2 DEF Due, Taken

LEMMA LeftAdvances ==
  ASSUME IInv, Advance, Owed'
  PROVE  /\ ~Taken("refreshed")
         /\ Taken("start") => Left1'
         /\ Due("next") => Left2'
         /\ Due("resend") => Left3'
         /\ Due("merge") => Left4'
         /\ Due("notify") => Left5'
         /\ Due("cycle") => Left6'
         /\ Due("refreshed") => Left7'
         /\ Due("start") => Left8'
<1>1. Work
  BY Parts
<1>2. PICK x \in Loop : Active(x) /\ LoopStep(x)
  BY DEF Advance
<1>3. \A l \in Loop : pc[l] \notin {"none", "done"} => l = x
  BY <1>1, <1>2 DEF Work, OneRunner, Active
<1> QED BY <1>2, <1>3, StepAdvances DEF Due, Taken

\* Every local request is answered by an observation that begins after it, unless
\* the daemon shuts down before: whatever else is requested and coalesced, and
\* wherever the runner stands, if the goroutine that holds the runner goes on.
\* Nothing is assumed of the scheduler, the clock or the web.
THEOREM LocalServed ==
  Spec /\ ([]<>~Held \/ []<><<Advance>>_vars) => (Owed ~> ~Owed)
<1>0. IInv /\ Owed => Held
  <2> SUFFICES ASSUME IInv, Owed PROVE Held
    OBVIOUS
  <2>1. Work /\ Left9
    BY Parts, OwedLeft
  <2> QED BY <2>1 DEF Left9, Left8, Left7, Left6, Left5, Left4, Left3, Left2, Left1, Due, Taken, Active, Held
<1>1. IInv /\ [Next]_vars /\ ~Advance /\ Owed' =>
        /\ Left1 => Left1'
        /\ Left2 => Left2'
        /\ Left3 => Left3'
        /\ Left4 => Left4'
        /\ Left5 => Left5'
        /\ Left6 => Left6'
        /\ Left7 => Left7'
        /\ Left8 => Left8'
        /\ Left9 => Left9'
  BY LeftStays DEF Left9, Left8, Left7, Left6, Left5, Left4, Left3, Left2, Left1
<1>2. IInv /\ Advance /\ Owed' =>
        /\ ~Left1
        /\ Left2 => Left1'
        /\ Left3 => Left2'
        /\ Left4 => Left3'
        /\ Left5 => Left4'
        /\ Left6 => Left5'
        /\ Left7 => Left6'
        /\ Left8 => Left7'
        /\ Left9 => Left8'
  BY LeftAdvances DEF Left9, Left8, Left7, Left6, Left5, Left4, Left3, Left2, Left1
<1> QED BY <1>0, <1>1, <1>2, OwedLeft, Invariant, PTL DEF Spec
=============================================================================
