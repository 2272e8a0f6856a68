------------------------------- MODULE Runner -------------------------------
(***************************************************************************)
(* The reconciliation runner of the daemon: web handlers and one scheduler *)
(* ask for work, a goroutine that exists only while there is work runs one *)
(* cycle after another, and tells the scheduler, over a channel that holds *)
(* one value, which kinds of work it has completed.                        *)
(*                                                                         *)
(* A mode is a set of kinds of work (the bits of reconcileMode): "local"   *)
(* observes and publishes the file system, "rss" refreshes remote          *)
(* releases, "full" is both with acquisition and never goes with another.  *)
(***************************************************************************)
EXTENDS Naturals, FiniteSets

CONSTANTS
  Loop,          \* bound: goroutines that may exist at the same time
  LocalInterval, \* ticks between local cycles
  Interval,      \* ticks between remote observations; 0 disables them
  MaxHandlers    \* bound: web requests in flight at the same time

ASSUME IntervalAssumption ==
  LocalInterval \in Nat \ {0} /\ Interval \in Nat /\ MaxHandlers \in Nat

VARIABLES
  running,   \* the mode of the running cycle, {} when there is no goroutine
  pending,   \* the work coalesced while a cycle runs
  pc,        \* where each goroutine is
  mode,      \* the mode of the cycle each goroutine runs
  report,    \* the kinds each goroutine is about to send
  completed, \* the channel of capacity one, {} when empty
  scheduler, \* whether the scheduler goroutine still runs
  toLocal,   \* ticks until the local deadline
  toFull,    \* ticks until the remote deadline
  serve,     \* where Serve stands
  connected, \* web requests may still arrive
  handlers,  \* web requests that have arrived and not yet asked for work
  owed,      \* history: requested kinds no later observation has served
  finished,  \* history: kinds completed and not yet seen by the scheduler
  since,     \* history: ticks since a remote observation completed
  abandoned  \* history: Serve did not wait for every web request

loopVars  == <<pc, mode, report>>
workVars  == <<running, pending>>
clockVars == <<toLocal, toFull, since>>
serveVars == <<serve, connected>>
vars == <<workVars, loopVars, completed, scheduler, clockVars, serveVars, handlers,
          owed, finished, abandoned>>

Kinds  == {"local", "rss", "full"}
Remote == {"rss", "full"}
Modes  == {{}, {"local"}, {"rss"}, {"local", "rss"}, {"full"}}
PCs == {"none", "start", "refreshed", "cycle", "notify", "merge", "resend",
        "next", "done"}

TypeOK ==
  /\ running \in Modes /\ pending \in Modes
  /\ pc \in [Loop -> PCs]
  /\ mode \in [Loop -> Modes]
  /\ report \in [Loop -> SUBSET Kinds]
  /\ completed \subseteq Kinds
  /\ scheduler \in BOOLEAN
  /\ toLocal \in 0..LocalInterval /\ toFull \in 0..Interval
  /\ serve \in {"up", "shutdown", "drained", "waiting", "stopped"}
  /\ connected \in BOOLEAN
  /\ handlers \in 0..MaxHandlers
  /\ owed \subseteq {"local", "rss"}
  /\ finished \subseteq Kinds
  /\ since \in 0..Interval
  /\ abandoned \in BOOLEAN

\* The first remote observation, or without one the first local cycle, is due
\* at once.
Init ==
  /\ running = {} /\ pending = {}
  /\ pc = [l \in Loop |-> "none"]
  /\ mode = [l \in Loop |-> {}]
  /\ report = [l \in Loop |-> {}]
  /\ completed = {}
  /\ scheduler = TRUE
  /\ toLocal = IF Interval > 0 THEN LocalInterval ELSE 0
  /\ toFull = 0
  /\ serve = "up" /\ connected = TRUE /\ handlers = 0
  /\ owed = {} /\ finished = {} /\ since = Interval /\ abandoned = FALSE

Cancelled == serve # "up"

-----------------------------------------------------------------------------
(* Requests.                                                               *)

\* Mutant: a running full cycle is taken to do local work asked for later.
SubsumedLocal(kind) ==
  \/ running = {"full"}
  \/ kind = "rss" /\ "rss" \in running

\* Work that the running cycle is taken to do anyway.
Subsumed(kind) ==
  \/ running = {"full"} /\ kind # "local"
  \/ kind = "rss" /\ "rss" \in running

Coalesce(kind) ==
  IF Subsumed(kind) \/ pending = {"full"} THEN pending
  ELSE IF kind = "full"                   THEN {"full"}
  ELSE                                         pending \cup {kind}

\* Under reconcileMu: coalesced while a cycle runs, else a goroutine is started.
Request(kind) ==
  /\ owed' = owed \cup ({kind} \ {"full"})
  /\ \/ /\ running # {}
        /\ pending' = Coalesce(kind)
        /\ UNCHANGED <<running, loopVars>>
     \/ /\ running = {}
        /\ running' = {kind}
        /\ \E l \in Loop : /\ pc[l] = "none"
                           /\ pc' = [pc EXCEPT ![l] = "start"]
                           /\ mode' = [mode EXCEPT ![l] = {kind}]
        /\ UNCHANGED <<pending, report>>

\* A web request arrives; its body is read and decoded before it asks for work.
\* The server takes requests until it is shut down.
Arrive ==
  /\ connected
  /\ handlers < MaxHandlers
  /\ handlers' = handlers + 1
  /\ UNCHANGED <<workVars, loopVars, completed, scheduler, clockVars, serveVars,
                 owed, finished, abandoned>>

\* POST /ui/automation/run and POST /ui/discovery/rss/refresh.
Handle(kind) ==
  /\ handlers > 0
  /\ handlers' = handlers - 1
  /\ Request(kind)
  /\ UNCHANGED <<completed, scheduler, clockVars, serveVars, finished, abandoned>>

\* A web request is refused before it asks for work.
Reject ==
  /\ handlers > 0
  /\ handlers' = handlers - 1
  /\ UNCHANGED <<workVars, loopVars, completed, scheduler, clockVars, serveVars,
                 owed, finished, abandoned>>

-----------------------------------------------------------------------------
(* The goroutine.                                                          *)

\* The cycle of goroutine l is over and its kinds are to be reported.
Over(l) ==
  /\ pc' = [pc EXCEPT ![l] = "notify"]
  /\ report' = [report EXCEPT ![l] = mode[l]]
  /\ finished' = finished \cup mode[l]
  /\ since' = IF mode[l] \cap Remote # {} THEN 0 ELSE since

RefreshRSS(l) ==
  /\ pc[l] = "start" /\ "rss" \in mode[l]
  /\ pc' = [pc EXCEPT ![l] = "refreshed"]
  /\ owed' = owed \ {"rss"}
  /\ UNCHANGED <<workVars, mode, report, completed, scheduler, clockVars, serveVars,
                 handlers, finished, abandoned>>

\* A refresh alone ends here, and so does every refresh once shutdown began.
RefreshOnly(l) ==
  /\ pc[l] = "refreshed"
  /\ "local" \notin mode[l] \/ Cancelled
  /\ Over(l)
  /\ UNCHANGED <<workVars, mode, completed, scheduler, toLocal, toFull, serveVars,
                 handlers, owed, abandoned>>

BeginCycle(l) ==
  /\ \/ pc[l] = "start" /\ "rss" \notin mode[l]
     \/ pc[l] = "refreshed" /\ "local" \in mode[l] /\ ~Cancelled
  /\ pc' = [pc EXCEPT ![l] = "cycle"]
  /\ owed' = owed \ {"local"}
  /\ UNCHANGED <<workVars, mode, report, completed, scheduler, clockVars, serveVars,
                 handlers, finished, abandoned>>

EndCycle(l) ==
  /\ pc[l] = "cycle"
  /\ Over(l)
  /\ owed' = IF mode[l] = {"full"} THEN owed \ {"rss"} ELSE owed
  /\ UNCHANGED <<workVars, mode, completed, scheduler, toLocal, toFull, serveVars,
                 handlers, abandoned>>

Send(l) ==
  /\ completed' = report[l]
  /\ report' = [report EXCEPT ![l] = {}]
  /\ pc' = [pc EXCEPT ![l] = "next"]

\* A send that does not block.
Notify(l) ==
  /\ pc[l] = "notify"
  /\ IF completed = {}
     THEN Send(l)
     ELSE pc' = [pc EXCEPT ![l] = "merge"] /\ UNCHANGED <<report, completed>>
  /\ UNCHANGED <<workVars, mode, scheduler, clockVars, serveVars, handlers,
                 owed, finished, abandoned>>

\* Mutant: what the channel held is thrown away.
MergeForgetting(l) ==
  /\ pc[l] = "merge"
  /\ completed' = {}
  /\ pc' = [pc EXCEPT ![l] = "resend"]
  /\ UNCHANGED <<workVars, mode, report, scheduler, clockVars, serveVars, handlers,
                 owed, finished, abandoned>>

\* Mutant: the channel is not emptied.
MergeFull(l) ==
  /\ pc[l] = "merge"
  /\ report' = [report EXCEPT ![l] = @ \cup completed]
  /\ pc' = [pc EXCEPT ![l] = "resend"]
  /\ UNCHANGED <<workVars, mode, completed, scheduler, clockVars, serveVars, handlers,
                 owed, finished, abandoned>>

\* The channel was full: what it holds, if the scheduler has not taken it since,
\* is added to the report.
Merge(l) ==
  /\ pc[l] = "merge"
  /\ report' = [report EXCEPT ![l] = @ \cup completed]
  /\ completed' = {}
  /\ pc' = [pc EXCEPT ![l] = "resend"]
  /\ UNCHANGED <<workVars, mode, scheduler, clockVars, serveVars, handlers, owed,
                 finished, abandoned>>

\* A send that would block on a full channel.
Resend(l) ==
  /\ pc[l] = "resend"
  /\ completed = {}
  /\ Send(l)
  /\ UNCHANGED <<workVars, mode, scheduler, clockVars, serveVars, handlers,
                 owed, finished, abandoned>>

\* Mutant: the runner is not marked running again for the coalesced work.
ContinueUnmarked(l) ==
  /\ pc[l] = "next"
  /\ IF pending # {} /\ ~Cancelled
     THEN mode' = [mode EXCEPT ![l] = pending] /\ pc' = [pc EXCEPT ![l] = "start"]
     ELSE mode' = [mode EXCEPT ![l] = {}] /\ pc' = [pc EXCEPT ![l] = "done"]
  /\ running' = {} /\ pending' = {}
  /\ UNCHANGED <<report, completed, scheduler, clockVars, serveVars, handlers, owed,
                 finished, abandoned>>

\* Mutant: the runner stays marked running when the goroutine gives up.
ContinueMarked(l) ==
  /\ pc[l] = "next"
  /\ running' = IF pending # {} /\ ~Cancelled THEN pending ELSE running
  /\ IF pending # {} /\ ~Cancelled
     THEN mode' = [mode EXCEPT ![l] = pending] /\ pc' = [pc EXCEPT ![l] = "start"]
     ELSE mode' = [mode EXCEPT ![l] = {}] /\ pc' = [pc EXCEPT ![l] = "done"]
  /\ pending' = {}
  /\ UNCHANGED <<report, completed, scheduler, clockVars, serveVars, handlers, owed,
                 finished, abandoned>>

\* Under reconcileMu: go on with the coalesced work, or give up being the runner.
Continue(l) ==
  /\ pc[l] = "next"
  /\ IF pending # {} /\ ~Cancelled
     THEN /\ running' = pending
          /\ mode' = [mode EXCEPT ![l] = pending]
          /\ pc' = [pc EXCEPT ![l] = "start"]
     ELSE /\ running' = {}
          /\ mode' = [mode EXCEPT ![l] = {}]
          /\ pc' = [pc EXCEPT ![l] = "done"]
  /\ pending' = {}
  /\ UNCHANGED <<report, completed, scheduler, clockVars, serveVars, handlers, owed,
                 finished, abandoned>>

\* The wait group is told only after the lock is released.
Exit(l) ==
  /\ pc[l] = "done"
  /\ pc' = [pc EXCEPT ![l] = "none"]
  /\ UNCHANGED <<workVars, mode, report, completed, scheduler, clockVars, serveVars, handlers,
                 owed, finished, abandoned>>

-----------------------------------------------------------------------------
(* The scheduler.                                                          *)

\* Mutant: a manual refresh leaves the remote deadline armed.
ReceiveFullOnly ==
  /\ scheduler
  /\ completed # {}
  /\ completed' = {} /\ finished' = finished \ completed
  /\ toFull' = IF "full" \in completed THEN Interval ELSE toFull
  /\ toLocal' = IF completed \cap {"local", "full"} # {} THEN LocalInterval ELSE toLocal
  /\ UNCHANGED <<workVars, loopVars, scheduler, since, serveVars, handlers, owed,
                 abandoned>>

\* A completed observation postpones the deadlines of what it did.
Receive ==
  /\ scheduler
  /\ completed # {}
  /\ completed' = {} /\ finished' = finished \ completed
  /\ toFull' = IF completed \cap Remote # {} THEN Interval ELSE toFull
  /\ toLocal' = IF completed \cap {"local", "full"} # {} THEN LocalInterval ELSE toLocal
  /\ UNCHANGED <<workVars, loopVars, scheduler, since, serveVars, handlers, owed,
                 abandoned>>

FullDue == Interval > 0 /\ toFull = 0

TimerFull ==
  /\ scheduler
  /\ FullDue
  /\ toFull' = Interval /\ toLocal' = LocalInterval
  /\ Request("full")
  /\ UNCHANGED <<completed, scheduler, since, serveVars, handlers, finished, abandoned>>

TimerLocal ==
  /\ scheduler
  /\ ~FullDue /\ toLocal = 0
  /\ toLocal' = LocalInterval
  /\ Request("local")
  /\ UNCHANGED <<completed, scheduler, toFull, since, serveVars, handlers, finished,
                 abandoned>>

\* Of the ready cases of its select the scheduler takes any, so it may still ask
\* for work after the context has been cancelled.  Its deadlines go with it.
Quit ==
  /\ scheduler /\ Cancelled
  /\ scheduler' = FALSE /\ toLocal' = 0 /\ toFull' = 0
  /\ UNCHANGED <<workVars, loopVars, completed, since, serveVars, handlers, owed,
                 finished, abandoned>>

Tick ==
  /\ toLocal' = IF toLocal > 0 THEN toLocal - 1 ELSE 0
  /\ toFull' = IF toFull > 0 THEN toFull - 1 ELSE 0
  /\ since' = IF since < Interval THEN since + 1 ELSE since
  /\ UNCHANGED <<workVars, loopVars, completed, scheduler, serveVars, handlers, owed,
                 finished, abandoned>>

-----------------------------------------------------------------------------
(* Serve.                                                                  *)

Move(from, to) ==
  /\ serve = from
  /\ serve' = to
  /\ UNCHANGED <<workVars, loopVars, completed, scheduler, clockVars, handlers,
                 owed, finished>>

\* A signal cancels the context.
Shutdown == Move("up", "shutdown") /\ UNCHANGED <<connected, abandoned>>

\* The HTTP server is shut down when its requests are done or ten seconds have
\* passed.
Drain == Move("shutdown", "drained") /\ connected' = FALSE /\ abandoned' = (handlers > 0)

\* The HTTP server can accept no more connections.  Nobody shuts it down: those
\* it has stay, and bring more requests that nobody waits for.
ServerFails == Move("up", "drained") /\ abandoned' = TRUE /\ UNCHANGED connected

WaitScheduler == ~scheduler /\ Move("drained", "waiting") /\ UNCHANGED <<connected, abandoned>>

\* Mutant: nobody waits for the goroutines.
WaitLoopsNot == Move("waiting", "stopped") /\ UNCHANGED <<connected, abandoned>>

WaitLoops ==
  /\ \A l \in Loop : pc[l] = "none"
  /\ Move("waiting", "stopped") /\ UNCHANGED <<connected, abandoned>>

-----------------------------------------------------------------------------

LoopStep(l) ==
  \/ RefreshRSS(l) \/ RefreshOnly(l) \/ BeginCycle(l) \/ EndCycle(l)
  \/ Notify(l) \/ Merge(l) \/ Resend(l) \/ Continue(l) \/ Exit(l)

Stopping == Drain \/ WaitScheduler \/ WaitLoops

Next ==
  \/ Arrive
  \/ \E kind \in Remote : Handle(kind)
  \/ Reject
  \/ \E l \in Loop : LoopStep(l)
  \/ Receive
  \/ TimerFull \/ TimerLocal
  \/ Quit
  \/ Tick
  \/ Shutdown
  \/ Stopping
  \/ ServerFails

Spec == Init /\ [][Next]_vars

\* Goroutines are scheduled, cycles return, time passes, and a select takes each
\* of its ready cases in the end.
FairSpec ==
  /\ Spec
  /\ \A l \in Loop : WF_vars(LoopStep(l))
  /\ WF_vars(Receive) /\ SF_vars(TimerFull) /\ SF_vars(TimerLocal) /\ SF_vars(Quit)
  /\ WF_vars(Tick) /\ WF_vars(Stopping)
-----------------------------------------------------------------------------
(* Properties.                                                             *)

\* Goroutine l holds the runner.
Active(l) == pc[l] \notin {"none", "done"}

\* At most one goroutine runs cycles, and there is one exactly while the runner
\* is marked running, so no request is left to a goroutine that has given up and
\* none starts a second one (server.go: "The serialized runner is the sole
\* sender").
OneRunner ==
  /\ \A l, m \in Loop : Active(l) /\ Active(m) => l = m
  /\ running # {} <=> \E l \in Loop : Active(l)
  /\ \A l \in Loop : Active(l) => mode[l] = running

\* Goroutine l has kind to report and has not sent it yet.
Unsent(kind, l) == pc[l] \in {"notify", "merge", "resend"} /\ kind \in report[l]

\* No completed kind is lost between the goroutine and the scheduler (server.go: "A
\* local completion must not hide an RSS completion").
CompletionsKept ==
  \A kind \in finished : kind \in completed \/ \E l \in Loop : Unsent(kind, l)

\* The send that could block finds the channel empty, so a slow or finished
\* scheduler never stops the runner, nor Serve, which waits for it.
SenderNeverBlocks == \A l \in Loop : pc[l] = "resend" => completed = {}

\* A local request made while a cycle runs, or at any step around the end of one,
\* is followed by a whole new observation, whatever other requests are coalesced
\* with it (server.go: "Local follow-ups remain necessary when the namespace
\* changes during a running observation").
LocalNeverForgotten ==
  "local" \in owed /\ ~Cancelled =>
    \/ pending \cap {"local", "full"} # {}
    \/ \E l \in Loop : /\ pc[l] \in {"start", "refreshed"}
                       /\ mode[l] \cap {"local", "full"} # {}

\* The timer asks for a remote observation only a full interval after the last
\* one, manual or not, unless word of it has not reached the scheduler yet
\* (server.go: not to "leave the old remote deadline armed").
NoEarlyObservation ==
  [][TimerFull => since = Interval \/ finished \cap Remote # {}]_vars

\* When Serve returns without having given up on a web request, no goroutine is
\* left that could write to the library.
StopsQuietly ==
  serve = "stopped" /\ ~abandoned => running = {} /\ \A l \in Loop : pc[l] = "none"

\* With the types: nothing is pending without a runner, a refresh under way was
\* asked for, a remote deadline lies a full interval after the last observation
\* the scheduler knows of, and each phase of a shutdown has seen to its part.
IInv ==
  /\ TypeOK
  /\ OneRunner
  /\ running = {} => pending = {}
  /\ \A l \in Loop : pc[l] = "refreshed" => "rss" \in mode[l]
  /\ CompletionsKept
  /\ SenderNeverBlocks
  /\ LocalNeverForgotten
  /\ scheduler /\ finished \cap Remote = {} => toFull + since >= Interval
  /\ serve \in {"drained", "waiting", "stopped"} /\ ~abandoned => handlers = 0 /\ ~connected
  /\ serve \in {"waiting", "stopped"} => ~scheduler
  /\ StopsQuietly

\* Local cycles go on for ever until shutdown, whatever is requested meanwhile.
LocalCyclesRecur ==
  []<>(Cancelled \/ \E l \in Loop : pc[l] = "cycle")

\* A shutdown ends although the scheduler may be sending requests and the runner
\* completions to nobody.
ShutdownEnds == serve = "shutdown" ~> serve = "stopped"
=============================================================================
