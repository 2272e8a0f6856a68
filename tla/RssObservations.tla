--------------------------- MODULE RssObservations --------------------------
(***************************************************************************)
(* The disposable snapshots of content sources (rss_observation.go) and    *)
(* the operations that fill them: a refresh, or the ingest of a cycle,     *)
(* reads every enabled source in a goroutine of its own and records each   *)
(* outcome as it comes.  Readers show the snapshots; acquisition uses the  *)
(* values the cycle itself has just read.                                  *)
(*                                                                         *)
(* Releases are abstracted to the time they were read at.                  *)
(***************************************************************************)
EXTENDS Integers

CONSTANTS Src, Feeds,     \* sources; the feed lists a source may be given
          None,           \* no source, no snapshot, no releases
          MaxClock        \* bound on the number of reads

ASSUME ObservationAssumption == MaxClock \in Nat /\ None \notin Feeds /\ None \notin Nat

VARIABLES
  conf,      \* feeds of every enabled source of the runtime, or None
  obs,       \* its snapshot: [feeds, groups, updated, attempted, stale, status]
  work,      \* the operation: "idle", "refresh" or "cycle"
  since,     \* when it began
  pending,   \* sources it has not heard of yet
  result,    \* what it read of the others
  planned,   \* history: releases the last cycle planned from
  clock

rssVars == <<conf, obs, work, since, pending, result, planned, clock>>

(* discardRSSObservations, after every successful reload. *)
Discard(c, O) == [s \in Src |-> IF O[s] # None /\ O[s].feeds # c[s] THEN None ELSE O[s]]

(* A reload may find any source added, removed, disabled or changed.       *)
Reloaded == \E c \in [Src -> Feeds \cup {None}] : conf' = c /\ obs' = Discard(c, obs)

Reconfigure == /\ work = "idle" /\ Reloaded
               /\ UNCHANGED <<work, since, pending, result, planned, clock>>

Ingest(kind) ==
  /\ work = "idle" /\ Reloaded
  /\ work' = kind /\ since' = clock
  /\ pending' = {s \in Src : conf'[s] # None}
  /\ result' = [s \in Src |-> None]
  /\ UNCHANGED <<planned, clock>>

(* Mutant: a failed read takes its own time for that of the releases. *)
RecordFresh(s, values, err) ==
  obs' = [obs EXCEPT ![s] =
    [feeds |-> conf[s], groups |-> IF values = None /\ obs[s] # None THEN obs[s].groups ELSE values,
     updated |-> clock', attempted |-> clock', stale |-> FALSE,
     status |-> IF err THEN "error" ELSE "ready"]]

(* recordRSSObservation.  `values' is None when the read returned none and  *)
(* an error; an error with values makes the snapshot partial.              *)
Record(s, values, err) ==
  LET previous == IF obs[s] # None /\ obs[s].feeds = conf[s] THEN obs[s]
                  ELSE [groups |-> None, updated |-> 0]
  IN obs' = [obs EXCEPT ![s] =
       IF err /\ values = None
       THEN [feeds |-> conf[s], groups |-> previous.groups, updated |-> previous.updated,
             attempted |-> clock', stale |-> previous.updated # 0, status |-> "error"]
       ELSE [feeds |-> conf[s], groups |-> values, updated |-> clock', attempted |-> clock',
             stale |-> FALSE, status |-> IF err THEN "partial" ELSE "ready"]]

(* One source's goroutine ends. *)
Current(s) ==
  /\ s \in pending /\ clock < MaxClock
  /\ clock' = clock + 1
  /\ \E err \in BOOLEAN, some \in BOOLEAN :
       LET values == IF some \/ ~err THEN clock' ELSE None IN
       /\ Record(s, values, err)
       /\ result' = [result EXCEPT ![s] = values]
  /\ pending' = pending \ {s}
  /\ UNCHANGED <<conf, work, since, planned>>

(* Mutant: the cycle plans from the snapshots. *)
JoinedSnapshots ==
  /\ work # "idle" /\ pending = {}
  /\ planned' = IF work = "cycle"
                THEN {obs[s].groups : s \in {x \in Src : obs[x] # None}} \ {None} ELSE planned
  /\ work' = "idle" /\ result' = [s \in Src |-> None]
  /\ UNCHANGED <<conf, obs, since, pending, clock>>

(* All goroutines are joined before anything is planned or returned.       *)
Joined ==
  /\ work # "idle" /\ pending = {}
  /\ planned' = IF work = "cycle" THEN {result[s] : s \in Src} \ {None} ELSE planned
  /\ work' = "idle" /\ result' = [s \in Src |-> None]
  /\ UNCHANGED <<conf, obs, since, pending, clock>>

RssInit ==
  /\ conf \in [Src -> Feeds \cup {None}] /\ obs = [s \in Src |-> None]
  /\ work = "idle" /\ since = 0 /\ pending = {} /\ clock = 0
  /\ result = [s \in Src |-> None] /\ planned = {}

RssNext == Reconfigure \/ Ingest("refresh") \/ Ingest("cycle")
             \/ Joined \/ \E s \in Src : Current(s)

-----------------------------------------------------------------------------
(* A snapshot is of a source that is enabled with these very feeds, and its *)
(* age is that of the releases it shows: after any sequence of failed,     *)
(* partial and successful reads and of configuration changes, old results  *)
(* are marked stale and never carry the time of the attempt that failed.   *)
HonestSnapshots ==
  \A s \in Src : obs[s] # None =>
    /\ obs[s].feeds = conf[s]
    /\ obs[s].groups # None => obs[s].updated = obs[s].groups
    /\ obs[s].stale <=> obs[s].updated # 0 /\ obs[s].updated < obs[s].attempted

(* A cycle plans only from what it read itself, never from the results an   *)
(* earlier read left in a snapshot.                                        *)
PlansFromOwnReads ==
  [][work = "cycle" /\ work' = "idle" =>
       planned' = {t \in planned' : since < t /\ t <= clock}]_rssVars
=============================================================================
