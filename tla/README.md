# TLA+ models of aninode

aninode keeps a media library in step with what downloaders put on disk. It
watches release feeds, hands torrents to downloaders, and publishes finished
files by hardlinking them under canonical names. Linux file-system state is its
only authority: there is no database of what was published. What makes the code
hard is therefore not data but order: plans are made from one observation of a
file system that other programs keep changing, several publication scopes work
from the same observation, requests are coalesced into one runner, and remote
calls may succeed without saying so.

These modules model that control. Names, titles, file names and payloads are
abstract values; parsing and rendering are left out.

## The system

| Component | State | Operations | Talks to |
|---|---|---|---|
| Runner and scheduler (`server/server.go`) | running and pending mode, completion channel, two deadlines | request, run a cycle, report, timer, serve and shut down | `App.Cycle`, `App.RefreshRSS` |
| Application (`application/`) | runtime snapshot, operation mutex, summaries, repair reviews | cycle, management operations, backfill, migration | everything below |
| Writer ownership (`filesystem/lock.go`, `withOperation`) | process mutex, advisory lock | acquire, release | every mutation |
| Observation (`filesystem/`, `observation/`) | none; snapshots are values | walk a tree, project subtrees, own objects | publication, claims, inventory |
| Claims (`claim/`) | an index for one pass | who owns a task's objects | publication, acquisition |
| Publication (`organizer/`, `automation/`) | the library tree itself | plan, link, prove, remove | file system |
| Acquisition (`automation/`, `candidate/`) | the downloaders' task lists | match, deduplicate, add, recover, repair topology | downloader clients |
| Migration (`migration/`) | the task being moved | pause, relocate, re-observe, organise, declare, resume | downloader clients, publication |
| Configuration and secrets (`configstore/`, `secretstore/`) | files below the config root | put, delete, back up, restore, load | application |
| RSS (`rss/`, `application/rss_observation.go`) | caches, cooldowns, last result of each source | fetch, refresh, discard | providers |
| Inventory, completeness, repair reviews | derived; a queue of reviews | scan, find gaps, gate candidates | acquisition |
| Names (`medianame/`, `naming/`, `moviebundle/`, `catalog/`) | declarations on disk | parse, infer, group | everything |

The web handlers and the timer ask the runner for work; the runner calls
`App.Cycle`, which holds the operation mutex and the advisory lock for the whole
cycle: adopt sources, ingest feeds, observe both trees, plan candidates, acquire,
backfill, publish, update inventory. Management operations take the same two
locks, change a declaration, and publish that one entry.

What makes each part correct, and where it is hard:

- **Runner**: one cycle at a time; nothing asked for is lost at the moment a
  cycle ends; completions of different kinds are merged, not overwritten; the
  sender never blocks; shutdown waits for everything that writes.
- **Publication**: never replace a name, never touch a source name, remove only
  names that are stale, and only when the new ones are in place; converge after
  any change of declaration; stop changing anything once nothing changes.
- **Acquisition**: never add what a downloader already has, although replies are
  lost and lists lag.
- **Migration**: never leave a task paused, never accept a copied file.
- **Configuration**: seen from outside, the files step from one graph that loads
  to another; disk, secrets and runtime agree after every outcome.
- **Caches**: bounds hold, shared reads end, cooldowns are kept, and old results
  are shown as old and never acquired from.
- **Inventory and projection**: what the files do not say is not guessed.
- **Declarations and reviews**: the program undoes nothing a user declared, and
  decides nothing a user is to decide.

## Modules

| Module | Models | Proofs | Run by |
|---|---|---|---|
| `Publication` | one publication pass over all scopes, at system-call granularity, with other programs changing names | `PublicationProofs` | `MCPublication` |
| `Runner` | requests, runner goroutine, scheduler, shutdown | `RunnerProofs` | `MCRunner` |
| `AtomicConfig` | abstract: files that change one at a time, from graph to graph | | |
| `ConfigStore` | processes, their operations, files, secrets and runtimes; implements `AtomicConfig` | `ConfigStoreProofs` | `MCConfigStore` |
| `MetadataCache` | torrent metadata, bounded, with shared reads | `RemoteProofs` | `MCFeeds` |
| `FeedReads` | cooldowns of hosts, cache of feeds | `RemoteProofs` | `MCFeeds` |
| `RssObservations` | snapshots of the content sources | `RemoteProofs` | `MCFeeds` |
| `Selection` | the choice among the releases of a season or a movie, as programmed and as meant | `AlgorithmProofs` | `MCAlgorithms` |
| `Inventory` | seasons, gaps and availability, read from the files of a library | `AlgorithmProofs` | `MCAlgorithms` |
| `Projection` | the season and folder of a release, and the group a series is of | `AlgorithmProofs` | `MCAlgorithms` |
| `Acquisition` | a cycle's passes over the selected releases, and the downloader; extends `Selection` | `AcquisitionProofs` | `MCAcquisition` |
| `Repairs` | searches for gaps, reviews, and what a user confirms; extends `Selection` | `UpkeepProofs` | `MCUpkeep` |
| `Declarations` | adoption, rules of folders, and changes of a declaration, beside users | `UpkeepProofs` | `MCUpkeep` |
| `Migration` | attempt after attempt to move one task below its work, and the downloader | `RemoteProofs` | `MCMigration` |

The modules that share no state are run together where each is small: the run
chooses at the start which of them it explores (`part`).

`PROJECT.json` maps every definition to the lines it stands for.

### Publication

`names` is the file system: a function from source and library names to objects,
an object standing for the `ObjectID` (device and inode) the code compares. A
pass begins (`BeginCycle` for `App.cycle`; `PutEntry` for `App.PutEntry` and
`App.PutFolderProjection`, which write a declaration and publish its entry in one
operation), walks the two trees (`Walk`, `observation.Build`), visits the
local scopes in order (`PlanLocal`, `reconcileLocalSources`), refreshes the
library snapshot if they changed it (`Refresh`), then the task scopes
(`PlanTask`, `SkipTask`). `seen` is the snapshot plans are made from and
`aliases` the one stale names are looked up in; they are two variables because
the code refreshes only the second (`physical.LibraryRoot`, not
`physical.Libraries`).

A plan gives every source name an action (`Decision`, from `filePlanner.file`
and `planMovie`). Which library name a source name is to have is a parameter:
`layout`, one of the rules in `Layouts`, stands for everything the declarations
and the name parser decide, exclusion and non-recognition included. `OpenSource`,
`LinkAt` and `VerifyLink` are the three steps of `LinkObserved` another process
can come between; `Prove`, `OpenStale` and `Unlink` those of
`convergePublicationAliases` and `RemoveObservedLink`. The environment edits
declarations by hand (`Edit`; it also stands for a `PutEntry` whose pass failed to
begin; a pass goes by the declarations it read at its start, so an edit during one
counts as made after it), changes any name at
any time (`External`, which may also give an old object's name to a new file or
reuse an inode), and kills the process (`Crash`; cancelling the context has the
same effect on the library). `RaceWindows` says whether it may act between two
system calls of one link or removal.

Left out: directories, symlinks and no-follow traversal, files that are not
media, I/O errors other than a name not being what was expected, and a failing
`fsync`, after which the code forgets to count a change.

### Runner

A mode is the set of bits of `reconcileMode`. `Request` is `requestReconcile`
under its mutex; each goroutine (`Loop`) goes through `runReconcileCycle`,
`notifyReconcileCompleted` and the end of `reconcileLoop` in steps that others
can come between: the non-blocking send (`Notify`), the receive (`Merge`), the
blocking send (`Resend`), the decision to go on or give up (`Continue`, one
critical section) and the wait group (`Exit`). A second goroutine can exist only
while the first is between giving up and `Exit`, so two are enough to show every
overlap; that no third can hold the runner is proved, not assumed. The scheduler
takes completions (`Receive`), fires (`TimerFull`, `TimerLocal`) and quits; time
is discrete and deadlines are counted down (`Tick`). `Serve` drains the HTTP
server (`Drain`), waits for the scheduler and then for the wait group. Web requests
arrive while they can still be delivered (`connected`): until the server is drained,
and for ever when it failed of itself (`ServerFails`), since then nobody shuts it
down. `owed`, `finished`, `since` and `abandoned` (Serve returns, or will, without
having waited for every web request) are history variables for the properties.

### Configuration store

`disk` is the configuration root: one value for each file, whether it decodes, and
of a declaration the sources it refers to. `secret` and `key` are the sealed
passwords and the master key, `runtime` and `failed` what a daemon serves and
whether it reports a failed reload. A thread (`Op`) is in at most one operation,
`op`, at the point `pc`. The operation mutex and the writer lock are not
variables: every operation takes them first and gives them back last, so they are
read off the program counters (`MutexFree`, `LockFree`). An operation on a resource
goes `Begin`, `Backup`, `Write`, `Check` (load the graph with the new content
live, put the old back when it is rejected), `Secret`, `Reload`, and after an error
`Restore`, `Resecret`, `Again`, or `Revert`; one on a declaration `Open`, `Write`,
`Reload` and so on; a cycle `Open`, `Adopt`, `Refresh` and, at its end, `Publish`
of the copy of the runtime it has worked with. Processes start (`Bootstrap`,
`Bootstrapped`, `Start`, `Exit`), crash (`Crash`), and the key may be lost
(`LoseKey`). Each write may fail before or after the rename.

`Held` hides the one provisional file: while an operation may still take its write
back, the file counts as what it was. `AtomicUpdates` is `AtomicConfig` with
`held <- Held`: every change seen from outside leads to a graph that loads
(`Change`), or belongs to an interrupted operation and marks its file `loose`
(`Lose`), until a load accepts everything (`Accept`).

Left out: what a configuration says beyond validity, references and passwords; the
check of a source's feeds with its provider; the write of a report.

### Remote observations

`MetadataCache` is `FetchTorrentMetadata`: `Fetch` looks at the cache and joins a
flight or starts one, `Land` is the answer and everything done with it under the
mutex (`Store` evicts; waiters get the outcome), `Return` a waiter that was
cancelled, `ByHash` the look-up for a task. `FeedReads` is the application's
fetcher: `Ask` takes the validators and consults the cooldown, `Answer` is the
origin, `Limited` sets a cooldown after a 429 answer, `Receive` caches a
representation or answers from the cache after a 304. `RssObservations` has the
snapshot of each source: a refresh or a cycle (`Ingest`) reads every source in a
goroutine of its own (`Current`, `recordRSSObservation`), joins them (`Joined`),
and a reload discards the snapshots of what changed (`Discard`). Feeds and releases
are versions or times; parsing is left out.

### Inventory and projection

Pure algorithms over files that are records of what their name says. `Inventory`:
the season of a folder (`Hint`), the meaning of a file (`ReadFile`), what cannot be
told (`Clash`, `Unread`), and what follows for availability and gaps; `SoundFor` is
what it is to be. `Projection`: the loop of `ProjectObservedEpisode` over the
evidence of each folder (`Project`), both ends of a release (`Evaluate`), and the
release group (`Agreed`, `NeedsReview`); `FollowsEvidence` and `GroupAgreed` are
what they are to be. File names are not read: the parser's result is the input.

### Declarations

`decl` is the file `.aninode.json` of one entry, `dirs` the folders there are. A
cycle (`BeginSync`) creates the file where there is none (`AdoptSeries`,
`AdoptMovie`, `Create`) and brings its rules in step (`ReadRules`, `Infer`, `List`,
`WriteRules`); requests write a declaration or create an entry (`PutRule`,
`PutDeclaration`, `CreateEntry`, with their roll-backs). What a request wrote is
accepted when it loads and, for a whole declaration, when the entry is still there
(`Loaded`); a new entry that cannot be written or loaded is cleaned up (`CleanUp`),
which removes whatever declaration there is by then. Users edit the file and
move the folders between any two of these steps (`EditDeclaration`, `MoveFolder`).
What a season is inferred from is in `Inventory`; here rules are opaque.

### Repairs

One season of one entry. A cycle or a request begins with a library that it could
read or not (`Cycle`, `Backfill`), searches for each missing episode in up to four
queries (`Query`), divides what it selected into what is acquired at once and what
a user must confirm (`Plan`, `Acquire`) and, at its end, changes the queue
(`Finish`, `Reconciled`). `Confirm` and `Decide` are a user's decision. Between
operations files come and go, the library may become unreadable, the configuration
changes, and a restart loses the queue.

### Selection and acquisition

`Selection` has the dynamic programme of `selectBestByScore` (`Scheduled`), what it
is to achieve (`BestOf`, the one disjoint set of releases that is better than every
other) and what precedes it, the preference for the group already there
(`Preferred`). The run `algorithms` compares the first two; `Acquisition` and
`Repairs` use `BestOf`. A release is a number, the better ones first: filters and
scores make that order and are left out.

A cycle (`BeginCycle`, `App.cycle`) walks both trees, selects from what the feeds
offer, and drops what the library has (`Gate`, `gateAvailability`). A pass
(`Observe`, `Runner.Acquire`) lists the tasks once and takes the releases in any
order: `Ensure` is `ensureOwned` up to the call of `Add`; `Add`, `Recover` and
`Lookup` are the call and the two listings that may follow it; `Repair` is
`ensureTaskTopology`. `EndFeeds` walks the trees again, and `Backfill` searches
the past for each season with gaps, selects anew, gates anew and acquires in a
pass of its own. `graph` is what the cycle's last walk found in place, `owned`
the index of one pass (which `Done` brings up to date for one work, as
`RefreshEntry` does), `listed` and `dead` its snapshot of the tasks.

The downloader accepts a release and may lose the reply, list the task late, put
its files in the wrong place (`Astray`), fail it, or have it removed by a user
(`Progress`, `Lose`). Publication between cycles is one step (`Publish`), since
`Publication` has it in detail; files leave the library by `Delete`.

Abstractions: one downloader client; one season for each entry; the same order
of releases for feeds and for searches. Left out: releases asked for by hand, the
episodes of a task that more than one entry claims, and a source and a library
on different file systems (`EnsureHardlinkDomain`).

### Migration

An attempt is `Apply`, one action for each remote call or write: `Start`
(observe, remember the objects), `Pause` and `WaitPaused`, `Relocate`, `Recheck`
(the call failed: look once whether it was accepted all the same), `WaitMoved`,
`Reobserve` (the same objects must be found), `Organize`, `Declare` and `Project`
(the two writes of the declaration, the second with its season and offset or with
changed filters; either may fail also where the declaration cannot be read or is of
another place), `Restart`; `Resume` is the deferred call an
attempt makes that has paused the task and fails. Each may fail before or after
it took effect. `Plan` is the scan that offers the task and the plan confirmed.
Between attempts only `link`, `declared` and the downloader's state remain.
`goal` is where the downloader was told to have the files and `saved` where it
says they are: it may say so before it has moved them, and may move by copying,
after which the file is another object. `ours`, `excused` and `meddled` are
history.

Abstractions: one task with one place to go to; the match of task and work, its
episodes and its names are given; what filters say is left out. Left out:
several tasks of one unit, clients that cannot pause or relocate, and changes of
the task's identity or set of files between plan and attempt.

## Runs

| Run | Question | Bounds |
|---|---|---|
| `publication` | does a pass stay safe when names change between any two system calls? | a two-file movie, a series folder and a task; 3 objects, 3 + 3 names, 3 rules, 2 events |
| `publication_converges` | do cycles remove only stale names, reach the declared names and rest? | a series with two folders and a task, an episode offset, an exclusion; 2 events |
| `runner` | are the runner's safety properties kept? | 2 goroutines, 1 web request at a time, intervals of 1 and 2 ticks |
| `runner_live` | do local cycles go on, and does shutdown end? | intervals of 1 tick |
| `configstore` | do files, secrets and runtimes agree, and do the files change atomically? | a daemon with two threads and a command; one client, source and entry, one password, two keys; 2 events |
| `feeds` | are caches within bounds, reads shared, cooldowns kept, snapshots honest? | 3 torrents in 2 entries or 3 bytes, 3 readers; 2 feeds on 2 hosts in tables of one; 2 sources with 2 lists of feeds, 4 reads |
| `algorithms` | do the algorithms do what they are to do? | 4 releases, 5 episodes; libraries of 3 files in 2 folders and the top; 3 source folders |
| `acquisition` | is nothing asked for twice or in vain, and does what is offered arrive? | 3 releases of one season, one gone astray; 2 events |
| `acquisition_movie` | disagreement 1 | a movie with 2 releases, 1 event |
| `upkeep` | does the program leave to users what is theirs, and do rules settle? | 2 folders, 2 rules, 3 edits; 3 releases, 3 episodes, 2 events |
| `migration` | are tasks resumed and objects kept, and does a repeated migration succeed? | 2 files, 2 events |
| `migration_projection` | disagreement 2 | 1 file, 1 event |

An event is something the program neither causes nor awaits: an external change,
an edit, a lost reply, a failing call, a crash.

- *Publication.* Three source and three library names are the least with which
  two files of a folder, a second folder, two names of one object and a chain of
  three waits can all occur; two events allow an edit followed by a crash or an
  external change in mid-pass, which is where the hazards are. One movie rule
  excludes a file, one exchanges the names of two, one gives both the same name.
- *Runner.* A remote interval longer than the local one gives every order of the
  two deadlines; web requests arrive without limit but one at a time.
- *Configuration store.* Two threads of one process meet at the mutex, two
  processes at the writer lock; a client, a source and a declaration that refers to
  it are the least that can fail to load together. Two events are an error and the
  failure of its roll-back, or a crash before or after one, or a lost key and
  what a write makes of it. A second key is what a new key is after a lost one.
- *Remote observations.* Three torrents whose sizes and hashes vary meet both
  bounds of the cache and share a hash; three readers are an owner and two
  waiters, one of them cancelled. Tables of one are always full. A `Retry-After`
  of none, one or two ticks orders two cooldowns either way.
- *Algorithms.* Four intervals over five episodes contain every way in which two
  can touch, overlap or enclose each other with a third and a fourth beside them;
  three files can agree, clash over one object or one episode, and have a third
  follow; three folders can end before an episode in every order.
- *Upkeep.* Two folders, of which one may come or go while the other must be left
  alone; three edits are an edit of the file, a move of a folder and an error in one
  operation. Two packs that share episodes with a third release make selections
  that change with what is missing.
- *Acquisition.* A pack of two episodes, a release of each, and a gap of both:
  the least in which the second selection of a cycle can overlap the first. Two
  events allow a lost reply and a failed listing for one request, or a task
  removed and a crash.
- *Migration.* Two files, of which one may not be complete, can be half moved and
  half copied; two events allow a failing attempt that also fails to resume, or
  two failing attempts.

Deadlock is not checked in `algorithms`, `feeds`, `upkeep` and the two migration
runs, where an input may be complete or the bounded clocks and events used up.

Every mutant in `PROJECT.json` is a change to one definition, written beside it
and marked in its comment, under which the named property fails in its run.

### Fairness

- *Publication*: the scheduler starts cycles for ever and a pass that has begun
  runs on (weak fairness: no step waits for the environment).
- *Runner*: goroutines run (weak); `select` takes each of its ready cases in the
  end (strong: Go chooses among ready cases at random).
- *Acquisition*: a cycle that has begun runs on (weak). Each feed in `Feeds` is
  offered again and again to a cycle that can read all trees: strong fairness of
  that `BeginCycle`. The code cannot bring this about, it is what `OfferedArrives`
  depends on: under a library that can never be read nothing is ever acquired.
  Nothing is assumed of the downloader but that mishaps end.
- *Remote observations*: a read lands and a cancelled waiter returns (weak: the HTTP
  client gives up after its timeout and goroutines run).
- *Upkeep*: the next step of a cycle or of a request under way is taken (weak).
  That cycles begin again and again is what `LocalCyclesRecur` of `Runner` shows.
- *Migration*: an attempt runs on and the downloader does what it accepted
  (weak); a user asks again for a migration that is offered (strong, as the offer
  comes and goes with what the downloader shows).

### Where the code and what is said of it disagree

1. `acquisition_movie`: a movie has no season, so `Availability` never finds one
   in the library and the gate lets every release of it pass; only the presence
   of its task keeps it from being asked for again.
2. `migration_projection`: after an attempt that failed once the task had moved,
   the task counts as managed and is not offered again, so the season and offset
   confirmed for its folder are never declared.

### Limits met while modelling

These were seen in the models or the code and have no run:

- Every completed manual refresh moves the full cycle's deadline a whole interval
  on (`server.go:553`), so refreshes more frequent than the interval keep it from
  coming due. `LocalCyclesRecur` holds; the same for full cycles does not.
- A refresh asked for when a cycle's remote part is over is answered with
  "coalesced" and nothing follows.
- Two folders that exchange target seasons never converge: each waits for the
  name the other still has. `ChainsConverge` excludes such rules by name.
- The inode check and `unlinkat` are two calls: a replacement made between them is
  removed. `RemovesOnlyStaleNames` is therefore checked and proved without
  `RaceWindows`.
- A search for gaps may select a pack that overlaps a release the same cycle has
  just asked for from a feed and the downloader does not show yet.
- A failed task keeps its release from being asked for again (`OfferedArrives`
  counts it as being with the downloader).
- When the HTTP server fails of itself, a request that arrives on a connection it
  still has may start a cycle after `Serve` returned (`StopsQuietly` excuses it, as
  it does the ten seconds after which a shutdown waits no longer).
- A migration's pause that was accepted without a reply is not undone, nor is one
  after a crash (`ResumesWhatItPaused` excuses both). A user who restarts the task
  while the attempt waits for the pause to show makes it wait until the request
  is dropped, with the operation mutex held (`MigrationEnds` excuses this).
- An object with two names in a folder and a task that holds one of them: the task
  removes a library name that the next cycle links again (`Agreeing` excludes it
  where rest and convergence are claimed).
- While the source of some other work cannot be read, tasks are nobody's, and the
  duplicate check finds nothing where it should stop.
- Selection comes before the gate, so a pack that is already in the library
  suppresses, in every cycle, the one it overlaps; no feed of the run `acquisition`
  offers two that overlap.
- Configuration: an operation that fails after its rename leaves a disk that the
  runtime does not match until something reloads. A preview, or the start or the
  check of another process, may read a file that is about to be rolled back. A
  crash during the first start leaves an `organizer.json` that does not decode. A
  client whose secret was sealed with a lost key can be neither saved nor deleted.
- Feeds: a slow answer to an older request, arriving between the validators and
  the 304 of a newer one, is what the newer one returns (`feed_cache.go:19`). A
  `Retry-After` of 0 at a full table drops the cooldown of another host.
- Inventory: an object with names of two meanings makes only the season of the
  later path unknown, and a name without a season directly below a series counts as
  a special. A release whose ends are projected, one by a folder and the other by
  the only season there is, gets a range of another length (`plan.go:228`).
- Claims (read, not modelled): a claim whose ends are projected by two folders is
  not told from one whose ends share a folder (`claim.go:386`), and the check
  against ranges that cross a season cannot fail (`claim.go:433`).
- Declarations: synchronisation and roll-back overwrite an edit made since the
  file was read (`RuleKept` excuses it); a folder that appears later may be given
  the season another folder's rule has; creating an entry replaces, and its clean-up
  removes, a declaration made meanwhile; one declaration that does not decode stops
  the upkeep of all.
- Repairs: a selection by coverage may prefer a pack that needs a review to an
  acceptable single release, so that nothing is acquired where
  `completeness.go:270` promises it; releases are accepted for each source but
  selected over all; reviews are lost at a restart.

## Proofs

Each proof module establishes an inductive invariant `IInv` for all values of the
constants that satisfy the named assumptions of its module, and derives its
theorems from it. TLC checks the same `IInv` in the runs.

- **Publication.** `RemovesOnlyStaleNames` is not inductive: a removal looks only
  at `victim`, so the invariant must say where `victim` came from (`UnlinkInv`),
  that the stale set was made without desired names below the root (`SweepInv`),
  and that the plan it was made from is sound (`PlanInv`). `StepInv` carries what
  was verified before `linkat` and `unlinkat` to the step that relies on it, as
  long as nobody disturbed it. `NeverReplaces` is proved with `RaceWindows`
  either way, `RemovesOnlyStaleNames` without it. `CycleLeavesCanonical` needs three
  invariants more, of a cycle nobody disturbs: `SteadyInv` says that every library
  name is as it was walked, gone, or as some scope wants it, and that the plan is
  made from the walk; from it follows that all scopes with an object plan the same
  names for it (`CanonPlanned`, `CanonDesired`), so that what one has brought about
  no other takes back (`CanonStays`); `CanonInv` then follows each scope from its
  plan to its last removal (`Linking`, `Tidying`). What a cycle leaves is what the
  next one finds: `InOrder` says of a tree that every published file has exactly
  the names planned for it, `LeavingInOrder` that an uncontested cycle ends there,
  and `StayingInOrder` that a cycle that begins there plans no link and finds no
  stale name (`OrderInv`). `CyclesSettling` joins the two:
  two cycles after the last disturbance nothing changes any more.
  (`ScopeAssumption`, `NameAssumption`, `BoundAssumption`.)
- **Runner.** `OneRunner` ties the `running` mark to the one active goroutine;
  `CompletionsKept` and `SenderNeverBlocks` need it, because only the sole sender
  knows that a channel it has emptied stays empty. `LocalNeverForgotten` needs
  what `Coalesce` preserves. The deadline part (`toFull + since >= Interval`)
  carries `NoEarlyObservation`. `LocalServed` goes backwards from the step
  at which the request is taken: each step of the goroutine that holds the runner
  brings it one step nearer, whatever is coalesced meanwhile, and no other
  goroutine takes it away. (`IntervalAssumption`.)
- **Acquisition.** `AsksOncePerCycle` must hold across two selections that do not
  know of each other: what a search selects fills a gap (`Open`) the first
  selection left, so it shares no release with it (`AsksSelected`), and what is
  still to be done in a pass has not been sent (`PendingUnsent`).
  `SeasonsNotAskedAgain` needs that what is pending passed the gate
  (`PendingGated`) and that nothing comes to a library after it was read, since the
  same cycle publishes only when its passes are over (`LibraryKept`).
  `NeverAddsHeld` rests on an invariant of its own (`HeldInv`): what was in place
  at the last walk the pass knows of (`GraphKnown`), and what came in place since
  was moved by the cycle itself (`Moved`), as a release of the same pass, with which
  what is left shares no episode (`ActiveApart`), or of an earlier one, which was
  for other works or was followed by a new walk (`MovedOrigin`).
  (`ReleaseAssumption`, `InputAssumption`.)
- **Selection.** `BestApart`: `Better` holds one way only, so at most one
  selection is better than all others, and the releases of `BestOf` are those of
  one disjoint selection. `HeldInv` and `ReviewsKept` both need it.
  `ScheduledBest`: the dynamic programme returns that selection. It looks at the
  candidate that ends last (`LastOf`); of the others, those that end before it
  begins are those that share no episode with it (`BeforeApart`), and joining a
  candidate to two selections it is apart from keeps which of them is better
  (`BetterJoined`), so the best with it and the best without it are the only two
  to compare (`StepBest`). It needs of the candidates only that their episodes
  are intervals (`Season`).
- **Recursion.** `CommonProofs` has what these proofs need of functions on the
  subsets of a finite set. A fact about all of them is proved from the smallest
  set at which it fails (`SmallestSet`, from the library's well-founded order on
  finite sets), in place of induction. A step that looks only at smaller sets
  has exactly one function (`RecursionExists`, `RecursionUnique`); sums, which
  do not depend on the order of summing (`SumsAny`, `SumSplit`), and folds
  (`FoldExists`) are the two kinds.
- **Inventory.** `ScanSound`: after k files the inventory has failed every
  season something unread could be of, and only seasons that are unread or
  disputed, and of every other season it holds each episode of each file for one
  object (`Holding`). `ReadStep` has the five things a file can do to it. What
  two files dispute is found whichever comes first, since the later one meets
  the meaning or the episodes of the earlier.
- **Projection.** `EvidenceFollowed`: the loop has chosen the first of the
  folders with the greatest end before the episode, and its flag says whether
  another has that end (`LoopAt`). `GroupsAgreed`: the loop keeps the one group
  of the folders that could tell so far and the sum of their files, or has given
  up because two differ (`AgreeAt`). The theorems about the specification of
  `MCAlgorithms` apply these to every input it can reach without its bounds.
  (`AlgorithmsAssumption`.)
- **Migration.** `PauseKnown`: a task that does not run because of an attempt is
  known to that attempt, or there is an excuse; and an attempt that knows is at a
  step from which it still resumes. `MovedKept`: what was accepted after a move
  stays at the new place and the same object, because the downloader is done with
  it, having been told to go nowhere else (`MovedWhenTold`).
  (`MigrationAssumption`.)

- **Configuration store.** `ServesLoadable` alone is not inductive: a cycle
  publishes a copy taken many steps before, so the copy must still be the disk
  (`KeptInv`), which needs that nobody else wrote since (`LockInv`: two operations
  under way are of two processes and one of them is a preview). `BootInv` keeps the
  first start apart from everything else. `AtomicUpdates` is proved from `IInv`
  with `HeldFacts`, which express `Held` by the disk and the one provisional
  operation; every action then maps to a stutter, a `Change`, a `Lose` or an
  `Accept` of `AtomicConfig` (lemmas `Stutters`, `Changes`, `Loses`, `Accepts`).
  `RuntimeAgrees` follows from `AgreeInv`, over all processes at once: whoever
  writes takes from all others the certainty of being up to date, and the writer
  itself is at a step (`Settling`) after which it loads the files with success, or
  reports that it could not. Before a write is final, what it serves is what there
  was before it (`Tries`), and a cycle publishes a copy that is still the disk
  (`Copies`). (`ConfigAssumption`.)
- **Remote observations.** `HonestSnapshots` holds because what a snapshot shows is
  never younger than the attempt it records and no attempt is in the future
  (`Honest`), and because reads under way are of enabled sources (`Reads`), which a
  reload in mid-read would break. `PlansFromOwnReads` follows from the same. `OneFlight` is
  inductive with the types of its variables, and `CooldownKept` needs only that a
  read under way knows its feed (`CooldownOK`). `CacheSound`: the counted bytes are
  the sum of the sizes held, so what an eviction or a replacement takes from the
  count is the sum of what it removed (`WeightSplit`), and an eviction leaves room
  for what comes (`EvictedFits`). `ReadersOfReturn`: a reader is the owner of a
  request under way or waits for one that `OneFlight` says is there, and its
  landing sends all of them back. (`ObservationAssumption`, `MetadataAssumption`,
  `FeedAssumption`.)
- **Declarations and reviews.** `RulesKept`: between reading a declaration and
  writing its rules what was read is what is there, unless somebody else wrote, and
  a folder is there or known to have been away (`SyncInv`). `ReviewsKept`: no two
  reviews, and no two releases a search advises, share an episode (`QueueInv`), so
  what replaces a review is about its own episodes. `RulesSettling`: whatever
  operation was under way when users left, and whatever it left behind, the next
  cycle that begins reads what is there and ends with rules in step with it, and
  a cycle that finds them in step changes nothing. (`RepairAssumption`,
  `DeclAssumption`.)

The prover does not reach ENABLED, and so neither `WF_` nor `SF_` of an action.
Where a liveness property is a theorem, fairness is spelled out instead: always
again there is nothing to do, or the step is taken (`FairUpkeep`, `ReadEnds`, the
hypotheses of `LocalServed` and `CyclesSettling`). That "nothing to do" is exactly
where the step is not enabled can be read off the guards, and TLC compared the two
for `RulesSettling` and `LocalServed` on the instances of their runs.

| Property | Theorem | What the theorem leaves to TLC |
|---|---|---|
| `RulesSettle` | `RulesSettling` | that the specification's weak fairness is the one spelled out |
| `ReadersReturn` | `ReadersOfReturn` | all URLs at once: no prover moves a quantifier over `[]` |
| `ChainsConverge`, `RestsWhenAgreed` | `CyclesSettling` | trees that are contested, or not yet in agreement, when the last change happens |
| `LocalCyclesRecur` | `LocalServed` | that the scheduler asks again (its clock) |

Model-checked only: the rest of these four, and `ShutdownEnds`, `OfferedArrives`,
`MigrationEnds` and `MigrationSettles`, whose arguments count down a clock, a set
or a number of mishaps: an induction inside temporal logic. Every other property
of a passing run is a theorem.

## Plan

Done: every module above, with the proofs above. What is left, in this order:

1. Claims with more than one entry for a task, and their ambiguous episodes,
   beside `Acquisition`.
2. `Runner` shown to implement an abstract serial runner.
3. Movie bundles as an algorithm in the run of `Inventory`; the no-overwrite rename
   of `filesystem/rename_linux.go`.

## Not modelled

- *Media name parser*, and the part of *movie bundles* that reads names: string
  analysis over an unbounded alphabet; models take its result as an input.
- *Providers* and *downloader clients*: encodings of remote documents and calls.
  What they do as seen from the program is the environment of `Acquisition`,
  `Migration` and the caches.
- *Web interface and sign-in*: decoding, rendering and sessions, outside the
  reconciliation core; its requests are inputs of `Runner`, `ConfigStore`,
  `Declarations` and `Repairs`.
- *Command line*: flags and the checks of preflight; its operations are in
  `ConfigStore`.
- Of the components that are partly modelled, the reason is with each in
  `PROJECT.json`.
