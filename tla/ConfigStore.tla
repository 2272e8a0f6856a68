---------------------------- MODULE ConfigStore -----------------------------
(***************************************************************************)
(* The configuration root of aninode and the processes that write it: the  *)
(* daemon and the commands run beside it.  Files are replaced atomically,  *)
(* but one operation makes several such writes (the file, its secret, the  *)
(* rollback of both) and keeps an in-memory runtime in step with them.     *)
(*                                                                         *)
(* Every operation of internal/application holds its process's operation   *)
(* mutex and, but for the migration preview, the writer lock of the root,  *)
(* from its first step to its last; both are released on every return, and *)
(* by the kernel when a process dies.  They are therefore read off the     *)
(* program counters (MutexFree, LockFree) instead of being variables.  An  *)
(* operation that finds the writer lock taken returns a conflict and       *)
(* changes nothing.                                                        *)
(***************************************************************************)
EXTENDS Integers, FiniteSets

CONSTANTS
  Proc, Op, Home,                \* processes, their threads, thread -> process
  Daemon,                        \* the processes that serve the web interface
  Organizer, Client, Source, Entry, \* the files, and the declared entries
  Absent, Bad, Ok, Off,          \* contents, see Content
  Password, Keep,                \* passwords; a save that leaves the secret alone
  Key,                           \* master keys, more than there are clients
  MaxEvents                      \* bound on I/O errors, crashes and lost keys

Files == {Organizer} \cup Client \cup Source \cup Entry
Resources == {Organizer} \cup Client \cup Source

(* Bad does not decode or validate.  A client is Ok when enabled.  What     *)
(* matters of a declaration is the set of sources it refers to.            *)
Referring == {sources : sources \in SUBSET Source}
Content == {Absent, Bad, Ok, Off} \cup Referring

ASSUME ConfigAssumption ==
  /\ Home \in [Op -> Proc]
  /\ Daemon \subseteq Proc
  /\ MaxEvents \in Nat
  /\ IsFiniteSet(Op)
  /\ Organizer \notin Client \cup Source \cup Entry
  /\ Client \cap Source = {} /\ Client \cap Entry = {} /\ Source \cap Entry = {}
  /\ Absent \notin {Bad, Ok, Off} /\ Bad \notin {Ok, Off} /\ Ok # Off
  /\ \A s \in Referring : s \notin {Absent, Bad, Ok, Off}
  /\ Absent \notin Password \cup Key /\ Keep \notin Password \cup {Absent}

VARIABLES
  disk,      \* content of every file
  secret,    \* sealed password of every client: Absent or [pass, key]
  key,       \* the master key, or Absent
  stage,     \* "down", "boot" or "up", of every process
  runtime,   \* what every daemon serves: Absent or [files, pass]
  failed,    \* reloadFailed of every daemon
  pc, op,    \* where every thread is, and in which operation
  events,    \* I/O errors, crashes and lost keys so far
  loose,     \* history: files left behind by interrupted operations
  synced     \* history: the processes that have loaded since another one wrote

fileVars == <<disk, loose, synced>>
secretVars == <<secret, key>>
procVars == <<stage, runtime, failed>>
opVars == <<pc, op>>
vars == <<fileVars, secretVars, procVars, opVars, events>>

-----------------------------------------------------------------------------
(* Loading *)

(* The graph as a whole: every file is readable, at most one client, and   *)
(* entries refer to sources that exist.                                    *)
Loads(d) ==
  /\ d[Organizer] # Absent
  /\ \A f \in Resources : d[f] # Bad
  /\ \A c1, c2 \in Client : d[c1] # Absent /\ d[c2] # Absent => c1 = c2
  /\ \A e \in Entry : d[e] # Absent => \A s \in d[e] : d[s] # Absent

(* A root no process has started on yet. *)
FreshRoot(d) == d[Organizer] = Absent /\ Loads([d EXCEPT ![Organizer] = Ok])

Readable(c) == secret[c] # Absent => secret[c].key = key

(* Backends are built for the enabled clients, which needs their secrets. *)
Builds(d) == \A c \in Client : d[c] = Ok => Readable(c)

PassOf(c) == IF secret[c] = Absent THEN Absent ELSE secret[c].pass

Served(d) ==
  [files |-> d, pass |-> [c \in Client |-> IF d[c] = Ok THEN PassOf(c) ELSE Absent]]

-----------------------------------------------------------------------------
Config == {"put", "delete", "save", "drop"}
WithSecret == {"save", "drop"}
Declare == {"entry", "create"}

(* Beside its request, an operation remembers what the changed file and    *)
(* the client's secret held before; a cycle, the runtime it works with.    *)
Job(k, f, v, p) == [kind |-> k, file |-> f, want |-> v, pass |-> p,
                    saved |-> Absent, oldPass |-> Absent, rt |-> Absent]
NoJob == Job("preview", Organizer, Absent, Keep)

(* The requests of the web interface: a resource put or deleted; a client  *)
(* saved with a password, with none (Absent) or as it is (Keep), or        *)
(* dropped; a declaration changed or created.  The commands `run' and      *)
(* `migrate' only cycle and preview, as the daemon does too.               *)
Requests ==
  {Job("put", f, v, Keep) : f \in Resources, v \in {Ok, Bad}}
    \cup {Job("delete", s, Absent, Keep) : s \in Source}
    \cup {Job("save", c, v, p) : c \in Client, v \in {Ok, Off}, p \in Password \cup {Absent, Keep}}
    \cup {Job("drop", c, Absent, Absent) : c \in Client}
    \cup {Job(k, e, v, Keep) : k \in Declare, e \in Entry, v \in Referring}
JobsOf(p) == {Job(k, Organizer, Absent, Keep) : k \in {"cycle", "preview"}}
               \cup (IF p \in Daemon THEN Requests ELSE {})

MutexFree(o) == \A x \in Op : Home[x] = Home[o] => pc[x] = "idle"
LockFree == \A x \in Op : pc[x] # "idle" => op[x].kind = "preview"

Goto(o, l) == /\ pc' = [pc EXCEPT ![o] = l]
              /\ op' = IF l = "idle" THEN [op EXCEPT ![o] = NoJob] ELSE op
Fault == events < MaxEvents /\ events' = events + 1
NoFault == UNCHANGED events

Wrote(p) == synced' = [q \in Proc |-> q = p /\ synced[q]]
Put(o, f, v) == /\ disk' = [disk EXCEPT ![f] = v]
                /\ Wrote(Home[o])

(* A command reads its runtime only inside its operation, where op[_].rt   *)
(* stands for it; what a daemon holds is read by every later request.      *)
Serve(p, r) == runtime' = IF p \in Daemon THEN [runtime EXCEPT ![p] = r] ELSE runtime
Flag(p, b) == failed' = IF p \in Daemon THEN [failed EXCEPT ![p] = b] ELSE failed

(* reloadRuntime: the last good runtime stays when it fails. *)
LoadOk(o) ==
  /\ Loads(disk) /\ Builds(disk)
  /\ Serve(Home[o], Served(disk)) /\ Flag(Home[o], FALSE)
  /\ IF op[o].kind = "preview" \/ loose = {}
     THEN synced' = [synced EXCEPT ![Home[o]] = TRUE] /\ UNCHANGED loose
     ELSE synced' = [p \in Proc |-> p = Home[o]] /\ loose' = {}
  /\ NoFault

LoadFails(o) ==
  /\ (~(Loads(disk) /\ Builds(disk)) /\ NoFault) \/ Fault
  /\ Flag(Home[o], TRUE)
  /\ UNCHANGED <<runtime, loose, synced>>

-----------------------------------------------------------------------------
(* Operations *)

(* Mutant: a cycle does not take the writer lock. *)
BeginUnlocked(o) ==
  /\ pc[o] = "idle" /\ stage[Home[o]] = "up" /\ MutexFree(o)
  /\ \E j \in JobsOf(Home[o]) :
       /\ j.kind \in {"preview", "cycle"} \/ LockFree
       /\ op' = [op EXCEPT ![o] = j]
       /\ pc' = [pc EXCEPT ![o] = IF j.kind \in Config THEN "backup" ELSE "open"]
  /\ UNCHANGED <<fileVars, secretVars, procVars, events>>

Begin(o) ==
  /\ pc[o] = "idle" /\ stage[Home[o]] = "up" /\ MutexFree(o)
  /\ \E j \in JobsOf(Home[o]) :
       /\ j.kind = "preview" \/ LockFree
       /\ op' = [op EXCEPT ![o] = j]
       /\ pc' = [pc EXCEPT ![o] = IF j.kind \in Config THEN "backup" ELSE "open"]
  /\ UNCHANGED <<fileVars, secretVars, procVars, events>>

(* Backup, the old secret, and what the write needs to exist. *)
Backup(o) ==
  LET j == op[o] IN
  /\ pc[o] = "backup"
  /\ IF \/ j.kind \in WithSecret /\ ~Readable(j.file)
        \/ (j.kind \in {"delete", "drop"} \/ j.file = Organizer) /\ disk[j.file] = Absent
     THEN Goto(o, "idle")
     ELSE /\ pc' = [pc EXCEPT ![o] = "write"]
          /\ op' = [op EXCEPT ![o].saved = disk[j.file],
                              ![o].oldPass = IF j.kind \in WithSecret THEN PassOf(j.file) ELSE Absent]
  /\ UNCHANGED <<fileVars, secretVars, procVars, events>>

Hold(o, l) ==
  /\ pc' = [pc EXCEPT ![o] = l]
  /\ op' = [op EXCEPT ![o].rt = IF op[o].kind = "cycle" THEN Served(disk) ELSE @,
                      ![o].saved = disk[op[o].file]]

(* The reload an operation on declarations, a cycle or a preview starts with. *)
Open(o) ==
  LET j == op[o]
      present == disk[j.file] # Absent
      proceed == CASE j.kind = "cycle" -> "adopt"
                   [] j.kind = "entry" /\ present -> "write"
                   [] j.kind = "create" /\ ~present -> "write"
                   [] OTHER -> "idle"
  IN
  /\ pc[o] = "open"
  /\ \/ LoadOk(o) /\ proceed = "idle" /\ Goto(o, "idle")
     \/ LoadOk(o) /\ proceed # "idle" /\ Hold(o, proceed)
     \/ LoadFails(o) /\ Goto(o, "idle")
  /\ UNCHANGED <<disk, secretVars, stage>>

(* An error before the rename leaves nothing.  After it (the directory     *)
(* could not be synced) the new content stays and is not reloaded, unless  *)
(* it is a new declaration, which is removed again.                        *)
Write(o) ==
  LET j == op[o] IN
  /\ pc[o] = "write"
  /\ \/ /\ Put(o, j.file, j.want) /\ NoFault /\ UNCHANGED loose
        /\ Goto(o, IF j.kind \in Config THEN "check" ELSE "reload")
     \/ Fault /\ Goto(o, "idle") /\ UNCHANGED fileVars
     \/ /\ j.kind \notin {"delete", "drop", "create"}
        /\ Fault /\ Put(o, j.file, j.want) /\ loose' = loose \cup {j.file}
        /\ Goto(o, "idle")
  /\ UNCHANGED <<secretVars, procVars>>

Undo(o) == Put(o, op[o].file, op[o].saved) /\ UNCHANGED loose
Leave(o) == loose' = loose \cup {op[o].file} /\ UNCHANGED <<disk, synced>>

Accepted(o) == IF \/ op[o].kind = "drop"
                  \/ op[o].kind = "save" /\ op[o].pass # Keep
               THEN "secret" ELSE "reload"

(* Mutant: a rejected file stays when there was none before. *)
CheckKeepsNew(o) ==
  /\ pc[o] = "check"
  /\ \/ Loads(disk) /\ NoFault /\ Goto(o, Accepted(o)) /\ UNCHANGED fileVars
     \/ ((~Loads(disk) /\ NoFault) \/ Fault) /\ Goto(o, "idle")
        /\ IF op[o].saved = Absent THEN UNCHANGED fileVars ELSE Undo(o)
     \/ ~Loads(disk) /\ Fault /\ Goto(o, "idle") /\ Leave(o)
  /\ UNCHANGED <<secretVars, procVars>>

(* putValidated and Delete: load the graph with the new content live, put  *)
(* the old content back when it is rejected.  The second error is the      *)
(* rollback's.                                                             *)
Check(o) ==
  /\ pc[o] = "check"
  /\ \/ Loads(disk) /\ NoFault /\ Goto(o, Accepted(o)) /\ UNCHANGED fileVars
     \/ ((~Loads(disk) /\ NoFault) \/ Fault) /\ Goto(o, "idle") /\ Undo(o)
     \/ ~Loads(disk) /\ Fault /\ Goto(o, "idle") /\ Leave(o)
  /\ UNCHANGED <<secretVars, procVars>>

KeysUsed == {secret[c].key : c \in {x \in Client : secret[x] # Absent}}

(* The key is created only when there is none, before the first secret. *)
Seal(o, c, p) ==
  /\ key' \in IF key = Absent THEN Key \ KeysUsed ELSE {key}
  /\ secret' = [secret EXCEPT ![c] = [pass |-> p, key |-> key']]
  /\ Wrote(Home[o])
Unseal(o, c) == /\ secret' = [secret EXCEPT ![c] = Absent]
                /\ Wrote(Home[o]) /\ UNCHANGED key
SetSecret(o, c, p) == IF p = Absent THEN Unseal(o, c) ELSE Seal(o, c, p)

(* Mutant: a changed secret is not loaded again. *)
SecretUnloaded(o) ==
  /\ pc[o] = "secret"
  /\ SetSecret(o, op[o].file, op[o].pass) /\ NoFault /\ Goto(o, "idle")
  /\ UNCHANGED <<disk, loose, procVars>>

(* The secret changes only once the file was accepted. *)
Secret(o) ==
  LET j == op[o] IN
  /\ pc[o] = "secret"
  /\ \/ SetSecret(o, j.file, j.pass) /\ NoFault /\ Goto(o, "reload")
     \/ /\ Fault /\ UNCHANGED <<secretVars, synced>>
        /\ Goto(o, IF j.kind = "drop" THEN "revert" ELSE "restore")
  /\ UNCHANGED <<disk, loose, procVars>>

Reload(o) ==
  /\ pc[o] = "reload"
  /\ \/ LoadOk(o) /\ Goto(o, "idle")
     \/ LoadFails(o) /\ Goto(o, "restore")
  /\ UNCHANGED <<disk, secretVars, stage>>

(* Only the changed file differs from the backup: the lock kept every      *)
(* other writer out.  A failed restore does not stop what follows it.      *)
Restore(o) ==
  /\ pc[o] = "restore"
  /\ (Undo(o) /\ NoFault) \/ (Leave(o) /\ Fault)
  /\ Goto(o, IF op[o].kind \in WithSecret THEN "resecret" ELSE "again")
  /\ UNCHANGED <<secretVars, procVars>>

Resecret(o) ==
  /\ pc[o] = "resecret"
  /\ \/ SetSecret(o, op[o].file, op[o].oldPass) /\ NoFault /\ UNCHANGED <<disk, loose>>
     \/ Leave(o) /\ Fault /\ UNCHANGED secretVars
  /\ Goto(o, "again")
  /\ UNCHANGED procVars

Again(o) ==
  /\ pc[o] = "again"
  /\ LoadOk(o) \/ LoadFails(o)
  /\ Goto(o, "idle")
  /\ UNCHANGED <<disk, secretVars, stage>>

(* DeleteClient whose secret could not be deleted: nothing is reloaded. *)
Revert(o) ==
  /\ pc[o] = "revert"
  /\ (Undo(o) /\ NoFault) \/ (Leave(o) /\ Fault)
  /\ Goto(o, "idle")
  /\ UNCHANGED <<secretVars, procVars>>

(* A cycle declares source directories it finds undeclared, and reloads    *)
(* if it did.  An error after a declaration was created ends the cycle.    *)
Adopt(o) ==
  /\ pc[o] = "adopt"
  /\ \/ NoFault /\ Goto(o, "work") /\ UNCHANGED fileVars
     \/ \E e \in Entry :
          /\ disk[e] = Absent
          /\ Put(o, e, {})
          /\ \/ NoFault /\ Goto(o, "refresh") /\ UNCHANGED loose
             \/ Fault /\ Goto(o, "idle") /\ loose' = loose \cup {e}
  /\ UNCHANGED <<secretVars, procVars>>

(* Mutant: the cycle keeps the copy from before the adoption. *)
RefreshKeepsCopy(o) ==
  /\ pc[o] = "refresh"
  /\ (LoadOk(o) /\ Goto(o, "work")) \/ (LoadFails(o) /\ Goto(o, "idle"))
  /\ UNCHANGED <<disk, secretVars, stage>>

(* Its copy of the runtime is then the new one. *)
Refresh(o) ==
  /\ pc[o] = "refresh"
  /\ \/ LoadOk(o) /\ Hold(o, "work")
     \/ LoadFails(o) /\ Goto(o, "idle")
  /\ UNCHANGED <<disk, secretVars, stage>>

(* The rest of the cycle works on its own copy of the runtime, may read    *)
(* the entries again, and publishes the copy; or it fails and does not.    *)
Publish(o) ==
  /\ pc[o] = "work"
  /\ \/ Serve(Home[o], [op[o].rt EXCEPT !.files = [f \in Files |->
                           IF f \in Entry THEN disk[f] ELSE op[o].rt.files[f]]])
     \/ Serve(Home[o], op[o].rt)
     \/ UNCHANGED runtime
  /\ Goto(o, "idle")
  /\ UNCHANGED <<fileVars, secretVars, stage, failed, events>>

-----------------------------------------------------------------------------
(* Processes *)

(* The first start creates organizer.json in place: it is there before it  *)
(* is whole.                                                               *)
Bootstrap(p) ==
  /\ stage[p] = "down" /\ disk[Organizer] = Absent
  /\ disk' = [disk EXCEPT ![Organizer] = Bad] /\ Wrote(p)
  /\ stage' = [stage EXCEPT ![p] = "boot"]
  /\ UNCHANGED <<loose, secretVars, runtime, failed, opVars, events>>

Bootstrapped(p) ==
  /\ stage[p] = "boot"
  /\ \/ disk' = [disk EXCEPT ![Organizer] = Ok] /\ NoFault
     \/ disk' = [disk EXCEPT ![Organizer] = Absent] /\ Fault
  /\ Wrote(p)
  /\ stage' = [stage EXCEPT ![p] = "down"]
  /\ UNCHANGED <<loose, secretVars, runtime, failed, opVars>>

(* Open reloads without the writer lock; if it fails the process exits. *)
Exit(p) ==
  /\ stage[p] = "down" /\ disk[Organizer] # Absent
  /\ ~(Loads(disk) /\ Builds(disk))
  /\ UNCHANGED vars

Start(p) ==
  /\ stage[p] = "down" /\ Loads(disk) /\ Builds(disk)
  /\ stage' = [stage EXCEPT ![p] = "up"]
  /\ Serve(p, Served(disk)) /\ Flag(p, FALSE)
  /\ synced' = [synced EXCEPT ![p] = TRUE]
  /\ UNCHANGED <<disk, loose, secretVars, opVars, events>>

(* The program counters between the write and the end of its rollback. *)
Provisional(o) == pc[o] \in {"check", "secret", "reload", "restore", "revert"}
Unfinished(o) == Provisional(o) \/ pc[o] \in {"resecret", "again"}

Crash(p) ==
  /\ stage[p] # "down" /\ Fault
  /\ stage' = [stage EXCEPT ![p] = "down"]
  /\ runtime' = [runtime EXCEPT ![p] = Absent]
  /\ loose' = loose \cup {op[o].file : o \in {x \in Op : Home[x] = p /\ Unfinished(x)}}
                    \cup (IF stage[p] = "boot" THEN {Organizer} ELSE {})
  /\ pc' = [o \in Op |-> IF Home[o] = p THEN "idle" ELSE pc[o]]
  /\ op' = [o \in Op |-> IF Home[o] = p THEN NoJob ELSE op[o]]
  /\ UNCHANGED <<disk, synced, secretVars, failed>>

(* The secrets directory was not restored with the configuration. *)
LoseKey == /\ key # Absent /\ Fault /\ key' = Absent
           /\ UNCHANGED <<fileVars, secret, procVars, opVars>>

-----------------------------------------------------------------------------
Init ==
  /\ disk \in [Files -> Content]
  /\ \A f \in Resources : disk[f] \in {Absent, Ok}
  /\ \A e \in Entry : disk[e] \in {Absent} \cup Referring
  /\ Loads(disk) \/ FreshRoot(disk)
  /\ secret = [c \in Client |-> Absent] /\ key = Absent
  /\ stage = [p \in Proc |-> "down"]
  /\ runtime = [p \in Proc |-> Absent]
  /\ failed = [p \in Proc |-> FALSE]
  /\ pc = [o \in Op |-> "idle"] /\ op = [o \in Op |-> NoJob]
  /\ events = 0 /\ loose = {}
  /\ synced = [p \in Proc |-> FALSE]

Step(o) ==
  \/ Begin(o) \/ Backup(o) \/ Open(o) \/ Write(o) \/ Check(o) \/ Secret(o)
  \/ Reload(o) \/ Restore(o) \/ Resecret(o) \/ Again(o) \/ Revert(o)
  \/ Adopt(o) \/ Refresh(o) \/ Publish(o)

Next ==
  \/ \E o \in Op : Step(o)
  \/ \E p \in Proc : Bootstrap(p) \/ Bootstrapped(p) \/ Exit(p) \/ Start(p) \/ Crash(p)
  \/ LoseKey

Spec == Init /\ [][Next]_vars

-----------------------------------------------------------------------------
(* Properties *)

Runtimes == [files : [Files -> Content], pass : [Client -> Password \cup {Absent}]]

(* What an operation was asked to do, and what it came to remember. *)
Jobs == [kind : Config \cup Declare \cup {"cycle", "preview"}, file : Files, want : Content,
         pass : Password \cup {Absent, Keep}, saved : Content,
         oldPass : Password \cup {Absent}, rt : Runtimes \cup {Absent}]
Requested(o) ==
  \E j \in JobsOf(Home[o]) :
    /\ op[o].kind = j.kind /\ op[o].file = j.file
    /\ op[o].want = j.want /\ op[o].pass = j.pass

TypeOK ==
  /\ disk \in [Files -> Content] /\ loose \subseteq Files /\ synced \in [Proc -> BOOLEAN]
  /\ secret \in [Client -> {Absent} \cup [pass : Password, key : Key]]
  /\ key \in Key \cup {Absent} /\ events \in 0 .. MaxEvents
  /\ stage \in [Proc -> {"down", "boot", "up"}]
  /\ runtime \in [Proc -> Runtimes \cup {Absent}] /\ failed \in [Proc -> BOOLEAN]
  /\ DOMAIN pc = Op /\ op \in [Op -> Jobs]
  /\ \A o \in Op : IF pc[o] = "idle" THEN op[o] = NoJob ELSE Requested(o)

Steps(kind) ==
  CASE kind = "preview" -> {"open"}
    [] kind = "cycle" -> {"open", "adopt", "refresh", "work"}
    [] kind \in Declare -> {"open", "write", "reload", "restore", "again"}
    [] OTHER -> {"backup", "write", "check", "secret", "reload", "restore",
                 "resecret", "again", "revert"}

(* The two locks: operations of a process exclude each other, and but for   *)
(* previews those of all processes do.                                     *)
LockInv ==
  /\ \A o \in Op : pc[o] # "idle" => pc[o] \in Steps(op[o].kind) /\ stage[Home[o]] = "up"
  /\ \A o, x \in Op : pc[o] # "idle" /\ pc[x] # "idle" /\ o # x =>
       Home[o] # Home[x] /\ (op[o].kind = "preview" \/ op[x].kind = "preview")

(* organizer.json appears once, before any process is up, and stays. *)
BootInv ==
  /\ disk[Organizer] = Absent => FreshRoot(disk) /\ \A p \in Proc : stage[p] = "down"
  /\ \A p \in Proc : stage[p] = "boot" =>
       /\ disk[Organizer] = Bad /\ Loads([disk EXCEPT ![Organizer] = Ok])
       /\ \A q \in Proc \ {p} : stage[q] = "down"

(* What an operation under way remembers of the disk is still so, and only *)
(* a change of a client comes to its secret.                               *)
KeptInv ==
  \A o \in Op :
    /\ pc[o] = "write" => op[o].saved = disk[op[o].file]
    /\ pc[o] # "idle" /\ op[o].file = Organizer /\ op[o].kind = "put" /\ pc[o] # "backup" =>
         op[o].saved # Absent
    /\ pc[o] \in {"adopt", "work"} => op[o].rt \in Runtimes /\ op[o].rt.files = disk /\ Loads(disk)
    /\ pc[o] \in {"secret", "resecret"} => op[o].kind \in WithSecret
    /\ pc[o] = "secret" => op[o].pass # Keep

(* What a process serves is always a graph that loads as a whole, also     *)
(* while a rejected change is live on disk, and also when a cycle publishes *)
(* the copy it took many steps before.                                     *)
ServesLoadable ==
  \A p \in Proc : runtime[p] # Absent => Loads(runtime[p].files)

IInv == TypeOK /\ LockInv /\ BootInv /\ KeptInv /\ ServesLoadable

Quiet(p) == \A o \in Op : Home[o] = p => pc[o] = "idle"

(* Between operations, a process that was the last to write and does not   *)
(* report a failed reload serves exactly what its files and secrets say:   *)
(* a mutation, its rollback or a cycle never leaves the memory of the       *)
(* process and its disk split.  Only a file left behind by an I/O error in *)
(* a write or a rollback can.                                              *)
RuntimeAgrees ==
  \A p \in Daemon :
    stage[p] = "up" /\ Quiet(p) /\ synced[p] /\ ~failed[p] /\ loose = {}
      => runtime[p] = Served(disk)

(* Seen from outside the operations under way, the files step atomically   *)
(* from graph to graph.                                                    *)
Held == [f \in Files |->
  IF \E o \in Op : Provisional(o) /\ op[o].file = f
  THEN op[CHOOSE o \in Op : Provisional(o) /\ op[o].file = f].saved
  ELSE IF f = Organizer /\ \E p \in Proc : stage[p] = "boot" THEN Absent
  ELSE disk[f]]

Atomic == INSTANCE AtomicConfig
            WITH held <- Held, Valid <- Loads, Fresh <- FreshRoot
AtomicUpdates == Atomic!Spec
=============================================================================
