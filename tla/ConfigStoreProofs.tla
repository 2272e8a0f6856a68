------------------------- MODULE ConfigStoreProofs --------------------------
(***************************************************************************)
(* Theorems of ConfigStore: its inductive invariant, and that it implements *)
(* AtomicConfig.                                                           *)
(***************************************************************************)
EXTENDS ConfigStore, TLAPS

-----------------------------------------------------------------------------
(* What requests are. *)

Shape(j) ==
  /\ j.kind = "put" => j.file \in Resources /\ j.want \in {Ok, Bad}
  /\ j.kind = "delete" => j.file \in Source
  /\ j.kind \in WithSecret => j.file \in Client
  /\ j.kind \in Declare => j.file \in Entry /\ j.want \in Referring
  /\ j.kind \in {"cycle", "preview"} => j.file = Organizer

LEMMA Distinct ==
  /\ Organizer \in Files /\ Organizer \notin Client /\ Organizer \notin Source /\ Organizer \notin Entry
  /\ Absent \in Content /\ Ok \in Content /\ Bad \in Content /\ {} \in Content /\ {} # Absent
  /\ Ok # Absent /\ Bad # Absent /\ Bad # Ok
  /\ Resources \subseteq Files /\ Entry \subseteq Files
  /\ Client \subseteq Resources /\ Source \subseteq Resources /\ Organizer \in Resources
BY ConfigAssumption DEF Files, Resources, Content, Referring

LEMMA JobTyped ==
  ASSUME NEW k \in Config \cup Declare \cup {"cycle", "preview"}, NEW f \in Files, NEW v \in Content,
         NEW p \in Password \cup {Absent, Keep}
  PROVE  /\ Job(k, f, v, p) \in Jobs
         /\ Job(k, f, v, p).kind = k /\ Job(k, f, v, p).file = f
         /\ Job(k, f, v, p).want = v /\ Job(k, f, v, p).pass = p
BY Distinct DEF Job, Jobs

LEMMA RequestShape ==
  ASSUME NEW p \in Proc, NEW j \in JobsOf(p)
  PROVE  j \in Jobs /\ Shape(j)
<1>1. CASE \E k \in {"cycle", "preview"} : j = Job(k, Organizer, Absent, Keep)
  <2>1. PICK k \in {"cycle", "preview"} : j = Job(k, Organizer, Absent, Keep)
    BY <1>1
  <2>2. /\ k \in Config \cup Declare \cup {"cycle", "preview"}
        /\ Organizer \in Files /\ Absent \in Content /\ Keep \in Password \cup {Absent, Keep}
    BY Distinct
  <2>3. LET i == Job(k, Organizer, Absent, Keep) IN i \in Jobs /\ i.kind = k /\ i.file = Organizer
    BY <2>2, JobTyped
  <2> QED BY <2>1, <2>3 DEF Shape, WithSecret, Declare
<1>2. CASE \E f \in Resources, v \in {Ok, Bad} : j = Job("put", f, v, Keep)
  BY <1>2, Distinct, JobTyped DEF Shape, Config, WithSecret, Declare
<1>3. CASE \E s \in Source : j = Job("delete", s, Absent, Keep)
  BY <1>3, Distinct, JobTyped DEF Shape, Config, WithSecret, Declare
<1>4. CASE \E c \in Client, v \in {Ok, Off}, q \in Password \cup {Absent, Keep} :
             j = Job("save", c, v, q)
  <2>1. PICK c \in Client, v \in {Ok, Off}, q \in Password \cup {Absent, Keep} :
          j = Job("save", c, v, q)
    BY <1>4
  <2>2. "save" \in Config \cup Declare \cup {"cycle", "preview"} /\ c \in Files /\ v \in Content
    BY Distinct DEF Config, Content
  <2>3. LET i == Job("save", c, v, q) IN i \in Jobs /\ i.kind = "save" /\ i.file = c
    BY <2>2, JobTyped
  <2> QED BY <2>1, <2>3 DEF Shape, WithSecret, Declare
<1>5. CASE \E c \in Client : j = Job("drop", c, Absent, Absent)
  BY <1>5, Distinct, JobTyped DEF Shape, Config, WithSecret, Declare
<1>6. CASE \E k \in Declare, e \in Entry, v \in Referring : j = Job(k, e, v, Keep)
  BY <1>6, Distinct, JobTyped DEF Shape, Config, WithSecret, Declare, Content
<1> QED BY <1>1, <1>2, <1>3, <1>4, <1>5, <1>6 DEF JobsOf, Requests

LEMMA NoJobTyped == NoJob \in Jobs /\ NoJob.kind = "preview"
BY Distinct, JobTyped DEF NoJob, Config, Declare

-----------------------------------------------------------------------------
(* Type correctness, by groups of variables. *)

FilesOK == disk \in [Files -> Content] /\ loose \subseteq Files /\ synced \in [Proc -> BOOLEAN]
SecretsOK == /\ secret \in [Client -> {Absent} \cup [pass : Password, key : Key]]
             /\ key \in Key \cup {Absent}
ProcsOK == /\ stage \in [Proc -> {"down", "boot", "up"}]
           /\ runtime \in [Proc -> Runtimes \cup {Absent}] /\ failed \in [Proc -> BOOLEAN]
OpsOK == /\ DOMAIN pc = Op /\ op \in [Op -> Jobs]
         /\ \A o \in Op : IF pc[o] = "idle" THEN op[o] = NoJob ELSE Requested(o)

LEMMA TypeGroups == TypeOK <=> FilesOK /\ SecretsOK /\ ProcsOK /\ OpsOK /\ events \in 0 .. MaxEvents
BY Zenon DEF TypeOK, FilesOK, SecretsOK, ProcsOK, OpsOK

LEMMA Asked ==
  ASSUME OpsOK, NEW o \in Op, pc[o] # "idle"
  PROVE  op[o] \in Jobs /\ Shape(op[o])
<1>1. PICK j \in JobsOf(Home[o]) :
        op[o].kind = j.kind /\ op[o].file = j.file /\ op[o].want = j.want /\ op[o].pass = j.pass
  BY DEF OpsOK, Requested
<1>2. Shape(j)
  BY RequestShape, ConfigAssumption
<1> QED BY <1>1, <1>2 DEF OpsOK, Shape

(* The operation goes on, or is over. *)
LEMMA GotoOps ==
  ASSUME OpsOK, NEW o \in Op, NEW l, pc[o] # "idle", Goto(o, l)
  PROVE  OpsOK'
<1>1. CASE l = "idle"
  BY <1>1, NoJobTyped DEF Goto, OpsOK, Requested
<1>2. CASE l # "idle"
  BY <1>2 DEF Goto, OpsOK, Requested
<1> QED BY <1>1, <1>2

LEMMA ServedTyped == FilesOK /\ SecretsOK => Served(disk) \in Runtimes
BY DEF FilesOK, SecretsOK, Served, Runtimes, PassOf

LEMMA HoldOps ==
  ASSUME OpsOK, FilesOK, SecretsOK, NEW o \in Op, NEW l, pc[o] # "idle", l # "idle", Hold(o, l)
  PROVE  OpsOK'
<1>1. op[o] \in Jobs /\ disk[op[o].file] \in Content /\ Served(disk) \in Runtimes
  BY ServedTyped, Asked DEF Jobs, FilesOK
<1>2. op' \in [Op -> Jobs]
  BY <1>1 DEF Hold, OpsOK, Jobs
<1>3. /\ op'[o].kind = op[o].kind /\ op'[o].file = op[o].file
      /\ op'[o].want = op[o].want /\ op'[o].pass = op[o].pass
  BY <1>1 DEF Hold, OpsOK, Jobs
<1>4. \A x \in Op \ {o} : op'[x] = op[x] /\ pc'[x] = pc[x]
  BY DEF Hold, OpsOK
<1> QED BY <1>2, <1>3, <1>4 DEF OpsOK, Requested, Hold

LEMMA OpsStep == TypeOK /\ LockInv /\ Next => OpsOK'
<1> SUFFICES ASSUME TypeOK, LockInv, Next PROVE OpsOK'
  OBVIOUS
<1>0. FilesOK /\ SecretsOK /\ OpsOK
  BY TypeGroups
<1>1. ASSUME NEW o \in Op, Begin(o) PROVE OpsOK'
  <2>1. PICK j \in JobsOf(Home[o]) :
          /\ op' = [op EXCEPT ![o] = j]
          /\ pc' = [pc EXCEPT ![o] = IF j.kind \in Config THEN "backup" ELSE "open"]
    BY <1>1 DEF Begin
  <2>2. j \in Jobs
    BY RequestShape, ConfigAssumption
  <2> QED BY <1>0, <2>1, <2>2 DEF OpsOK, Requested
<1>2. ASSUME NEW o \in Op, Backup(o) PROVE OpsOK'
  <2>1. pc[o] = "backup" /\ op[o] \in Jobs /\ Shape(op[o])
    BY <1>0, <1>2, Asked DEF Backup
  <2>2. CASE Goto(o, "idle")
    BY <1>0, <2>1, <2>2, GotoOps
  <2>3. CASE /\ pc' = [pc EXCEPT ![o] = "write"]
             /\ op' = [op EXCEPT ![o].saved = disk[op[o].file],
                                 ![o].oldPass = IF op[o].kind \in WithSecret THEN PassOf(op[o].file) ELSE Absent]
    <3> DEFINE old == IF op[o].kind \in WithSecret THEN PassOf(op[o].file) ELSE Absent
    <3>1. disk[op[o].file] \in Content /\ old \in Password \cup {Absent}
      BY <1>0, <2>1 DEF FilesOK, SecretsOK, PassOf, Shape, Jobs
    <3>2. op' = [op EXCEPT ![o].saved = disk[op[o].file], ![o].oldPass = old]
      BY <2>3
    <3> HIDE DEF old
    <3>3. op' \in [Op -> Jobs]
      BY <1>0, <2>1, <3>1, <3>2 DEF OpsOK, Jobs
    <3>4. /\ op'[o].kind = op[o].kind /\ op'[o].file = op[o].file
          /\ op'[o].want = op[o].want /\ op'[o].pass = op[o].pass
          /\ \A x \in Op \ {o} : op'[x] = op[x]
      BY <1>0, <2>1, <3>2 DEF OpsOK, Jobs
    <3> QED BY <1>0, <2>1, <2>3, <3>3, <3>4 DEF OpsOK, Requested
  <2> QED BY <1>2, <2>2, <2>3 DEF Backup
<1>3. ASSUME NEW o \in Op, NEW l, pc[o] # "idle", Goto(o, l) PROVE OpsOK'
  BY <1>0, <1>3, GotoOps
<1>4. ASSUME NEW o \in Op, Open(o) PROVE OpsOK'
  <2> DEFINE proceed == CASE op[o].kind = "cycle" -> "adopt"
                          [] op[o].kind = "entry" /\ disk[op[o].file] # Absent -> "write"
                          [] op[o].kind = "create" /\ ~(disk[op[o].file] # Absent) -> "write"
                          [] OTHER -> "idle"
  <2>1. pc[o] = "open" /\ (Goto(o, "idle") \/ (proceed # "idle" /\ Hold(o, proceed)))
    BY <1>4 DEF Open
  <2> HIDE DEF proceed
  <2> QED BY <1>0, <1>3, <2>1, HoldOps
<1>5. ASSUME NEW o \in Op, Refresh(o) PROVE OpsOK'
  BY <1>0, <1>3, <1>5, HoldOps DEF Refresh
<1>6. ASSUME NEW p \in Proc, Crash(p) PROVE OpsOK'
  BY <1>0, <1>6, NoJobTyped DEF Crash, OpsOK, Requested
<1>7. ASSUME UNCHANGED opVars PROVE OpsOK'
  BY <1>0, <1>7 DEF opVars, OpsOK, Requested
<1>8. ASSUME NEW o \in Op, Step(o) PROVE OpsOK'
  <2>1. \/ Begin(o) \/ Backup(o) \/ Open(o) \/ Refresh(o)
        \/ pc[o] # "idle" /\ \E l : Goto(o, l)
    BY <1>8 DEF Step, Write, Check, Secret, Reload, Restore, Resecret, Again, Revert, Adopt, Publish
  <2> QED BY <1>1, <1>2, <1>3, <1>4, <1>5, <2>1
<1> QED
  BY <1>6, <1>7, <1>8 DEF Next, Bootstrap, Bootstrapped, Exit, Start, LoseKey, vars

LEMMA SecretsStep == TypeOK /\ KeptInv /\ Next => SecretsOK'
<1> SUFFICES ASSUME TypeOK, KeptInv, Next PROVE SecretsOK'
  OBVIOUS
<1>0. SecretsOK /\ OpsOK
  BY TypeGroups
<1>1. ASSUME NEW o \in Op, NEW c \in Client, NEW p \in Password \cup {Absent}, SetSecret(o, c, p)
      PROVE  SecretsOK'
  <2>1. CASE p = Absent
    BY <1>0, <1>1, <2>1 DEF SetSecret, Unseal, SecretsOK
  <2>2. CASE p # Absent
    <3>1. key' \in Key \/ (key # Absent /\ key' = key)
      BY <1>1, <2>2 DEF SetSecret, Seal
    <3>2. key' \in Key
      BY <1>0, <3>1 DEF SecretsOK
    <3> QED BY <1>0, <1>1, <2>2, <3>2 DEF SetSecret, Seal, SecretsOK
  <2> QED BY <2>1, <2>2
<1>2. ASSUME NEW o \in Op, Secret(o) PROVE SecretsOK'
  <2>1. op[o] \in Jobs /\ op[o].file \in Client /\ op[o].pass \in Password \cup {Absent}
    BY <1>0, <1>2, Asked DEF Secret, KeptInv, Shape, Jobs
  <2> QED BY <1>0, <1>1, <1>2, <2>1 DEF Secret, secretVars, SecretsOK
<1>3. ASSUME NEW o \in Op, Resecret(o) PROVE SecretsOK'
  <2>1. op[o] \in Jobs /\ op[o].file \in Client /\ op[o].oldPass \in Password \cup {Absent}
    BY <1>0, <1>3, Asked DEF Resecret, KeptInv, Shape, Jobs
  <2> QED BY <1>0, <1>1, <1>3, <2>1 DEF Resecret, secretVars, SecretsOK
<1>4. ASSUME UNCHANGED secretVars PROVE SecretsOK'
  BY <1>0, <1>4 DEF secretVars, SecretsOK
<1>5. CASE LoseKey
  BY <1>0, <1>5 DEF LoseKey, SecretsOK
<1>6. ASSUME NEW o \in Op, Step(o) PROVE SecretsOK'
  <2>1. Secret(o) \/ Resecret(o) \/ UNCHANGED secretVars
    BY <1>6 DEF Step, Begin, Backup, Open, Write, Check, Reload, Restore, Again, Revert, Adopt, Refresh, Publish
  <2> QED BY <1>2, <1>3, <1>4, <2>1
<1> QED
  BY <1>4, <1>5, <1>6 DEF Next, Bootstrap, Bootstrapped, Exit, Start, Crash, vars

LEMMA FilesStep == TypeOK /\ Next => FilesOK'
<1> SUFFICES ASSUME TypeOK, Next PROVE FilesOK'
  OBVIOUS
<1>0. FilesOK /\ OpsOK
  BY TypeGroups
<1>1. ASSUME NEW o \in Op, NEW f \in Files, NEW v \in Content, Put(o, f, v),
             loose' \subseteq Files
      PROVE  FilesOK'
  BY <1>0, <1>1 DEF Put, Wrote, FilesOK
<1>2. ASSUME NEW o \in Op, pc[o] # "idle", Undo(o) \/ Leave(o) PROVE FilesOK'
  <2>1. op[o].file \in Files /\ op[o].saved \in Content
    BY <1>0, <1>2, Asked DEF Jobs
  <2> QED BY <1>0, <1>1, <1>2, <2>1 DEF Undo, Leave, FilesOK
<1>3. ASSUME NEW o \in Op, Write(o) PROVE FilesOK'
  <2>1. op[o].file \in Files /\ op[o].want \in Content
    BY <1>0, <1>3, Asked DEF Jobs, Write
  <2> QED BY <1>0, <1>1, <1>3, <2>1 DEF Write, FilesOK, fileVars
<1>4. ASSUME NEW o \in Op, Adopt(o) PROVE FilesOK'
  BY <1>0, <1>1, <1>4, Distinct DEF Adopt, FilesOK, fileVars
<1>5. ASSUME NEW o \in Op, UNCHANGED disk, LoadOk(o) \/ LoadFails(o) PROVE FilesOK'
  BY <1>0, <1>5 DEF LoadOk, LoadFails, FilesOK
<1>6. ASSUME NEW o \in Op, NEW c, NEW p, UNCHANGED <<disk, loose>>, SetSecret(o, c, p) PROVE FilesOK'
  BY <1>0, <1>6 DEF SetSecret, Seal, Unseal, Wrote, FilesOK
<1>7. ASSUME UNCHANGED fileVars PROVE FilesOK'
  BY <1>0, <1>7 DEF fileVars, FilesOK
<1>8. ASSUME NEW o \in Op, Step(o) PROVE FilesOK'
  <2>1. CASE Write(o) \/ Adopt(o)
    BY <1>3, <1>4, <2>1
  <2>2. CASE Open(o) \/ Reload(o) \/ Again(o) \/ Refresh(o)
    BY <1>5, <2>2 DEF Open, Reload, Again, Refresh
  <2>3. CASE Check(o) \/ Restore(o) \/ Revert(o)
    BY <1>2, <1>7, <2>3 DEF Check, Restore, Revert
  <2>4. CASE Secret(o)
    BY <1>6, <1>7, <2>4 DEF Secret, fileVars
  <2>5. CASE Resecret(o)
    BY <1>2, <1>6, <2>5 DEF Resecret
  <2>6. CASE Begin(o) \/ Backup(o) \/ Publish(o)
    BY <1>7, <2>6 DEF Begin, Backup, Publish
  <2> QED BY <1>8, <2>1, <2>2, <2>3, <2>4, <2>5, <2>6 DEF Step
<1>9. ASSUME NEW p \in Proc, Bootstrap(p) \/ Bootstrapped(p) PROVE FilesOK'
  BY <1>0, <1>9, Distinct DEF Bootstrap, Bootstrapped, Wrote, FilesOK
<1>10. ASSUME NEW p \in Proc, Start(p) PROVE FilesOK'
  BY <1>0, <1>10 DEF Start, FilesOK
<1>11. ASSUME NEW p \in Proc, Crash(p) PROVE FilesOK'
  <2>1. \A o \in Op : pc[o] # "idle" => op[o].file \in Files
    BY <1>0, Asked DEF Jobs
  <2>2. \A o \in Op : Unfinished(o) => pc[o] # "idle"
    BY DEF Unfinished, Provisional
  <2> QED BY <1>0, <1>11, <2>1, <2>2, Distinct DEF Crash, FilesOK
<1> QED
  BY <1>7, <1>8, <1>9, <1>10, <1>11 DEF Next, Exit, LoseKey, vars

LEMMA ProcsStep == TypeOK /\ KeptInv /\ Next => ProcsOK'
<1> SUFFICES ASSUME TypeOK, KeptInv, Next PROVE ProcsOK'
  OBVIOUS
<1>0. FilesOK /\ SecretsOK /\ ProcsOK /\ OpsOK /\ Served(disk) \in Runtimes
  BY TypeGroups, ServedTyped
<1>1. ASSUME NEW p \in Proc, NEW r \in Runtimes, UNCHANGED <<stage, failed>>, Serve(p, r)
      PROVE  ProcsOK'
  BY <1>0, <1>1 DEF Serve, ProcsOK
<1>2. ASSUME NEW o \in Op, UNCHANGED stage, LoadOk(o) \/ LoadFails(o) PROVE ProcsOK'
  <2>1. Home[o] \in Proc
    BY ConfigAssumption
  <2>2. failed' \in [Proc -> BOOLEAN]
    BY <1>0, <1>2, <2>1, Zenon DEF LoadOk, LoadFails, Flag, ProcsOK
  <2>3. runtime' \in [Proc -> Runtimes \cup {Absent}]
    BY <1>0, <1>2, <2>1 DEF LoadOk, LoadFails, Serve, ProcsOK
  <2> QED BY <1>0, <1>2, <2>2, <2>3 DEF ProcsOK
<1>3. ASSUME NEW o \in Op, Publish(o) PROVE ProcsOK'
  <2>1. Home[o] \in Proc /\ op[o].rt \in Runtimes /\ UNCHANGED <<stage, failed>>
    BY <1>3, ConfigAssumption DEF Publish, KeptInv
  <2> DEFINE r == [op[o].rt EXCEPT !.files = [f \in Files |->
                           IF f \in Entry THEN disk[f] ELSE op[o].rt.files[f]]]
  <2>2. r \in Runtimes
    BY <1>0, <2>1 DEF Runtimes, FilesOK
  <2>3. Serve(Home[o], r) \/ Serve(Home[o], op[o].rt) \/ UNCHANGED runtime
    BY <1>3 DEF Publish
  <2> HIDE DEF r
  <2> QED BY <1>0, <1>1, <2>1, <2>2, <2>3 DEF ProcsOK
<1>4. ASSUME UNCHANGED procVars PROVE ProcsOK'
  BY <1>0, <1>4 DEF procVars, ProcsOK
<1>5. ASSUME NEW o \in Op, Step(o) PROVE ProcsOK'
  <2>1. CASE Open(o) \/ Reload(o) \/ Again(o) \/ Refresh(o)
    BY <1>2, <2>1 DEF Open, Reload, Again, Refresh
  <2>2. Publish(o) \/ UNCHANGED procVars \/ Open(o) \/ Reload(o) \/ Again(o) \/ Refresh(o)
    BY <1>5 DEF Step, Begin, Backup, Write, Check, Secret, Restore, Resecret, Revert, Adopt
  <2> QED BY <1>3, <1>4, <2>1, <2>2
<1>6. ASSUME NEW p \in Proc, Bootstrap(p) \/ Bootstrapped(p) PROVE ProcsOK'
  BY <1>0, <1>6 DEF Bootstrap, Bootstrapped, ProcsOK
<1>7. ASSUME NEW p \in Proc, Start(p) PROVE ProcsOK'
  <2>1. failed' \in [Proc -> BOOLEAN]
    BY <1>0, <1>7, Zenon DEF Start, Flag, ProcsOK
  <2>2. runtime' \in [Proc -> Runtimes \cup {Absent}] /\ stage' \in [Proc -> {"down", "boot", "up"}]
    BY <1>0, <1>7 DEF Start, Serve, ProcsOK
  <2> QED BY <2>1, <2>2 DEF ProcsOK
<1>8. ASSUME NEW p \in Proc, Crash(p) PROVE ProcsOK'
  BY <1>0, <1>8 DEF Crash, ProcsOK
<1> QED
  BY <1>4, <1>5, <1>6, <1>7, <1>8 DEF Next, Exit, LoseKey, vars, secretVars

LEMMA EventsStep == events \in 0 .. MaxEvents /\ Next => events' \in 0 .. MaxEvents
<1>1. ASSUME events \in 0 .. MaxEvents, Fault PROVE events' \in 0 .. MaxEvents
  BY <1>1, ConfigAssumption DEF Fault
<1>2. Next => Fault \/ UNCHANGED events
  <2>1. ASSUME NEW o \in Op, Step(o) PROVE Fault \/ UNCHANGED events
    <3>1. CASE Open(o) \/ Reload(o) \/ Again(o) \/ Refresh(o)
      BY <3>1, Zenon DEF Open, Reload, Again, Refresh, LoadOk, LoadFails, NoFault
    <3>2. CASE Write(o) \/ Check(o) \/ Secret(o) \/ Restore(o) \/ Resecret(o) \/ Revert(o) \/ Adopt(o)
      BY <3>2, Zenon DEF Write, Check, Secret, Restore, Resecret, Revert, Adopt, NoFault
    <3>3. CASE Begin(o) \/ Backup(o) \/ Publish(o)
      BY <3>3 DEF Begin, Backup, Publish
    <3> QED BY <2>1, <3>1, <3>2, <3>3 DEF Step
  <2> QED
    BY <2>1 DEF Next, Bootstrap, Bootstrapped, Exit, Start, Crash, LoseKey, vars, NoFault
<1> QED BY <1>1, <1>2

-----------------------------------------------------------------------------
(* The locks. *)

LEMMA StepsOf ==
  /\ Steps("preview") = {"open"}
  /\ Steps("cycle") = {"open", "adopt", "refresh", "work"}
  /\ \A k \in Declare : Steps(k) = {"open", "write", "reload", "restore", "again"}
  /\ \A k \in Config : Steps(k) = {"backup", "write", "check", "secret", "reload",
                                   "restore", "resecret", "again", "revert"}
BY DEF Steps, Config, Declare

(* Beside an operation that holds the writer lock there are previews only, *)
(* and nobody creates the configuration.                                   *)
LEMMA Alone ==
  ASSUME OpsOK, ProcsOK, LockInv, BootInv, NEW o \in Op, pc[o] # "idle", op[o].kind # "preview"
  PROVE  /\ \A x \in Op \ {o} : pc[x] # "idle" => op[x].kind = "preview" /\ pc[x] = "open"
         /\ \A p \in Proc : stage[p] # "boot"
<1>1. ASSUME NEW x \in Op \ {o}, pc[x] # "idle"
      PROVE  op[x].kind = "preview" /\ pc[x] = "open"
  BY <1>1, StepsOf DEF LockInv
<1>2. ASSUME NEW p \in Proc PROVE stage[p] # "boot"
  <2>1. Home[o] \in Proc /\ stage[Home[o]] = "up"
    BY ConfigAssumption DEF LockInv
  <2> QED BY <2>1 DEF BootInv
<1> QED BY <1>1, <1>2

(* An operation goes on to a step of its kind, or is over. *)
LEMMA LockMove ==
  ASSUME OpsOK, LockInv, NEW o \in Op, NEW l, pc[o] # "idle", UNCHANGED stage,
         l = "idle" \/ l \in Steps(op[o].kind), Goto(o, l) \/ Hold(o, l)
  PROVE  LockInv'
<1>1. /\ pc' = [pc EXCEPT ![o] = l]
      /\ \A x \in Op \ {o} : op'[x] = op[x] /\ pc'[x] = pc[x]
  BY DEF OpsOK, Goto, Hold
<1>2. pc'[o] # "idle" => op'[o].kind = op[o].kind /\ pc'[o] \in Steps(op[o].kind)
  <2>1. CASE Goto(o, l)
    BY <1>1, <2>1 DEF OpsOK, Goto
  <2>2. CASE Hold(o, l)
    BY <1>1, <2>2 DEF OpsOK, Hold, Jobs
  <2> QED BY <2>1, <2>2
<1>3. \A x \in Op : pc'[x] # "idle" => pc[x] # "idle" /\ op'[x].kind = op[x].kind
                                       /\ pc'[x] \in Steps(op'[x].kind)
  BY <1>1, <1>2 DEF LockInv
<1> QED BY <1>3 DEF LockInv

LEMMA KindSteps ==
  ASSUME OpsOK, LockInv, NEW o \in Op, pc[o] # "idle"
  PROVE  /\ op[o].kind \in Config \cup Declare \cup {"cycle", "preview"}
         /\ op[o].kind = "preview" => pc[o] = "open"
         /\ op[o].kind = "cycle" => pc[o] \in {"open", "adopt", "refresh", "work"}
         /\ op[o].kind \in Declare => pc[o] \in {"open", "write", "reload", "restore", "again"}
         /\ op[o].kind \in Config => pc[o] \in {"backup", "write", "check", "secret", "reload",
                                                "restore", "resecret", "again", "revert"}
<1>1. op[o].kind \in Config \cup Declare \cup {"cycle", "preview"}
  BY Asked DEF Jobs
<1>2. pc[o] \in Steps(op[o].kind)
  BY DEF LockInv
<1> QED BY <1>1, <1>2, StepsOf

LEMMA LockStep == TypeOK /\ LockInv /\ Next => LockInv'
<1> SUFFICES ASSUME TypeOK, LockInv, Next PROVE LockInv'
  OBVIOUS
<1>0. OpsOK /\ ProcsOK
  BY TypeGroups
<1>1. ASSUME NEW o \in Op, Begin(o) PROVE LockInv'
  <2>1. PICK j \in JobsOf(Home[o]) :
          /\ j.kind = "preview" \/ LockFree
          /\ op' = [op EXCEPT ![o] = j]
          /\ pc' = [pc EXCEPT ![o] = IF j.kind \in Config THEN "backup" ELSE "open"]
    BY <1>1 DEF Begin
  <2>2. /\ stage' = stage /\ stage[Home[o]] = "up" /\ pc[o] = "idle"
        /\ \A x \in Op : Home[x] = Home[o] => pc[x] = "idle"
    BY <1>1 DEF Begin, procVars, MutexFree
  <2>3. j.kind \in Config \cup Declare \cup {"cycle", "preview"}
    BY RequestShape, ConfigAssumption DEF Jobs
  <2>4. pc'[o] \in Steps(j.kind)
    BY <1>0, <2>1, <2>3 DEF OpsOK, Steps, Config, Declare
  <2>5. op'[o] = j /\ \A x \in Op \ {o} : op'[x] = op[x] /\ pc'[x] = pc[x]
    BY <1>0, <2>1 DEF OpsOK
  <2>6. \A x \in Op \ {o} : pc[x] # "idle" =>
          Home[x] # Home[o] /\ (j.kind = "preview" \/ op[x].kind = "preview")
    BY <2>1, <2>2 DEF LockFree
  <2> QED BY <2>2, <2>4, <2>5, <2>6 DEF LockInv
<1>2. ASSUME NEW o \in Op, Backup(o) PROVE LockInv'
  <2>1. pc[o] = "backup" /\ stage' = stage /\ op[o].kind \in Config
    BY <1>0, <1>2, KindSteps DEF Backup, procVars
  <2>2. CASE Goto(o, "idle")
    BY <1>0, <2>1, <2>2, LockMove
  <2>3. CASE /\ pc' = [pc EXCEPT ![o] = "write"]
             /\ op' = [op EXCEPT ![o].saved = disk[op[o].file],
                                 ![o].oldPass = IF op[o].kind \in WithSecret THEN PassOf(op[o].file) ELSE Absent]
    <3>1. op'[o].kind = op[o].kind
      BY <1>0, <2>3 DEF OpsOK, Jobs
    <3>2. "write" \in Steps(op[o].kind)
      BY <2>1, StepsOf
    <3>3. \A x \in Op \ {o} : op'[x] = op[x] /\ pc'[x] = pc[x]
      BY <1>0, <2>3 DEF OpsOK
    <3>4. \A x \in Op : pc'[x] # "idle" => pc[x] # "idle" /\ op'[x].kind = op[x].kind
                                           /\ pc'[x] \in Steps(op'[x].kind)
      BY <1>0, <2>1, <2>3, <3>1, <3>2, <3>3 DEF LockInv, OpsOK
    <3> QED BY <2>1, <3>4 DEF LockInv
  <2> QED BY <1>2, <2>2, <2>3 DEF Backup
<1>3. ASSUME NEW o \in Op, Open(o) PROVE LockInv'
  <2>1. pc[o] = "open" /\ stage' = stage
    BY <1>3 DEF Open
  <2>2. \/ Goto(o, "idle") \/ (op[o].kind = "cycle" /\ Hold(o, "adopt"))
        \/ (op[o].kind \in Declare /\ Hold(o, "write"))
    BY <1>3 DEF Open, Declare
  <2> QED BY <1>0, <2>1, <2>2, LockMove, StepsOf
<1>4. ASSUME NEW o \in Op, Write(o) PROVE LockInv'
  <2>1. pc[o] = "write" /\ stage' = stage /\ op[o].kind \in Config \cup Declare
    BY <1>0, <1>4, KindSteps DEF Write, procVars
  <2>2. Goto(o, "idle") \/ (op[o].kind \in Config /\ Goto(o, "check"))
        \/ (op[o].kind \notin Config /\ Goto(o, "reload"))
    BY <1>4 DEF Write
  <2> QED BY <1>0, <2>1, <2>2, LockMove, StepsOf
<1>5. ASSUME NEW o \in Op, NEW l \in {"idle", "secret", "reload", "revert", "restore", "resecret", "again"},
             pc[o] \in {"check", "secret", "revert", "resecret"}, stage' = stage, Goto(o, l)
      PROVE  LockInv'
  <2>1. op[o].kind \in Config
    BY <1>0, <1>5, KindSteps DEF Config, Declare
  <2> QED BY <1>0, <1>5, <2>1, LockMove, StepsOf
<1>6. ASSUME NEW o \in Op, Check(o) \/ Secret(o) \/ Revert(o) \/ Resecret(o) PROVE LockInv'
  <2>1. CASE Check(o)
    BY <1>5, <2>1 DEF Check, Accepted, procVars
  <2>2. CASE Secret(o)
    BY <1>5, <2>2 DEF Secret, procVars
  <2>3. CASE Revert(o)
    BY <1>5, <2>3 DEF Revert, procVars
  <2>4. CASE Resecret(o)
    BY <1>5, <2>4 DEF Resecret, procVars
  <2> QED BY <1>6, <2>1, <2>2, <2>3, <2>4
<1>7. ASSUME NEW o \in Op, Reload(o) \/ Restore(o) \/ Again(o) PROVE LockInv'
  <2>1. pc[o] \in {"reload", "restore", "again"} /\ stage' = stage
    BY <1>7 DEF Reload, Restore, Again, procVars
  <2>2. op[o].kind \in Config \cup Declare
    BY <1>0, <2>1, KindSteps
  <2>3. Goto(o, "idle") \/ Goto(o, "restore") \/ Goto(o, "again")
        \/ (op[o].kind \in WithSecret /\ Goto(o, "resecret"))
    BY <1>7 DEF Reload, Restore, Again
  <2>4. op[o].kind \in WithSecret => op[o].kind \in Config
    BY DEF WithSecret, Config
  <2> QED BY <1>0, <2>1, <2>2, <2>3, <2>4, LockMove, StepsOf
<1>8. ASSUME NEW o \in Op, Adopt(o) \/ Refresh(o) \/ Publish(o) PROVE LockInv'
  <2>1. pc[o] \in {"adopt", "refresh", "work"} /\ stage' = stage
    BY <1>8 DEF Adopt, Refresh, Publish, procVars
  <2>2. op[o].kind = "cycle"
    BY <1>0, <2>1, KindSteps
  <2>3. \E l \in {"idle", "work", "refresh"} : Goto(o, l) \/ Hold(o, l)
    BY <1>8 DEF Adopt, Refresh, Publish
  <2> QED BY <1>0, <2>1, <2>2, <2>3, LockMove, StepsOf
<1>9. ASSUME UNCHANGED opVars,
             \A o \in Op : stage[Home[o]] = "up" => stage'[Home[o]] = "up"
      PROVE  LockInv'
  BY <1>9 DEF opVars, LockInv
<1>10. ASSUME NEW p \in Proc, Bootstrap(p) \/ Bootstrapped(p) \/ Start(p) PROVE LockInv'
  <2>1. UNCHANGED opVars /\ \E v \in {"up", "boot", "down"} : stage' = [stage EXCEPT ![p] = v]
    BY <1>10 DEF Bootstrap, Bootstrapped, Start
  <2>2. stage[p] # "up"
    BY <1>10 DEF Bootstrap, Bootstrapped, Start
  <2>3. \A o \in Op : stage[Home[o]] = "up" => stage'[Home[o]] = "up"
    BY <1>0, <2>1, <2>2, ConfigAssumption DEF ProcsOK
  <2> QED BY <1>9, <2>1, <2>3
<1>11. ASSUME NEW p \in Proc, Crash(p) PROVE LockInv'
  <2>1. \A o \in Op : pc'[o] # "idle" => pc[o] # "idle" /\ Home[o] # p /\ pc'[o] = pc[o] /\ op'[o] = op[o]
    BY <1>11 DEF Crash
  <2>2. \A o \in Op : Home[o] # p => stage'[Home[o]] = stage[Home[o]]
    BY <1>0, <1>11, ConfigAssumption DEF Crash, ProcsOK
  <2> QED BY <2>1, <2>2 DEF LockInv
<1> QED
  BY <1>1, <1>2, <1>3, <1>4, <1>6, <1>7, <1>8, <1>9, <1>10, <1>11
     DEF Next, Step, Exit, LoseKey, vars, procVars

-----------------------------------------------------------------------------
(* The files and what is remembered of them. *)

Kept(o) ==
  /\ pc[o] = "write" => op[o].saved = disk[op[o].file]
  /\ pc[o] # "idle" /\ op[o].file = Organizer /\ op[o].kind = "put" /\ pc[o] # "backup" =>
       op[o].saved # Absent
  /\ pc[o] \in {"adopt", "work"} => op[o].rt \in Runtimes /\ op[o].rt.files = disk /\ Loads(disk)
  /\ pc[o] \in {"secret", "resecret"} => op[o].kind \in WithSecret
  /\ pc[o] = "secret" => op[o].pass # Keep

LEMMA KeptAll == KeptInv <=> \A o \in Op : Kept(o)
BY DEF KeptInv, Kept

(* Only an operation that holds the writer lock changes files, one at a    *)
(* time, and it never removes organizer.json.                              *)
LEMMA DiskChange ==
  ASSUME TypeOK, LockInv, KeptInv, NEW o \in Op, Step(o)
  PROVE  \/ disk' = disk
         \/ /\ pc[o] # "idle" /\ op[o].kind # "preview"
            /\ \E f \in Files, v \in Content :
                 disk' = [disk EXCEPT ![f] = v] /\ (f = Organizer => v # Absent)
<1>0. OpsOK
  BY TypeGroups
<1>1. ASSUME pc[o] \notin {"idle", "open", "backup", "adopt", "refresh", "work"}
      PROVE  /\ op[o].kind \in Config \cup Declare
             /\ op[o] \in Jobs /\ Shape(op[o])
  BY <1>0, <1>1, KindSteps, Asked
<1>2. CASE Write(o) /\ disk' # disk
  <2>1. pc[o] = "write" /\ disk' = [disk EXCEPT ![op[o].file] = op[o].want]
    BY <1>2 DEF Write, Put, fileVars
  <2>2. op[o].file = Organizer => op[o].want # Absent
    BY <1>1, <2>1, Distinct DEF Shape, Config, Declare, WithSecret
  <2>3. op[o].file \in Files /\ op[o].want \in Content /\ op[o].kind # "preview"
    BY <1>1, <2>1 DEF Jobs, Config, Declare
  <2> QED BY <2>1, <2>2, <2>3
<1>3. CASE (Check(o) \/ Restore(o) \/ Revert(o)) /\ disk' # disk
  <2>1. pc[o] \in {"check", "restore", "revert"} /\ disk' = [disk EXCEPT ![op[o].file] = op[o].saved]
    BY <1>3 DEF Check, Restore, Revert, Undo, Leave, Put, fileVars
  <2>2. op[o].file = Organizer => op[o].kind = "put"
    BY <1>1, <2>1, Distinct DEF Shape, Config, Declare, WithSecret
  <2>3. op[o].file = Organizer => op[o].saved # Absent
    BY <2>1, <2>2 DEF KeptInv
  <2>4. op[o].file \in Files /\ op[o].saved \in Content /\ op[o].kind # "preview"
    BY <1>1, <2>1 DEF Jobs, Config, Declare
  <2> QED BY <2>1, <2>3, <2>4
<1>4. CASE Adopt(o) /\ disk' # disk
  <2>1. PICK e \in Entry : pc[o] = "adopt" /\ disk' = [disk EXCEPT ![e] = {}]
    BY <1>4 DEF Adopt, Put, fileVars
  <2>2. op[o].kind = "cycle"
    BY <1>0, <2>1, KindSteps
  <2> QED BY <2>1, <2>2, Distinct
<1> QED
  BY <1>2, <1>3, <1>4 DEF Step, Begin, Backup, Open, Secret, Reload, Resecret, Again, Refresh,
     Publish, fileVars, Leave

LEMMA StageKept ==
  ASSUME NEW o \in Op, Step(o) PROVE stage' = stage
BY DEF Step, Begin, Backup, Open, Write, Check, Secret, Reload, Restore, Resecret, Again, Revert,
   Adopt, Refresh, Publish, procVars

LEMMA BootStep == TypeOK /\ LockInv /\ BootInv /\ KeptInv /\ Next => BootInv'
<1> SUFFICES ASSUME TypeOK, LockInv, BootInv, KeptInv, Next PROVE BootInv'
  OBVIOUS
<1>0. OpsOK /\ ProcsOK /\ FilesOK
  BY TypeGroups
<1>1. ASSUME UNCHANGED <<disk, stage>> PROVE BootInv'
  BY <1>1 DEF BootInv
<1>2. ASSUME NEW o \in Op, Step(o) PROVE BootInv'
  <2>1. CASE disk' = disk
    BY <1>1, <1>2, <2>1, StageKept
  <2>2. CASE disk' # disk
    <3>1. /\ pc[o] # "idle" /\ op[o].kind # "preview"
          /\ \E f \in Files, v \in Content :
               disk' = [disk EXCEPT ![f] = v] /\ (f = Organizer => v # Absent)
      BY <1>2, <2>2, DiskChange
    <3>2. \A p \in Proc : stage[p] # "boot"
      BY <1>0, <3>1, Alone
    <3>3. Home[o] \in Proc /\ stage[Home[o]] = "up"
      BY <3>1, ConfigAssumption DEF LockInv
    <3>4. disk[Organizer] # Absent
      BY <3>3 DEF BootInv
    <3>5. disk'[Organizer] # Absent
      BY <1>0, <3>1, <3>4 DEF FilesOK
    <3> QED BY <1>2, <3>2, <3>5, StageKept DEF BootInv
  <2> QED BY <2>1, <2>2
<1>3. ASSUME NEW p \in Proc, Bootstrap(p) PROVE BootInv'
  <2>1. /\ disk' = [disk EXCEPT ![Organizer] = Bad] /\ stage' = [stage EXCEPT ![p] = "boot"]
        /\ FreshRoot(disk) /\ \A q \in Proc : stage[q] = "down"
    BY <1>3 DEF Bootstrap, BootInv
  <2>2. [disk' EXCEPT ![Organizer] = Ok] = [disk EXCEPT ![Organizer] = Ok]
    BY <1>0, <2>1 DEF FilesOK
  <2> QED BY <1>0, <2>1, <2>2, Distinct DEF BootInv, FreshRoot, FilesOK, ProcsOK
<1>4. ASSUME NEW p \in Proc, Bootstrapped(p) PROVE BootInv'
  <2>1. /\ stage' = [stage EXCEPT ![p] = "down"] /\ stage[p] = "boot"
        /\ \E v \in {Ok, Absent} : disk' = [disk EXCEPT ![Organizer] = v]
    BY <1>4 DEF Bootstrapped
  <2>2. Loads([disk EXCEPT ![Organizer] = Ok]) /\ \A q \in Proc \ {p} : stage[q] = "down"
    BY <2>1 DEF BootInv
  <2>3. [disk' EXCEPT ![Organizer] = Ok] = [disk EXCEPT ![Organizer] = Ok]
    BY <1>0, <2>1 DEF FilesOK
  <2>4. \A q \in Proc : stage'[q] = "down"
    BY <1>0, <2>1, <2>2 DEF ProcsOK
  <2> QED BY <2>2, <2>3, <2>4 DEF BootInv, FreshRoot
<1>5. ASSUME NEW p \in Proc, Start(p) PROVE BootInv'
  <2>1. disk' = disk /\ Loads(disk) /\ stage' = [stage EXCEPT ![p] = "up"]
    BY <1>5 DEF Start
  <2>2. disk[Organizer] # Absent /\ disk[Organizer] # Bad
    BY <2>1, Distinct DEF Loads
  <2> QED BY <1>0, <2>1, <2>2 DEF BootInv, ProcsOK
<1>6. ASSUME NEW p \in Proc, Crash(p) PROVE BootInv'
  <2>1. disk' = disk /\ stage' = [stage EXCEPT ![p] = "down"]
    BY <1>6 DEF Crash
  <2> QED BY <1>0, <2>1 DEF BootInv, ProcsOK
<1> QED
  BY <1>1, <1>2, <1>3, <1>4, <1>5, <1>6 DEF Next, Exit, LoseKey, vars, fileVars, procVars

(* What an operation remembers is not disturbed by another's step. *)
LEMMA KeptByOthers ==
  ASSUME TypeOK, LockInv, BootInv, KeptInv, NEW o \in Op, Step(o), NEW x \in Op \ {o}
  PROVE  Kept(x)'
<1>0. OpsOK /\ ProcsOK
  BY TypeGroups
<1>1. pc'[x] = pc[x] /\ op'[x] = op[x]
  BY <1>0 DEF Step, Begin, Backup, Open, Write, Check, Secret, Reload, Restore, Resecret, Again,
     Revert, Adopt, Refresh, Publish, Goto, Hold, OpsOK
<1>2. CASE disk' = disk
  BY <1>1, <1>2 DEF KeptInv, Kept
<1>3. CASE disk' # disk
  <2>1. pc[o] # "idle" /\ op[o].kind # "preview"
    BY <1>3, DiskChange
  <2>2. pc[x] # "idle" => op[x].kind = "preview" /\ pc[x] = "open"
    BY <1>0, <2>1, Alone
  <2> QED BY <1>1, <2>2 DEF Kept
<1> QED BY <1>2, <1>3

(* An operation that goes on remembers as much as before. *)
LEMMA KeptGoto ==
  ASSUME OpsOK, NEW o \in Op, Kept(o), NEW l, Goto(o, l),
         pc[o] \notin {"idle", "backup"}, l \notin {"write", "adopt", "work"},
         l \in {"secret", "resecret"} => op[o].kind \in WithSecret,
         l = "secret" => op[o].pass # Keep
  PROVE  Kept(o)'
<1>1. pc'[o] = l /\ (l # "idle" => op'[o] = op[o])
  BY DEF Goto, OpsOK
<1> QED BY <1>1 DEF Kept

LEMMA KeptHold ==
  ASSUME OpsOK, FilesOK, SecretsOK, NEW o \in Op, NEW l \in {"write", "adopt", "work"}, Hold(o, l),
         pc[o] # "idle", disk' = disk,
         op[o].kind = "cycle" => Loads(disk),
         op[o].kind = "cycle" <=> l # "write", op[o].kind # "put"
  PROVE  Kept(o)'
<1>1. pc'[o] = l
  BY DEF Hold, OpsOK
<1>2. op[o] \in Jobs /\ Served(disk) \in Runtimes
  BY Asked, ServedTyped
<1>3. /\ op'[o].saved = disk[op[o].file] /\ op'[o].file = op[o].file /\ op'[o].kind = op[o].kind
      /\ op[o].kind = "cycle" => op'[o].rt = Served(disk)
  BY <1>2 DEF Hold, OpsOK, Jobs
<1>4. Served(disk).files = disk
  BY DEF Served
<1> QED BY <1>1, <1>2, <1>3, <1>4 DEF Kept

LEMMA KeptStep == TypeOK /\ LockInv /\ BootInv /\ KeptInv /\ Next => KeptInv'
<1> SUFFICES ASSUME TypeOK, LockInv, BootInv, KeptInv, Next PROVE \A x \in Op : Kept(x)'
  BY DEF KeptInv, Kept
<1>0. OpsOK /\ ProcsOK /\ FilesOK /\ SecretsOK /\ \A x \in Op : Kept(x)
  BY TypeGroups, KeptAll
<1>1. ASSUME NEW o \in Op, Begin(o) PROVE Kept(o)'
  <2>1. pc'[o] \in {"backup", "open"} /\ \E j \in JobsOf(Home[o]) :
          op'[o] = j /\ (pc'[o] = "open" => j.kind \notin Config)
    BY <1>0, <1>1 DEF Begin, OpsOK
  <2> QED BY <2>1 DEF Kept, Config
<1>2. ASSUME NEW o \in Op, Backup(o) PROVE Kept(o)'
  <2>1. CASE Goto(o, "idle")
    BY <1>0, <2>1 DEF Goto, OpsOK, Kept
  <2>2. CASE /\ disk[op[o].file] # Absent \/ op[o].file # Organizer
             /\ pc' = [pc EXCEPT ![o] = "write"]
             /\ op' = [op EXCEPT ![o].saved = disk[op[o].file],
                                 ![o].oldPass = IF op[o].kind \in WithSecret THEN PassOf(op[o].file) ELSE Absent]
    <3>1. /\ pc'[o] = "write" /\ disk' = disk
          /\ op'[o].saved = disk[op[o].file] /\ op'[o].file = op[o].file
      BY <1>0, <1>2, <2>2 DEF OpsOK, Jobs, Backup, fileVars
    <3> QED BY <2>2, <3>1 DEF Kept
  <2> QED BY <1>2, <2>1, <2>2 DEF Backup
<1>3. ASSUME NEW o \in Op, Open(o) PROVE Kept(o)'
  <2>1. pc[o] = "open" /\ disk' = disk
    BY <1>3 DEF Open
  <2>2. \/ Goto(o, "idle")
        \/ (op[o].kind = "cycle" /\ Hold(o, "adopt") /\ Loads(disk))
        \/ (op[o].kind \in Declare /\ Hold(o, "write"))
    BY <1>3 DEF Open, Declare, LoadOk
  <2>3. op[o].kind \in Declare => op[o].kind # "cycle" /\ op[o].kind # "put"
    BY DEF Declare
  <2> QED BY <1>0, <2>1, <2>2, <2>3, KeptGoto, KeptHold
<1>4. ASSUME NEW o \in Op, Write(o) \/ Restore(o) \/ Resecret(o) \/ Again(o) \/ Revert(o)
                             \/ Reload(o) \/ Publish(o)
      PROVE  Kept(o)'
  <2>1. pc[o] \notin {"idle", "backup"}
    BY <1>4 DEF Write, Restore, Resecret, Again, Revert, Reload, Publish
  <2>2. \E l \in {"idle", "check", "reload", "restore", "again", "resecret"} :
          Goto(o, l) /\ (l = "resecret" => op[o].kind \in WithSecret)
    BY <1>4 DEF Write, Restore, Resecret, Again, Revert, Reload, Publish
  <2> QED BY <1>0, <2>1, <2>2, KeptGoto
<1>5. ASSUME NEW o \in Op, Check(o) PROVE Kept(o)'
  <2>1. pc[o] = "check" /\ (Goto(o, "idle") \/ Goto(o, Accepted(o)))
    BY <1>5 DEF Check
  <2>2. op[o] \in Jobs
    BY <1>0 DEF OpsOK
  <2>3. Accepted(o) \in {"secret", "reload"}
    BY DEF Accepted
  <2>4. Accepted(o) = "secret" => op[o].kind \in WithSecret /\ op[o].pass # Keep
    <3>1. op[o].kind = "drop" => op[o].pass # Keep
      <4>1. ASSUME NEW j \in JobsOf(Home[o]), j.kind = "drop" PROVE j.pass = Absent
        BY <4>1 DEF JobsOf, Requests, Job, Declare
      <4> QED BY <1>0, <2>1, <4>1, ConfigAssumption DEF OpsOK, Requested
    <3> QED BY <3>1 DEF Accepted, WithSecret
  <2> QED BY <1>0, <2>1, <2>3, <2>4, KeptGoto
<1>6. ASSUME NEW o \in Op, Secret(o) PROVE Kept(o)'
  <2>1. pc[o] = "secret"
        /\ (Goto(o, "reload") \/ Goto(o, "revert") \/ Goto(o, "restore"))
    BY <1>6 DEF Secret
  <2> QED BY <1>0, <2>1, KeptGoto
<1>7. ASSUME NEW o \in Op, Adopt(o) PROVE Kept(o)'
  <2>1. pc[o] = "adopt"
    BY <1>7 DEF Adopt
  <2>2. CASE Goto(o, "work") /\ disk' = disk
    BY <1>0, <2>1, <2>2 DEF Goto, OpsOK, Kept
  <2>3. CASE Goto(o, "refresh") \/ Goto(o, "idle")
    BY <1>0, <2>1, <2>3, KeptGoto
  <2> QED BY <1>7, <2>2, <2>3 DEF Adopt, fileVars
<1>8. ASSUME NEW o \in Op, Refresh(o) PROVE Kept(o)'
  <2>1. pc[o] = "refresh" /\ disk' = disk
    BY <1>8 DEF Refresh
  <2>2. op[o].kind = "cycle"
    BY <1>0, <2>1, KindSteps
  <2>3. (Hold(o, "work") /\ Loads(disk)) \/ Goto(o, "idle")
    BY <1>8 DEF Refresh, LoadOk
  <2> QED BY <1>0, <2>1, <2>2, <2>3, KeptGoto, KeptHold
<1>9. ASSUME NEW o \in Op, Step(o), NEW x \in Op PROVE Kept(x)'
  <2>1. CASE x = o
    BY <1>1, <1>2, <1>3, <1>4, <1>5, <1>6, <1>7, <1>8, <1>9, <2>1 DEF Step
  <2> QED BY <1>9, <2>1, KeptByOthers
<1>10. ASSUME NEW x \in Op, UNCHANGED <<disk, pc, op>> PROVE Kept(x)'
  BY <1>0, <1>10 DEF Kept
<1>11. ASSUME NEW p \in Proc, Bootstrap(p) \/ Bootstrapped(p), NEW x \in Op PROVE Kept(x)'
  <2>1. pc'[x] = pc[x] /\ op'[x] = op[x]
    BY <1>11 DEF Bootstrap, Bootstrapped, opVars
  <2>2. pc[x] = "idle"
    <3>1. stage[Home[x]] # "up" /\ Home[x] \in Proc
      BY <1>11, ConfigAssumption DEF Bootstrap, Bootstrapped, BootInv
    <3> QED BY <3>1 DEF LockInv
  <2> QED BY <2>1, <2>2 DEF Kept
<1>12. ASSUME NEW p \in Proc, Crash(p), NEW x \in Op PROVE Kept(x)'
  <2>1. disk' = disk /\ (pc'[x] = "idle" \/ (pc'[x] = pc[x] /\ op'[x] = op[x]))
    BY <1>12 DEF Crash
  <2> QED BY <1>0, <2>1 DEF Kept
<1> QED
  BY <1>9, <1>10, <1>11, <1>12 DEF Next, Exit, Start, LoseKey, vars, fileVars, opVars

LEMMA ServesStep == TypeOK /\ KeptInv /\ ServesLoadable /\ Next => ServesLoadable'
<1> SUFFICES ASSUME TypeOK, KeptInv, ServesLoadable, Next PROVE ServesLoadable'
  OBVIOUS
<1>0. FilesOK /\ ProcsOK
  BY TypeGroups
<1>1. ASSUME NEW p \in Proc, NEW r, Loads(r.files), Serve(p, r) PROVE ServesLoadable'
  BY <1>0, <1>1 DEF Serve, ServesLoadable, ProcsOK
<1>2. ASSUME runtime' = runtime PROVE ServesLoadable'
  BY <1>2 DEF ServesLoadable
<1>3. Served(disk).files = disk
  BY DEF Served
<1>4. ASSUME NEW o \in Op, Step(o) PROVE ServesLoadable'
  <2>1. Home[o] \in Proc
    BY ConfigAssumption
  <2>2. CASE Open(o) \/ Reload(o) \/ Again(o) \/ Refresh(o)
    BY <1>1, <1>2, <1>3, <2>1, <2>2 DEF Open, Reload, Again, Refresh, LoadOk, LoadFails
  <2>3. CASE Publish(o)
    <3> DEFINE r == [op[o].rt EXCEPT !.files = [f \in Files |->
                             IF f \in Entry THEN disk[f] ELSE op[o].rt.files[f]]]
    <3>1. op[o].rt \in Runtimes /\ op[o].rt.files = disk /\ Loads(disk)
      BY <2>3 DEF Publish, KeptInv
    <3>2. r.files = [f \in Files |-> disk[f]]
      BY <3>1 DEF Runtimes
    <3>3. r.files = disk
      BY <1>0, <3>2 DEF FilesOK
    <3>4. Serve(Home[o], r) \/ Serve(Home[o], op[o].rt) \/ runtime' = runtime
      BY <2>3 DEF Publish
    <3> HIDE DEF r
    <3> QED BY <1>1, <1>2, <2>1, <3>1, <3>3, <3>4
  <2>4. CASE UNCHANGED procVars
    BY <1>2, <2>4 DEF procVars
  <2> QED
    BY <1>4, <2>2, <2>3, <2>4 DEF Step, Begin, Backup, Write, Check, Secret, Restore, Resecret, Revert, Adopt
<1>5. ASSUME NEW p \in Proc, Start(p) PROVE ServesLoadable'
  BY <1>1, <1>3, <1>5 DEF Start
<1>6. ASSUME NEW p \in Proc, Crash(p) PROVE ServesLoadable'
  BY <1>0, <1>6 DEF Crash, ServesLoadable, ProcsOK
<1> QED
  BY <1>2, <1>4, <1>5, <1>6 DEF Next, Bootstrap, Bootstrapped, Exit, LoseKey, vars, procVars

LEMMA StartInv == Init => IInv
<1> SUFFICES ASSUME Init PROVE IInv
  OBVIOUS
<1>1. FilesOK /\ SecretsOK /\ OpsOK /\ ProcsOK /\ events \in 0 .. MaxEvents
  BY NoJobTyped, ConfigAssumption DEF Init, FilesOK, SecretsOK, OpsOK, ProcsOK
<1>2. disk[Organizer] = Absent => FreshRoot(disk)
  BY DEF Init, Loads
<1> QED BY <1>1, <1>2, TypeGroups DEF Init, IInv, LockInv, BootInv, KeptInv, ServesLoadable

LEMMA StepInv == IInv /\ [Next]_vars => IInv'
<1>1. ASSUME IInv, Next PROVE IInv'
  <2>1. FilesOK' /\ SecretsOK' /\ ProcsOK' /\ OpsOK' /\ (events \in 0 .. MaxEvents)'
    BY <1>1, TypeGroups, OpsStep, SecretsStep, FilesStep, ProcsStep, EventsStep DEF IInv
  <2>2. TypeOK'
    BY <2>1, Zenon DEF TypeOK, FilesOK, SecretsOK, ProcsOK, OpsOK
  <2> QED BY <1>1, <2>2, LockStep, BootStep, KeptStep, ServesStep DEF IInv
<1>2. ASSUME IInv, UNCHANGED vars PROVE IInv'
  <2>1. UNCHANGED <<disk, loose, synced, secret, key, stage, runtime, failed, pc, op, events>>
    BY <1>2 DEF vars, fileVars, secretVars, procVars, opVars
  <2>2. TypeOK'
    BY <1>2, <2>1 DEF IInv, TypeOK, Requested
  <2>3. LockInv' /\ BootInv'
    BY <1>2, <2>1 DEF IInv, LockInv, BootInv
  <2>4. KeptInv' /\ ServesLoadable'
    BY <1>2, <2>1 DEF IInv, KeptInv, ServesLoadable
  <2> QED BY <2>2, <2>3, <2>4 DEF IInv
<1> QED BY <1>1, <1>2

(* The inductive invariant, for any number of processes, threads and files: *)
(* the locks keep writers apart, what an operation remembers is so, and no  *)
(* process ever serves a graph that does not load as a whole.              *)
THEOREM StoreInvariant == Spec => []IInv
BY StartInv, StepInv, PTL DEF Spec

(* What a process serves always loads as a whole, also while a rejected     *)
(* change is live on disk.                                                 *)
THEOREM AlwaysServesLoadable == Spec => []ServesLoadable
<1>1. IInv => ServesLoadable
  BY DEF IInv
<1> QED BY <1>1, StoreInvariant, PTL

-----------------------------------------------------------------------------
(* That the runtime a daemon serves agrees with its files and secrets when  *)
(* no operation is under way: how every operation restores it.             *)

(* Served, with the secrets as a parameter. *)
Shown(d, s) ==
  [files |-> d,
   pass |-> [c \in Client |-> IF d[c] = Ok THEN IF s[c] = Absent THEN Absent ELSE s[c].pass
                              ELSE Absent]]

LEMMA ServedShown == Served(disk) = Shown(disk, secret) /\ Served(disk)' = Shown(disk', secret')
BY DEF Served, Shown, PassOf

(* What a daemon serves is sure to be so when it is the last to have        *)
(* written, reports no failed reload, and nothing was left behind.         *)
Sure(p) == p \in Daemon /\ stage[p] = "up" /\ synced[p] /\ ~failed[p] /\ loose = {}

(* From here on an operation ends with a reload that succeeds, or is        *)
(* reported; in the first three it may also go back to what was before.    *)
Trying == {"check", "secret", "revert"}
Settling == Trying \cup {"refresh", "reload", "restore", "resecret", "again"}
Before(o) == [disk EXCEPT ![op[o].file] = op[o].saved]

Copies(o) == pc[o] \in {"adopt", "work"} => op[o].rt = Shown(disk, secret)
Agrees(p) == Sure(p) => runtime[p] = Shown(disk, secret)
Tries(o) == pc[o] \in Trying /\ Sure(Home[o]) => runtime[Home[o]] = Shown(Before(o), secret)

AgreeInv ==
  /\ \A o \in Op : Copies(o) /\ Tries(o)
  /\ \A p \in Proc : (\A o \in Op : Home[o] = p => pc[o] \notin Settling) => Agrees(p)

LEMMA AgreeInit == Init => AgreeInv
BY DEF Init, AgreeInv, Copies, Tries, Agrees, Sure, Trying

LEMMA AgreesNow ==
  ASSUME IInv, AgreeInv, NEW o \in Op, pc[o] \notin Settling, pc[o] # "idle" \/ MutexFree(o)
  PROVE  Agrees(Home[o])
<1>1. \A x \in Op \ {o} : Home[x] = Home[o] => pc[x] = "idle"
  BY DEF IInv, LockInv, MutexFree
<1>2. \A x \in Op : Home[x] = Home[o] => pc[x] \notin Settling
  BY <1>1 DEF Settling, Trying
<1> QED BY <1>2, ConfigAssumption DEF AgreeInv

(* A step of one process leaves the others as sure as they were, or less:   *)
(* whoever writes takes their certainty away.                              *)
LEMMA OthersKeep ==
  ASSUME IInv, NEW o \in Op, Step(o), NEW q \in Proc \ {Home[o]}, Sure(q)'
  PROVE  Sure(q) /\ disk' = disk /\ secret' = secret /\ runtime'[q] = runtime[q]
<1>0. ProcsOK /\ FilesOK /\ Home[o] \in Proc
  BY TypeGroups, ConfigAssumption DEF IInv
<1>1. stage' = stage
  BY StageKept
<1>2. ASSUME NEW r, Serve(Home[o], r) PROVE runtime'[q] = runtime[q]
  BY <1>0, <1>2 DEF Serve, ProcsOK
<1>3. ASSUME NEW b, Flag(Home[o], b) PROVE failed'[q] = failed[q]
  BY <1>0, <1>3 DEF Flag, ProcsOK
<1>5. ~Wrote(Home[o])
  BY <1>0 DEF Wrote, Sure
<1>6. ASSUME LoadOk(o) \/ LoadFails(o)
      PROVE  runtime'[q] = runtime[q] /\ failed'[q] = failed[q] /\ synced[q] /\ loose = {}
  <2>1. CASE LoadOk(o)
    BY <1>0, <1>2, <1>3, <2>1 DEF LoadOk, Sure, FilesOK
  <2>2. CASE LoadFails(o)
    BY <1>0, <1>3, <2>2 DEF LoadFails, Sure
  <2> QED BY <1>6, <2>1, <2>2
<1>7. CASE Open(o) \/ Reload(o) \/ Again(o) \/ Refresh(o)
  <2>1. (LoadOk(o) \/ LoadFails(o)) /\ UNCHANGED <<disk, secret>>
    BY <1>7 DEF Open, Reload, Again, Refresh, secretVars
  <2> QED BY <1>1, <1>6, <2>1 DEF Sure
<1>8. CASE Begin(o) \/ Backup(o)
  BY <1>8 DEF Begin, Backup, Sure, fileVars, secretVars, procVars
<1>9. CASE Publish(o)
  BY <1>2, <1>9 DEF Publish, Sure, fileVars, secretVars
<1>10. CASE Write(o) \/ Check(o) \/ Restore(o) \/ Revert(o) \/ Adopt(o)
  <2>1. UNCHANGED <<secret, procVars>>
    BY <1>10 DEF Write, Check, Restore, Revert, Adopt, secretVars
  <2>2. disk' = disk /\ synced' = synced /\ (loose' = {} => loose = {})
    BY <1>5, <1>10 DEF Write, Check, Restore, Revert, Adopt, Put, Undo, Leave, fileVars
  <2> QED BY <2>1, <2>2 DEF Sure, procVars
<1>11. CASE Secret(o) \/ Resecret(o)
  <2>1. UNCHANGED <<disk, procVars>> /\ (loose' = {} => loose = {})
    BY <1>11 DEF Secret, Resecret, Leave
  <2>2. secret' = secret /\ synced' = synced
    BY <1>5, <1>11 DEF Secret, Resecret, SetSecret, Seal, Unseal, Leave, secretVars
  <2> QED BY <2>1, <2>2 DEF Sure, procVars
<1> QED BY <1>7, <1>8, <1>9, <1>10, <1>11 DEF Step

(* So only the process that takes the step has to be looked at. *)
LEMMA AgreeStep ==
  ASSUME IInv, AgreeInv, NEW o \in Op, Step(o),
         Copies(o)', Tries(o)', pc'[o] \notin Settling => Agrees(Home[o])'
  PROVE  AgreeInv'
<1>0. OpsOK /\ ProcsOK /\ LockInv /\ BootInv /\ Home[o] \in Proc
  BY TypeGroups, ConfigAssumption DEF IInv
<1>1. \A x \in Op \ {o} : pc'[x] = pc[x] /\ op'[x] = op[x]
  BY <1>0 DEF Step, Begin, Backup, Open, Write, Check, Secret, Reload, Restore, Resecret, Again,
              Revert, Adopt, Refresh, Publish, Goto, Hold, OpsOK
<1>2. \A x \in Op \ {o} : Home[x] = Home[o] => pc[x] = "idle"
  BY <1>0 DEF Step, Begin, Backup, Open, Write, Check, Secret, Reload, Restore, Resecret, Again,
              Revert, Adopt, Refresh, Publish, LockInv, MutexFree
<1>3. ASSUME NEW x \in Op \ {o} PROVE Copies(x)'
  <2> SUFFICES ASSUME pc[x] \in {"adopt", "work"} PROVE op[x].rt = Shown(disk', secret')
    BY <1>1 DEF Copies
  <2>1. op[x].kind = "cycle"
    BY <1>0, KindSteps DEF Config, Declare
  <2>2. pc[o] = "open" \/ (pc[o] = "idle" /\ Begin(o))
    BY <1>0, <2>1, Alone DEF Step, Backup, Open, Write, Check, Secret, Reload, Restore, Resecret, Again,
                        Revert, Adopt, Refresh, Publish
  <2>3. Open(o) \/ Begin(o)
    BY <2>2 DEF Step, Backup, Write, Check, Secret, Reload, Restore, Resecret, Again,
                Revert, Adopt, Refresh, Publish
  <2>4. disk' = disk /\ secret' = secret
    BY <2>3 DEF Open, Begin, fileVars, secretVars
  <2> QED BY <2>4 DEF AgreeInv, Copies
<1>4. ASSUME NEW x \in Op \ {o} PROVE Tries(x)'
  <2> SUFFICES ASSUME pc[x] \in Trying, Sure(Home[x])'
               PROVE  runtime'[Home[x]] = Shown(Before(x)', secret')
    BY <1>1 DEF Tries
  <2>1. Home[x] \in Proc \ {Home[o]}
    BY <1>2, ConfigAssumption DEF Trying
  <2>2. Sure(Home[x]) /\ disk' = disk /\ secret' = secret /\ runtime'[Home[x]] = runtime[Home[x]]
    BY <2>1, OthersKeep
  <2> QED BY <1>1, <2>2 DEF AgreeInv, Tries, Before
<1>5. ASSUME NEW q \in Proc, \A x \in Op : Home[x] = q => pc'[x] \notin Settling PROVE Agrees(q)'
  <2>1. CASE q = Home[o]
    BY <1>5, <2>1
  <2>2. CASE q # Home[o]
    <3> SUFFICES ASSUME Sure(q)' PROVE runtime'[q] = Shown(disk', secret')
      BY DEF Agrees
    <3>1. Sure(q) /\ disk' = disk /\ secret' = secret /\ runtime'[q] = runtime[q]
      BY <2>2, OthersKeep
    <3>2. \A x \in Op : Home[x] = q => pc[x] \notin Settling
      BY <1>1, <1>5, <2>2
    <3> QED BY <3>1, <3>2 DEF AgreeInv, Agrees
  <2> QED BY <2>1, <2>2
<1> QED BY <1>3, <1>4, <1>5 DEF AgreeInv

-----------------------------------------------------------------------------
(* The steps of an operation, by what becomes of the runtime. *)

Goal(o) == Copies(o)' /\ Tries(o)' /\ (pc'[o] \notin Settling => Agrees(Home[o])')

LEMMA Loaded ==
  ASSUME IInv, NEW o \in Op, LoadOk(o), UNCHANGED <<disk, secret>>
  PROVE  Agrees(Home[o])'
<1>1. Serve(Home[o], Shown(disk, secret)) /\ runtime \in [Proc -> Runtimes \cup {Absent}]
  BY ServedShown, TypeGroups DEF LoadOk, IInv, ProcsOK
<1>2. Home[o] \in Proc
  BY ConfigAssumption
<1> QED BY <1>1, <1>2 DEF Agrees, Sure, Serve

LEMMA NotLoaded ==
  ASSUME IInv, NEW o \in Op, LoadFails(o)
  PROVE  Agrees(Home[o])'
<1>1. failed \in [Proc -> BOOLEAN] /\ Home[o] \in Proc
  BY TypeGroups, ConfigAssumption DEF IInv, ProcsOK
<1> QED BY <1>1 DEF LoadFails, Flag, Agrees, Sure

LEMMA Trailing ==
  ASSUME NEW o \in Op, pc'[o] \notin Trying \cup {"adopt", "work"}
  PROVE  Copies(o)' /\ Tries(o)'
BY DEF Copies, Tries

LEMMA LoadSteps ==
  ASSUME IInv, NEW o \in Op, Open(o) \/ Reload(o) \/ Again(o) \/ Refresh(o)
  PROVE  Goal(o)
<1>0. OpsOK /\ LockInv /\ pc[o] # "idle"
  BY TypeGroups DEF IInv, Open, Reload, Again, Refresh
<1>1. (LoadOk(o) \/ LoadFails(o)) /\ UNCHANGED <<disk, secret>>
  BY DEF Open, Reload, Again, Refresh, secretVars
<1>2. Agrees(Home[o])'
  BY <1>1, Loaded, NotLoaded
<1>3. pc'[o] \notin Trying
  BY <1>0 DEF Open, Reload, Again, Refresh, Goto, Hold, OpsOK, Trying
<1>4. CASE pc'[o] \in {"adopt", "work"}
  <2>1. op[o].kind = "cycle"
    BY <1>0, <1>4, KindSteps DEF Open, Reload, Again, Refresh, Goto, Hold, OpsOK, Config, Declare
  <2>2. Hold(o, "adopt") \/ Hold(o, "work")
    BY <1>0, <1>4 DEF Open, Reload, Again, Refresh, Goto, Hold, OpsOK
  <2>3. op'[o].rt = Served(disk)
    BY <1>0, <2>1, <2>2 DEF Hold, OpsOK, Jobs
  <2> QED BY <1>1, <1>2, <1>3, <2>3, ServedShown DEF Goal, Copies, Tries
<1>5. CASE pc'[o] \notin {"adopt", "work"}
  BY <1>2, <1>3, <1>5, Trailing DEF Goal
<1> QED BY <1>4, <1>5

LEMMA EarlySteps ==
  ASSUME IInv, AgreeInv, NEW o \in Op, Begin(o) \/ Backup(o) \/ Adopt(o) \/ Publish(o)
  PROVE  Goal(o)
<1>0. /\ OpsOK /\ FilesOK /\ ProcsOK /\ Home[o] \in Proc /\ Copies(o) /\ Kept(o)
  BY TypeGroups, KeptAll, ConfigAssumption DEF IInv, AgreeInv
<1>1. Agrees(Home[o])
  BY AgreesNow DEF Begin, Backup, Adopt, Publish, Settling, Trying
<1>2. CASE Begin(o) \/ Backup(o)
  <2>1. pc'[o] \in {"backup", "open", "write", "idle"}
    BY <1>0, <1>2 DEF Begin, Backup, Goto, OpsOK
  <2>2. Agrees(Home[o])'
    BY <1>1, <1>2 DEF Begin, Backup, Agrees, Sure, fileVars, secretVars, procVars
  <2> QED BY <2>1, <2>2, Trailing DEF Goal, Trying
<1>3. CASE Adopt(o)
  <2>1. UNCHANGED <<secret, stage, runtime, failed>>
    BY <1>3 DEF Adopt, secretVars, procVars
  <2>2. CASE UNCHANGED fileVars /\ Goto(o, "work")
    <3>1. Agrees(Home[o])'
      BY <1>1, <2>1, <2>2 DEF Agrees, Sure, fileVars
    <3>2. op'[o] = op[o] /\ pc'[o] = "work" /\ pc[o] = "adopt"
      BY <1>0, <1>3, <2>2 DEF Goto, OpsOK, Adopt
    <3> QED BY <1>0, <2>1, <2>2, <3>1, <3>2 DEF Goal, Copies, Tries, Trying, fileVars
  <2>3. CASE Goto(o, "refresh")
    BY <1>0, <2>3, Trailing DEF Goal, Goto, OpsOK, Trying, Settling
  <2>4. CASE Goto(o, "idle") /\ \E e \in Entry : loose' = loose \cup {e}
    <3>1. pc'[o] = "idle" /\ loose' # {}
      BY <1>0, <2>4 DEF Goto, OpsOK
    <3> QED BY <3>1, Trailing DEF Goal, Agrees, Sure, Trying
  <2> QED BY <1>3, <2>2, <2>3, <2>4 DEF Adopt
<1>4. CASE Publish(o)
  <2>1. op[o].rt = Shown(disk, secret) /\ op[o].rt.files = disk
    BY <1>0, <1>4 DEF Publish, Copies, Kept
  <2>2. [op[o].rt EXCEPT !.files = [f \in Files |->
           IF f \in Entry THEN disk[f] ELSE op[o].rt.files[f]]] = Shown(disk, secret)
    BY <1>0, <2>1 DEF Shown, FilesOK
  <2>3. Serve(Home[o], Shown(disk, secret)) \/ UNCHANGED runtime
    BY <1>4, <2>1, <2>2 DEF Publish
  <2>4. UNCHANGED <<disk, loose, synced, secret, stage, failed>>
    BY <1>4 DEF Publish, fileVars, secretVars
  <2>5. Agrees(Home[o])'
    BY <1>0, <1>1, <2>3, <2>4 DEF Agrees, Sure, Serve, ProcsOK
  <2>6. pc'[o] = "idle"
    BY <1>0, <1>4 DEF Publish, Goto, OpsOK
  <2> QED BY <2>5, <2>6, Trailing DEF Goal, Trying
<1> QED BY <1>2, <1>3, <1>4

LEMMA WriteStep ==
  ASSUME IInv, AgreeInv, NEW o \in Op, Write(o)
  PROVE  Goal(o)
<1>0. /\ OpsOK /\ FilesOK /\ pc[o] = "write" /\ Kept(o) /\ op[o].file \in Files /\ Home[o] \in Proc
  BY TypeGroups, KeptAll, ConfigAssumption DEF IInv, Write, OpsOK, Jobs
<1>1. Agrees(Home[o])
  BY <1>0, AgreesNow DEF Settling, Trying
<1>2. UNCHANGED <<secret, stage, runtime, failed>>
  BY DEF Write, secretVars, procVars
<1>3. CASE Put(o, op[o].file, op[o].want) /\ loose' = loose /\ Goto(o, "check")
  <2>1. pc'[o] = "check" /\ op'[o] = op[o]
    BY <1>0, <1>3 DEF Goto, OpsOK
  <2>2. Before(o)' = disk
    BY <1>0, <1>3, <2>1 DEF Before, Put, Kept, FilesOK
  <2>3. Sure(Home[o])' => Sure(Home[o])
    BY <1>0, <1>2, <1>3 DEF Sure, Put, Wrote, FilesOK
  <2> QED BY <1>1, <1>2, <2>1, <2>2, <2>3 DEF Goal, Copies, Tries, Agrees, Trying, Settling
<1>4. CASE Goto(o, "reload")
  BY <1>0, <1>4, Trailing DEF Goal, Goto, OpsOK, Trying, Settling
<1>5. CASE Goto(o, "idle") /\ UNCHANGED fileVars
  <2>1. pc'[o] = "idle" /\ Agrees(Home[o])'
    BY <1>0, <1>1, <1>2, <1>5 DEF Goto, OpsOK, Agrees, Sure, fileVars
  <2> QED BY <2>1, Trailing DEF Goal, Trying
<1>6. CASE Goto(o, "idle") /\ loose' = loose \cup {op[o].file}
  <2>1. pc'[o] = "idle" /\ loose' # {}
    BY <1>0, <1>6 DEF Goto, OpsOK
  <2> QED BY <2>1, Trailing DEF Goal, Agrees, Sure, Trying
<1> QED BY <1>3, <1>4, <1>5, <1>6 DEF Write

LEMMA UndoSteps ==
  ASSUME IInv, AgreeInv, NEW o \in Op,
         Check(o) \/ Secret(o) \/ Restore(o) \/ Resecret(o) \/ Revert(o)
  PROVE  Goal(o)
<1>0. OpsOK /\ FilesOK /\ Home[o] \in Proc /\ Tries(o)
  BY TypeGroups, ConfigAssumption DEF IInv, AgreeInv
<1>1. UNCHANGED <<stage, runtime, failed>>
  BY DEF Check, Secret, Restore, Resecret, Revert, procVars
<1>2. CASE /\ pc[o] \in Trying /\ UNCHANGED <<disk, loose, synced, secret>>
           /\ Goto(o, "secret") \/ Goto(o, "revert")
  <2>1. pc'[o] \in {"secret", "revert"} /\ op'[o] = op[o]
    BY <1>0, <1>2 DEF Goto, OpsOK
  <2>2. Before(o)' = Before(o) /\ (Sure(Home[o])' => Sure(Home[o]))
    BY <1>1, <1>2, <2>1 DEF Before, Sure
  <2> QED BY <1>0, <1>1, <1>2, <2>1, <2>2 DEF Goal, Copies, Tries, Settling, Trying
<1>3. CASE \E l \in {"reload", "restore", "resecret", "again"} : Goto(o, l)
  BY <1>0, <1>3, Trailing DEF Goal, Goto, OpsOK, Trying, Settling
<1>4. CASE pc[o] \in Trying /\ Goto(o, "idle") /\ Undo(o) /\ secret' = secret
  <2>1. pc'[o] = "idle" /\ disk' = Before(o)
    BY <1>0, <1>4 DEF Goto, OpsOK, Undo, Put, Before
  <2>2. Sure(Home[o])' => Sure(Home[o])
    BY <1>0, <1>1, <1>4 DEF Sure, Undo, Put, Wrote, FilesOK
  <2>3. Agrees(Home[o])'
    BY <1>0, <1>1, <1>4, <2>1, <2>2 DEF Agrees, Tries
  <2> QED BY <2>1, <2>3, Trailing DEF Goal, Trying
<1>5. CASE Goto(o, "idle") /\ Leave(o)
  <2>1. pc'[o] = "idle" /\ loose' # {}
    BY <1>0, <1>5 DEF Goto, OpsOK, Leave
  <2> QED BY <2>1, Trailing DEF Goal, Agrees, Sure, Trying
<1>6. CASE Check(o)
  BY <1>2, <1>3, <1>4, <1>5, <1>6 DEF Check, Accepted, Trying, fileVars, secretVars
<1>7. CASE Secret(o)
  BY <1>2, <1>3, <1>7 DEF Secret, Trying, secretVars
<1>8. CASE Restore(o) \/ Resecret(o)
  BY <1>3, <1>8 DEF Restore, Resecret
<1>9. CASE Revert(o)
  BY <1>4, <1>5, <1>9 DEF Revert, Trying, secretVars
<1> QED BY <1>6, <1>7, <1>8, <1>9

-----------------------------------------------------------------------------
(* The steps of processes. *)

LEMMA ProcessAgrees ==
  ASSUME IInv, AgreeInv, NEW p \in Proc, Start(p) \/ Crash(p) \/ Bootstrap(p) \/ Bootstrapped(p)
  PROVE  AgreeInv'
<1>0. /\ OpsOK /\ ProcsOK /\ FilesOK /\ LockInv /\ BootInv /\ \A o \in Op : Home[o] \in Proc
      /\ DOMAIN pc = Op
  BY TypeGroups, ConfigAssumption DEF IInv, OpsOK
<1>1. CASE Start(p)
  <2>1. /\ UNCHANGED <<disk, loose, secret, pc, op>> /\ Serve(p, Shown(disk, secret))
        /\ stage' = [stage EXCEPT ![p] = "up"] /\ Flag(p, FALSE)
        /\ synced' = [synced EXCEPT ![p] = TRUE] /\ stage[p] = "down"
    BY <1>1, ServedShown DEF Start, secretVars, opVars
  <2>2. \A q \in Proc \ {p} : (Sure(q)' => Sure(q)) /\ runtime'[q] = runtime[q]
    BY <1>0, <2>1 DEF Sure, Serve, Flag, ProcsOK, FilesOK
  <2>3. \A o \in Op : Home[o] = p => pc[o] = "idle"
    BY <1>0, <2>1 DEF LockInv
  <2>4. Agrees(p)'
    BY <1>0, <2>1 DEF Agrees, Sure, Serve, ProcsOK
  <2>5. \A o \in Op : Copies(o)' /\ Tries(o)'
    <3> SUFFICES ASSUME NEW o \in Op PROVE Copies(o)' /\ Tries(o)'
      OBVIOUS
    <3>1. Copies(o)'
      BY <2>1 DEF AgreeInv, Copies
    <3>2. Tries(o)'
      BY <1>0, <2>1, <2>2, <2>3 DEF AgreeInv, Tries, Before, Trying
    <3> QED BY <3>1, <3>2
  <2> QED BY <2>1, <2>2, <2>4, <2>5 DEF AgreeInv, Agrees
<1>2. CASE Crash(p)
  <2>1. /\ UNCHANGED <<disk, secret, synced, failed>> /\ loose \subseteq loose'
        /\ stage' = [stage EXCEPT ![p] = "down"] /\ runtime' = [runtime EXCEPT ![p] = Absent]
        /\ \A o \in Op : IF Home[o] = p THEN pc'[o] = "idle"
                         ELSE pc'[o] = pc[o] /\ op'[o] = op[o]
    BY <1>2 DEF Crash, secretVars
  <2>2. /\ \A q \in Proc \ {p} : (Sure(q)' => Sure(q)) /\ runtime'[q] = runtime[q]
        /\ ~Sure(p)'
    BY <1>0, <2>1 DEF Sure, ProcsOK
  <2>3. \A o \in Op : Copies(o)' /\ Tries(o)'
    <3> SUFFICES ASSUME NEW o \in Op PROVE Copies(o)' /\ Tries(o)'
      OBVIOUS
    <3>1. Copies(o)'
      BY <2>1 DEF AgreeInv, Copies
    <3>2. Tries(o)'
      BY <1>0, <2>1, <2>2 DEF AgreeInv, Tries, Before, Trying
    <3> QED BY <3>1, <3>2
  <2> QED BY <1>0, <2>1, <2>2, <2>3 DEF AgreeInv, Agrees
<1>3. CASE Bootstrap(p) \/ Bootstrapped(p)
  <2>1. (\A q \in Proc : stage[q] # "up") /\ \A q \in Proc : stage'[q] # "up"
    BY <1>0, <1>3 DEF Bootstrap, Bootstrapped, BootInv, ProcsOK
  <2>2. pc' = pc /\ \A o \in Op : pc[o] = "idle"
    BY <1>0, <1>3, <2>1 DEF Bootstrap, Bootstrapped, opVars, LockInv
  <2> QED BY <2>1, <2>2 DEF AgreeInv, Copies, Tries, Agrees, Sure, Trying
<1> QED BY <1>1, <1>2, <1>3

LEMMA AgreeKept == IInv /\ AgreeInv /\ [Next]_vars => AgreeInv'
<1> SUFFICES ASSUME IInv, AgreeInv, [Next]_vars PROVE AgreeInv'
  OBVIOUS
<1>1. ASSUME NEW o \in Op, Step(o) PROVE AgreeInv'
  <2>1. Goal(o)
    BY <1>1, LoadSteps, EarlySteps, WriteStep, UndoSteps DEF Step
  <2> QED BY <1>1, <2>1, AgreeStep DEF Goal
<1>2. ASSUME NEW p \in Proc, Bootstrap(p) \/ Bootstrapped(p) \/ Start(p) \/ Crash(p) PROVE AgreeInv'
  BY <1>2, ProcessAgrees
<1>3. CASE LoseKey
  BY <1>3 DEF LoseKey, AgreeInv, Copies, Tries, Agrees, Sure, Before, fileVars, procVars, opVars
<1>4. CASE UNCHANGED vars
  BY <1>4 DEF vars, AgreeInv, Copies, Tries, Agrees, Sure, Before, fileVars, secretVars, procVars, opVars
<1>5. ASSUME NEW p \in Proc, Exit(p) PROVE AgreeInv'
  BY <1>4, <1>5 DEF Exit
<1> QED BY <1>1, <1>2, <1>3, <1>4, <1>5 DEF Next

(* Through every mutation, roll-back, cycle and reload of any number of     *)
(* processes: between operations, what a daemon serves is what its files    *)
(* and secrets say, unless it reports a failed reload, another process      *)
(* wrote since, or an I/O error left a file behind.                        *)
THEOREM RuntimeFollows == Spec => []RuntimeAgrees
<1>1. AgreeInv => RuntimeAgrees
  <2> SUFFICES ASSUME AgreeInv, NEW p \in Daemon, Sure(p), Quiet(p) PROVE runtime[p] = Served(disk)
    BY DEF RuntimeAgrees, Sure
  <2>1. p \in Proc /\ \A o \in Op : Home[o] = p => pc[o] \notin Settling
    BY ConfigAssumption DEF Quiet, Settling, Trying
  <2> QED BY <2>1, ServedShown DEF AgreeInv, Agrees
<1> QED BY <1>1, AgreeInit, AgreeKept, StartInv, StepInv, PTL DEF Spec

-----------------------------------------------------------------------------
(* Refinement: what is held, in terms of the disk. *)

HeldFacts ==
  /\ \A o \in Op : Provisional(o) => Held = [disk EXCEPT ![op[o].file] = op[o].saved]
  /\ (\A o \in Op : ~Provisional(o)) /\ (\A p \in Proc : stage[p] # "boot") => Held = disk
  /\ \A p \in Proc : stage[p] = "boot" =>
       Held = [disk EXCEPT ![Organizer] = Absent] /\ \A o \in Op : pc[o] = "idle"

LEMMA BusyKind ==
  ASSUME OpsOK, LockInv, NEW o \in Op, Unfinished(o)
  PROVE  pc[o] # "idle" /\ op[o].kind \in Config \cup Declare
BY KindSteps DEF Unfinished, Provisional

LEMMA NotPreview ==
  \A k \in Config \cup Declare : k # "preview" /\ k # "cycle"
BY DEF Config, Declare

LEMMA HeldIs == IInv => HeldFacts
<1> SUFFICES ASSUME IInv PROVE HeldFacts
  OBVIOUS
<1>0. /\ FilesOK /\ OpsOK /\ ProcsOK /\ LockInv /\ BootInv
  BY TypeGroups DEF IInv
<1>1. ASSUME NEW o \in Op, Provisional(o)
      PROVE  Held = [disk EXCEPT ![op[o].file] = op[o].saved]
  <2>1. pc[o] # "idle" /\ op[o].kind # "preview"
    BY <1>0, <1>1, BusyKind, NotPreview DEF Unfinished
  <2>2. \A x \in Op : Provisional(x) => x = o
    BY <1>0, <2>1, Alone DEF Provisional
  <2>3. \A p \in Proc : stage[p] # "boot"
    BY <1>0, <2>1, Alone
  <2>4. \A f \in Files : Held[f] = IF op[o].file = f THEN op[o].saved ELSE disk[f]
    <3> SUFFICES ASSUME NEW f \in Files
                 PROVE  Held[f] = IF op[o].file = f THEN op[o].saved ELSE disk[f]
      OBVIOUS
    <3>1. CASE op[o].file = f
      <4> DEFINE x == CHOOSE x \in Op : Provisional(x) /\ op[x].file = f
      <4>1. x \in Op /\ Provisional(x)
        BY <1>1, <3>1
      <4>2. x = o
        BY <2>2, <4>1
      <4> QED BY <1>1, <3>1, <4>2 DEF Held
    <3>2. CASE op[o].file # f
      BY <2>2, <2>3, <3>2 DEF Held
    <3> QED BY <3>1, <3>2
  <2>5. op[o].file \in Files
    BY <1>0, <2>1, Asked DEF Jobs
  <2>6. Held = [f \in Files |-> Held[f]]
    BY DEF Held
  <2> HIDE DEF Held
  <2> QED BY <1>0, <2>4, <2>5, <2>6 DEF FilesOK
<1>2. ASSUME \A o \in Op : ~Provisional(o), \A p \in Proc : stage[p] # "boot"
      PROVE  Held = disk
  BY <1>0, <1>2 DEF Held, FilesOK
<1>3. ASSUME NEW p \in Proc, stage[p] = "boot"
      PROVE  Held = [disk EXCEPT ![Organizer] = Absent] /\ \A o \in Op : pc[o] = "idle"
  <2>1. \A o \in Op : stage[Home[o]] # "up" /\ Home[o] \in Proc
    BY <1>0, <1>3, ConfigAssumption DEF BootInv
  <2>2. \A o \in Op : pc[o] = "idle"
    BY <1>0, <2>1 DEF LockInv
  <2>3. \A o \in Op : ~Provisional(o)
    BY <2>2 DEF Provisional
  <2> QED BY <1>0, <1>3, <2>2, <2>3, Distinct DEF Held, FilesOK
<1> QED BY <1>1, <1>2, <1>3 DEF HeldFacts

(* What is held stays when neither the disk nor what is provisional changes. *)
LEMMA SameHeld ==
  ASSUME HeldFacts, HeldFacts', disk' = disk,
         \A p \in Proc : stage'[p] = "boot" <=> stage[p] = "boot",
         \A o \in Op : /\ Provisional(o)' <=> Provisional(o)
                       /\ Provisional(o) => op'[o].file = op[o].file /\ op'[o].saved = op[o].saved
  PROVE  Held' = Held
<1>1. CASE \E o \in Op : Provisional(o)
  BY <1>1 DEF HeldFacts
<1>2. CASE \E p \in Proc : stage[p] = "boot"
  BY <1>2 DEF HeldFacts
<1>3. CASE (\A o \in Op : ~Provisional(o)) /\ (\A p \in Proc : stage[p] # "boot")
  BY <1>3 DEF HeldFacts
<1> QED BY <1>1, <1>2, <1>3

(* While an operation holds the lock, what is held differs from the disk by *)
(* its file alone, and not at all once nothing is provisional.             *)
LEMMA HeldAlone ==
  ASSUME IInv, HeldFacts, NEW o \in Op, pc[o] # "idle", op[o].kind # "preview"
  PROVE  Held = IF Provisional(o) THEN [disk EXCEPT ![op[o].file] = op[o].saved] ELSE disk
<1>0. OpsOK /\ ProcsOK /\ LockInv /\ BootInv
  BY TypeGroups DEF IInv
<1>1. (\A x \in Op \ {o} : ~Provisional(x)) /\ (\A p \in Proc : stage[p] # "boot")
  BY <1>0, Alone DEF Provisional
<1> QED BY <1>1 DEF HeldFacts

LEMMA HeldAfter ==
  ASSUME IInv, HeldFacts', NEW o \in Op, Step(o), pc[o] # "idle", op[o].kind # "preview"
  PROVE  Held' = IF Provisional(o)' THEN [disk' EXCEPT ![op'[o].file] = op'[o].saved] ELSE disk'
<1>0. OpsOK /\ ProcsOK /\ LockInv /\ BootInv
  BY TypeGroups DEF IInv
<1>1. (\A x \in Op \ {o} : ~Provisional(x)) /\ (\A p \in Proc : stage[p] # "boot")
  BY <1>0, Alone DEF Provisional
<1>2. \A x \in Op \ {o} : pc'[x] = pc[x]
  BY <1>0 DEF Step, Begin, Backup, Open, Write, Check, Secret, Reload, Restore, Resecret, Again,
     Revert, Adopt, Refresh, Publish, Goto, Hold, OpsOK
<1>3. (\A x \in Op \ {o} : ~Provisional(x)') /\ (\A p \in Proc : stage'[p] # "boot")
  BY <1>1, <1>2, StageKept DEF Provisional
<1> QED BY <1>3 DEF HeldFacts

Outside == [Atomic!Next]_<<Held, loose>>

LEMMA Stutters == Held' = Held /\ loose' = loose => Outside
BY DEF Outside

LEMMA Accepts ==
  ASSUME Loads(Held), Held' = Held, loose' \in {loose, {}}
  PROVE  Outside
BY DEF Outside, Atomic!Next, Atomic!Accept

LEMMA Loses ==
  ASSUME NEW f \in Files, NEW v \in Content, loose' = loose \cup {f}, Held' = [Held EXCEPT ![f] = v]
  PROVE  Outside
BY DEF Outside, Atomic!Next, Atomic!Lose

LEMMA Changes ==
  ASSUME NEW f \in Files, NEW v \in Content, Held' = [Held EXCEPT ![f] = v],
         Loads(Held'), loose' \in {loose, {}}
  PROVE  Outside
<1>1. CASE Held' = Held
  BY <1>1, Accepts
<1>2. CASE Held' # Held
  BY <1>2 DEF Outside, Atomic!Next, Atomic!Change
<1> QED BY <1>1, <1>2

(* An operation that holds the lock is before its change. *)
LEMMA OpensOutside ==
  ASSUME IInv, HeldFacts, HeldFacts', NEW o \in Op, Begin(o) \/ Backup(o) \/ Open(o) \/ Publish(o)
  PROVE  Outside
<1>0. OpsOK /\ FilesOK
  BY TypeGroups DEF IInv
<1>1. disk' = disk /\ stage' = stage
  BY DEF Begin, Backup, Open, Publish, fileVars, procVars
<1>2. ~Provisional(o) /\ ~Provisional(o)'
  BY <1>0 DEF Begin, Backup, Open, Publish, Provisional, Goto, Hold, OpsOK
<1>3. \A x \in Op \ {o} : pc'[x] = pc[x] /\ op'[x] = op[x]
  BY <1>0 DEF Begin, Backup, Open, Publish, Goto, Hold, OpsOK
<1>4. Held' = Held
  BY <1>1, <1>2, <1>3, SameHeld DEF Provisional
<1>5. CASE loose' = loose
  BY <1>4, <1>5, Stutters
<1>6. CASE loose' # loose
  <2>1. pc[o] = "open" /\ op[o].kind # "preview" /\ LoadOk(o)
    BY <1>6 DEF Begin, Backup, Open, Publish, fileVars, LoadOk, LoadFails
  <2>2. Held = disk
    BY <1>2, <2>1, HeldAlone
  <2> QED BY <1>4, <2>1, <2>2, Accepts DEF LoadOk
<1> QED BY <1>5, <1>6

(* It changes its file, checks it, takes it back or leaves it behind. *)
LEMMA ChangesOutside ==
  ASSUME IInv, HeldFacts, HeldFacts', NEW o \in Op,
         Write(o) \/ Check(o) \/ Restore(o) \/ Revert(o) \/ Resecret(o) \/ Secret(o)
  PROVE  Outside
<1>0. OpsOK /\ FilesOK /\ LockInv /\ Kept(o)
  BY TypeGroups, KeptAll DEF IInv
<1>1. pc[o] \in {"write", "check", "restore", "revert", "resecret", "secret"} /\ Step(o)
  BY DEF Write, Check, Restore, Revert, Resecret, Secret, Step
<1>2. op[o].kind \in Config \cup Declare /\ op[o] \in Jobs
  BY <1>0, <1>1, KindSteps, Asked
<1>3. /\ op[o].file \in Files /\ op[o].want \in Content /\ op[o].saved \in Content
      /\ op[o].kind # "preview"
  BY <1>2, NotPreview DEF Jobs
<1>4. /\ Held = IF Provisional(o) THEN [disk EXCEPT ![op[o].file] = op[o].saved] ELSE disk
      /\ Held' = IF Provisional(o)' THEN [disk' EXCEPT ![op'[o].file] = op'[o].saved] ELSE disk'
  BY <1>1, <1>3, HeldAlone, HeldAfter
<1>5. disk[op[o].file] \in Content
  BY <1>0, <1>3 DEF FilesOK
<1> DEFINE f == op[o].file
           saved == op[o].saved
<1>6. ASSUME pc[o] \in {"check", "secret", "restore", "revert"}
      PROVE  Held = [disk EXCEPT ![f] = saved]
  BY <1>4, <1>6 DEF Provisional
<1>7. ASSUME NEW l \in {"check", "secret", "reload", "restore", "revert"}, Goto(o, l)
      PROVE  Held' = [disk' EXCEPT ![f] = saved]
  BY <1>0, <1>4, <1>7 DEF Provisional, Goto, OpsOK
<1>8. ASSUME NEW l \in {"idle", "resecret", "again"}, Goto(o, l)
      PROVE  Held' = disk'
  BY <1>0, <1>4, <1>8 DEF Provisional, Goto, OpsOK
(* Undo and Leave, as the end of what was provisional. *)
<1>9. ASSUME NEW l \in {"idle", "resecret", "again"}, Goto(o, l), Undo(o) \/ Leave(o),
             pc[o] \in {"check", "restore", "revert"}
      PROVE  Outside
  <2>1. Held = [disk EXCEPT ![f] = saved] /\ Held' = disk'
    BY <1>6, <1>8, <1>9
  <2>2. CASE Undo(o)
    BY <2>1, <2>2, Stutters DEF Undo, Put
  <2>3. CASE Leave(o)
    <3>1. Held' = [Held EXCEPT ![f] = disk[f]] /\ loose' = loose \cup {f}
      BY <1>0, <2>1, <2>3 DEF Leave, FilesOK
    <3> QED BY <1>3, <1>5, <3>1, Loses
  <2> QED BY <1>9, <2>2, <2>3
<1>10. CASE Write(o)
  <2>1. Held = disk /\ saved = disk[f]
    BY <1>0, <1>4, <1>10 DEF Write, Provisional, Kept
  <2>2. CASE /\ disk' = [disk EXCEPT ![f] = op[o].want] /\ loose' = loose
             /\ \E l \in {"check", "reload"} : Goto(o, l)
    <3>1. Held' = [disk' EXCEPT ![f] = saved]
      BY <1>7, <2>2
    <3>2. Held' = disk
      BY <1>0, <2>1, <2>2, <3>1 DEF FilesOK
    <3> QED BY <2>1, <2>2, <3>2, Stutters
  <2>3. CASE Goto(o, "idle") /\ UNCHANGED fileVars
    BY <1>8, <2>1, <2>3, Stutters DEF fileVars
  <2>4. CASE /\ disk' = [disk EXCEPT ![f] = op[o].want] /\ loose' = loose \cup {f}
             /\ Goto(o, "idle")
    <3>1. Held' = [Held EXCEPT ![f] = op[o].want]
      BY <1>8, <2>1, <2>4
    <3> QED BY <1>3, <2>4, <3>1, Loses
  <2> QED BY <1>10, <2>2, <2>3, <2>4 DEF Write, Put
<1>11. CASE Check(o)
  <2>1. CASE Goto(o, Accepted(o)) /\ UNCHANGED fileVars
    <3>1. Held = [disk EXCEPT ![f] = saved] /\ Held' = [disk' EXCEPT ![f] = saved]
      BY <1>6, <1>7, <1>11, <2>1 DEF Check, Accepted
    <3> QED BY <2>1, <3>1, Stutters DEF fileVars
  <2>2. CASE Goto(o, "idle") /\ (Undo(o) \/ Leave(o))
    BY <1>9, <1>11, <2>2 DEF Check
  <2> QED BY <1>11, <2>1, <2>2 DEF Check
<1>12. CASE Restore(o) \/ Revert(o)
  <2>1. /\ pc[o] \in {"restore", "revert"} /\ (Undo(o) \/ Leave(o))
        /\ \E l \in {"idle", "resecret", "again"} : Goto(o, l)
    BY <1>12 DEF Restore, Revert
  <2> QED BY <1>9, <2>1
<1>13. CASE Resecret(o)
  <2>1. Held = disk /\ Held' = disk' /\ disk' = disk
    BY <1>4, <1>8, <1>13 DEF Resecret, Provisional, Leave
  <2>2. CASE loose' = loose
    BY <2>1, <2>2, Stutters
  <2>3. CASE loose' = loose \cup {f}
    <3>1. Held' = [Held EXCEPT ![f] = disk[f]]
      BY <1>0, <2>1 DEF FilesOK
    <3> QED BY <1>3, <1>5, <2>3, <3>1, Loses
  <2> QED BY <1>13, <2>2, <2>3 DEF Resecret, Leave
<1>14. CASE Secret(o)
  <2>1. /\ disk' = disk /\ loose' = loose /\ pc[o] = "secret"
        /\ \E l \in {"reload", "restore", "revert"} : Goto(o, l)
    BY <1>14 DEF Secret
  <2> QED BY <1>6, <1>7, <2>1, Stutters
<1> QED BY <1>10, <1>11, <1>12, <1>13, <1>14

LEMMA AdoptLoads ==
  ASSUME disk \in [Files -> Content], Loads(disk), NEW e \in Entry
  PROVE  Loads([disk EXCEPT ![e] = {}])
BY Distinct, ConfigAssumption DEF Loads, Resources, Files

(* It loads what it changed, or adopts a directory. *)
LEMMA LoadsOutside ==
  ASSUME IInv, HeldFacts, HeldFacts', NEW o \in Op,
         Reload(o) \/ Again(o) \/ Adopt(o) \/ Refresh(o)
  PROVE  Outside
<1>0. OpsOK /\ FilesOK /\ LockInv /\ Kept(o)
  BY TypeGroups, KeptAll DEF IInv
<1>1. pc[o] \in {"reload", "again", "adopt", "refresh"} /\ Step(o)
  BY DEF Reload, Again, Adopt, Refresh, Step
<1>2. op[o].kind # "preview" /\ op[o] \in Jobs
  BY <1>0, <1>1, KindSteps, Asked, NotPreview
<1>3. /\ Held = IF Provisional(o) THEN [disk EXCEPT ![op[o].file] = op[o].saved] ELSE disk
      /\ Held' = IF Provisional(o)' THEN [disk' EXCEPT ![op'[o].file] = op'[o].saved] ELSE disk'
  BY <1>1, <1>2, HeldAlone, HeldAfter
<1> DEFINE f == op[o].file
           saved == op[o].saved
<1>4. f \in Files /\ disk[f] \in Content
  BY <1>0, <1>2 DEF Jobs, FilesOK
<1>5. CASE Reload(o)
  <2>1. pc[o] = "reload" /\ disk' = disk /\ Held = [disk EXCEPT ![f] = saved]
    BY <1>3, <1>5 DEF Reload, Provisional
  <2>2. CASE LoadOk(o) /\ Goto(o, "idle")
    <3>1. Held' = disk
      BY <1>0, <1>3, <2>1, <2>2 DEF Goto, Provisional, OpsOK
    <3>2. Held' = [Held EXCEPT ![f] = disk[f]]
      BY <1>0, <2>1, <3>1 DEF FilesOK
    <3>3. Loads(disk) /\ loose' \in {loose, {}}
      BY <2>2 DEF LoadOk
    <3>4. Loads(Held')
      BY <3>1, <3>3
    <3> QED BY <1>4, <3>2, <3>3, <3>4, Changes
  <2>3. CASE LoadFails(o) /\ Goto(o, "restore")
    <3>1. Held' = Held
      BY <1>0, <1>3, <2>1, <2>3 DEF Goto, Provisional, OpsOK
    <3> QED BY <2>3, <3>1, Stutters DEF LoadFails
  <2> QED BY <1>5, <2>2, <2>3 DEF Reload
<1>6. CASE Again(o) \/ Refresh(o)
  <2>1. disk' = disk /\ Held = disk /\ (LoadOk(o) \/ LoadFails(o))
    BY <1>3, <1>6 DEF Again, Refresh, Provisional
  <2>2. pc'[o] \in {"idle", "work"}
    BY <1>0, <1>6 DEF Again, Refresh, Goto, Hold, OpsOK
  <2>3. Held' = disk
    BY <1>3, <2>1, <2>2 DEF Provisional
  <2>4. CASE LoadOk(o)
    <3>1. Loads(Held) /\ Held' = Held /\ loose' \in {loose, {}}
      BY <2>1, <2>3, <2>4 DEF LoadOk
    <3> QED BY <3>1, Accepts
  <2>5. CASE LoadFails(o)
    BY <2>1, <2>3, <2>5, Stutters DEF LoadFails
  <2> QED BY <2>1, <2>4, <2>5
<1>7. CASE Adopt(o)
  <2>1. Held = disk /\ Loads(disk)
    BY <1>0, <1>3, <1>7 DEF Adopt, Provisional, Kept
  <2>2. Held' = disk'
    <3>1. pc'[o] \in {"work", "refresh", "idle"}
      BY <1>0, <1>7 DEF Adopt, Goto, OpsOK
    <3> QED BY <1>3, <3>1 DEF Provisional
  <2>3. CASE UNCHANGED fileVars
    BY <2>1, <2>2, <2>3, Stutters DEF fileVars
  <2>4. ASSUME NEW e \in Entry, disk' = [disk EXCEPT ![e] = {}],
               loose' = loose \/ loose' = loose \cup {e}
        PROVE  Outside
    <3>1. Held' = [Held EXCEPT ![e] = {}] /\ e \in Files /\ {} \in Content
      BY <2>1, <2>2, <2>4, Distinct
    <3>2. Loads(Held')
      BY <1>0, <2>1, <2>2, <2>4, AdoptLoads DEF FilesOK
    <3> QED BY <2>4, <3>1, <3>2, Changes, Loses
  <2> QED BY <1>7, <2>3, <2>4 DEF Adopt, Put
<1> QED BY <1>5, <1>6, <1>7

(* organizer.json appears whole; a crash leaves at most one file behind. *)
LEMMA ProcessOutside ==
  ASSUME IInv, HeldFacts, HeldFacts', NEW p \in Proc,
         Bootstrap(p) \/ Bootstrapped(p) \/ Exit(p) \/ Start(p) \/ Crash(p)
  PROVE  Outside
<1>0. OpsOK /\ FilesOK /\ LockInv /\ BootInv /\ ProcsOK
  BY TypeGroups DEF IInv
<1>1. CASE Bootstrap(p)
  <2>1. /\ disk[Organizer] = Absent /\ disk' = [disk EXCEPT ![Organizer] = Bad]
        /\ stage' = [stage EXCEPT ![p] = "boot"] /\ loose' = loose /\ opVars' = opVars
        /\ \A q \in Proc : stage[q] = "down"
    BY <1>0, <1>1 DEF Bootstrap, BootInv
  <2>2. \A o \in Op : pc[o] = "idle"
    BY <1>0, <2>1, ConfigAssumption DEF LockInv
  <2>3. Held = disk
    BY <2>1, <2>2 DEF HeldFacts, Provisional
  <2>4. Held' = [disk' EXCEPT ![Organizer] = Absent]
    BY <1>0, <2>1 DEF HeldFacts, ProcsOK
  <2>5. Held' = Held
    BY <1>0, <2>1, <2>3, <2>4, Distinct DEF FilesOK
  <2> QED BY <2>1, <2>5, Stutters
<1>2. CASE Bootstrapped(p) \/ (Crash(p) /\ stage[p] = "boot")
  <2>1. /\ stage[p] = "boot" /\ stage' = [stage EXCEPT ![p] = "down"]
        /\ \A q \in Proc \ {p} : stage[q] = "down"
    BY <1>0, <1>2 DEF Bootstrapped, Crash, BootInv
  <2>2. Held = [disk EXCEPT ![Organizer] = Absent] /\ \A o \in Op : pc[o] = "idle"
    BY <2>1 DEF HeldFacts
  <2>3. \A o \in Op : pc'[o] = "idle"
    BY <1>2, <2>2 DEF Bootstrapped, Crash, opVars
  <2>4. \A q \in Proc : stage'[q] # "boot"
    BY <1>0, <2>1 DEF ProcsOK
  <2>5. Held' = disk'
    BY <2>3, <2>4 DEF HeldFacts, Provisional
  <2>6. CASE Bootstrapped(p) /\ disk' = [disk EXCEPT ![Organizer] = Absent]
    BY <2>2, <2>5, <2>6, Stutters DEF Bootstrapped
  <2>7. CASE Bootstrapped(p) /\ disk' = [disk EXCEPT ![Organizer] = Ok]
    <3>1. Held' = [Held EXCEPT ![Organizer] = Ok] /\ loose' = loose
      BY <1>0, <2>2, <2>5, <2>7 DEF FilesOK, Bootstrapped
    <3>2. Loads(Held')
      BY <1>0, <2>1, <2>5, <2>7 DEF BootInv
    <3> QED BY <3>1, <3>2, Distinct, Changes
  <2>8. CASE Crash(p)
    <3>1. {o \in Op : Home[o] = p /\ Unfinished(o)} = {}
      BY <2>2 DEF Unfinished, Provisional
    <3>2. {op[o].file : o \in {x \in Op : Home[x] = p /\ Unfinished(x)}} = {}
      BY <3>1
    <3>3. loose' = loose \cup {Organizer} /\ disk' = disk
      BY <2>1, <2>8, <3>2 DEF Crash
    <3>4. Held' = [Held EXCEPT ![Organizer] = disk[Organizer]] /\ disk[Organizer] \in Content
      BY <1>0, <2>2, <2>5, <3>3, Distinct DEF FilesOK
    <3> QED BY <3>3, <3>4, Distinct, Loses
  <2> QED BY <1>2, <2>6, <2>7, <2>8 DEF Bootstrapped
<1>3. CASE Exit(p)
  <2>1. UNCHANGED <<disk, stage, pc, op, loose>>
    BY <1>3 DEF Exit, vars, fileVars, procVars, opVars
  <2>2. Held' = Held
    BY <2>1, SameHeld DEF Provisional
  <2> QED BY <2>1, <2>2, Stutters
<1>4. CASE Start(p)
  <2>1. /\ UNCHANGED <<disk, pc, op, loose>> /\ stage' = [stage EXCEPT ![p] = "up"]
        /\ stage[p] = "down"
    BY <1>4 DEF Start, opVars
  <2>2. \A q \in Proc : stage'[q] = "boot" <=> stage[q] = "boot"
    BY <1>0, <2>1 DEF ProcsOK
  <2>3. Held' = Held
    BY <2>1, <2>2, SameHeld DEF Provisional
  <2> QED BY <2>1, <2>3, Stutters
<1>5. CASE Crash(p) /\ stage[p] # "boot"
  <2> DEFINE ended == {o \in Op : Home[o] = p /\ Unfinished(o)}
  <2>1. /\ disk' = disk /\ stage' = [stage EXCEPT ![p] = "down"]
        /\ \A o \in Op : IF Home[o] = p THEN pc'[o] = "idle"
                         ELSE pc'[o] = pc[o] /\ op'[o] = op[o]
        /\ loose' = loose \cup {op[o].file : o \in ended}
    BY <1>5 DEF Crash
  <2>2. \A q \in Proc : stage'[q] = "boot" <=> stage[q] = "boot"
    BY <1>0, <1>5, <2>1 DEF ProcsOK
  <2>3. CASE ended = {}
    <3>1. loose' = loose
      BY <2>1, <2>3
    <3>2. \A o \in Op : Home[o] = p => ~Provisional(o)
      BY <2>3 DEF Unfinished
    <3>3. \A o \in Op : /\ Provisional(o)' <=> Provisional(o)
                        /\ Provisional(o) => op'[o] = op[o]
      BY <2>1, <3>2 DEF Provisional
    <3>4. Held' = Held
      BY <2>1, <2>2, <3>3, SameHeld
    <3> QED BY <3>1, <3>4, Stutters
  <2>4. CASE ended # {}
    <3>1. PICK o \in Op : Home[o] = p /\ Unfinished(o)
      BY <2>4
    <3>2. pc[o] # "idle" /\ op[o].kind # "preview" /\ op[o] \in Jobs
      BY <1>0, <3>1, BusyKind, NotPreview, Asked
    <3>3. (\A x \in Op \ {o} : ~Unfinished(x)) /\ (\A q \in Proc : stage[q] # "boot")
      BY <1>0, <3>2, Alone DEF Unfinished, Provisional
    <3>4. ended = {o}
      BY <3>1, <3>3
    <3>5. loose' = loose \cup {op[o].file}
      BY <2>1, <3>4
    <3>6. \A x \in Op : ~Provisional(x)'
      BY <2>1, <3>1, <3>3 DEF Unfinished, Provisional
    <3>7. Held' = disk
      BY <2>1, <2>2, <3>3, <3>6 DEF HeldFacts
    <3>8. Held = IF Provisional(o) THEN [disk EXCEPT ![op[o].file] = op[o].saved] ELSE disk
      BY <3>2, HeldAlone
    <3>9. op[o].file \in Files /\ disk[op[o].file] \in Content
      BY <1>0, <3>2 DEF Jobs, FilesOK
    <3>10. Held' = [Held EXCEPT ![op[o].file] = disk[op[o].file]]
      BY <1>0, <3>7, <3>8, <3>9 DEF FilesOK
    <3> QED BY <3>5, <3>9, <3>10, Loses
  <2> QED BY <2>3, <2>4
<1> QED BY <1>1, <1>2, <1>3, <1>4, <1>5

LEMMA StoreSteps == IInv /\ IInv' /\ [Next]_vars => [Atomic!Next]_<<Held, loose>>
<1> SUFFICES ASSUME IInv, IInv', [Next]_vars PROVE Outside
  BY DEF Outside
<1>1. HeldFacts
  BY HeldIs
<1>2. HeldFacts'
  <2>1. (IInv => HeldFacts)'
    BY HeldIs, PTL
  <2> QED BY <2>1
<1>3. ASSUME NEW o \in Op, Step(o) PROVE Outside
  BY <1>1, <1>2, <1>3, OpensOutside, ChangesOutside, LoadsOutside DEF Step
<1>4. ASSUME UNCHANGED <<disk, stage, pc, op, loose>> PROVE Outside
  <2>1. Held' = Held
    BY <1>1, <1>2, <1>4, SameHeld DEF Provisional
  <2> QED BY <1>4, <2>1, Stutters
<1> QED
  BY <1>1, <1>2, <1>3, <1>4, ProcessOutside
     DEF Next, LoseKey, vars, fileVars, procVars, opVars

LEMMA StoreStarts == Init => Atomic!Init
<1> SUFFICES ASSUME Init PROVE Atomic!Init
  OBVIOUS
<1>1. HeldFacts
  BY StartInv, HeldIs
<1>2. Held = disk
  BY <1>1 DEF Init, HeldFacts, Provisional
<1> QED BY <1>2 DEF Init, Atomic!Init

(* Whatever number of processes and threads write, and wherever they fail   *)
(* or crash, the configuration changes as AtomicConfig says: one file at a  *)
(* time from a graph that loads to a graph that loads, but for the files of *)
(* the changes that were interrupted.                                      *)
THEOREM StoreIsAtomic == Spec => AtomicUpdates
<1>1. Spec => []IInv
  BY StoreInvariant
<1> QED BY <1>1, StoreStarts, StoreSteps, PTL DEF Spec, AtomicUpdates, Atomic!Spec
=============================================================================
