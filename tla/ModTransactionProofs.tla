------------------------ MODULE ModTransactionProofs ------------------------
(***************************************************************************)
(* Proofs about ModTransaction, for any mods, versions, files and faults.  *)
(***************************************************************************)
EXTENDS ModTransaction, TLAPS

(* While an installation works, its plan stays a plan.                     *)
PlanKept ==
    op.pc \in {"staging", "publishing", "installed"} =>
        /\ op.project \in Projects
        /\ Plan(op.project, op.plan)
        /\ \A v, w \in op.plan : FileOf[v] = FileOf[w] => v = w

(* What a removal and an installation are busy with.                       *)
CurrentKnown ==
    /\ op.pc = "taking" =>
          /\ op.project \in Projects
          /\ op.todo \subseteq Installed(registry)
          /\ op.cur \in Installed(registry) \cup {None}
    /\ op.pc = "staging" => op.cur = None /\ op.published = {}
    /\ op.pc = "publishing" /\ staged = NoFiles /\ op.cur # None =>
          op.cur \in FilesIn(registry) \ FilesIn(NewRecord)

StagedPlanned ==
    op.pc = "publishing" =>
        \A f \in Files : staged[f] # None => staged[f] \in op.plan /\ FileOf[staged[f]] = f

(* A planned version is staged or in place.                                *)
PlanInPlace ==
    /\ op.pc \in {"publishing", "installed"} =>
          \A v \in op.plan :
              \/ staged[FileOf[v]] = v
              \/ mods[FileOf[v]] = v
              \/ FileOf[v] \in touched
    /\ op.pc = "installed" => staged = NoFiles

(* No planned file is the user's own.                                      *)
ForeignPlanned ==
    /\ op.pc \in {"staging", "publishing"} =>
          \A v \in op.plan : mods[FileOf[v]] = Other => FileOf[v] \in FilesIn(registry) \cup touched
    /\ op.pc \in {"publishing", "undo"} =>
          \A f \in op.published : mods[f] = Other => f \in touched

TrashOwn ==
    op.pc \in {"taking", "sweeping"} => \A f \in Files : trash[f] # Other

IInv ==
    /\ TypeOK
    /\ DependenciesInstalled
    /\ PlanKept
    /\ CurrentKnown
    /\ StagedPlanned
    /\ PlanInPlace
    /\ ForeignPlanned
    /\ TrashOwn

-----------------------------------------------------------------------------
(* The operators of ModPlan.                                               *)

Complete(reg) == \A p \in Installed(reg) : Requires[reg[p].version] \subseteq Installed(reg)

(* The versions planned are the ones recorded afterwards.                  *)
LEMMA PlannedVersion ==
    ASSUME NEW reg \in Records, NEW p \in Projects, NEW P \in SUBSET Versions,
           Plan(p, P), NEW v \in P
    PROVE  /\ ProjectOf[v] \in Installed(WithPlan(reg, p, P))
           /\ WithPlan(reg, p, P)[ProjectOf[v]].version = v
           /\ FileOf[v] \in FilesIn(WithPlan(reg, p, P))
<1> DEFINE q == ProjectOf[v]
           new == WithPlan(reg, p, P)
<1>1. q \in Projects /\ q \in Planned(P) /\ v # None
  BY ModAssumption DEF Planned
<1>2. \A w \in P : ProjectOf[w] = q => w = v
  BY DEF Plan
<1>3. (CHOOSE w \in P : ProjectOf[w] = q) = v
  BY <1>2
<1>4. new[q].version = v
  BY <1>1, <1>3 DEF WithPlan
<1>5. q \in Installed(new)
  BY <1>1, <1>4 DEF Installed
<1>6. FileOf[v] \in FilesIn(new)
  BY <1>4, <1>5 DEF FilesIn, FileIn
<1> QED
  BY <1>4, <1>5, <1>6

(* The record after an installation is a record.                           *)
LEMMA WithPlanType ==
    ASSUME NEW reg \in Records, NEW p \in Projects, NEW P \in SUBSET Versions
    PROVE  WithPlan(reg, p, P) \in Records
<1>1. ASSUME NEW q \in Projects, q \in Planned(P)
      PROVE  (CHOOSE v \in P : ProjectOf[v] = q) \in Versions
  BY <1>1 DEF Planned
<1> QED
  BY <1>1 DEF WithPlan, Records

(* An installation leaves no mod without one it requires.                  *)
LEMMA WithPlanComplete ==
    ASSUME NEW reg \in Records, NEW p \in Projects, NEW P \in SUBSET Versions,
           Plan(p, P), Complete(reg)
    PROVE  Complete(WithPlan(reg, p, P))
<1> DEFINE new == WithPlan(reg, p, P)
<1>1. Planned(P) \subseteq Installed(new)
  BY PlannedVersion DEF Planned
<1>2. Installed(reg) \subseteq Installed(new)
  <2> SUFFICES ASSUME NEW q \in Installed(reg), q \notin Planned(P)
               PROVE  q \in Installed(new)
    BY <1>1
  <2> QED
    BY DEF Installed, WithPlan
<1>3. ASSUME NEW q \in Installed(new)
      PROVE  Requires[new[q].version] \subseteq Installed(new)
  <2>1. CASE q \in Planned(P)
    <3>1. PICK v \in P : ProjectOf[v] = q
      BY <2>1 DEF Planned
    <3>2. new[q].version = v
      BY <3>1, PlannedVersion
    <3>3. Requires[v] \subseteq Planned(P)
      BY DEF Plan, Closed
    <3> QED
      BY <1>1, <3>2, <3>3
  <2>2. CASE q \notin Planned(P)
    <3>1. q \in Projects /\ new[q] = reg[q]
      BY <1>3, <2>2 DEF Installed, WithPlan
    <3>2. q \in Installed(reg)
      BY <1>3, <3>1 DEF Installed
    <3> QED
      BY <1>2, <3>1, <3>2 DEF Complete
  <2> QED
    BY <2>1, <2>2
<1> QED
  BY <1>3 DEF Complete

(* Nor does a removal, although it takes away what nobody requires.        *)
LEMMA WithoutOrphansComplete ==
    ASSUME NEW reg \in Records, NEW p \in Projects, Complete(reg)
    PROVE  WithoutOrphans(reg, p) \in Records /\ Complete(WithoutOrphans(reg, p))
<1> DEFINE un == Unmarked(reg, p)
           new == WithoutOrphans(reg, p)
<1>1. un \in Records /\ \A q \in Projects : un[q].version = reg[q].version
  BY DEF Unmarked, Records
<1>2. Installed(un) = Installed(reg)
  BY <1>1 DEF Installed
<1>3. new \in Records
  BY <1>1 DEF WithoutOrphans, Records, NotInstalled
<1>4. \A q \in Projects : q \in Installed(new) <=> q \in Retained(un)
  <2> TAKE q \in Projects
  <2>1. q \in Retained(un) => q \in Installed(reg)
    BY <1>2 DEF Retained
  <2>2. new[q] = IF q \in Orphans(reg, p) THEN NotInstalled ELSE un[q]
    BY DEF WithoutOrphans
  <2>3. q \in Orphans(reg, p) <=> q \in Installed(reg) /\ q \notin Retained(un)
    BY DEF Orphans
  <2> QED
    BY <1>1, <1>2, <2>1, <2>2, <2>3 DEF Installed, NotInstalled
<1>5. ASSUME NEW q \in Retained(un), NEW r \in Requires[reg[q].version]
      PROVE  r \in Retained(un)
  <2>1. q \in Installed(reg) /\ r \in Installed(reg)
    BY <1>2, <1>5 DEF Retained, Complete
  <2>2. ASSUME NEW S \in SUBSET Installed(un),
               {s \in Installed(un) : un[s].direct} \subseteq S, ClosedIn(un, S)
        PROVE  r \in S
    <3>1. q \in S
      BY <1>5, <2>2 DEF Retained
    <3>2. Requires[un[q].version] \cap Installed(un) \subseteq S
      BY <2>2, <3>1 DEF ClosedIn
    <3> QED
      BY <1>1, <1>2, <2>1, <3>2 DEF Installed
  <2> QED
    BY <1>2, <2>1, <2>2 DEF Retained
<1>6. ASSUME NEW q \in Installed(new)
      PROVE  Requires[new[q].version] \subseteq Installed(new)
  <2>1. q \in Projects /\ q \in Retained(un)
    BY <1>4, <1>6 DEF Installed
  <2>2. new[q].version = reg[q].version
    <3>1. q \notin Orphans(reg, p)
      BY <2>1 DEF Orphans
    <3> QED
      BY <1>1, <2>1, <3>1 DEF WithoutOrphans
  <2>3. ASSUME NEW r \in Requires[reg[q].version]
        PROVE  r \in Installed(new)
    <3>1. r \in Retained(un)
      BY <1>5, <2>1, <2>3
    <3>2. r \in Projects
      BY <3>1 DEF Retained, Installed
    <3> QED
      BY <1>4, <3>1, <3>2
  <2> QED
    BY <2>2, <2>3
<1> QED
  BY <1>3, <1>6 DEF Complete

-----------------------------------------------------------------------------
(* The initial state.                                                      *)
LEMMA InitIInv == Init => IInv
<1> SUFFICES ASSUME Init PROVE IInv
  OBVIOUS
<1>1. TypeOK
  BY ModAssumption DEF Init, TypeOK, Records, NotInstalled, Contents, NoFiles, Idle, Operations
<1>2. Installed(registry) = {}
  BY DEF Init, Installed, NotInstalled
<1>3. DependenciesInstalled
  BY <1>2 DEF DependenciesInstalled
<1> QED
  BY <1>1, <1>3 DEF Init, IInv, Idle, PlanKept, CurrentKnown, StagedPlanned, PlanInPlace,
      ForeignPlanned, TrashOwn

(* An operation that ends leaves nothing to show but types and the record. *)
LEMMA EndStep ==
    ASSUME IInv, End, registry' = registry, TypeOK'
    PROVE  IInv'
<1>1. DependenciesInstalled'
  BY DEF IInv, DependenciesInstalled, Installed
<1> QED
  BY <1>1 DEF End, Idle, IInv, PlanKept, CurrentKnown, StagedPlanned, PlanInPlace,
      ForeignPlanned, TrashOwn

(* A plan that is accepted has no file of the user's own in its way.       *)
LEMMA BeginInstallStep ==
    ASSUME IInv, NEW p \in Projects, NEW P \in SUBSET Versions, BeginInstall(p, P)
    PROVE  IInv'
<1> USE DEF BeginInstall
<1>1. op' = [Idle EXCEPT !.pc = "staging", !.project = p, !.plan = P]
  OBVIOUS
<1>2. /\ op'.pc = "staging" /\ op'.project = p /\ op'.plan = P
      /\ op'.cur = None /\ op'.published = {}
  BY <1>1 DEF Idle
<1>3. TypeOK'
  <2>1. op' \in Operations
    BY <1>1 DEF Idle, Operations
  <2> QED
    BY <2>1, ModAssumption DEF IInv, TypeOK, NoFiles, Contents
<1>4. DependenciesInstalled'
  BY DEF IInv, DependenciesInstalled, Installed
<1>5. PlanKept'
  BY <1>2 DEF PlanKept, Acceptable
<1>6. ForeignPlanned'
  <2>1. ASSUME NEW v \in P, mods[FileOf[v]] = Other
        PROVE  FileOf[v] \in FilesIn(registry)
    <3>1. v # Other /\ None # Other
      BY ModAssumption
    <3>2. ProjectOf[v] \in Installed(registry) /\ FileIn(registry, ProjectOf[v]) = FileOf[v]
      BY <2>1, <3>1 DEF Acceptable
    <3> QED
      BY <3>2 DEF FilesIn
  <2> QED
    BY <1>2, <2>1 DEF ForeignPlanned, FilesIn, Installed, FileIn
<1> QED
  BY <1>2, <1>3, <1>4, <1>5, <1>6 DEF IInv, CurrentKnown, StagedPlanned, PlanInPlace, TrashOwn

(* The next place of an operation of which nothing else changes.           *)
LEMMA ToType ==
    ASSUME TypeOK, NEW pc, To(pc),
           pc \in {"idle", "staging", "publishing", "undo", "cleanup", "installed",
                   "taking", "restoring", "sweeping"}
    PROVE  /\ op' \in Operations
           /\ op'.pc = pc /\ op'.project = op.project /\ op'.plan = op.plan
           /\ op'.cur = op.cur /\ op'.todo = op.todo /\ op'.published = op.published
  BY DEF TypeOK, Operations, To

(* What is not fetched is in place already.                                *)
LEMMA StageStep ==
    ASSUME IInv, Stage
    PROVE  IInv'
<1> DEFINE V == ToFetch(registry, mods, op.plan)
<1>1. DependenciesInstalled'
  BY DEF IInv, DependenciesInstalled, Installed, Stage
<1>2. CASE staged' = Fetched(V) /\ To("publishing")
  <2>1. /\ op' \in Operations
        /\ op'.pc = "publishing" /\ op'.project = op.project /\ op'.plan = op.plan
        /\ op'.cur = op.cur /\ op'.published = op.published
    BY <1>2, ToType DEF IInv
  <2>2. V \subseteq op.plan /\ op.plan \subseteq Versions
    BY DEF ToFetch, IInv, TypeOK, Operations
  <2>3. /\ \A v, w \in op.plan : FileOf[v] = FileOf[w] => v = w
        /\ op.cur = None /\ op.published = {}
    BY DEF Stage, IInv, PlanKept, CurrentKnown
  <2>4. ASSUME NEW f \in Files
        PROVE  /\ staged'[f] \in V \cup {None}
               /\ staged'[f] # None => FileOf[staged'[f]] = f
    BY <1>2 DEF Fetched
  <2>5. ASSUME NEW v \in V
        PROVE  staged'[FileOf[v]] = v
    <3>1. FileOf[v] \in Files
      BY <2>2, ModAssumption
    <3>2. (CHOOSE w \in V : FileOf[w] = FileOf[v]) = v
      BY <2>2, <2>3
    <3> QED
      BY <1>2, <3>1, <3>2 DEF Fetched
  <2>6. ASSUME NEW v \in op.plan
        PROVE  staged'[FileOf[v]] = v \/ mods'[FileOf[v]] = v
    <3>1. CASE v \in V
      BY <2>5, <3>1
    <3>2. CASE v \notin V
      BY <3>2 DEF ToFetch, Stage
    <3> QED
      BY <3>1, <3>2
  <2>7. TypeOK'
    <3>1. staged' \in [Files -> Versions \cup {None}]
      BY <1>2, <2>2, <2>4 DEF Fetched
    <3> QED
      BY <2>1, <3>1 DEF Stage, IInv, TypeOK
  <2>8. PlanKept' /\ CurrentKnown' /\ TrashOwn'
    BY <2>1, <2>3 DEF Stage, IInv, PlanKept, CurrentKnown, TrashOwn
  <2>9. StagedPlanned' /\ PlanInPlace'
    BY <2>1, <2>2, <2>4, <2>6 DEF StagedPlanned, PlanInPlace
  <2>10. ForeignPlanned'
    BY <2>1, <2>3 DEF Stage, IInv, ForeignPlanned, FilesIn, Installed, FileIn
  <2> QED
    BY <1>1, <2>7, <2>8, <2>9, <2>10 DEF IInv
<1>3. CASE UNCHANGED staged /\ To("cleanup")
  <2>1. op' \in Operations /\ op'.pc = "cleanup"
    BY <1>3, ToType DEF IInv
  <2> QED
    BY <1>1, <1>3, <2>1 DEF Stage, IInv, TypeOK, PlanKept, CurrentKnown, StagedPlanned,
        PlanInPlace, ForeignPlanned, TrashOwn
<1> QED
  BY <1>2, <1>3 DEF Stage

-----------------------------------------------------------------------------
(* Publication. What its steps have in common: the record, the project and *)
(* the plan stay, files of the plan stay staged or in place, and no file   *)
(* becomes the user's own.                                                 *)
LEMMA PublishingStep ==
    ASSUME IInv, op.pc = "publishing", op' \in Operations, op'.pc = "publishing",
           op'.project = op.project, op'.plan = op.plan, registry' = registry,
           touched' = touched, trash' = trash,
           mods' \in [Files -> Contents], staged' \in [Files -> Versions \cup {None}],
           backups' \in [Files -> Contents], owed' \subseteq Files \X Contents,
           op'.cur = None \/ staged' # NoFiles
               \/ (staged = NoFiles /\ op'.cur \in FilesIn(registry) \ FilesIn(NewRecord)),
           \A f \in Files : staged'[f] \in {staged[f], None},
           \A v \in op.plan :
               staged[FileOf[v]] = v \/ mods[FileOf[v]] = v =>
                   staged'[FileOf[v]] = v \/ mods'[FileOf[v]] = v,
           \A f \in Files : mods'[f] = Other => mods[f] = Other,
           \A f \in op'.published : f \in op.published \/ mods'[f] # Other
    PROVE  IInv'
<1>1. DependenciesInstalled'
  BY DEF IInv, DependenciesInstalled, Installed
<1>2. TypeOK'
  BY DEF IInv, TypeOK
<1>3. FilesIn(registry)' = FilesIn(registry) /\ NewRecord' = NewRecord
  BY DEF FilesIn, FileIn, Installed, NewRecord
<1>4. FilesIn(NewRecord)' = FilesIn(NewRecord)
  BY <1>3 DEF FilesIn, FileIn, Installed
<1>5. PlanKept'
  BY DEF IInv, PlanKept
<1>6. CurrentKnown'
  BY <1>3, <1>4 DEF CurrentKnown, NoFiles
<1>7. StagedPlanned'
  BY DEF IInv, StagedPlanned
<1>8. PlanInPlace'
  BY DEF IInv, PlanInPlace
<1>9. ForeignPlanned'
  <2>1. ASSUME NEW v \in op.plan, mods'[FileOf[v]] = Other
        PROVE  FileOf[v] \in FilesIn(registry) \cup touched
    <3>1. FileOf[v] \in Files
      BY ModAssumption DEF IInv, TypeOK, Operations
    <3> QED
      BY <2>1, <3>1 DEF IInv, ForeignPlanned
  <2>2. ASSUME NEW f \in op'.published, mods'[f] = Other
        PROVE  f \in touched
    <3>1. f \in Files
      BY DEF Operations
    <3> QED
      BY <2>2, <3>1 DEF IInv, ForeignPlanned
  <2> QED
    BY <1>3, <2>1, <2>2 DEF ForeignPlanned
<1> QED
  BY <1>1, <1>2, <1>5, <1>6, <1>7, <1>8, <1>9 DEF IInv, TrashOwn

(* What is moved away is a file with its content.                          *)
LEMMA OwesType ==
    ASSUME TypeOK, NEW f \in Files, Owes(f)
    PROVE  owed' \subseteq Files \X Contents
<1>1. <<f, mods[f]>> \in Files \X Contents
  BY DEF TypeOK
<1> QED
  BY <1>1 DEF Owes, TypeOK

(* A planned file is named by the new record.                              *)
LEMMA PlannedFile ==
    ASSUME IInv, op.pc = "publishing", NEW v \in op.plan
    PROVE  FileOf[v] \in Files /\ FileOf[v] \in FilesIn(NewRecord)
<1>1. op.plan \in SUBSET Versions /\ registry \in Records
  BY DEF IInv, TypeOK, Operations
<1>2. op.project \in Projects /\ Plan(op.project, op.plan)
  BY DEF IInv, PlanKept
<1>3. FileOf[v] \in FilesIn(WithPlan(registry, op.project, op.plan))
  BY <1>1, <1>2, PlannedVersion
<1> QED
  BY <1>1, <1>3, ModAssumption DEF NewRecord

(* A file in the way of a staged one is moved; the staged one remains.     *)
LEMMA BackupStep ==
    ASSUME IInv, NEW f \in Files, Backup(f)
    PROVE  IInv'
<1>1. op' = [op EXCEPT !.cur = f] /\ op \in Operations
  BY DEF Backup, IInv, TypeOK
<1>2. /\ op' \in Operations /\ op'.pc = "publishing" /\ op'.project = op.project
      /\ op'.plan = op.plan /\ op'.published = op.published
  BY <1>1 DEF Operations, Backup
<1>3. mods' = [mods EXCEPT ![f] = None] /\ backups' = [backups EXCEPT ![f] = mods[f]]
  BY DEF Backup, Gone, Moved
<1>4. /\ mods \in [Files -> Contents] /\ backups \in [Files -> Contents]
      /\ staged \in [Files -> Versions \cup {None}]
  BY DEF IInv, TypeOK
<1>5. mods' \in [Files -> Contents] /\ backups' \in [Files -> Contents]
  BY <1>3, <1>4 DEF Contents
<1>6. ASSUME NEW v \in op.plan, FileOf[v] = f
      PROVE  staged[f] = v
  <2>1. staged[f] \in op.plan /\ FileOf[staged[f]] = f
    BY DEF Backup, IInv, StagedPlanned
  <2> QED
    BY <1>6, <2>1 DEF Backup, IInv, PlanKept
<1>7. ASSUME NEW v \in op.plan, staged[FileOf[v]] = v \/ mods[FileOf[v]] = v
      PROVE  staged'[FileOf[v]] = v \/ mods'[FileOf[v]] = v
  <2>1. FileOf[v] \in Files
    BY PlannedFile DEF Backup
  <2> QED
    BY <1>3, <1>4, <1>6, <1>7, <2>1 DEF Backup
<1>8. \A g \in Files : mods'[g] = Other => mods[g] = Other
  BY <1>3, <1>4, ModAssumption
<1>9. staged' # NoFiles /\ staged' = staged
  BY DEF Backup, NoFiles
<1>10. owed' \subseteq Files \X Contents
  BY <1>4, OwesType DEF Backup, IInv
<1> QED
  BY <1>2, <1>4, <1>5, <1>7, <1>8, <1>9, <1>10, PublishingStep DEF Backup

(* Nothing is in the way: nothing changes but the file the operation is    *)
(* busy with.                                                              *)
LEMMA VacantStep ==
    ASSUME IInv, NEW f \in Files, Vacant(f)
    PROVE  IInv'
<1>1. op' = [op EXCEPT !.cur = f] /\ op \in Operations
  BY DEF Vacant, IInv, TypeOK
<1>2. /\ op' \in Operations /\ op'.pc = "publishing" /\ op'.project = op.project
      /\ op'.plan = op.plan /\ op'.published = op.published
  BY <1>1 DEF Operations, Vacant
<1>3. staged' # NoFiles /\ staged' = staged
  BY DEF Vacant, NoFiles, staging
<1> QED
  BY <1>2, <1>3, PublishingStep DEF Vacant, staging, IInv, TypeOK

(* A staged file is put in place.                                          *)
LEMMA PublishStep ==
    ASSUME IInv, NEW f \in Files, Publish(f)
    PROVE  IInv'
<1>1. op' = [op EXCEPT !.cur = None, !.published = @ \cup {f}] /\ op \in Operations
  BY DEF Publish, IInv, TypeOK
<1>2. /\ op'.pc = "publishing" /\ op'.project = op.project
      /\ op'.plan = op.plan /\ op'.cur = None /\ op'.published = op.published \cup {f}
  BY <1>1 DEF Operations, Publish
<1>12. op' \in Operations
  <2>1. op.published \cup {f} \in SUBSET Files
    BY <1>1 DEF Operations
  <2> QED
    BY <1>1, <2>1 DEF Operations
<1>3. mods' = [mods EXCEPT ![f] = staged[f]] /\ staged' = [staged EXCEPT ![f] = None]
  BY DEF Publish, Gone, Moved
<1>4. mods \in [Files -> Contents] /\ staged \in [Files -> Versions \cup {None}]
  BY DEF IInv, TypeOK
<1>5. mods' \in [Files -> Contents] /\ staged' \in [Files -> Versions \cup {None}]
  BY <1>3, <1>4 DEF Contents
<1>6. staged[f] \in op.plan /\ FileOf[staged[f]] = f
  BY DEF Publish, IInv, StagedPlanned
<1>7. ASSUME NEW v \in op.plan, staged[FileOf[v]] = v \/ mods[FileOf[v]] = v
      PROVE  staged'[FileOf[v]] = v \/ mods'[FileOf[v]] = v
  <2>1. FileOf[v] \in Files
    BY PlannedFile DEF Publish
  <2>2. FileOf[v] = f => v = staged[f]
    BY <1>6 DEF Publish, IInv, PlanKept
  <2> QED
    BY <1>3, <1>4, <1>7, <2>1, <2>2
<1>8. staged[f] # Other
  BY <1>4, ModAssumption
<1>9. \A g \in Files : mods'[g] = Other => mods[g] = Other
  BY <1>3, <1>4, <1>8
<1>10. \A g \in Files : staged'[g] \in {staged[g], None}
  BY <1>3, <1>4
<1>11. \A g \in op'.published : g \in op.published \/ mods'[g] # Other
  BY <1>2, <1>3, <1>4, <1>8
<1> QED
  BY <1>2, <1>5, <1>7, <1>9, <1>10, <1>11, <1>12, PublishingStep DEF Publish, IInv, TypeOK

(* The file recognised is one the new record does not name.                *)
LEMMA RecogniseStep ==
    ASSUME IInv, NEW f \in Files, Recognise(f)
    PROVE  IInv'
<1>1. op' = [op EXCEPT !.cur = f] /\ op \in Operations
  BY DEF Recognise, IInv, TypeOK
<1>2. /\ op' \in Operations /\ op'.pc = "publishing" /\ op'.project = op.project
      /\ op'.plan = op.plan /\ op'.published = op.published /\ op'.cur = f
  BY <1>1 DEF Operations, Recognise, Published
<1>3. f \in FilesIn(registry) \ FilesIn(NewRecord) /\ staged = NoFiles
  BY DEF Recognise, Published, Outdated
<1> QED
  BY <1>2, <1>3, PublishingStep DEF Recognise, Published, staging, IInv, TypeOK

(* The file moved away is none of the plan's.                              *)
LEMMA RetireStep ==
    ASSUME IInv, NEW f \in Files, Retire(f)
    PROVE  IInv'
<1>1. op' = [op EXCEPT !.cur = None] /\ op \in Operations
  BY DEF Retire, IInv, TypeOK
<1>2. /\ op' \in Operations /\ op'.pc = "publishing" /\ op'.project = op.project
      /\ op'.plan = op.plan /\ op'.published = op.published /\ op'.cur = None
  BY <1>1 DEF Operations, Retire, Published
<1>3. mods' = [mods EXCEPT ![f] = None] /\ backups' = [backups EXCEPT ![f] = mods[f]]
  BY DEF Retire, Gone, Moved
<1>4. /\ mods \in [Files -> Contents] /\ backups \in [Files -> Contents]
      /\ staged \in [Files -> Versions \cup {None}]
  BY DEF IInv, TypeOK
<1>5. mods' \in [Files -> Contents] /\ backups' \in [Files -> Contents]
  BY <1>3, <1>4 DEF Contents
<1>6. f \notin FilesIn(NewRecord)
  BY ModAssumption DEF Retire, Published, IInv, CurrentKnown
<1>7. ASSUME NEW v \in op.plan, staged[FileOf[v]] = v \/ mods[FileOf[v]] = v
      PROVE  staged'[FileOf[v]] = v \/ mods'[FileOf[v]] = v
  <2>1. FileOf[v] \in Files /\ FileOf[v] # f
    BY <1>6, PlannedFile DEF Retire, Published
  <2> QED
    BY <1>3, <1>4, <1>7, <2>1 DEF Retire
<1>8. \A g \in Files : mods'[g] = Other => mods[g] = Other
  BY <1>3, <1>4, ModAssumption
<1>9. owed' \subseteq Files \X Contents
  BY <1>4, OwesType DEF Retire, IInv
<1> QED
  BY <1>2, <1>4, <1>5, <1>7, <1>8, <1>9, PublishingStep DEF Retire, Published

(* The record is replaced: all that was planned is in place.               *)
LEMMA SaveInstalledStep ==
    ASSUME IInv, SaveInstalled
    PROVE  IInv'
<1>1. /\ op' \in Operations /\ op'.pc = "installed" /\ op'.project = op.project
      /\ op'.plan = op.plan
  BY ToType DEF SaveInstalled, IInv
<1>2. /\ op.pc = "publishing" /\ staged = NoFiles /\ staged' = staged
      /\ mods' = mods /\ touched' = touched /\ registry' = NewRecord
  BY DEF SaveInstalled, Published, staging
<1>3. op.project \in Projects /\ Plan(op.project, op.plan)
  BY <1>2 DEF IInv, PlanKept
<1>4. op.plan \in SUBSET Versions /\ registry \in Records
  BY DEF IInv, TypeOK, Operations
<1>5. registry' \in Records
  BY <1>2, <1>3, <1>4, WithPlanType DEF NewRecord
<1>6. TypeOK'
  BY <1>1, <1>2, <1>5 DEF SaveInstalled, staging, IInv, TypeOK
<1>7. DependenciesInstalled'
  <2>1. Complete(registry)
    BY DEF IInv, DependenciesInstalled, Complete
  <2>2. Complete(WithPlan(registry, op.project, op.plan))
    BY <1>3, <1>4, <2>1, WithPlanComplete
  <2> QED
    BY <1>2, <2>2 DEF NewRecord, Complete, DependenciesInstalled, Installed
<1>8. PlanInPlace'
  <2>1. ASSUME NEW v \in op.plan
        PROVE  mods[FileOf[v]] = v \/ FileOf[v] \in touched
    <3>1. v # None /\ FileOf[v] \in Files
      BY <1>4, ModAssumption
    <3>2. staged[FileOf[v]] # v
      BY <1>2, <3>1 DEF NoFiles
    <3> QED
      BY <1>2, <3>2 DEF IInv, PlanInPlace
  <2> QED
    BY <1>1, <1>2, <2>1 DEF PlanInPlace, NoFiles
<1>9. PlanKept'
  BY <1>1, <1>2 DEF IInv, PlanKept
<1> QED
  BY <1>1, <1>6, <1>7, <1>8, <1>9 DEF IInv, CurrentKnown, StagedPlanned, ForeignPlanned, TrashOwn

-----------------------------------------------------------------------------
(* Rollback, cleanup and the end. Where an operation cannot succeed any    *)
(* more, the record stays and nothing new is published.                    *)
LEMMA FailedStep ==
    ASSUME IInv, TypeOK', registry' = registry, touched' = touched,
           \/ op'.pc \in {"cleanup", "restoring"}
           \/ /\ op.pc \in {"publishing", "undo"} /\ op'.pc = "undo"
              /\ op'.published \subseteq op.published
              /\ \A f \in op'.published : mods'[f] = Other => mods[f] = Other
    PROVE  IInv'
<1>1. DependenciesInstalled'
  BY DEF IInv, DependenciesInstalled, Installed
<1>2. ForeignPlanned'
  BY DEF IInv, ForeignPlanned
<1> QED
  BY <1>1, <1>2 DEF IInv, PlanKept, CurrentKnown, StagedPlanned, PlanInPlace, TrashOwn

(* A failure during publication starts the rollback.                       *)
LEMMA PublishFailsStep ==
    ASSUME IInv, PublishFails
    PROVE  IInv'
<1>1. op' \in Operations /\ op'.pc = "undo" /\ op'.published = op.published
  BY ToType DEF PublishFails, IInv
<1>2. TypeOK'
  BY <1>1 DEF PublishFails, staging, IInv, TypeOK
<1> QED
  BY <1>1, <1>2, FailedStep DEF PublishFails

(* The rollback removes a published file.                                  *)
LEMMA UndoPublishedStep ==
    ASSUME IInv, NEW f \in Files, UndoPublished(f)
    PROVE  IInv'
<1>1. op' = [op EXCEPT !.published = @ \ {f}] /\ op \in Operations
  BY DEF UndoPublished, IInv, TypeOK
<1>2. op'.pc = "undo" /\ op'.published = op.published \ {f}
  BY <1>1 DEF Operations, UndoPublished
<1>3. op' \in Operations
  <2>1. op.published \ {f} \in SUBSET Files
    BY <1>1 DEF Operations
  <2> QED
    BY <1>1, <2>1 DEF Operations
<1>4. mods' = [mods EXCEPT ![f] = None] /\ mods \in [Files -> Contents]
  BY DEF UndoPublished, Gone, IInv, TypeOK
<1>5. mods' \in [Files -> Contents]
  BY <1>4 DEF Contents
<1>6. TypeOK'
  BY <1>3, <1>5 DEF UndoPublished, staging, IInv, TypeOK
<1>7. \A g \in op'.published : mods'[g] = Other => mods[g] = Other
  BY <1>2, <1>3, <1>4 DEF Operations
<1> QED
  BY <1>2, <1>6, <1>7, FailedStep DEF UndoPublished

(* The rollback moves a file back.                                         *)
LEMMA UndoMovedStep ==
    ASSUME IInv, NEW f \in Files, UndoMoved(f)
    PROVE  IInv'
<1>1. /\ mods' = [mods EXCEPT ![f] = backups[f]] /\ mods \in [Files -> Contents]
      /\ backups' = [backups EXCEPT ![f] = None] /\ backups \in [Files -> Contents]
  BY DEF UndoMoved, Moved, Gone, IInv, TypeOK
<1>2. mods' \in [Files -> Contents] /\ backups' \in [Files -> Contents]
  BY <1>1 DEF Contents
<1>3. owed' \subseteq Files \X Contents
  BY DEF UndoMoved, Returns, IInv, TypeOK
<1>4. TypeOK'
  BY <1>2, <1>3 DEF UndoMoved, IInv, TypeOK
<1> QED
  BY <1>4, FailedStep DEF UndoMoved

(* The rollback ends.                                                      *)
LEMMA UndoEndsStep ==
    ASSUME IInv, UndoEnds
    PROVE  IInv'
<1>1. op' \in Operations /\ op'.pc = "cleanup"
  BY ToType DEF UndoEnds, IInv
<1>2. TypeOK'
  BY <1>1 DEF UndoEnds, staging, IInv, TypeOK
<1> QED
  BY <1>1, <1>2, FailedStep DEF UndoEnds

(* The end of an operation has its type.                                   *)
LEMMA EndType ==
    ASSUME End
    PROVE  op' \in Operations /\ touched' \subseteq Files
  BY DEF End, Idle, Operations

(* The staging directory is deleted, or left.                              *)
LEMMA CleanUpStep ==
    ASSUME IInv, CleanUp
    PROVE  IInv'
<1>1. End /\ registry' = registry /\ op' \in Operations /\ touched' \subseteq Files
  BY EndType DEF CleanUp
<1>2. staged' \in [Files -> Versions \cup {None}] /\ backups' \in [Files -> Contents]
  BY DEF CleanUp, NoFiles, Contents, IInv, TypeOK
<1>3. TypeOK'
  BY <1>1, <1>2 DEF CleanUp, IInv, TypeOK
<1> QED
  BY <1>1, <1>3, EndStep

-----------------------------------------------------------------------------
(* Removal.                                                                *)
LEMMA BeginRemoveStep ==
    ASSUME IInv, NEW p \in Projects, BeginRemove(p)
    PROVE  IInv'
<1>1. op' = [Idle EXCEPT !.pc = "taking", !.project = p, !.todo = Orphans(registry, p)]
  BY DEF BeginRemove
<1>2. /\ op'.pc = "taking" /\ op'.project = p /\ op'.cur = None
      /\ op'.todo \subseteq Installed(registry)
  BY <1>1 DEF Idle, Orphans
<1>3. op' \in Operations
  <2>1. Orphans(registry, p) \in SUBSET Projects
    BY DEF Orphans, Installed
  <2> QED
    BY <1>1, <2>1 DEF Idle, Operations
<1>4. trash' \in [Files -> Contents] /\ \A f \in Files : trash'[f] # Other
  BY ModAssumption DEF BeginRemove, NoFiles, Contents
<1>5. TypeOK'
  BY <1>3, <1>4 DEF BeginRemove, IInv, TypeOK
<1>6. DependenciesInstalled'
  BY DEF BeginRemove, IInv, DependenciesInstalled, Installed
<1>7. CurrentKnown'
  BY <1>2 DEF BeginRemove, CurrentKnown, Installed
<1> QED
  BY <1>2, <1>4, <1>5, <1>6, <1>7 DEF IInv, PlanKept, StagedPlanned, PlanInPlace,
      ForeignPlanned, TrashOwn

(* A removal that goes on: its project stays, and what it has taken is the *)
(* launcher's own.                                                         *)
LEMMA TakingStep ==
    ASSUME IInv, TypeOK', op.pc = "taking", op'.pc = "taking", registry' = registry,
           op'.project = op.project, op'.todo \subseteq op.todo,
           op'.cur \in op.todo \cup {op.cur, None},
           \A f \in Files : trash'[f] # Other
    PROVE  IInv'
<1>1. DependenciesInstalled'
  BY DEF IInv, DependenciesInstalled, Installed
<1>2. CurrentKnown'
  BY DEF IInv, CurrentKnown, Installed
<1> QED
  BY <1>1, <1>2 DEF IInv, PlanKept, StagedPlanned, PlanInPlace, ForeignPlanned, TrashOwn

(* A project's file is checked before it is taken.                         *)
LEMMA CheckStep ==
    ASSUME IInv, NEW q \in Projects, Check(q)
    PROVE  IInv'
<1>1. op \in Operations /\ op.pc = "taking" /\ op.todo \ {q} \in SUBSET Projects
  BY DEF Check, IInv, TypeOK, Operations
<1>2. \A f \in Files : trash'[f] # Other
  BY <1>1 DEF Check, staging, IInv, TrashOwn
<1>3. CASE op' = [op EXCEPT !.todo = @ \ {q}] /\ UNCHANGED touched
  <2>1. /\ op' \in Operations /\ op'.pc = "taking" /\ op'.project = op.project
        /\ op'.cur = op.cur /\ op'.todo \subseteq op.todo
    BY <1>1, <1>3 DEF Operations
  <2>2. TypeOK'
    BY <1>3, <2>1 DEF Check, staging, IInv, TypeOK
  <2> QED
    BY <1>1, <1>2, <2>1, <2>2, TakingStep DEF Check
<1>4. CASE op' = [op EXCEPT !.cur = q] /\ UNCHANGED touched
  <2>1. /\ op' \in Operations /\ op'.pc = "taking" /\ op'.project = op.project
        /\ op'.cur = q /\ q \in op.todo /\ op'.todo = op.todo
    BY <1>1, <1>4 DEF Operations, Check
  <2>2. TypeOK'
    BY <1>4, <2>1 DEF Check, staging, IInv, TypeOK
  <2> QED
    BY <1>1, <1>2, <2>1, <2>2, TakingStep DEF Check
<1>5. CASE End
  <2>1. TypeOK'
    BY <1>5, EndType DEF Check, staging, IInv, TypeOK
  <2> QED
    BY <1>5, <2>1, EndStep DEF Check
<1> QED
  BY <1>3, <1>4, <1>5 DEF Check

(* Only what has the recorded content counts as taken.                     *)
LEMMA TakeStep ==
    ASSUME IInv, NEW f \in Files, Take(f)
    PROVE  IInv'
<1>1. op \in Operations /\ op.pc = "taking" /\ op.cur # None
  BY DEF Take, IInv, TypeOK
<1>2. op.cur \in Installed(registry) /\ op.cur \in Projects
  BY <1>1 DEF IInv, CurrentKnown, Installed
<1>3. /\ mods' = [mods EXCEPT ![f] = None] /\ mods \in [Files -> Contents]
      /\ trash' = [trash EXCEPT ![f] = mods[f]] /\ trash \in [Files -> Contents]
  BY DEF Take, Moved, Gone, IInv, TypeOK
<1>4. mods' \in [Files -> Contents] /\ trash' \in [Files -> Contents]
  BY <1>3 DEF Contents
<1>5. owed' \subseteq Files \X Contents
  BY OwesType DEF Take, IInv
<1>6. CASE /\ mods[f] = registry[op.cur].version
           /\ op' = [op EXCEPT !.todo = @ \ {op.cur}, !.cur = None]
  <2>1. op.todo \ {op.cur} \in SUBSET Projects
    BY <1>1 DEF Operations
  <2>2. /\ op' \in Operations /\ op'.pc = "taking" /\ op'.project = op.project
        /\ op'.cur = None /\ op'.todo \subseteq op.todo
    BY <1>1, <1>6, <2>1 DEF Operations
  <2>3. TypeOK'
    BY <1>4, <1>5, <2>2 DEF Take, IInv, TypeOK
  <2>4. mods[f] # Other
    BY <1>2, <1>6, ModAssumption DEF Installed, IInv, TypeOK, Records
  <2>5. \A g \in Files : trash'[g] # Other
    BY <1>1, <1>3, <2>4 DEF IInv, TrashOwn
  <2> QED
    BY <1>1, <2>2, <2>3, <2>5, TakingStep DEF Take
<1>7. CASE To("restoring")
  <2>1. op' \in Operations /\ op'.pc = "restoring"
    BY <1>7, ToType DEF IInv
  <2>2. TypeOK'
    BY <1>4, <1>5, <2>1 DEF Take, IInv, TypeOK
  <2> QED
    BY <2>1, <2>2, FailedStep DEF Take
<1> QED
  BY <1>6, <1>7 DEF Take

(* The record is replaced: what is left in it does not need what is gone.  *)
LEMMA SaveRemovedStep ==
    ASSUME IInv, SaveRemoved
    PROVE  IInv'
<1>1. op' \in Operations /\ op'.pc = "sweeping" /\ op.pc = "taking"
  BY ToType DEF SaveRemoved, IInv
<1>2. op.project \in Projects /\ registry \in Records /\ Complete(registry)
  BY <1>1 DEF IInv, CurrentKnown, TypeOK, DependenciesInstalled, Complete
<1>3. registry' \in Records /\ Complete(registry')
  BY <1>2, WithoutOrphansComplete DEF SaveRemoved
<1>4. TypeOK'
  BY <1>1, <1>3 DEF SaveRemoved, staging, IInv, TypeOK
<1>5. DependenciesInstalled'
  BY <1>3 DEF DependenciesInstalled, Complete, Installed
<1>6. TrashOwn'
  BY <1>1 DEF SaveRemoved, staging, IInv, TrashOwn
<1> QED
  BY <1>1, <1>4, <1>5, <1>6 DEF IInv, PlanKept, CurrentKnown, StagedPlanned, PlanInPlace,
      ForeignPlanned

(* A failure of the removal starts its rollback.                           *)
LEMMA RemoveFailsStep ==
    ASSUME IInv, RemoveFails
    PROVE  IInv'
<1>1. op' \in Operations /\ op'.pc = "restoring"
  BY ToType DEF RemoveFails, IInv
<1>2. TypeOK'
  BY <1>1 DEF RemoveFails, staging, IInv, TypeOK
<1> QED
  BY <1>1, <1>2, FailedStep DEF RemoveFails

(* The rollback of a removal moves a file back.                            *)
LEMMA RestoreStep ==
    ASSUME IInv, NEW f \in Files, Restore(f)
    PROVE  IInv'
<1>1. /\ mods' = [mods EXCEPT ![f] = trash[f]] /\ mods \in [Files -> Contents]
      /\ trash' = [trash EXCEPT ![f] = None] /\ trash \in [Files -> Contents]
  BY DEF Restore, Moved, Gone, IInv, TypeOK
<1>2. mods' \in [Files -> Contents] /\ trash' \in [Files -> Contents]
  BY <1>1 DEF Contents
<1>3. owed' \subseteq Files \X Contents
  BY DEF Restore, Returns, IInv, TypeOK
<1>4. TypeOK'
  BY <1>2, <1>3 DEF Restore, IInv, TypeOK
<1> QED
  BY <1>4, FailedStep DEF Restore

(* The rollback of a removal ends.                                         *)
LEMMA RestoreEndsStep ==
    ASSUME IInv, RestoreEnds
    PROVE  IInv'
<1>1. TypeOK'
  BY EndType DEF RestoreEnds, staging, IInv, TypeOK
<1> QED
  BY <1>1, EndStep DEF RestoreEnds

(* What was taken is deleted, or left.                                     *)
LEMMA SweepStep ==
    ASSUME IInv, Sweep
    PROVE  IInv'
<1>1. trash' \in [Files -> Contents]
  BY DEF Sweep, NoFiles, Contents, IInv, TypeOK
<1>2. TypeOK'
  BY <1>1, EndType DEF Sweep, IInv, TypeOK
<1> QED
  BY <1>2, EndStep DEF Sweep

-----------------------------------------------------------------------------
(* The user's edits and the death of the launcher.                         *)
LEMMA EditStep ==
    ASSUME IInv, NEW f \in Files, NEW c \in {Other, None}, Edit(f, c)
    PROVE  IInv'
<1>1. /\ mods' = [mods EXCEPT ![f] = c] /\ mods \in [Files -> Contents]
      /\ registry' = registry /\ op' = op /\ owed' = owed
      /\ staged' = staged /\ backups' = backups /\ trash' = trash
      /\ touched' = IF op.pc = "idle" THEN {} ELSE touched \cup {f}
  BY DEF Edit, staging, IInv, TypeOK
<1>2. mods' \in [Files -> Contents] /\ touched' \subseteq Files
  BY <1>1 DEF Contents, IInv, TypeOK
<1>3. TypeOK'
  BY <1>1, <1>2 DEF IInv, TypeOK
<1>4. DependenciesInstalled'
  BY <1>1 DEF IInv, DependenciesInstalled, Installed
<1>5. FilesIn(registry)' = FilesIn(registry) /\ FilesIn(NewRecord)' = FilesIn(NewRecord)
  BY <1>1 DEF FilesIn, FileIn, Installed, NewRecord
<1>6. PlanKept' /\ StagedPlanned' /\ TrashOwn'
  BY <1>1 DEF IInv, PlanKept, StagedPlanned, TrashOwn
<1>7. CurrentKnown'
  BY <1>1, <1>5 DEF IInv, CurrentKnown, Installed
<1>8. CASE op.pc = "idle"
  BY <1>1, <1>3, <1>4, <1>6, <1>7, <1>8 DEF IInv, PlanInPlace, ForeignPlanned
<1>9. CASE op.pc # "idle"
  <2>1. touched' = touched \cup {f}
    BY <1>1, <1>9
  <2>2. \A g \in Files : g \notin touched' => mods'[g] = mods[g]
    BY <1>1, <2>1
  <2>3. \A v \in op.plan : FileOf[v] \in Files
    BY ModAssumption DEF IInv, TypeOK, Operations
  <2>4. PlanInPlace'
    BY <1>1, <2>1, <2>2, <2>3 DEF IInv, PlanInPlace
  <2>5. op.published \subseteq Files
    BY DEF IInv, TypeOK, Operations
  <2>6. ForeignPlanned'
    BY <1>1, <1>5, <2>1, <2>2, <2>3, <2>5 DEF IInv, ForeignPlanned
  <2> QED
    BY <1>3, <1>4, <1>6, <1>7, <2>4, <2>6 DEF IInv
<1> QED
  BY <1>8, <1>9

(* A crash leaves the files and the record as they are.                    *)
LEMMA CrashStep ==
    ASSUME IInv, Crash
    PROVE  IInv'
<1>1. TypeOK'
  BY EndType DEF Crash, staging, IInv, TypeOK
<1> QED
  BY <1>1, EndStep DEF Crash

(* Nothing changes.                                                        *)
LEMMA StutterStep ==
    ASSUME IInv, UNCHANGED vars
    PROVE  IInv'
<1>1. TypeOK' /\ DependenciesInstalled'
  BY DEF vars, staging, IInv, TypeOK, DependenciesInstalled, Installed
<1>2. FilesIn(registry)' = FilesIn(registry) /\ FilesIn(NewRecord)' = FilesIn(NewRecord)
  BY DEF vars, FilesIn, FileIn, Installed, NewRecord
<1>3. PlanKept' /\ StagedPlanned' /\ PlanInPlace' /\ TrashOwn'
  BY DEF vars, staging, IInv, PlanKept, StagedPlanned, PlanInPlace, TrashOwn
<1>4. CurrentKnown' /\ ForeignPlanned'
  BY <1>2 DEF vars, staging, IInv, CurrentKnown, ForeignPlanned, Installed
<1> QED
  BY <1>1, <1>3, <1>4 DEF IInv

-----------------------------------------------------------------------------
(* Every step preserves the inductive invariant.                           *)
LEMMA NextIInv == IInv /\ [Next]_vars => IInv'
<1> SUFFICES ASSUME IInv, [Next]_vars PROVE IInv'
  OBVIOUS
<1>1. CASE Installing
  <2>1. CASE \E p \in Projects, P \in SUBSET Versions : BeginInstall(p, P)
    BY <2>1, BeginInstallStep
  <2>2. CASE Stage \/ SaveInstalled
    BY <2>2, StageStep, SaveInstalledStep
  <2>3. CASE \E f \in Files : Backup(f) \/ Vacant(f) \/ Publish(f)
    BY <2>3, BackupStep, VacantStep, PublishStep
  <2>4. CASE \E f \in Files : Recognise(f) \/ Retire(f)
    BY <2>4, RecogniseStep, RetireStep
  <2>5. CASE \E f \in Files : UndoPublished(f) \/ UndoMoved(f)
    BY <2>5, UndoPublishedStep, UndoMovedStep
  <2>6. CASE PublishFails \/ UndoEnds \/ CleanUp
    BY <2>6, PublishFailsStep, UndoEndsStep, CleanUpStep
  <2> QED
    BY <1>1, <2>1, <2>2, <2>3, <2>4, <2>5, <2>6 DEF Installing
<1>2. CASE Removing
  <2>1. CASE \E p \in Projects : BeginRemove(p) \/ Check(p)
    BY <2>1, BeginRemoveStep, CheckStep
  <2>2. CASE \E f \in Files : Take(f) \/ Restore(f)
    BY <2>2, TakeStep, RestoreStep
  <2>3. CASE SaveRemoved \/ RemoveFails \/ RestoreEnds \/ Sweep
    BY <2>3, SaveRemovedStep, RemoveFailsStep, RestoreEndsStep, SweepStep
  <2> QED
    BY <1>2, <2>1, <2>2, <2>3 DEF Removing
<1>3. CASE Editing
  BY <1>3, EditStep DEF Editing
<1>4. CASE Crash
  BY <1>4, CrashStep
<1>5. CASE UNCHANGED vars
  BY <1>5, StutterStep
<1> QED
  BY <1>1, <1>2, <1>3, <1>4, <1>5 DEF Next

(* The inductive invariant holds in every reachable state.                 *)
THEOREM Invariance == Spec => []IInv
  BY InitIInv, NextIInv, PTL DEF Spec

(* Every variable has its type.                                            *)
THEOREM TypeCorrect == Spec => []TypeOK
<1>1. IInv => TypeOK
  BY DEF IInv
<1> QED
  BY <1>1, Invariance, PTL

(* No removal, update or failure leaves a mod without a mod it requires:   *)
(* cleanup_orphan_registry keeps what is still needed.                     *)
THEOREM DependenciesAlwaysInstalled == Spec => []DependenciesInstalled
<1>1. IInv => DependenciesInstalled
  BY DEF IInv
<1> QED
  BY <1>1, Invariance, PTL

(* What remove_modrinth_project deletes for good is what the launcher      *)
(* installed, whoever edits the directory while it works.                  *)
THEOREM RemovalAlwaysDeletesOwn == Spec => []RemovalDeletesOwn
<1>1. IInv => RemovalDeletesOwn
  BY DEF IInv, TrashOwn, RemovalDeletesOwn
<1> QED
  BY <1>1, Invariance, PTL

(* An installation reports success only with every planned JAR in place.   *)
THEOREM InstalledFilesAlwaysPresent == Spec => []InstalledFilesPresent
<1>1. IInv => InstalledFilesPresent
  <2> SUFFICES ASSUME IInv, op.pc = "installed", NEW v \in op.plan
               PROVE  mods[FileOf[v]] = v \/ FileOf[v] \in touched
    BY DEF InstalledFilesPresent
  <2>1. v # None /\ FileOf[v] \in Files
    BY ModAssumption DEF IInv, TypeOK, Operations
  <2>2. staged[FileOf[v]] # v
    BY <2>1 DEF IInv, PlanInPlace, NoFiles
  <2> QED
    BY <2>2 DEF IInv, PlanInPlace
<1> QED
  BY <1>1, Invariance, PTL

(* One step of the launcher leaves a file of the user's alone.             *)
KeepsForeign ==
    \/ Editing
    \/ \A f \in Files :
          mods[f] = Other /\ mods'[f] # Other => f \in FilesIn(registry) \cup touched

(* A planned file that is the user's own was installed over, or touched.   *)
LEMMA StagedForeign ==
    ASSUME IInv, op.pc = "publishing", NEW f \in Files, staged[f] # None, mods[f] = Other
    PROVE  f \in FilesIn(registry) \cup touched
<1>1. staged[f] \in op.plan /\ FileOf[staged[f]] = f
  BY DEF IInv, StagedPlanned
<1> QED
  BY <1>1 DEF IInv, ForeignPlanned

(* Each step that moves or removes a file, one by one.                     *)
LEMMA ForeignStep ==
    ASSUME IInv, Next
    PROVE  KeepsForeign
<1>0. mods \in [Files -> Contents] /\ None # Other
  BY ModAssumption DEF IInv, TypeOK
<1>1. CASE Installing
  <2>1. ASSUME NEW f \in Files, Backup(f) \/ Publish(f)
        PROVE  KeepsForeign
    <3>1. op.pc = "publishing" /\ staged[f] # None
      BY <2>1 DEF Backup, Publish
    <3>2. \A g \in Files : g # f => mods'[g] = mods[g]
      BY <1>0, <2>1 DEF Backup, Publish, Moved, Gone
    <3> QED
      BY <3>1, <3>2, StagedForeign DEF KeepsForeign
  <2>2. ASSUME NEW f \in Files, Retire(f)
        PROVE  KeepsForeign
    <3>1. f \in FilesIn(registry)
      BY <2>2, ModAssumption DEF Retire, Published, IInv, CurrentKnown
    <3>2. \A g \in Files : g # f => mods'[g] = mods[g]
      BY <1>0, <2>2 DEF Retire, Gone
    <3> QED
      BY <3>1, <3>2 DEF KeepsForeign
  <2>3. ASSUME NEW f \in Files, UndoPublished(f)
        PROVE  KeepsForeign
    <3>1. mods[f] = Other => f \in touched
      BY <2>3 DEF UndoPublished, IInv, ForeignPlanned
    <3>2. \A g \in Files : g # f => mods'[g] = mods[g]
      BY <1>0, <2>3 DEF UndoPublished, Gone
    <3> QED
      BY <3>1, <3>2 DEF KeepsForeign
  <2>4. ASSUME NEW f \in Files, UndoMoved(f)
        PROVE  KeepsForeign
    <3>1. mods[f] = None
      BY <2>4 DEF UndoMoved
    <3>2. \A g \in Files : g # f => mods'[g] = mods[g]
      BY <1>0, <2>4 DEF UndoMoved, Moved
    <3> QED
      BY <1>0, <3>1, <3>2 DEF KeepsForeign
  <2>5. ASSUME mods' = mods
        PROVE  KeepsForeign
    BY <2>5 DEF KeepsForeign
  <2> QED
    BY <1>1, <2>1, <2>2, <2>3, <2>4, <2>5
    DEF Installing, BeginInstall, Stage, Vacant, Recognise, SaveInstalled, PublishFails,
        UndoEnds, CleanUp
<1>2. CASE Removing
  <2>1. ASSUME NEW f \in Files, Take(f)
        PROVE  KeepsForeign
    <3>1. f \in FilesIn(registry)
      BY <2>1 DEF Take, IInv, CurrentKnown, FilesIn
    <3>2. \A g \in Files : g # f => mods'[g] = mods[g]
      BY <1>0, <2>1 DEF Take, Gone
    <3> QED
      BY <3>1, <3>2 DEF KeepsForeign
  <2>2. ASSUME NEW f \in Files, Restore(f)
        PROVE  KeepsForeign
    <3>1. mods[f] = None
      BY <2>2 DEF Restore
    <3>2. \A g \in Files : g # f => mods'[g] = mods[g]
      BY <1>0, <2>2 DEF Restore, Moved
    <3> QED
      BY <1>0, <3>1, <3>2 DEF KeepsForeign
  <2>3. ASSUME mods' = mods
        PROVE  KeepsForeign
    BY <2>3 DEF KeepsForeign
  <2> QED
    BY <1>2, <2>1, <2>2, <2>3
    DEF Removing, BeginRemove, Check, SaveRemoved, RemoveFails, RestoreEnds, Sweep
<1>3. CASE Editing
  BY <1>3 DEF KeepsForeign
<1>4. CASE Crash
  BY <1>4 DEF KeepsForeign, Crash
<1> QED
  BY <1>1, <1>2, <1>3, <1>4 DEF Next

(* validate_file_conflicts, and the checks of content before a file is     *)
(* moved, protect the user's own files whatever fails.                     *)
THEOREM ForeignAlwaysKept == Spec => ForeignKept
<1>1. IInv /\ [Next]_vars => [KeepsForeign]_vars
  BY ForeignStep
<1>2. Spec => [][KeepsForeign]_vars
  BY <1>1, Invariance, PTL DEF Spec
<1> QED
  BY <1>2 DEF KeepsForeign, ForeignKept

-----------------------------------------------------------------------------
(* Without faults an operation implements ModStore. RInv says how far the  *)
(* files are on their way from the directory before the operation, which   *)
(* is LogicalMods all the time, to the one after it.                       *)

(* The files that are fetched for a plan.                                  *)
Wanted == Fetched(ToFetch(registry, LogicalMods, op.plan))

(* A record and a directory that agree: one file for a mod, one mod for a  *)
(* file, and no version that is not the recorded one.                      *)
Tidy(reg, m) ==
    /\ \A q \in Installed(reg) : ProjectOf[reg[q].version] = q
    /\ \A p, q \in Installed(reg) : FileIn(reg, p) = FileIn(reg, q) => p = q
    /\ \A f \in Files : m[f] \in Versions =>
          FileOf[m[f]] = f /\ reg[ProjectOf[m[f]]].version = m[f]

AcceptableStill ==
    op.pc \in {"staging", "publishing"} => Acceptable(registry, LogicalMods, op.plan)

(* Where a file was moved away nothing is, or what was published.          *)
MovedAway ==
    /\ op.pc = "staging" => backups = NoFiles
    /\ op.pc \in {"publishing", "undo"} =>
          \A f \in Files : backups[f] # None => mods[f] = None \/ f \in op.published
    /\ op.pc \in {"taking", "restoring"} =>
          \A f \in Files : trash[f] # None => mods[f] = None

(* What was fetched is published or still staged.                          *)
PublishedWanted ==
    op.pc = "publishing" =>
        \A f \in Files :
            IF f \in op.published
            THEN Wanted[f] # None /\ mods[f] = Wanted[f] /\ staged[f] = None
            ELSE staged[f] = Wanted[f]

(* Only what makes room for a staged file, or is outdated, is moved away.  *)
RetiredOutdated ==
    op.pc = "publishing" =>
        /\ \A f \in Files : op.cur = f /\ staged[f] # None => mods[f] = None
        /\ staged = NoFiles /\ op.cur # None => op.cur \in Outdated(registry, NewRecord, mods)
        /\ \A f \in Files : backups[f] # None /\ staged[f] = None /\ f \notin op.published =>
              f \in Outdated(registry, NewRecord, LogicalMods)

(* A removal takes the files of the orphans, all but those still to do.    *)
OrphansTaken ==
    op.pc = "taking" =>
        /\ Removable(registry, op.project)
        /\ \A q \in Orphans(registry, op.project) : Untouched(registry, LogicalMods, q)
        /\ op.todo \subseteq Orphans(registry, op.project)
        /\ op.cur \in Orphans(registry, op.project) \cup {None}
        /\ \A q \in Orphans(registry, op.project) \ op.todo : mods[FileIn(registry, q)] = None
        /\ \A f \in Files : trash[f] # None =>
              \E q \in Orphans(registry, op.project) : FileIn(registry, q) = f

RInv ==
    /\ Tidy(registry, LogicalMods)
    /\ AcceptableStill
    /\ MovedAway
    /\ PublishedWanted
    /\ RetiredOutdated
    /\ OrphansTaken

(* The directory with what a plan adds, and without what it replaces.      *)
Added(reg, m, P) ==
    [f \in Files |-> IF Fetched(ToFetch(reg, m, P))[f] # None
                     THEN Fetched(ToFetch(reg, m, P))[f] ELSE m[f]]

Updated(reg, m, p, P) ==
    [f \in Files |-> IF f \in Outdated(reg, WithPlan(reg, p, P), Added(reg, m, P))
                     THEN None ELSE Added(reg, m, P)[f]]

(* ModStore speaks of the same plans, records and files.                   *)
LEMMA StoreInstall ==
    ASSUME NEW p \in Projects, NEW P \in SUBSET Versions,
           Plan(p, P), Acceptable(registry, LogicalMods, P),
           registry' = WithPlan(registry, p, P),
           LogicalMods' = Updated(registry, LogicalMods, p, P)
    PROVE  Store!Install(p, P)
<1> DEFINE fetched == Fetched(ToFetch(registry, LogicalMods, P))
           added == Added(registry, LogicalMods, P)
<1>1. Store!Plan(p, P)
  BY DEF Plan, Planned, Closed, Acyclic, Store!Plan, Store!Planned, Store!Closed, Store!Acyclic
<1>2. Store!Acceptable(registry, LogicalMods, P)
  BY DEF Acceptable, Installed, FileIn, Store!Acceptable, Store!Installed, Store!FileIn
<1>3. registry' = Store!WithPlan(registry, p, P)
  BY DEF WithPlan, Planned, Store!WithPlan, Store!Planned
<1>4. fetched = Store!Fetched(Store!ToFetch(registry, LogicalMods, P))
  BY DEF Fetched, ToFetch, Store!Fetched, Store!ToFetch
<1>5. \A new : Outdated(registry, new, added) = Store!Outdated(registry, new, added)
  BY DEF Outdated, FilesIn, FileIn, Installed, Store!Outdated, Store!FilesIn, Store!FileIn,
         Store!Installed
<1> QED
  BY <1>1, <1>2, <1>3, <1>4, <1>5 DEF Store!Install, Updated, Added

(* ... and of the same removals.                                           *)
LEMMA StoreRemove ==
    ASSUME NEW p \in Projects, Removable(registry, p),
           \A q \in Orphans(registry, p) : Untouched(registry, LogicalMods, q),
           registry' = WithoutOrphans(registry, p),
           LogicalMods' = [f \in Files |->
               IF f \in {FileIn(registry, q) : q \in Orphans(registry, p)} THEN None
               ELSE LogicalMods[f]]
    PROVE  Store!Remove(p)
<1>1. Store!Removable(registry, p)
  BY DEF Removable, Installed, Store!Removable, Store!Installed
<1>2. Store!Orphans(registry, p) = Orphans(registry, p)
  BY DEF Orphans, Installed, Retained, ClosedIn, Unmarked, Store!Orphans, Store!Installed,
         Store!Retained, Store!ClosedIn, Store!Unmarked
<1>3. \A q : /\ Store!FileIn(registry, q) = FileIn(registry, q)
             /\ Store!Untouched(registry, LogicalMods, q) <=> Untouched(registry, LogicalMods, q)
  BY DEF FileIn, Untouched, Store!FileIn, Store!Untouched
<1>4. registry' = Store!WithoutOrphans(registry, p)
  BY <1>2 DEF WithoutOrphans, Unmarked, NotInstalled, Store!WithoutOrphans, Store!Unmarked,
              Store!NotInstalled
<1> QED
  BY <1>1, <1>2, <1>3, <1>4 DEF Store!Remove

-----------------------------------------------------------------------------
(* What is fetched for a file is a version with that file.                 *)
LEMMA FetchedFile ==
    ASSUME NEW V \in SUBSET Versions, NEW v \in V
    PROVE  Fetched(V)[FileOf[v]] # None
<1>1. FileOf[v] \in Files
  BY ModAssumption
<1>2. (CHOOSE w \in V : FileOf[w] = FileOf[v]) \in V
  OBVIOUS
<1>3. (CHOOSE w \in V : FileOf[w] = FileOf[v]) # None
  BY <1>2, ModAssumption
<1>4. Fetched(V)[FileOf[v]] = CHOOSE w \in V : FileOf[w] = FileOf[v]
  BY <1>1 DEF Fetched
<1> QED
  BY <1>3, <1>4

(* What ModStore does keeps the record and the directory tidy.             *)
LEMMA TidyInstall ==
    ASSUME NEW reg \in Records, NEW m \in [Files -> Contents], NEW p \in Projects,
           NEW P \in SUBSET Versions, Plan(p, P), Acceptable(reg, m, P), Tidy(reg, m)
    PROVE  Tidy(WithPlan(reg, p, P), Updated(reg, m, p, P))
<1> DEFINE new == WithPlan(reg, p, P)
           fetched == Fetched(ToFetch(reg, m, P))
           added == Added(reg, m, P)
           next == Updated(reg, m, p, P)
<1>0. \A f \in Files :
        /\ added[f] = IF fetched[f] # None THEN fetched[f] ELSE m[f]
        /\ next[f] = IF f \in Outdated(reg, new, added) THEN None ELSE added[f]
  BY DEF Added, Updated
<1>1. \A v \in P : /\ v \in Versions /\ v # None /\ ProjectOf[v] \in Projects
                   /\ ProjectOf[v] \in Installed(new) /\ new[ProjectOf[v]].version = v
                   /\ FileOf[v] \in FilesIn(new)
  BY PlannedVersion, ModAssumption
<1>2. \A q \in Projects \ Planned(P) : new[q] = reg[q]
  BY DEF WithPlan
<1>3. \A q \in Installed(new) :
        \/ \E v \in P : ProjectOf[v] = q /\ new[q].version = v /\ FileIn(new, q) = FileOf[v]
        \/ /\ q \notin Planned(P) /\ q \in Installed(reg) /\ new[q] = reg[q]
           /\ FileIn(new, q) = FileIn(reg, q)
  <2> TAKE q \in Installed(new)
  <2>1. q \in Projects
    BY DEF Installed
  <2>2. CASE q \in Planned(P)
    BY <1>1, <2>2 DEF Planned, FileIn
  <2>3. CASE q \notin Planned(P)
    BY <1>2, <2>1, <2>3 DEF Installed, FileIn
  <2> QED
    BY <2>2, <2>3
<1>4. ASSUME NEW q \in Installed(new)
      PROVE  ProjectOf[new[q].version] = q
  BY <1>3 DEF Tidy
<1>5. ASSUME NEW q \in Installed(new), NEW r \in Installed(new), FileIn(new, q) = FileIn(new, r)
      PROVE  q = r
  <2>1. \A v, w \in P : FileOf[v] = FileOf[w] => v = w
    BY DEF Acceptable
  <2>2. \A v \in P : \A s \in Installed(reg) \ {ProjectOf[v]} : FileIn(reg, s) # FileOf[v]
    BY DEF Acceptable
  <2>3. \A v \in P : ProjectOf[v] \in Planned(P)
    BY DEF Planned
  <2>4. \A s, t \in Installed(reg) : FileIn(reg, s) = FileIn(reg, t) => s = t
    BY DEF Tidy
  <2> QED
    BY <1>3, <1>5, <2>1, <2>2, <2>3, <2>4
<1>6. ASSUME NEW f \in Files, next[f] \in Versions
      PROVE  FileOf[next[f]] = f /\ new[ProjectOf[next[f]]].version = next[f]
  <2>1. next[f] = added[f] /\ f \notin Outdated(reg, new, added)
    BY <1>6, <1>0, ModAssumption
  <2>2. CASE fetched[f] # None
    <3>1. PICK v \in ToFetch(reg, m, P) : FileOf[v] = f /\ fetched[f] = v
      BY <2>2 DEF Fetched
    <3>2. v \in P
      BY <3>1 DEF ToFetch
    <3> QED
      BY <1>1, <1>0, <2>1, <2>2, <3>1, <3>2
  <2>3. CASE fetched[f] = None
    <3> DEFINE w == m[f]
               q == ProjectOf[w]
    <3>1. next[f] = w /\ added[f] = w /\ w \in Versions /\ w # None
      BY <1>6, <1>0, <2>1, <2>3, ModAssumption
    <3>2. FileOf[w] = f /\ reg[q].version = w /\ q \in Projects /\ q \in Installed(reg)
      BY <3>1, ModAssumption DEF Tidy, Installed
    <3>3. \A v \in P : FileOf[v] = f => v = w
      <4>1. \A v \in P : v \in ToFetch(reg, m, P) => fetched[FileOf[v]] # None
        BY FetchedFile DEF ToFetch
      <4>2. ASSUME NEW v \in P, FileOf[v] = f
            PROVE  v = m[f]
        <5>1. v \notin ToFetch(reg, m, P)
          BY <2>3, <4>1, <4>2
        <5> QED
          BY <4>2, <5>1 DEF ToFetch
      <4> QED
        BY <4>2
    <3>4. CASE q \notin Planned(P)
      BY <1>2, <3>1, <3>2, <3>4
    <3>5. CASE q \in Planned(P)
      <4>1. PICK v \in P : ProjectOf[v] = q
        BY <3>5 DEF Planned
      <4>2. f \in FilesIn(reg) /\ FileIn(reg, q) = f
        BY <3>2 DEF FilesIn, FileIn
      <4>3. f \in FilesIn(new)
        BY <2>1, <3>1, <3>2, <4>2 DEF Outdated
      <4>4. PICK r \in Installed(new) : FileIn(new, r) = f
        BY <4>3 DEF FilesIn
      <4>5. CASE r \in Planned(P)
        <5>1. PICK x \in P : ProjectOf[x] = r
          BY <4>5 DEF Planned
        <5>2. FileOf[x] = f
          BY <1>1, <4>4, <5>1 DEF FileIn
        <5>3. x = w
          BY <3>3, <5>2
        <5> QED
          BY <1>1, <3>1, <3>2, <5>3
      <4>6. CASE r \notin Planned(P)
        <5>1. r \in Installed(reg) /\ FileIn(reg, r) = f
          BY <1>3, <4>4, <4>6 DEF Planned
        <5>2. r = q
          BY <3>2, <4>2, <5>1 DEF Tidy
        <5> QED
          BY <3>5, <4>6, <5>2
      <4> QED
        BY <4>5, <4>6
    <3> QED
      BY <3>4, <3>5
  <2> QED
    BY <2>2, <2>3
<1> QED
  BY <1>4, <1>5, <1>6 DEF Tidy

(* A removal takes the files of the mods it takes.                         *)
LEMMA TidyRemove ==
    ASSUME NEW reg \in Records, NEW m \in [Files -> Contents], NEW p \in Projects,
           Tidy(reg, m),
           NEW next, next = [f \in Files |->
               IF f \in {FileIn(reg, q) : q \in Orphans(reg, p)} THEN None ELSE m[f]]
    PROVE  Tidy(WithoutOrphans(reg, p), next)
<1> DEFINE new == WithoutOrphans(reg, p)
<1>1. \A q \in Projects :
        new[q].version = IF q \in Orphans(reg, p) THEN None ELSE reg[q].version
  BY DEF WithoutOrphans, Unmarked, NotInstalled, Records
<1>2. \A q \in Installed(new) :
        q \in Installed(reg) /\ new[q].version = reg[q].version /\ FileIn(new, q) = FileIn(reg, q)
  BY <1>1 DEF Installed, FileIn
<1>3. ASSUME NEW f \in Files, next[f] \in Versions
      PROVE  FileOf[next[f]] = f /\ new[ProjectOf[next[f]]].version = next[f]
  <2> DEFINE w == m[f]
             q == ProjectOf[w]
  <2>1. next[f] = w /\ f \notin {FileIn(reg, r) : r \in Orphans(reg, p)}
    BY <1>3, ModAssumption
  <2>2. FileOf[w] = f /\ reg[q].version = w /\ q \in Projects
    BY <1>3, <2>1, ModAssumption DEF Tidy
  <2>3. q \notin Orphans(reg, p)
    BY <2>1, <2>2 DEF FileIn
  <2> QED
    BY <1>1, <2>1, <2>2, <2>3
<1> QED
  BY <1>2, <1>3 DEF Tidy

(* No edit makes a version appear.                                         *)
LEMMA TidyEdit ==
    ASSUME NEW reg, NEW m, NEW next, Tidy(reg, m),
           \A f \in Files : next[f] = m[f] \/ next[f] \notin Versions
    PROVE  Tidy(reg, next)
  BY DEF Tidy

-----------------------------------------------------------------------------
(* The steps of an installation before the record is saved.                *)

(* The logical directory has the type of a directory.                      *)
LEMMA LogicalType ==
    ASSUME TypeOK
    PROVE  LogicalMods \in [Files -> Contents]
  BY DEF TypeOK, LogicalMods

(* Two logical directories are equal when their files are.                 *)
LEMMA LogicalSame ==
    ASSUME \A f \in Files : LogicalMods'[f] = LogicalMods[f]
    PROVE  LogicalMods' = LogicalMods
<1>1. LogicalMods = [f \in Files |-> LogicalMods[f]]
  BY DEF LogicalMods
<1>2. LogicalMods' = [f \in Files |-> LogicalMods'[f]]
  BY DEF LogicalMods
<1> QED
  BY <1>1, <1>2

(* The plan stays acceptable and the new record what it was.               *)
LEMMA InstallingKeeps ==
    ASSUME RInv, registry' = registry, LogicalMods' = LogicalMods,
           op.pc \in {"staging", "publishing"}, op'.pc = "publishing",
           op'.project = op.project, op'.plan = op.plan,
           MovedAway', PublishedWanted', RetiredOutdated'
    PROVE  RInv'
<1>1. Tidy(registry, LogicalMods)'
  BY DEF RInv, Tidy, Installed, FileIn
<1>2. AcceptableStill'
  BY DEF RInv, AcceptableStill, Acceptable, Installed, FileIn
<1> QED
  BY <1>1, <1>2 DEF RInv, OrphansTaken

(* Where nothing more is to be done but to undo or to clean up.            *)
LEMMA EndingKeeps ==
    ASSUME RInv, registry' = registry, LogicalMods' = LogicalMods,
           op'.pc \in {"idle", "undo", "cleanup", "installed", "restoring", "sweeping"},
           MovedAway'
    PROVE  RInv'
<1>1. Tidy(registry, LogicalMods)'
  BY DEF RInv, Tidy, Installed, FileIn
<1> QED
  BY <1>1 DEF RInv, OrphansTaken, AcceptableStill, PublishedWanted, RetiredOutdated

(* What is wanted and what is outdated depend on nothing that moves.       *)
LEMMA WantedKept ==
    ASSUME registry' = registry, LogicalMods' = LogicalMods, op'.project = op.project,
           op'.plan = op.plan
    PROVE  /\ Wanted' = Wanted
           /\ NewRecord' = NewRecord
           /\ Outdated(registry, NewRecord, LogicalMods)' =
                 Outdated(registry, NewRecord, LogicalMods)
<1>1. Wanted' = Wanted
  BY DEF Wanted
<1>2. NewRecord' = NewRecord
  BY DEF NewRecord
<1> QED
  BY <1>1, <1>2

(* Downloads change nothing until they are published.                      *)
LEMMA StageRefines ==
    ASSUME IInv, RInv, Stage
    PROVE  RInv' /\ LogicalMods' = LogicalMods
<1>1. /\ op.pc = "staging" /\ backups = NoFiles /\ op.published = {} /\ op.cur = None
      /\ registry' = registry /\ mods' = mods /\ backups' = backups
  BY DEF Stage, RInv, MovedAway, IInv, CurrentKnown
<1>2. CASE staged' = Fetched(ToFetch(registry, mods, op.plan)) /\ To("publishing")
  <2>1. /\ op'.pc = "publishing" /\ op'.project = op.project /\ op'.plan = op.plan
        /\ op'.cur = None /\ op'.published = {}
    BY <1>1, <1>2, ToType DEF IInv
  <2>2. \A f \in Files : LogicalMods[f] = mods[f] /\ LogicalMods'[f] = mods[f]
    BY <1>1, <2>1 DEF LogicalMods, NoFiles
  <2>3. LogicalMods' = LogicalMods
    BY <2>2, LogicalSame
  <2>4. LogicalMods = mods
    <3>1. mods = [f \in Files |-> mods[f]]
      BY DEF IInv, TypeOK
    <3>2. LogicalMods = [f \in Files |-> LogicalMods[f]]
      BY DEF LogicalMods
    <3> QED
      BY <2>2, <3>1, <3>2
  <2>5. staged' = Wanted'
    BY <1>1, <1>2, <2>1, <2>3, <2>4 DEF Wanted
  <2>6. MovedAway' /\ PublishedWanted' /\ RetiredOutdated'
    BY <1>1, <2>1, <2>5, ModAssumption DEF MovedAway, PublishedWanted, RetiredOutdated, NoFiles
  <2> QED
    BY <1>1, <2>1, <2>3, <2>6, InstallingKeeps
<1>3. CASE To("cleanup")
  <2>1. op'.pc = "cleanup"
    BY <1>3, ToType DEF IInv
  <2>2. LogicalMods' = LogicalMods
    <3>1. \A f \in Files : LogicalMods[f] = mods[f] /\ LogicalMods'[f] = mods[f]
      BY <1>1, <2>1 DEF LogicalMods
    <3> QED
      BY <3>1, LogicalSame
  <2> QED
    BY <1>1, <2>1, <2>2, EndingKeeps DEF MovedAway
<1> QED
  BY <1>2, <1>3 DEF Stage

(* What is in the way of a staged file counts as being there still.        *)
LEMMA BackupRefines ==
    ASSUME IInv, RInv, NEW f \in Files, Backup(f)
    PROVE  RInv' /\ LogicalMods' = LogicalMods
<1>1. /\ op.pc = "publishing" /\ op.cur = None /\ staged[f] # None /\ mods[f] # None
      /\ registry' = registry /\ staged' = staged
  BY DEF Backup
<1>2. /\ op'.pc = "publishing" /\ op'.project = op.project /\ op'.plan = op.plan
      /\ op'.published = op.published /\ op'.cur = f
  BY DEF Backup, IInv, TypeOK, Operations
<1>3. /\ \A g \in Files : mods'[g] = IF g = f THEN None ELSE mods[g]
      /\ \A g \in Files : backups'[g] = IF g = f THEN mods[f] ELSE backups[g]
  BY DEF Backup, Gone, Moved, IInv, TypeOK
<1>4. f \notin op.published
  BY <1>1 DEF RInv, PublishedWanted
<1>5. backups[f] = None
  BY <1>1, <1>4 DEF RInv, MovedAway
<1>6. LogicalMods' = LogicalMods
  <2>1. \A g \in Files : LogicalMods'[g] = LogicalMods[g]
    BY <1>1, <1>2, <1>3, <1>4, <1>5 DEF LogicalMods
  <2> QED
    BY <2>1, LogicalSame
<1>7. MovedAway'
  BY <1>1, <1>2, <1>3 DEF RInv, MovedAway
<1>8. PublishedWanted'
  BY <1>1, <1>2, <1>3, <1>4, <1>6, WantedKept DEF RInv, PublishedWanted
<1>9. RetiredOutdated'
  BY <1>1, <1>2, <1>3, <1>6, WantedKept DEF RInv, RetiredOutdated, NoFiles
<1> QED
  BY <1>1, <1>2, <1>6, <1>7, <1>8, <1>9, InstallingKeeps

(* Nothing in the way: nothing changes.                                    *)
LEMMA VacantRefines ==
    ASSUME IInv, RInv, NEW f \in Files, Vacant(f)
    PROVE  RInv' /\ LogicalMods' = LogicalMods
<1>1. /\ op.pc = "publishing" /\ op.cur = None /\ staged[f] # None /\ mods[f] = None
      /\ registry' = registry /\ staged' = staged /\ mods' = mods /\ backups' = backups
  BY DEF Vacant, staging
<1>2. /\ op'.pc = "publishing" /\ op'.project = op.project /\ op'.plan = op.plan
      /\ op'.published = op.published /\ op'.cur = f
  BY DEF Vacant, IInv, TypeOK, Operations
<1>3. LogicalMods' = LogicalMods
  <2>1. \A g \in Files : LogicalMods'[g] = LogicalMods[g]
    BY <1>1, <1>2 DEF LogicalMods
  <2> QED
    BY <2>1, LogicalSame
<1>4. MovedAway' /\ PublishedWanted'
  BY <1>1, <1>2, <1>3, WantedKept DEF RInv, MovedAway, PublishedWanted
<1>5. RetiredOutdated'
  BY <1>1, <1>2, <1>3, WantedKept DEF RInv, RetiredOutdated, NoFiles
<1> QED
  BY <1>1, <1>2, <1>3, <1>4, <1>5, InstallingKeeps

(* What is published counts as not being there yet.                        *)
LEMMA PublishRefines ==
    ASSUME IInv, RInv, NEW f \in Files, Publish(f)
    PROVE  RInv' /\ LogicalMods' = LogicalMods
<1>1. /\ op.pc = "publishing" /\ op.cur = f /\ staged[f] # None
      /\ registry' = registry /\ backups' = backups
  BY DEF Publish
<1>2. /\ op'.pc = "publishing" /\ op'.project = op.project /\ op'.plan = op.plan
      /\ op'.published = op.published \cup {f} /\ op'.cur = None
  BY DEF Publish, IInv, TypeOK, Operations
<1>3. /\ \A g \in Files : mods'[g] = IF g = f THEN staged[f] ELSE mods[g]
      /\ \A g \in Files : staged'[g] = IF g = f THEN None ELSE staged[g]
  BY DEF Publish, Gone, Moved, IInv, TypeOK
<1>4. f \notin op.published /\ staged[f] = Wanted[f]
  BY <1>1 DEF RInv, PublishedWanted
<1>5. mods[f] = None
  BY <1>1 DEF RInv, RetiredOutdated
<1>6. LogicalMods' = LogicalMods
  <2>1. \A g \in Files : LogicalMods'[g] = LogicalMods[g]
    BY <1>1, <1>2, <1>3, <1>4, <1>5 DEF LogicalMods
  <2> QED
    BY <2>1, LogicalSame
<1>7. MovedAway'
  BY <1>1, <1>2, <1>3 DEF RInv, MovedAway
<1>8. PublishedWanted'
  BY <1>1, <1>2, <1>3, <1>4, <1>6, WantedKept DEF RInv, PublishedWanted
<1>9. RetiredOutdated'
  BY <1>1, <1>2, <1>3, <1>6, WantedKept, ModAssumption DEF RInv, RetiredOutdated, NoFiles
<1> QED
  BY <1>1, <1>2, <1>6, <1>7, <1>8, <1>9, InstallingKeeps

(* A file that is recognised is outdated.                                  *)
LEMMA RecogniseRefines ==
    ASSUME IInv, RInv, NEW f \in Files, Recognise(f)
    PROVE  RInv' /\ LogicalMods' = LogicalMods
<1>1. /\ op.pc = "publishing" /\ op.cur = None /\ staged = NoFiles
      /\ f \in Outdated(registry, NewRecord, mods)
      /\ registry' = registry /\ staged' = staged /\ mods' = mods /\ backups' = backups
  BY DEF Recognise, Published, staging
<1>2. /\ op'.pc = "publishing" /\ op'.project = op.project /\ op'.plan = op.plan
      /\ op'.published = op.published /\ op'.cur = f
  BY <1>1 DEF Recognise, IInv, TypeOK, Operations
<1>3. LogicalMods' = LogicalMods
  <2>1. \A g \in Files : LogicalMods'[g] = LogicalMods[g]
    BY <1>1, <1>2 DEF LogicalMods
  <2> QED
    BY <2>1, LogicalSame
<1>4. MovedAway' /\ PublishedWanted'
  BY <1>1, <1>2, <1>3, WantedKept DEF RInv, MovedAway, PublishedWanted
<1>5. RetiredOutdated'
  BY <1>1, <1>2, <1>3, WantedKept DEF RInv, RetiredOutdated, NoFiles
<1> QED
  BY <1>1, <1>2, <1>3, <1>4, <1>5, InstallingKeeps

(* The file of a replaced version counts as being there still.             *)
LEMMA RetireRefines ==
    ASSUME IInv, RInv, NEW f \in Files, Retire(f)
    PROVE  RInv' /\ LogicalMods' = LogicalMods
<1>1. /\ op.pc = "publishing" /\ op.cur = f /\ staged = NoFiles /\ mods[f] # None
      /\ registry' = registry /\ staged' = staged
  BY DEF Retire, Published
<1>2. /\ op'.pc = "publishing" /\ op'.project = op.project /\ op'.plan = op.plan
      /\ op'.published = op.published /\ op'.cur = None
  BY <1>1 DEF Retire, IInv, TypeOK, Operations
<1>3. /\ \A g \in Files : mods'[g] = IF g = f THEN None ELSE mods[g]
      /\ \A g \in Files : backups'[g] = IF g = f THEN mods[f] ELSE backups[g]
  BY DEF Retire, Gone, Moved, IInv, TypeOK
<1>4. f # None /\ f \in Outdated(registry, NewRecord, mods)
  BY <1>1, ModAssumption DEF RInv, RetiredOutdated
<1>5. f \notin op.published
  <2> SUFFICES ASSUME f \in op.published PROVE FALSE
    OBVIOUS
  <2>1. PICK v \in ToFetch(registry, LogicalMods, op.plan) : FileOf[v] = f
    BY <1>1 DEF RInv, PublishedWanted, Wanted, Fetched
  <2>2. v \in op.plan
    BY <2>1 DEF ToFetch
  <2>3. f \in FilesIn(NewRecord)
    BY <1>1, <2>1, <2>2, PlannedFile
  <2> QED
    BY <1>4, <2>3 DEF Outdated
<1>6. backups[f] = None
  BY <1>1, <1>5 DEF RInv, MovedAway
<1>7. LogicalMods[f] = mods[f]
  BY <1>1, <1>5, <1>6 DEF LogicalMods
<1>8. LogicalMods' = LogicalMods
  <2>1. \A g \in Files : LogicalMods'[g] = LogicalMods[g]
    BY <1>1, <1>2, <1>3, <1>5, <1>6 DEF LogicalMods
  <2> QED
    BY <2>1, LogicalSame
<1>9. MovedAway'
  BY <1>1, <1>2, <1>3 DEF RInv, MovedAway
<1>10. PublishedWanted'
  BY <1>1, <1>2, <1>3, <1>5, <1>8, WantedKept DEF RInv, PublishedWanted
<1>11. RetiredOutdated'
  <2>1. f \in Outdated(registry, NewRecord, LogicalMods)
    BY <1>4, <1>7 DEF Outdated
  <2> QED
    BY <1>1, <1>2, <1>3, <1>8, <2>1, WantedKept, ModAssumption DEF RInv, RetiredOutdated, NoFiles
<1> QED
  BY <1>1, <1>2, <1>8, <1>9, <1>10, <1>11, InstallingKeeps

-----------------------------------------------------------------------------
(* The rollback and the end of an installation.                            *)

(* A failure changes nothing but what is to come.                          *)
LEMMA PublishFailsRefines ==
    ASSUME IInv, RInv, PublishFails
    PROVE  RInv' /\ LogicalMods' = LogicalMods
<1>1. /\ op.pc = "publishing" /\ op'.pc = "undo" /\ op'.published = op.published
      /\ registry' = registry /\ mods' = mods /\ backups' = backups
  BY ToType DEF PublishFails, staging, IInv
<1>2. LogicalMods' = LogicalMods
  <2>1. \A g \in Files : LogicalMods'[g] = LogicalMods[g]
    BY <1>1 DEF LogicalMods
  <2> QED
    BY <2>1, LogicalSame
<1>3. MovedAway'
  BY <1>1 DEF RInv, MovedAway
<1> QED
  BY <1>1, <1>2, <1>3, EndingKeeps

(* A published file that is removed did not count.                         *)
LEMMA UndoPublishedRefines ==
    ASSUME IInv, RInv, NEW f \in Files, UndoPublished(f)
    PROVE  RInv' /\ LogicalMods' = LogicalMods
<1>1. /\ op.pc = "undo" /\ f \in op.published
      /\ registry' = registry /\ backups' = backups
  BY DEF UndoPublished, staging
<1>2. op'.pc = "undo" /\ op'.published = op.published \ {f}
  BY <1>1 DEF UndoPublished, IInv, TypeOK, Operations
<1>3. \A g \in Files : mods'[g] = IF g = f THEN None ELSE mods[g]
  BY DEF UndoPublished, Gone, IInv, TypeOK
<1>4. LogicalMods' = LogicalMods
  <2>1. \A g \in Files : LogicalMods'[g] = LogicalMods[g]
    BY <1>1, <1>2, <1>3 DEF LogicalMods
  <2> QED
    BY <2>1, LogicalSame
<1>5. MovedAway'
  BY <1>1, <1>2, <1>3 DEF RInv, MovedAway
<1> QED
  BY <1>1, <1>2, <1>4, <1>5, EndingKeeps

(* A file that is moved back counted all the time.                         *)
LEMMA UndoMovedRefines ==
    ASSUME IInv, RInv, NEW f \in Files, UndoMoved(f)
    PROVE  RInv' /\ LogicalMods' = LogicalMods
<1>1. /\ op.pc = "undo" /\ op.published = {} /\ op' = op /\ backups[f] # None
      /\ registry' = registry
  BY DEF UndoMoved
<1>2. /\ \A g \in Files : mods'[g] = IF g = f THEN backups[f] ELSE mods[g]
      /\ \A g \in Files : backups'[g] = IF g = f THEN None ELSE backups[g]
  BY DEF UndoMoved, Moved, Gone, IInv, TypeOK
<1>3. LogicalMods' = LogicalMods
  <2>1. \A g \in Files : LogicalMods'[g] = LogicalMods[g]
    BY <1>1, <1>2 DEF LogicalMods
  <2> QED
    BY <2>1, LogicalSame
<1>4. MovedAway'
  BY <1>1, <1>2 DEF RInv, MovedAway
<1> QED
  BY <1>1, <1>3, <1>4, EndingKeeps

(* Without faults a rollback only ends when everything is back.            *)
LEMMA UndoEndsRefines ==
    ASSUME Faults = {}, IInv, RInv, UndoEnds
    PROVE  RInv' /\ LogicalMods' = LogicalMods
<1>1. /\ op.pc = "undo" /\ op'.pc = "cleanup"
      /\ registry' = registry /\ mods' = mods
  BY ToType DEF UndoEnds, IInv
<1>2. op.published = {} /\ backups = NoFiles
  BY <1>1 DEF UndoEnds, RInv, MovedAway
<1>3. LogicalMods' = LogicalMods
  <2>1. \A g \in Files : LogicalMods'[g] = LogicalMods[g]
    BY <1>1, <1>2 DEF LogicalMods, NoFiles
  <2> QED
    BY <2>1, LogicalSame
<1> QED
  BY <1>1, <1>3, EndingKeeps DEF MovedAway

(* The staging directory does not count any more.                          *)
LEMMA CleanUpRefines ==
    ASSUME IInv, RInv, CleanUp
    PROVE  RInv' /\ LogicalMods' = LogicalMods
<1>1. /\ op.pc \in {"cleanup", "installed"} /\ op'.pc = "idle"
      /\ registry' = registry /\ mods' = mods
  BY DEF CleanUp, End, Idle
<1>2. LogicalMods' = LogicalMods
  <2>1. \A g \in Files : LogicalMods'[g] = LogicalMods[g]
    BY <1>1 DEF LogicalMods
  <2> QED
    BY <2>1, LogicalSame
<1> QED
  BY <1>1, <1>2, EndingKeeps DEF MovedAway

(* An accepted plan is acceptable to ModStore.                             *)
LEMMA BeginInstallRefines ==
    ASSUME IInv, RInv, NEW p \in Projects, NEW P \in SUBSET Versions, BeginInstall(p, P)
    PROVE  RInv' /\ LogicalMods' = LogicalMods
<1>1. /\ op.pc = "idle" /\ op'.pc = "staging" /\ op'.plan = P
      /\ registry' = registry /\ mods' = mods /\ backups' = NoFiles
  BY DEF BeginInstall, Idle
<1>2. \A g \in Files : LogicalMods'[g] = mods[g] /\ LogicalMods[g] = mods[g]
  BY <1>1 DEF LogicalMods
<1>3. LogicalMods' = LogicalMods
  BY <1>2, LogicalSame
<1>4. Tidy(registry, LogicalMods)'
  BY <1>1, <1>3 DEF RInv, Tidy, Installed, FileIn
<1>5. Acceptable(registry, LogicalMods, P)
  BY <1>2, ModAssumption DEF BeginInstall, Acceptable
<1>6. AcceptableStill'
  BY <1>1, <1>3, <1>5 DEF AcceptableStill, Acceptable, Installed, FileIn
<1> QED
  BY <1>1, <1>3, <1>4, <1>6 DEF RInv, MovedAway, PublishedWanted, RetiredOutdated, OrphansTaken

(* The record is saved when the files are those ModStore has then.         *)
LEMMA SaveInstalledRefines ==
    ASSUME IInv, RInv, SaveInstalled
    PROVE  RInv' /\ Store!Next
<1> DEFINE p == op.project
           P == op.plan
           fetched == Fetched(ToFetch(registry, LogicalMods, P))
           added == Added(registry, LogicalMods, P)
           next == Updated(registry, LogicalMods, p, P)
<1>0. \A f \in Files :
        /\ added[f] = IF fetched[f] # None THEN fetched[f] ELSE LogicalMods[f]
        /\ next[f] = IF f \in Outdated(registry, WithPlan(registry, p, P), added) THEN None
                     ELSE added[f]
  BY DEF Added, Updated
<1>1. /\ op.pc = "publishing" /\ op'.pc = "installed" /\ staged = NoFiles /\ op.cur = None
      /\ Outdated(registry, NewRecord, mods) = {}
      /\ registry' = NewRecord /\ mods' = mods
  BY ToType DEF SaveInstalled, Published, IInv
<1>2. p \in Projects /\ Plan(p, P) /\ P \in SUBSET Versions /\ registry \in Records
  BY <1>1 DEF IInv, PlanKept, TypeOK, Operations
<1>3. Acceptable(registry, LogicalMods, P)
  BY <1>1 DEF RInv, AcceptableStill
<1>4. NewRecord = WithPlan(registry, p, P) /\ Wanted = fetched
  BY DEF NewRecord, Wanted
<1>5. ASSUME NEW f \in Files
      PROVE  mods[f] = next[f]
  <2>1. LogicalMods[f] = IF backups[f] # None THEN backups[f]
                         ELSE IF f \in op.published THEN None ELSE mods[f]
    BY <1>1 DEF LogicalMods
  <2>2. CASE f \in op.published
    <3>1. mods[f] = fetched[f] /\ fetched[f] # None
      BY <1>1, <1>4, <2>2 DEF RInv, PublishedWanted
    <3>2. PICK v \in ToFetch(registry, LogicalMods, P) : FileOf[v] = f
      BY <3>1 DEF Fetched
    <3>3. f \in FilesIn(NewRecord)
      BY <1>1, <3>2, PlannedFile DEF ToFetch
    <3>4. f \notin Outdated(registry, NewRecord, added)
      BY <3>3 DEF Outdated
    <3> QED
      BY <1>4, <1>0, <3>1, <3>4
  <2>3. CASE f \notin op.published
    <3>1. fetched[f] = None /\ added[f] = LogicalMods[f]
      BY <1>1, <1>4, <1>0, <2>3 DEF RInv, PublishedWanted, NoFiles
    <3>2. CASE backups[f] # None
      <4>1. f \in Outdated(registry, NewRecord, LogicalMods)
        BY <1>1, <2>3, <3>2 DEF RInv, RetiredOutdated, NoFiles
      <4>2. f \in Outdated(registry, NewRecord, added)
        BY <3>1, <4>1 DEF Outdated
      <4>3. mods[f] = None
        BY <1>1, <2>3, <3>2 DEF RInv, MovedAway
      <4> QED
        BY <1>4, <1>0, <4>2, <4>3
    <3>3. CASE backups[f] = None
      <4>1. added[f] = mods[f]
        BY <2>1, <2>3, <3>1, <3>3
      <4>2. f \notin Outdated(registry, NewRecord, added)
        BY <1>1, <4>1 DEF Outdated
      <4> QED
        BY <1>4, <1>0, <4>1, <4>2
    <3> QED
      BY <3>2, <3>3
  <2> QED
    BY <2>2, <2>3
<1>6. LogicalMods' = next
  <2>1. \A f \in Files : LogicalMods'[f] = mods[f]
    BY <1>1 DEF LogicalMods
  <2>2. LogicalMods' = [f \in Files |-> LogicalMods'[f]]
    BY DEF LogicalMods
  <2>3. LogicalMods' = [f \in Files |-> next[f]]
    BY <1>5, <2>1, <2>2
  <2>4. next = [f \in Files |-> next[f]]
    BY DEF Updated
  <2> QED
    BY <2>3, <2>4
<1>7. Store!Install(p, P)
  BY <1>1, <1>2, <1>3, <1>4, <1>6, StoreInstall
<1>8. Store!Next
  BY <1>2, <1>7 DEF Store!Next
<1>9. Tidy(WithPlan(registry, p, P), next)
  <2>1. LogicalMods \in [Files -> Contents] /\ Tidy(registry, LogicalMods)
    BY LogicalType DEF IInv, RInv
  <2> QED
    BY <1>2, <1>3, <2>1, TidyInstall
<1>10. Tidy(registry', LogicalMods')
  BY <1>1, <1>4, <1>6, <1>9
<1>11. Tidy(registry, LogicalMods)'
  BY <1>10 DEF Tidy, Installed, FileIn
<1> QED
  BY <1>1, <1>8, <1>11 DEF RInv, AcceptableStill, MovedAway, PublishedWanted, RetiredOutdated,
      OrphansTaken

-----------------------------------------------------------------------------
(* The steps of a removal.                                                 *)

(* While files are taken.                                                  *)
LEMMA TakingKeeps ==
    ASSUME RInv, registry' = registry, LogicalMods' = LogicalMods, op'.pc = "taking",
           MovedAway', OrphansTaken'
    PROVE  RInv'
<1>1. Tidy(registry, LogicalMods)'
  BY DEF RInv, Tidy, Installed, FileIn
<1> QED
  BY <1>1 DEF RInv, AcceptableStill, PublishedWanted, RetiredOutdated

(* A removal that begins has taken nothing.                                *)
LEMMA BeginRemoveRefines ==
    ASSUME IInv, RInv, NEW p \in Projects, BeginRemove(p)
    PROVE  RInv' /\ LogicalMods' = LogicalMods
<1>1. /\ op.pc = "idle" /\ op'.pc = "taking" /\ op'.project = p /\ op'.cur = None
      /\ op'.todo = Orphans(registry, p)
      /\ registry' = registry /\ mods' = mods /\ trash' = NoFiles
  BY DEF BeginRemove, Idle
<1>2. \A g \in Files : LogicalMods'[g] = mods[g] /\ LogicalMods[g] = mods[g]
  BY <1>1 DEF LogicalMods, NoFiles
<1>3. LogicalMods' = LogicalMods
  BY <1>2, LogicalSame
<1>4. \A q \in Orphans(registry, p) : FileIn(registry, q) \in Files
  <2>1. \A q \in Orphans(registry, p) : registry[q].version \in Versions
    BY DEF Orphans, Installed, IInv, TypeOK, Records
  <2> QED
    BY <2>1, ModAssumption DEF FileIn
<1>5. \A q \in Orphans(registry, p) : Untouched(registry, LogicalMods, q)
  BY <1>2, <1>4 DEF BeginRemove, Untouched
<1>6. MovedAway'
  BY <1>1 DEF MovedAway, NoFiles
<1>7. OrphansTaken'
  <2>1. Removable(registry, p)
    BY DEF BeginRemove
  <2>2. \A f \in Files : trash'[f] = None
    BY <1>1 DEF NoFiles
  <2>3. Orphans(registry, op.project)' = Orphans(registry, p)
    BY <1>1
  <2>4. Removable(registry, op.project)'
    BY <1>1, <2>1 DEF Removable, Installed
  <2>5. \A q : Untouched(registry, LogicalMods, q)' <=> Untouched(registry, LogicalMods, q)
    BY <1>1, <1>3 DEF Untouched, FileIn
  <2> QED
    BY <1>1, <1>5, <2>2, <2>3, <2>4, <2>5 DEF OrphansTaken
<1> QED
  BY <1>1, <1>3, <1>6, <1>7, TakingKeeps

(* Without faults no check of a removal fails.                             *)
LEMMA CheckRefines ==
    ASSUME Faults = {}, IInv, RInv, NEW q \in Projects, Check(q)
    PROVE  RInv' /\ LogicalMods' = LogicalMods
<1> DEFINE f == FileIn(registry, q)
<1>1. /\ op.pc = "taking" /\ q \in op.todo
      /\ registry' = registry /\ mods' = mods /\ trash' = trash
  BY DEF Check, staging
<1>2. q \in Orphans(registry, op.project) /\ Untouched(registry, LogicalMods, q)
  BY <1>1 DEF RInv, OrphansTaken
<1>3. f \in Files
  <2>1. registry[q].version \in Versions
    BY <1>2 DEF Orphans, Installed, IInv, TypeOK, Records
  <2> QED
    BY <2>1, ModAssumption DEF FileIn
<1>4. Untouched(registry, mods, q)
  <2>1. LogicalMods[f] = IF trash[f] # None THEN trash[f] ELSE mods[f]
    BY <1>1, <1>3 DEF LogicalMods
  <2>2. trash[f] # None => mods[f] = None
    BY <1>1, <1>3 DEF RInv, MovedAway
  <2> QED
    BY <1>2, <2>1, <2>2 DEF Untouched
<1>5. \/ op' = [op EXCEPT !.todo = @ \ {q}] /\ mods[f] = None
      \/ op' = [op EXCEPT !.cur = q]
  BY <1>4 DEF Check
<1>6. /\ op'.pc = "taking" /\ op'.project = op.project
      /\ \/ op'.todo = op.todo \ {q} /\ op'.cur = op.cur /\ mods[f] = None
         \/ op'.todo = op.todo /\ op'.cur = q
  BY <1>1, <1>5 DEF IInv, TypeOK, Operations
<1>7. LogicalMods' = LogicalMods
  <2>1. \A g \in Files : LogicalMods'[g] = LogicalMods[g]
    BY <1>1, <1>6 DEF LogicalMods
  <2> QED
    BY <2>1, LogicalSame
<1>8. MovedAway'
  BY <1>1, <1>6 DEF RInv, MovedAway
<1>9. OrphansTaken'
  <2>1. Orphans(registry, op.project)' = Orphans(registry, op.project)
    BY <1>1, <1>6
  <2>2. \A r : /\ Untouched(registry, LogicalMods, r)' <=> Untouched(registry, LogicalMods, r)
               /\ FileIn(registry, r)' = FileIn(registry, r)
    BY <1>1, <1>7 DEF Untouched, FileIn
  <2>3. Removable(registry, op.project)'
    BY <1>1, <1>6 DEF RInv, OrphansTaken, Removable, Installed
  <2> QED
    BY <1>1, <1>2, <1>6, <2>1, <2>2, <2>3 DEF RInv, OrphansTaken
<1> QED
  BY <1>1, <1>6, <1>7, <1>8, <1>9, TakingKeeps

(* A file that is taken counts as being there still.                       *)
LEMMA TakeRefines ==
    ASSUME Faults = {}, IInv, RInv, NEW f \in Files, Take(f)
    PROVE  RInv' /\ LogicalMods' = LogicalMods
<1>1. /\ op.pc = "taking" /\ op.cur # None /\ f = FileIn(registry, op.cur) /\ mods[f] # None
      /\ registry' = registry
  BY DEF Take
<1>2. /\ \A g \in Files : mods'[g] = IF g = f THEN None ELSE mods[g]
      /\ \A g \in Files : trash'[g] = IF g = f THEN mods[f] ELSE trash[g]
  BY DEF Take, Moved, Gone, IInv, TypeOK
<1>3. trash[f] = None
  BY <1>1 DEF RInv, MovedAway
<1>4. op.cur \in Orphans(registry, op.project)
  BY <1>1 DEF RInv, OrphansTaken
<1>5. \/ /\ op'.pc = "taking" /\ op'.project = op.project /\ op'.cur = None
         /\ op'.todo = op.todo \ {op.cur}
      \/ op'.pc = "restoring"
  BY <1>1, ToType DEF Take, IInv, TypeOK, Operations
<1>6. LogicalMods' = LogicalMods
  <2>1. \A g \in Files : LogicalMods'[g] = LogicalMods[g]
    BY <1>1, <1>2, <1>3, <1>5 DEF LogicalMods
  <2> QED
    BY <2>1, LogicalSame
<1>7. MovedAway'
  BY <1>1, <1>2, <1>5 DEF RInv, MovedAway
<1>8. CASE op'.pc = "restoring"
  BY <1>1, <1>6, <1>7, <1>8, EndingKeeps
<1>9. CASE /\ op'.pc = "taking" /\ op'.project = op.project /\ op'.cur = None
           /\ op'.todo = op.todo \ {op.cur}
  <2>1. Orphans(registry, op.project)' = Orphans(registry, op.project)
    BY <1>1, <1>9
  <2>2. \A r : /\ Untouched(registry, LogicalMods, r)' <=> Untouched(registry, LogicalMods, r)
               /\ FileIn(registry, r)' = FileIn(registry, r)
    BY <1>1, <1>6 DEF Untouched, FileIn
  <2>3. Removable(registry, op.project)'
    BY <1>1, <1>9 DEF RInv, OrphansTaken, Removable, Installed
  <2>4. \A r \in Orphans(registry, op.project) : FileIn(registry, r) \in Files
    <3>1. \A r \in Orphans(registry, op.project) : registry[r].version \in Versions
      BY DEF Orphans, Installed, IInv, TypeOK, Records
    <3> QED
      BY <3>1, ModAssumption DEF FileIn
  <2>5. \A r \in Orphans(registry, op.project) \ op'.todo : mods'[FileIn(registry, r)] = None
    BY <1>1, <1>2, <1>9, <2>4 DEF RInv, OrphansTaken
  <2>6. \A g \in Files : trash'[g] # None =>
          \E r \in Orphans(registry, op.project) : FileIn(registry, r) = g
    BY <1>1, <1>2, <1>4 DEF RInv, OrphansTaken
  <2>7. /\ op.todo \subseteq Orphans(registry, op.project)
        /\ \A r \in Orphans(registry, op.project) : Untouched(registry, LogicalMods, r)
    BY <1>1 DEF RInv, OrphansTaken
  <2>8. OrphansTaken'
    BY <1>9, <2>1, <2>2, <2>3, <2>5, <2>6, <2>7 DEF OrphansTaken
  <2> QED
    BY <1>1, <1>6, <1>7, <1>9, <2>8, TakingKeeps
<1> QED
  BY <1>5, <1>8, <1>9

(* The record is saved when all files of orphans are taken, and no other.  *)
LEMMA SaveRemovedRefines ==
    ASSUME IInv, RInv, SaveRemoved
    PROVE  RInv' /\ Store!Next
<1> DEFINE p == op.project
           files == {FileIn(registry, q) : q \in Orphans(registry, p)}
           next == [f \in Files |-> IF f \in files THEN None ELSE LogicalMods[f]]
<1>1. /\ op.pc = "taking" /\ op'.pc = "sweeping" /\ op.todo = {}
      /\ registry' = WithoutOrphans(registry, p) /\ mods' = mods
  BY ToType DEF SaveRemoved, IInv
<1>2. p \in Projects /\ registry \in Records
  BY <1>1 DEF IInv, CurrentKnown, TypeOK
<1>3. /\ Removable(registry, p)
      /\ \A q \in Orphans(registry, p) : Untouched(registry, LogicalMods, q)
  BY <1>1 DEF RInv, OrphansTaken
<1>4. ASSUME NEW f \in Files
      PROVE  mods[f] = next[f]
  <2>1. LogicalMods[f] = IF trash[f] # None THEN trash[f] ELSE mods[f]
    BY <1>1 DEF LogicalMods
  <2>2. CASE f \in files
    BY <1>1, <2>2 DEF RInv, OrphansTaken
  <2>3. CASE f \notin files
    BY <1>1, <2>1, <2>3 DEF RInv, OrphansTaken
  <2> QED
    BY <2>2, <2>3
<1>5. LogicalMods' = next
  <2>1. \A f \in Files : LogicalMods'[f] = mods[f]
    BY <1>1 DEF LogicalMods
  <2>2. LogicalMods' = [f \in Files |-> LogicalMods'[f]]
    BY DEF LogicalMods
  <2> QED
    BY <1>4, <2>1, <2>2
<1>6. Store!Remove(p)
  BY <1>1, <1>2, <1>3, <1>5, StoreRemove
<1>7. Store!Next
  BY <1>2, <1>6 DEF Store!Next
<1>8. Tidy(WithoutOrphans(registry, p), next)
  <2>1. LogicalMods \in [Files -> Contents] /\ Tidy(registry, LogicalMods)
    BY LogicalType DEF IInv, RInv
  <2> QED
    BY <1>2, <2>1, TidyRemove
<1>9. Tidy(registry', LogicalMods')
  BY <1>1, <1>5, <1>8
<1>10. Tidy(registry, LogicalMods)'
  BY <1>9 DEF Tidy, Installed, FileIn
<1> QED
  BY <1>1, <1>7, <1>10 DEF RInv, AcceptableStill, MovedAway, PublishedWanted, RetiredOutdated,
      OrphansTaken

(* A failure changes nothing but what is to come.                          *)
LEMMA RemoveFailsRefines ==
    ASSUME IInv, RInv, RemoveFails
    PROVE  RInv' /\ LogicalMods' = LogicalMods
<1>1. /\ op.pc = "taking" /\ op'.pc = "restoring"
      /\ registry' = registry /\ mods' = mods /\ trash' = trash
  BY ToType DEF RemoveFails, staging, IInv
<1>2. LogicalMods' = LogicalMods
  <2>1. \A g \in Files : LogicalMods'[g] = LogicalMods[g]
    BY <1>1 DEF LogicalMods
  <2> QED
    BY <2>1, LogicalSame
<1>3. MovedAway'
  BY <1>1 DEF RInv, MovedAway
<1> QED
  BY <1>1, <1>2, <1>3, EndingKeeps

(* A file that is restored counted all the time.                           *)
LEMMA RestoreRefines ==
    ASSUME IInv, RInv, NEW f \in Files, Restore(f)
    PROVE  RInv' /\ LogicalMods' = LogicalMods
<1>1. op.pc = "restoring" /\ op' = op /\ trash[f] # None /\ registry' = registry
  BY DEF Restore
<1>2. /\ \A g \in Files : mods'[g] = IF g = f THEN trash[f] ELSE mods[g]
      /\ \A g \in Files : trash'[g] = IF g = f THEN None ELSE trash[g]
  BY DEF Restore, Moved, Gone, IInv, TypeOK
<1>3. LogicalMods' = LogicalMods
  <2>1. \A g \in Files : LogicalMods'[g] = LogicalMods[g]
    BY <1>1, <1>2 DEF LogicalMods
  <2> QED
    BY <2>1, LogicalSame
<1>4. MovedAway'
  BY <1>1, <1>2 DEF RInv, MovedAway
<1> QED
  BY <1>1, <1>3, <1>4, EndingKeeps

(* Without faults the rollback only ends when everything is back.          *)
LEMMA RestoreEndsRefines ==
    ASSUME Faults = {}, IInv, RInv, RestoreEnds
    PROVE  RInv' /\ LogicalMods' = LogicalMods
<1>1. /\ op.pc = "restoring" /\ op'.pc = "idle" /\ registry' = registry /\ mods' = mods
  BY DEF RestoreEnds, End, Idle
<1>2. trash = NoFiles
  BY <1>1 DEF RestoreEnds, RInv, MovedAway
<1>3. LogicalMods' = LogicalMods
  <2>1. \A g \in Files : LogicalMods'[g] = LogicalMods[g]
    BY <1>1, <1>2 DEF LogicalMods, NoFiles
  <2> QED
    BY <2>1, LogicalSame
<1> QED
  BY <1>1, <1>3, EndingKeeps DEF MovedAway

(* The staging directory does not count any more.                          *)
LEMMA SweepRefines ==
    ASSUME IInv, RInv, Sweep
    PROVE  RInv' /\ LogicalMods' = LogicalMods
<1>1. /\ op.pc = "sweeping" /\ op'.pc = "idle" /\ registry' = registry /\ mods' = mods
  BY DEF Sweep, End, Idle
<1>2. LogicalMods' = LogicalMods
  <2>1. \A g \in Files : LogicalMods'[g] = LogicalMods[g]
    BY <1>1 DEF LogicalMods
  <2> QED
    BY <2>1, LogicalSame
<1> QED
  BY <1>1, <1>2, EndingKeeps DEF MovedAway

-----------------------------------------------------------------------------
(* An edit between operations is one of ModStore.                          *)
LEMMA EditRefines ==
    ASSUME Faults = {}, IInv, RInv, NEW f \in Files, NEW c \in {Other, None}, Edit(f, c)
    PROVE  RInv' /\ Store!Next
<1>1. /\ op.pc = "idle" /\ op' = op /\ registry' = registry
      /\ mods' = [mods EXCEPT ![f] = c]
  BY DEF Edit
<1>2. \A g \in Files : LogicalMods'[g] = mods'[g] /\ LogicalMods[g] = mods[g]
  BY <1>1 DEF LogicalMods
<1>3. LogicalMods' = [LogicalMods EXCEPT ![f] = c]
  <2>1. LogicalMods' = [g \in Files |-> LogicalMods'[g]]
    BY DEF LogicalMods
  <2>2. LogicalMods = [g \in Files |-> LogicalMods[g]]
    BY DEF LogicalMods
  <2> QED
    BY <1>1, <1>2, <2>1, <2>2 DEF IInv, TypeOK
<1>4. Store!Next
  <2>1. Store!Edit(f, c)
    BY <1>1, <1>3 DEF Store!Edit
  <2> QED
    BY <2>1 DEF Store!Next
<1>5. Tidy(registry', LogicalMods')
  <2>1. Tidy(registry, LogicalMods)
    BY DEF RInv
  <2>2. \A g \in Files : LogicalMods'[g] = LogicalMods[g] \/ LogicalMods'[g] \notin Versions
    BY <1>3, LogicalType, ModAssumption DEF IInv
  <2> QED
    BY <1>1, <2>1, <2>2, TidyEdit
<1>6. Tidy(registry, LogicalMods)'
  BY <1>5 DEF Tidy, Installed, FileIn
<1> QED
  BY <1>1, <1>4, <1>6 DEF RInv, AcceptableStill, MovedAway, PublishedWanted, RetiredOutdated,
      OrphansTaken

(* The initial state is one of ModStore.                                   *)
LEMMA InitRInv == Init => RInv /\ Store!Init
<1> SUFFICES ASSUME Init PROVE RInv /\ Store!Init
  OBVIOUS
<1>1. op.pc = "idle" /\ registry = [p \in Projects |-> NotInstalled]
      /\ mods \in [Files -> {Other, None}]
  BY DEF Init, Idle
<1>2. LogicalMods = mods
  <2>1. \A f \in Files : LogicalMods[f] = mods[f]
    BY <1>1 DEF LogicalMods
  <2>2. LogicalMods = [f \in Files |-> LogicalMods[f]]
    BY DEF LogicalMods
  <2> QED
    BY <1>1, <2>1, <2>2
<1>3. Tidy(registry, LogicalMods)
  <2>1. Installed(registry) = {}
    BY <1>1 DEF Installed, NotInstalled
  <2> QED
    BY <1>1, <1>2, <2>1, ModAssumption DEF Tidy
<1>4. Store!Init
  BY <1>1, <1>2 DEF Store!Init, NotInstalled, Store!NotInstalled
<1> QED
  BY <1>1, <1>3, <1>4 DEF RInv, AcceptableStill, MovedAway, PublishedWanted, RetiredOutdated,
      OrphansTaken

(* Every step of an operation is one of ModStore, or changes nothing in it. *)
LEMMA NextRefines ==
    ASSUME Faults = {}, IInv, RInv, [Next]_vars
    PROVE  RInv' /\ [Store!Next]_<<registry, LogicalMods>>
<1> DEFINE Same == registry' = registry /\ LogicalMods' = LogicalMods
<1>1. CASE Installing
  <2>1. CASE \E p \in Projects, P \in SUBSET Versions : BeginInstall(p, P)
    BY <2>1, BeginInstallRefines DEF BeginInstall
  <2>2. CASE Stage
    BY <2>2, StageRefines DEF Stage
  <2>3. CASE \E f \in Files : Backup(f) \/ Vacant(f) \/ Publish(f)
    BY <2>3, BackupRefines, VacantRefines, PublishRefines DEF Backup, Vacant, Publish
  <2>4. CASE \E f \in Files : Recognise(f) \/ Retire(f)
    BY <2>4, RecogniseRefines, RetireRefines DEF Recognise, Retire
  <2>5. CASE \E f \in Files : UndoPublished(f) \/ UndoMoved(f)
    BY <2>5, UndoPublishedRefines, UndoMovedRefines DEF UndoPublished, UndoMoved
  <2>6. CASE PublishFails \/ UndoEnds \/ CleanUp
    BY <2>6, PublishFailsRefines, UndoEndsRefines, CleanUpRefines
       DEF PublishFails, UndoEnds, CleanUp
  <2>7. CASE SaveInstalled
    BY <2>7, SaveInstalledRefines
  <2> QED
    BY <1>1, <2>1, <2>2, <2>3, <2>4, <2>5, <2>6, <2>7 DEF Installing
<1>2. CASE Removing
  <2>1. CASE \E p \in Projects : BeginRemove(p) \/ Check(p)
    BY <2>1, BeginRemoveRefines, CheckRefines DEF BeginRemove, Check
  <2>2. CASE \E f \in Files : Take(f) \/ Restore(f)
    BY <2>2, TakeRefines, RestoreRefines DEF Take, Restore
  <2>3. CASE RemoveFails \/ RestoreEnds \/ Sweep
    BY <2>3, RemoveFailsRefines, RestoreEndsRefines, SweepRefines
       DEF RemoveFails, RestoreEnds, Sweep
  <2>4. CASE SaveRemoved
    BY <2>4, SaveRemovedRefines
  <2> QED
    BY <1>2, <2>1, <2>2, <2>3, <2>4 DEF Removing
<1>3. CASE Editing
  BY <1>3, EditRefines DEF Editing
<1>4. CASE Crash
  BY <1>4 DEF Crash
<1>5. CASE UNCHANGED vars
  <2>1. registry' = registry /\ mods' = mods /\ staged' = staged /\ backups' = backups
        /\ trash' = trash /\ op' = op
    BY <1>5 DEF vars, staging
  <2>2. LogicalMods' = LogicalMods
    BY <2>1 DEF LogicalMods
  <2>3. RInv'
    BY <2>1, <2>2 DEF RInv, Tidy, AcceptableStill, MovedAway, PublishedWanted, RetiredOutdated,
       OrphansTaken, Wanted, NewRecord, Acceptable, Removable, Untouched
  <2> QED
    BY <2>1, <2>2, <2>3
<1> QED
  BY <1>1, <1>2, <1>3, <1>4, <1>5 DEF Next

(* Without faults, and whichever single step fails, install_modrinth_-     *)
(* project and remove_modrinth_project are all or nothing.                 *)
THEOREM AlwaysAllOrNothing ==
    ASSUME Faults = {}
    PROVE  Spec => AllOrNothing
<1>1. Init => IInv /\ RInv /\ Store!Init
  BY InitIInv, InitRInv
<1>2. IInv /\ RInv /\ [Next]_vars => IInv' /\ RInv' /\ [Store!Next]_<<registry, LogicalMods>>
  BY NextIInv, NextRefines
<1> QED
  BY <1>1, <1>2, PTL DEF Spec, AllOrNothing, Store!Spec

(* Without faults no JAR is ever left without its record: an update leaves *)
(* no second version of a mod, a removal no file.                          *)
THEOREM NeverAStray ==
    ASSUME Faults = {}
    PROVE  Spec => []NoStrays
<1>1. Init => IInv /\ RInv
  BY InitIInv, InitRInv
<1>2. IInv /\ RInv /\ [Next]_vars => IInv' /\ RInv'
  BY NextIInv, NextRefines
<1>3. RInv => NoStrays
  <2> SUFFICES ASSUME RInv, op.pc = "idle", NEW f \in Files, mods[f] \in Versions
               PROVE  registry[ProjectOf[mods[f]]].version = mods[f]
    BY DEF NoStrays
  <2>1. LogicalMods[f] = mods[f]
    BY DEF LogicalMods
  <2> QED
    BY <2>1 DEF RInv, Tidy
<1> QED
  BY <1>1, <1>2, <1>3, PTL DEF Spec

-----------------------------------------------------------------------------
(* When nobody edits the directory meanwhile, no rollback fails half-way   *)
(* and the launcher lives, the two rollbacks lose nothing, although a file *)
(* may become unreadable at any moment.                                    *)
ReadFaultsOnly == Faults \subseteq {"read"}

(* What is owed is where the operation has put it, and nothing is in the   *)
(* way of its return but what was published and goes first.                *)
OwedInBackups ==
    op.pc \in {"publishing", "undo"} =>
        /\ \A f \in Files : backups[f] # None => mods[f] = None \/ f \in op.published
        /\ \A x \in owed : x[2] # None /\ backups[x[1]] = x[2]

PublishedPlanned ==
    op.pc = "publishing" =>
        \A f \in op.published : staged[f] = None /\ \E v \in op.plan : FileOf[v] = f

OwedInTrash ==
    /\ op.pc \in {"taking", "restoring"} =>
          /\ \A f \in Files : trash[f] # None => mods[f] = None
          /\ \A x \in owed : x[2] # None
    /\ op.pc \in {"idle", "taking", "restoring"} => \A x \in owed : trash[x[1]] = x[2]

NothingOwed ==
    /\ op.pc \in {"staging", "cleanup", "installed", "sweeping"} => owed = {}
    /\ op.pc = "staging" => backups = NoFiles

KInv == OwedInBackups /\ PublishedPlanned /\ OwedInTrash /\ NothingOwed

(* One step of the launcher keeps what is owed.                            *)
KeepsOwed ==
    \/ SaveInstalled \/ SaveRemoved
    \/ \E p \in Projects : BeginRemove(p)
    \/ \A x \in owed : x[2] \in {backups'[x[1]], trash'[x[1]], mods'[x[1]]}

(* At first nothing is owed.                                               *)
LEMMA InitKInv == Init => KInv
  BY DEF Init, Idle, KInv, OwedInBackups, PublishedPlanned, OwedInTrash, NothingOwed

(* Where nothing is owed and no file has been moved yet, or any more.      *)
LEMMA NothingOwedKeeps ==
    ASSUME owed' = {}, op'.pc \in {"idle", "staging", "cleanup", "installed", "sweeping"},
           op'.pc = "staging" => backups' = NoFiles
    PROVE  KInv'
  BY DEF KInv, OwedInBackups, PublishedPlanned, OwedInTrash, NothingOwed

(* A step that moves no file, of an operation that stays where it is.      *)
LEMMA SamePlaceKeeps ==
    ASSUME IInv, KInv, op'.pc = op.pc, op'.published = op.published, op'.plan = op.plan,
           UNCHANGED <<mods, staging, owed>>
    PROVE  KInv' /\ KeepsOwed
<1>1. KInv'
  BY DEF KInv, OwedInBackups, PublishedPlanned, OwedInTrash, NothingOwed, staging
<1>2. op \in Operations
  BY DEF IInv, TypeOK
<1>3. ASSUME NEW x \in owed
      PROVE  x[2] \in {backups'[x[1]], trash'[x[1]]}
  BY <1>2 DEF Operations, KInv, OwedInBackups, OwedInTrash, NothingOwed, staging
<1> QED
  BY <1>1, <1>3 DEF KeepsOwed

(* What an installation moves away it owes, and has in its backups.        *)
LEMMA MovedToBackups ==
    ASSUME IInv, KInv, NEW f \in Files, op.pc = "publishing", f \notin op.published,
           mods[f] # None, backups' = Moved(mods, backups, f), mods' = Gone(mods, f),
           Owes(f), op'.pc = "publishing", op'.published = op.published, op'.plan = op.plan,
           staged' = staged
    PROVE  KInv' /\ KeepsOwed
<1>1. /\ \A g \in Files : mods'[g] = IF g = f THEN None ELSE mods[g]
      /\ \A g \in Files : backups'[g] = IF g = f THEN mods[f] ELSE backups[g]
      /\ owed \subseteq Files \X Contents
  BY DEF Gone, Moved, IInv, TypeOK
<1>2. owed' = owed \cup {<<f, mods[f]>>}
  BY DEF Owes
<1>3. backups[f] = None
  BY DEF KInv, OwedInBackups
<1>4. \A x \in owed : x[1] \in Files /\ x[1] # f /\ x[2] # None /\ backups[x[1]] = x[2]
  BY <1>1, <1>3 DEF KInv, OwedInBackups
<1>5. \A x \in owed' : x[2] # None /\ backups'[x[1]] = x[2]
  BY <1>1, <1>2, <1>4
<1>6. \A g \in Files : backups'[g] # None => mods'[g] = None \/ g \in op'.published
  BY <1>1 DEF KInv, OwedInBackups
<1>7. KInv'
  BY <1>5, <1>6 DEF KInv, OwedInBackups, PublishedPlanned, OwedInTrash, NothingOwed
<1> QED
  BY <1>2, <1>5, <1>7 DEF KeepsOwed

(* Publication: backups make room, and a published file hides none.        *)
LEMMA PublicationKeeps ==
    ASSUME IInv, KInv, NEW f \in Files,
           Backup(f) \/ Vacant(f) \/ Publish(f) \/ Recognise(f) \/ Retire(f)
    PROVE  KInv' /\ KeepsOwed
<1>0. op \in Operations
  BY DEF IInv, TypeOK
<1>1. ASSUME Backup(f) PROVE KInv' /\ KeepsOwed
  <2>1. op.pc = "publishing" /\ f \notin op.published /\ mods[f] # None
    BY <1>1 DEF Backup, KInv, PublishedPlanned
  <2>2. op'.pc = op.pc /\ op'.published = op.published /\ op'.plan = op.plan
    BY <1>0, <1>1 DEF Backup, Operations
  <2> QED
    BY <1>1, <2>1, <2>2, MovedToBackups DEF Backup
<1>2. ASSUME Vacant(f) \/ Recognise(f) PROVE KInv' /\ KeepsOwed
  <2>1. op'.pc = op.pc /\ op'.published = op.published /\ op'.plan = op.plan
    BY <1>0, <1>2 DEF Vacant, Recognise, Operations
  <2> QED
    BY <1>2, <2>1, SamePlaceKeeps DEF Vacant, Recognise
<1>3. ASSUME Retire(f) PROVE KInv' /\ KeepsOwed
  <2>1. op.pc = "publishing" /\ op.cur = f /\ f # None /\ staged = NoFiles /\ mods[f] # None
    BY <1>3, ModAssumption DEF Retire, Published
  <2>2. f \notin FilesIn(NewRecord)
    BY <2>1 DEF IInv, CurrentKnown
  <2>3. f \notin op.published
    BY <2>1, <2>2, PlannedFile DEF KInv, PublishedPlanned
  <2>4. op'.pc = op.pc /\ op'.published = op.published /\ op'.plan = op.plan
    BY <1>0, <1>3 DEF Retire, Operations
  <2> QED
    BY <1>3, <2>1, <2>3, <2>4, MovedToBackups DEF Retire
<1>4. ASSUME Publish(f) PROVE KInv' /\ KeepsOwed
  <2>1. /\ op.pc = "publishing" /\ op'.pc = "publishing" /\ op'.plan = op.plan
        /\ op'.published = op.published \cup {f}
    BY <1>0, <1>4 DEF Publish, Operations
  <2>2. /\ \A g \in Files : g # f => mods'[g] = mods[g] /\ staged'[g] = staged[g]
        /\ staged'[f] = None
        /\ backups' = backups /\ owed' = owed
    BY <1>4 DEF Publish, Gone, Moved, IInv, TypeOK
  <2>3. staged[f] \in op.plan /\ FileOf[staged[f]] = f
    BY <1>4 DEF Publish, IInv, StagedPlanned
  <2>4. op.published \subseteq Files
    BY <1>0 DEF Operations
  <2>5. OwedInBackups'
    BY <2>1, <2>2 DEF KInv, OwedInBackups
  <2>6. PublishedPlanned'
    BY <2>1, <2>2, <2>3, <2>4 DEF KInv, PublishedPlanned
  <2>7. KInv'
    BY <2>1, <2>5, <2>6 DEF KInv, OwedInTrash, NothingOwed
  <2> QED
    BY <2>1, <2>2, <2>7 DEF KeepsOwed, KInv, OwedInBackups
<1> QED
  BY <1>1, <1>2, <1>3, <1>4

(* The rollback of an installation: a backup goes back where nothing is,   *)
(* and the end is reached with nothing owed.                               *)
LEMMA UndoKeeps ==
    ASSUME IInv, KInv, ReadFaultsOnly,
           PublishFails \/ UndoEnds \/ \E f \in Files : UndoPublished(f) \/ UndoMoved(f)
    PROVE  KInv' /\ KeepsOwed
<1>0. op \in Operations /\ mods \in [Files -> Contents] /\ backups \in [Files -> Contents]
      /\ owed \subseteq Files \X Contents
  BY DEF IInv, TypeOK
<1>1. ASSUME PublishFails PROVE KInv' /\ KeepsOwed
  <2>1. op.pc = "publishing" /\ op'.pc = "undo" /\ op'.published = op.published
    BY <1>0, <1>1 DEF PublishFails, To, Operations
  <2>2. KInv'
    BY <1>1, <2>1 DEF PublishFails, staging, KInv, OwedInBackups, PublishedPlanned,
        OwedInTrash, NothingOwed
  <2> QED
    BY <1>1, <2>1, <2>2 DEF PublishFails, staging, KeepsOwed, KInv, OwedInBackups
<1>2. ASSUME UndoEnds PROVE KInv' /\ KeepsOwed
  <2>1. op.pc = "undo" /\ op'.pc = "cleanup" /\ owed' = owed /\ op.published = {}
    BY <1>0, <1>2 DEF UndoEnds, To, Operations, ReadFaultsOnly
  <2>2. backups = NoFiles
    BY <1>2, <2>1 DEF UndoEnds, ReadFaultsOnly, KInv, OwedInBackups
  <2>3. owed = {}
    BY <1>0, <2>1, <2>2 DEF KInv, OwedInBackups, NoFiles
  <2> QED
    BY <2>1, <2>3, NothingOwedKeeps DEF KeepsOwed
<1>3. ASSUME NEW f \in Files, UndoPublished(f) PROVE KInv' /\ KeepsOwed
  <2>1. /\ op.pc = "undo" /\ op'.pc = "undo" /\ op'.published = op.published \ {f}
        /\ owed' = owed /\ backups' = backups
    BY <1>0, <1>3 DEF UndoPublished, Operations, staging
  <2>2. \A g \in Files : mods'[g] = IF g = f THEN None ELSE mods[g]
    BY <1>0, <1>3 DEF UndoPublished, Gone
  <2>3. KInv'
    BY <2>1, <2>2 DEF KInv, OwedInBackups, PublishedPlanned, OwedInTrash, NothingOwed
  <2> QED
    BY <2>1, <2>3 DEF KeepsOwed, KInv, OwedInBackups
<1>4. ASSUME NEW f \in Files, UndoMoved(f) PROVE KInv' /\ KeepsOwed
  <2>1. /\ op.pc = "undo" /\ op' = op /\ op.published = {}
        /\ owed' = {x \in owed : x[1] # f}
    BY <1>4 DEF UndoMoved, Returns
  <2>2. /\ \A g \in Files : mods'[g] = IF g = f THEN backups[f] ELSE mods[g]
        /\ \A g \in Files : backups'[g] = IF g = f THEN None ELSE backups[g]
    BY <1>0, <1>4 DEF UndoMoved, Gone, Moved
  <2>3. OwedInBackups'
    <3>1. \A x \in owed' : x[2] # None /\ backups'[x[1]] = x[2]
      BY <1>0, <2>1, <2>2 DEF KInv, OwedInBackups
    <3>2. \A g \in Files : backups'[g] # None => mods'[g] = None \/ g \in op'.published
      BY <2>1, <2>2 DEF KInv, OwedInBackups
    <3> QED
      BY <3>1, <3>2 DEF OwedInBackups
  <2>4. KInv'
    BY <2>1, <2>3 DEF KInv, PublishedPlanned, OwedInTrash, NothingOwed
  <2>5. ASSUME NEW x \in owed
        PROVE  x[2] \in {backups'[x[1]], mods'[x[1]]}
    <3>1. x[1] \in Files /\ backups[x[1]] = x[2]
      BY <1>0, <2>1 DEF KInv, OwedInBackups
    <3> QED
      BY <2>2, <3>1
  <2> QED
    BY <2>4, <2>5 DEF KeepsOwed
<1> QED
  BY <1>1, <1>2, <1>3, <1>4

(* The removal: what was taken is in its directory.                        *)
LEMMA TakeKeeps ==
    ASSUME IInv, KInv, NEW f \in Files, Take(f)
    PROVE  KInv' /\ KeepsOwed
<1>0. op \in Operations /\ mods \in [Files -> Contents] /\ trash \in [Files -> Contents]
      /\ owed \subseteq Files \X Contents
  BY DEF IInv, TypeOK
<1>1. op.pc = "taking" /\ op'.pc \in {"taking", "restoring"} /\ mods[f] # None
  BY <1>0 DEF Take, To, Operations
<1>2. /\ \A g \in Files : mods'[g] = IF g = f THEN None ELSE mods[g]
      /\ \A g \in Files : trash'[g] = IF g = f THEN mods[f] ELSE trash[g]
      /\ owed' = owed \cup {<<f, mods[f]>>}
  BY <1>0 DEF Take, Gone, Moved, Owes
<1>3. trash[f] = None
  BY <1>1 DEF KInv, OwedInTrash
<1>4. \A x \in owed : x[1] \in Files /\ x[1] # f /\ x[2] # None /\ trash[x[1]] = x[2]
  BY <1>0, <1>1, <1>3 DEF KInv, OwedInTrash
<1>5. \A x \in owed' : x[2] # None /\ trash'[x[1]] = x[2]
  BY <1>1, <1>2, <1>4
<1>6. \A g \in Files : trash'[g] # None => mods'[g] = None
  BY <1>1, <1>2 DEF KInv, OwedInTrash
<1>7. KInv'
  BY <1>1, <1>5, <1>6 DEF KInv, OwedInBackups, PublishedPlanned, OwedInTrash, NothingOwed
<1> QED
  BY <1>2, <1>5, <1>7 DEF KeepsOwed

(* A file of a removal that does not go on returns to its place.           *)
LEMMA RestoreKeeps ==
    ASSUME IInv, KInv, NEW f \in Files, Restore(f)
    PROVE  KInv' /\ KeepsOwed
<1>0. mods \in [Files -> Contents] /\ trash \in [Files -> Contents]
      /\ owed \subseteq Files \X Contents
  BY DEF IInv, TypeOK
<1>1. op.pc = "restoring" /\ op' = op /\ owed' = {x \in owed : x[1] # f}
  BY DEF Restore, Returns
<1>2. /\ \A g \in Files : mods'[g] = IF g = f THEN trash[f] ELSE mods[g]
      /\ \A g \in Files : trash'[g] = IF g = f THEN None ELSE trash[g]
  BY <1>0 DEF Restore, Gone, Moved
<1>3. \A x \in owed' : x[2] # None /\ trash'[x[1]] = x[2]
  BY <1>0, <1>1, <1>2 DEF KInv, OwedInTrash
<1>4. \A g \in Files : trash'[g] # None => mods'[g] = None
  BY <1>1, <1>2 DEF KInv, OwedInTrash
<1>5. KInv'
  BY <1>1, <1>3, <1>4 DEF KInv, OwedInBackups, PublishedPlanned, OwedInTrash, NothingOwed
<1>6. ASSUME NEW x \in owed
      PROVE  x[2] \in {trash'[x[1]], mods'[x[1]]}
  <2>1. x[1] \in Files /\ trash[x[1]] = x[2]
    BY <1>0, <1>1 DEF KInv, OwedInTrash
  <2> QED
    BY <1>2, <2>1
<1> QED
  BY <1>5, <1>6 DEF KeepsOwed

(* Every step keeps the invariant and what is owed.                        *)
LEMMA NextKInv ==
    ASSUME IInv, KInv, ReadFaultsOnly, Next
    PROVE  KInv' /\ KeepsOwed
<1>0. op \in Operations
  BY DEF IInv, TypeOK
<1>1. ASSUME Installing PROVE KInv' /\ KeepsOwed
  <2>1. ASSUME NEW p \in Projects, NEW P \in SUBSET Versions, BeginInstall(p, P)
        PROVE  KInv' /\ KeepsOwed
    <3>1. op'.pc = "staging" /\ owed' = {} /\ backups' = NoFiles
      BY <2>1 DEF BeginInstall, Idle
    <3>2. \A x \in owed : x[2] = trash'[x[1]]
      BY <2>1 DEF BeginInstall, KInv, OwedInTrash
    <3> QED
      BY <3>1, <3>2, NothingOwedKeeps DEF KeepsOwed
  <2>2. ASSUME Stage PROVE KInv' /\ KeepsOwed
    <3>1. /\ op.pc = "staging" /\ owed = {} /\ owed' = {} /\ op.published = {}
          /\ op'.pc \in {"publishing", "cleanup"} /\ op'.published = op.published
          /\ backups' = backups /\ backups = NoFiles
      BY <1>0, <2>2 DEF Stage, To, Operations, KInv, NothingOwed, IInv, CurrentKnown
    <3>2. KInv'
      BY <3>1 DEF NoFiles, KInv, OwedInBackups, PublishedPlanned, OwedInTrash, NothingOwed
    <3> QED
      BY <3>1, <3>2 DEF KeepsOwed
  <2>3. ASSUME NEW f \in Files,
               Backup(f) \/ Vacant(f) \/ Publish(f) \/ Recognise(f) \/ Retire(f)
        PROVE  KInv' /\ KeepsOwed
    BY <2>3, PublicationKeeps
  <2>4. ASSUME PublishFails \/ UndoEnds \/ \E f \in Files : UndoPublished(f) \/ UndoMoved(f)
        PROVE  KInv' /\ KeepsOwed
    BY <2>4, UndoKeeps
  <2>5. ASSUME SaveInstalled PROVE KInv' /\ KeepsOwed
    <3>1. owed' = {} /\ op'.pc = "installed"
      BY <1>0, <2>5 DEF SaveInstalled, To, Operations
    <3> QED
      BY <2>5, <3>1, NothingOwedKeeps DEF KeepsOwed
  <2>6. ASSUME CleanUp PROVE KInv' /\ KeepsOwed
    <3>1. owed = {} /\ owed' = {} /\ op'.pc = "idle"
      BY <2>6 DEF CleanUp, End, Idle, KInv, NothingOwed
    <3> QED
      BY <3>1, NothingOwedKeeps DEF KeepsOwed
  <2> QED
    BY <1>1, <2>1, <2>2, <2>3, <2>4, <2>5, <2>6 DEF Installing
<1>2. ASSUME Removing PROVE KInv' /\ KeepsOwed
  <2>1. ASSUME NEW p \in Projects, BeginRemove(p) PROVE KInv' /\ KeepsOwed
    <3>1. op'.pc = "taking" /\ owed' = {} /\ trash' = NoFiles
      BY <2>1 DEF BeginRemove, Idle
    <3>2. KInv'
      BY <3>1 DEF KInv, OwedInBackups, PublishedPlanned, OwedInTrash, NothingOwed, NoFiles
    <3> QED
      BY <2>1, <3>2 DEF KeepsOwed
  <2>2. ASSUME NEW q \in Projects, Check(q) PROVE KInv' /\ KeepsOwed
    <3>1. /\ op.pc = "taking" /\ op'.pc \in {"idle", "taking"}
          /\ UNCHANGED <<mods, staging, owed>>
      BY <1>0, <2>2 DEF Check, End, Idle, Operations
    <3>2. KInv'
      BY <3>1 DEF KInv, OwedInBackups, PublishedPlanned, OwedInTrash, NothingOwed, staging
    <3> QED
      BY <3>1, <3>2 DEF KeepsOwed, KInv, OwedInTrash, staging
  <2>3. ASSUME NEW f \in Files, Take(f) \/ Restore(f) PROVE KInv' /\ KeepsOwed
    BY <2>3, TakeKeeps, RestoreKeeps
  <2>4. ASSUME SaveRemoved PROVE KInv' /\ KeepsOwed
    <3>1. owed' = {} /\ op'.pc = "sweeping"
      BY <1>0, <2>4 DEF SaveRemoved, To, Operations
    <3> QED
      BY <2>4, <3>1, NothingOwedKeeps DEF KeepsOwed
  <2>5. ASSUME RemoveFails PROVE KInv' /\ KeepsOwed
    <3>1. /\ op.pc = "taking" /\ op'.pc = "restoring" /\ UNCHANGED <<mods, staging, owed>>
      BY <1>0, <2>5 DEF RemoveFails, To, Operations
    <3>2. KInv'
      BY <3>1 DEF KInv, OwedInBackups, PublishedPlanned, OwedInTrash, NothingOwed, staging
    <3> QED
      BY <3>1, <3>2 DEF KeepsOwed, KInv, OwedInTrash, staging
  <2>6. ASSUME RestoreEnds PROVE KInv' /\ KeepsOwed
    <3>1. op.pc = "restoring" /\ op'.pc = "idle" /\ owed' = owed
      BY <2>6 DEF RestoreEnds, End, Idle
    <3>2. trash = NoFiles
      BY <2>6, <3>1 DEF RestoreEnds, ReadFaultsOnly, KInv, OwedInTrash
    <3>3. owed = {}
      BY <3>1, <3>2 DEF KInv, OwedInTrash, NoFiles, IInv, TypeOK
    <3> QED
      BY <3>1, <3>3, NothingOwedKeeps DEF KeepsOwed
  <2>7. ASSUME Sweep PROVE KInv' /\ KeepsOwed
    <3>1. owed = {} /\ owed' = {} /\ op'.pc = "idle"
      BY <2>7 DEF Sweep, End, Idle, KInv, NothingOwed
    <3> QED
      BY <3>1, NothingOwedKeeps DEF KeepsOwed
  <2> QED
    BY <1>2, <2>1, <2>2, <2>3, <2>4, <2>5, <2>6, <2>7 DEF Removing
<1>3. ASSUME Editing PROVE KInv' /\ KeepsOwed
  <2>1. op.pc = "idle" /\ op' = op /\ owed' = owed /\ trash' = trash
    BY <1>3 DEF Editing, Edit, ReadFaultsOnly, staging
  <2>2. KInv'
    BY <2>1 DEF KInv, OwedInBackups, PublishedPlanned, OwedInTrash, NothingOwed
  <2> QED
    BY <2>1, <2>2 DEF KeepsOwed, KInv, OwedInTrash
<1>4. ~Crash
  BY DEF Crash, ReadFaultsOnly
<1> QED
  BY <1>1, <1>2, <1>3, <1>4 DEF Next

(* Outside a rollback that fails half-way, an edit in between or a crash,  *)
(* no only copy of a file is deleted: rollback_installation and            *)
(* rollback_removal have put everything back before the staging directory  *)
(* goes, and the run mods_rollback needs the fault it names.               *)
THEOREM NothingLostButByFaults ==
    ASSUME Faults \subseteq {"read"}
    PROVE  Spec => NothingLost
<1>1. Init => IInv /\ KInv
  BY InitIInv, InitKInv
<1>2. IInv /\ KInv /\ [Next]_vars => IInv' /\ KInv' /\ [KeepsOwed]_vars
  <2> SUFFICES ASSUME IInv, KInv, [Next]_vars
               PROVE  IInv' /\ KInv' /\ [KeepsOwed]_vars
    OBVIOUS
  <2>1. IInv'
    BY NextIInv
  <2>2. CASE Next
    BY <2>1, <2>2, NextKInv DEF ReadFaultsOnly
  <2>3. CASE UNCHANGED vars
    <3>1. KInv'
      BY <2>3, SamePlaceKeeps DEF vars, staging
    <3> QED
      BY <2>1, <2>3, <3>1
  <2> QED
    BY <2>2, <2>3
<1>3. Spec => [][KeepsOwed]_vars
  BY <1>1, <1>2, PTL DEF Spec
<1> QED
  BY <1>3 DEF KeepsOwed, NothingLost

(* What a removal has still to take is absent or as installed: nothing but *)
(* the removal changes it.                                                 *)
RefusalInv ==
    /\ op.pc = "idle" => owed = {}
    /\ op.pc = "taking" => \A q \in op.todo : Untouched(registry, mods, q)

(* Every step of an undisturbed operation keeps that.                      *)
LEMMA NextRefusal ==
    ASSUME Faults = {}, IInv, KInv, RefusalInv, Next
    PROVE  RefusalInv'
<1>0. op \in Operations /\ mods \in [Files -> Contents]
  BY DEF IInv, TypeOK
<1>1. ASSUME op'.pc \notin {"idle", "taking"} PROVE RefusalInv'
  BY <1>1 DEF RefusalInv
<1>2. ASSUME op'.pc = "idle", owed' = {} PROVE RefusalInv'
  BY <1>2 DEF RefusalInv
<1>3. ASSUME Installing PROVE RefusalInv'
  <2>1. ASSUME CleanUp PROVE RefusalInv'
    <3>1. op'.pc = "idle" /\ owed' = {}
      BY <2>1 DEF CleanUp, End, Idle, KInv, NothingOwed
    <3> QED
      BY <1>2, <3>1
  <2>2. ASSUME Installing, ~CleanUp PROVE op'.pc \notin {"idle", "taking"}
    BY <1>0, <2>2 DEF Installing, BeginInstall, Stage, Backup, Vacant, Publish, Recognise,
        Retire, UndoPublished, UndoMoved, SaveInstalled, PublishFails, UndoEnds, To, Idle,
        Operations, Published
  <2> QED
    BY <1>1, <1>3, <2>1, <2>2
<1>4. ASSUME Removing PROVE RefusalInv'
  <2>1. ASSUME NEW p \in Projects, BeginRemove(p) PROVE RefusalInv'
    <3>1. op'.pc = "taking" /\ op'.todo = Orphans(registry, p)
      BY <2>1 DEF BeginRemove, Idle
    <3>2. \A q \in op'.todo : Untouched(registry, mods, q)'
      BY <2>1, <3>1 DEF BeginRemove, Untouched, FileIn
    <3> QED
      BY <3>1, <3>2 DEF RefusalInv
  <2>2. ASSUME NEW q \in Projects, Check(q) PROVE RefusalInv'
    <3>1. op.pc = "taking" /\ q \in op.todo /\ registry' = registry /\ mods' = mods
      BY <2>2 DEF Check
    <3>2. Untouched(registry, mods, q)
      BY <3>1 DEF RefusalInv
    <3>3. op'.pc = "taking" /\ op'.todo \subseteq op.todo
      BY <1>0, <2>2, <3>2 DEF Check, Operations
    <3> QED
      BY <3>1, <3>3 DEF RefusalInv, Untouched, FileIn
  <2>3. ASSUME NEW f \in Files, Take(f) PROVE RefusalInv'
    <3>1. op.pc = "taking" /\ op'.pc \in {"taking", "restoring"} /\ op'.todo \subseteq op.todo
          /\ registry' = registry
      BY <1>0, <2>3 DEF Take, To, Operations
    <3>2. \A g \in Files : mods'[g] \in {mods[g], None}
      BY <1>0, <2>3 DEF Take, Gone
    <3>3. ASSUME op'.pc = "taking", NEW q \in op'.todo
          PROVE  Untouched(registry, mods, q)'
      <4>1. q \in Installed(registry) /\ Untouched(registry, mods, q)
        BY <3>1, <3>3 DEF RefusalInv, IInv, CurrentKnown
      <4>2. FileIn(registry, q) \in Files
        BY <4>1, ModAssumption DEF Installed, FileIn, IInv, TypeOK, Records
      <4> QED
        BY <3>1, <3>2, <4>1, <4>2 DEF Untouched, FileIn
    <3> QED
      BY <3>1, <3>3 DEF RefusalInv
  <2>4. ASSUME RestoreEnds PROVE RefusalInv'
    <3>1. op.pc = "restoring" /\ op'.pc = "idle" /\ owed' = owed
      BY <2>4 DEF RestoreEnds, End, Idle
    <3>2. trash = NoFiles
      BY <2>4, <3>1 DEF RestoreEnds, KInv, OwedInTrash
    <3>3. owed = {}
      BY <3>1, <3>2 DEF KInv, OwedInTrash, NoFiles, IInv, TypeOK
    <3> QED
      BY <1>2, <3>1, <3>3
  <2>5. ASSUME Sweep PROVE RefusalInv'
    <3>1. op'.pc = "idle" /\ owed' = {}
      BY <2>5 DEF Sweep, End, Idle, KInv, NothingOwed
    <3> QED
      BY <1>2, <3>1
  <2>6. ASSUME SaveRemoved \/ RemoveFails \/ \E f \in Files : Restore(f)
        PROVE  RefusalInv'
    <3>1. op'.pc \in {"sweeping", "restoring"}
      BY <1>0, <2>6 DEF SaveRemoved, RemoveFails, Restore, To, Operations
    <3> QED
      BY <1>1, <3>1
  <2> QED
    BY <1>4, <2>1, <2>2, <2>3, <2>4, <2>5, <2>6 DEF Removing
<1>5. ASSUME Editing PROVE RefusalInv'
  BY <1>5 DEF Editing, Edit, RefusalInv
<1>6. ~Crash
  BY DEF Crash
<1> QED
  BY <1>3, <1>4, <1>5, <1>6 DEF Next

(* Without faults a removal that ends, however it ends, owes nothing: its  *)
(* check before a move can only fail, and skip rollback_removal, because   *)
(* somebody has edited the file or it cannot be read (run mods_refusal).   *)
THEOREM RefusalAlwaysRestores ==
    ASSUME Faults = {}
    PROVE  Spec => []RefusalRestores
<1>1. Init => IInv /\ KInv /\ RefusalInv
  <2>1. Init => RefusalInv
    BY DEF Init, Idle, RefusalInv
  <2> QED
    BY <2>1, InitIInv, InitKInv
<1>2. IInv /\ KInv /\ RefusalInv /\ [Next]_vars => IInv' /\ KInv' /\ RefusalInv'
  <2> SUFFICES ASSUME IInv, KInv, RefusalInv, [Next]_vars
               PROVE  IInv' /\ KInv' /\ RefusalInv'
    OBVIOUS
  <2>1. IInv'
    BY NextIInv
  <2>2. CASE Next
    BY <2>1, <2>2, NextKInv, NextRefusal DEF ReadFaultsOnly
  <2>3. CASE UNCHANGED vars
    <3>1. KInv'
      BY <2>3, SamePlaceKeeps DEF vars, staging
    <3>2. RefusalInv'
      BY <2>3 DEF vars, RefusalInv, Untouched, FileIn
    <3> QED
      BY <2>1, <3>1, <3>2
  <2> QED
    BY <2>2, <2>3
<1>3. RefusalInv => RefusalRestores
  BY DEF RefusalInv, RefusalRestores
<1> QED
  BY <1>1, <1>2, <1>3, PTL DEF Spec
=============================================================================
