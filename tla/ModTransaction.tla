---------------------------- MODULE ModTransaction ----------------------------
(***************************************************************************)
(* install_modrinth_project and remove_modrinth_project of                 *)
(* src-tauri/src/minecraft/modrinth_installer.rs, file by file: staging,   *)
(* backups, publication, the atomic replacement of the record, rollback    *)
(* and cleanup. The caller holds the instance's reservation (see           *)
(* InstanceRegistry), so there is one operation at a time, and the game is *)
(* not running; the user may still be working in the mods directory.       *)
(*                                                                         *)
(* A rename and write_atomic succeed entirely or fail without effect. Any  *)
(* of them may fail once; what else goes wrong is chosen with Faults.      *)
(***************************************************************************)
EXTENDS ModPlan

CONSTANT Faults     \* the faults considered: a subset of AllFaults

(* "edit": files change while an operation is under way. "read": a file    *)
(* cannot be read. "rollback": a rollback fails half-way. "crash": the     *)
(* launcher dies.                                                          *)
AllFaults == {"edit", "read", "rollback", "crash"}

ASSUME FaultAssumption == Faults \subseteq AllFaults

VARIABLES
    registry,   \* the record on disk
    mods,       \* the mods directory
    staged,     \* modrinth-staging: what has been downloaded
    backups,    \* modrinth-staging/backups: what was moved out of the way
    trash,      \* the staging directory of the latest removal
    op,         \* the operation in progress
    owed,       \* history: what the latest operation has moved away, and
                \* neither restored nor committed
    touched     \* history: files edited since the operation began

staging == <<staged, backups, trash>>
vars    == <<registry, mods, staging, op, owed, touched>>

-----------------------------------------------------------------------------
(* An operation: where it stands, its project, its plan, the file or       *)
(* project it is busy with, the projects a removal has still to take, and  *)
(* the files an installation has published.                                *)
Idle == [pc |-> "idle", project |-> None, plan |-> {}, cur |-> None,
         todo |-> {}, published |-> {}]

Init ==
    /\ registry = [p \in Projects |-> NotInstalled]
    /\ mods \in [Files -> {Other, None}]
    /\ staged = NoFiles
    /\ backups = NoFiles
    /\ trash = NoFiles
    /\ op = Idle
    /\ owed = {}
    /\ touched = {}

To(pc) == op' = [op EXCEPT !.pc = pc]
End    == op' = Idle /\ touched' = {}

(* One rename: file f leaves `from' for `to', where it replaces what is    *)
(* there.                                                                  *)
Gone(dir, f) == [dir EXCEPT ![f] = None]
Moved(from, to, f) == [to EXCEPT ![f] = from[f]]

Owes(f) == owed' = owed \cup {<<f, mods[f]>>}
Returns(f) == owed' = {x \in owed : x[1] # f}

-----------------------------------------------------------------------------
(* Installation.                                                           *)

NewRecord == WithPlan(registry, op.project, op.plan)

(* The plan is resolved and accepted, and the staging directory of earlier *)
(* installations replaced by an empty one. An error while that is done is  *)
(* an operation that ends at once.                                         *)
BeginInstall(p, P) ==
    /\ op.pc = "idle"
    /\ Plan(p, P)
    /\ Acceptable(registry, mods, P)
    /\ op' = [Idle EXCEPT !.pc = "staging", !.project = p, !.plan = P]
    /\ staged' = NoFiles
    /\ backups' = NoFiles
    /\ owed' = {}
    /\ UNCHANGED <<registry, mods, trash, touched>>

Stage ==
    /\ op.pc = "staging"
    /\ \/ staged' = Fetched(ToFetch(registry, mods, op.plan)) /\ To("publishing")
       \/ UNCHANGED staged /\ To("cleanup")
    /\ UNCHANGED <<registry, mods, backups, trash, owed, touched>>

(* What is in the way of a new file goes to the backups, ...               *)
Backup(f) ==
    /\ op.pc = "publishing"
    /\ op.cur = None
    /\ staged[f] # None
    /\ mods[f] # None
    /\ backups' = Moved(mods, backups, f)
    /\ mods' = Gone(mods, f)
    /\ op' = [op EXCEPT !.cur = f]
    /\ Owes(f)
    /\ UNCHANGED <<registry, staged, trash, touched>>

(* ... if anything is, ...                                                 *)
Vacant(f) ==
    /\ op.pc = "publishing"
    /\ op.cur = None
    /\ staged[f] # None
    /\ mods[f] = None
    /\ op' = [op EXCEPT !.cur = f]
    /\ UNCHANGED <<registry, mods, staging, owed, touched>>

(* ... the new file takes its place, ...                                   *)
Publish(f) ==
    /\ op.pc = "publishing"
    /\ op.cur = f
    /\ staged[f] # None
    /\ mods' = Moved(staged, mods, f)
    /\ staged' = Gone(staged, f)
    /\ op' = [op EXCEPT !.cur = None, !.published = @ \cup {f}]
    /\ UNCHANGED <<registry, backups, trash, owed, touched>>

Published == op.pc = "publishing" /\ staged = NoFiles

(* ... and the files of the versions replaced go as well: each one is      *)
(* recognised by its content and then moved.                               *)
Recognise(f) ==
    /\ Published
    /\ op.cur = None
    /\ f \in Outdated(registry, NewRecord, mods)
    /\ op' = [op EXCEPT !.cur = f]
    /\ UNCHANGED <<registry, mods, staging, owed, touched>>

Retire(f) ==
    /\ Published
    /\ op.cur = f
    /\ mods[f] # None
    /\ backups' = Moved(mods, backups, f)
    /\ mods' = Gone(mods, f)
    /\ op' = [op EXCEPT !.cur = None]
    /\ Owes(f)
    /\ UNCHANGED <<registry, staged, trash, touched>>

SaveInstalled ==
    /\ Published
    /\ op.cur = None
    /\ Outdated(registry, NewRecord, mods) = {}
    /\ registry' = NewRecord
    /\ owed' = {}
    /\ To("installed")
    /\ UNCHANGED <<mods, staging, touched>>

(* Faulty variant: an error is reported without a rollback.                *)
PublishFailsFlat ==
    /\ op.pc = "publishing"
    /\ To("cleanup")
    /\ UNCHANGED <<registry, mods, staging, owed, touched>>

(* Creating the backup directory, a rename or saving the record fails.     *)
PublishFails ==
    /\ op.pc = "publishing"
    /\ To("undo")
    /\ UNCHANGED <<registry, mods, staging, owed, touched>>

(* rollback_installation: first the new files are removed, ...             *)
UndoPublished(f) ==
    /\ op.pc = "undo"
    /\ f \in op.published
    /\ mods' = Gone(mods, f)
    /\ op' = [op EXCEPT !.published = @ \ {f}]
    /\ UNCHANGED <<registry, staging, owed, touched>>

(* ... then the old ones moved back.                                       *)
UndoMoved(f) ==
    /\ op.pc = "undo"
    /\ op.published = {}
    /\ backups[f] # None
    /\ mods[f] = None
    /\ mods' = Moved(backups, mods, f)
    /\ backups' = Gone(backups, f)
    /\ Returns(f)
    /\ UNCHANGED <<registry, staged, trash, op, touched>>

(* The rollback is complete, or it cannot go on: it does not overwrite a   *)
(* file that has appeared in the meantime.                                 *)
UndoEnds ==
    /\ op.pc = "undo"
    /\ \/ op.published = {} /\ backups = NoFiles
       \/ op.published = {} /\ \E f \in Files : backups[f] # None /\ mods[f] # None
       \/ "rollback" \in Faults
    /\ To("cleanup")
    /\ UNCHANGED <<registry, mods, staging, owed, touched>>

(* Whatever the outcome, install_modrinth_project deletes the staging      *)
(* directory with the backups in it; an error is ignored.                  *)
CleanUp ==
    /\ op.pc \in {"cleanup", "installed"}
    /\ End
    /\ \/ staged' = NoFiles /\ backups' = NoFiles
       \/ UNCHANGED <<staged, backups>>
    /\ UNCHANGED <<registry, mods, trash, owed>>

-----------------------------------------------------------------------------
(* Removal.                                                                *)

(* All files to be removed are validated before the first one is moved.    *)
(* They will go to a directory of this removal alone.                      *)
BeginRemove(p) ==
    /\ op.pc = "idle"
    /\ Removable(registry, p)
    /\ \A q \in Orphans(registry, p) : Untouched(registry, mods, q)
    /\ op' = [Idle EXCEPT !.pc = "taking", !.project = p, !.todo = Orphans(registry, p)]
    /\ trash' = NoFiles
    /\ owed' = {}
    /\ UNCHANGED <<registry, mods, staged, backups, touched>>

(* Each one is validated again; a missing one is skipped. An error here    *)
(* ends the operation at once.                                             *)
Check(q) ==
    /\ op.pc = "taking"
    /\ op.cur = None
    /\ q \in op.todo
    /\ \/ /\ mods[FileIn(registry, q)] = None
          /\ op' = [op EXCEPT !.todo = @ \ {q}]
          /\ UNCHANGED touched
       \/ /\ mods[FileIn(registry, q)] = registry[q].version
          /\ op' = [op EXCEPT !.cur = q]
          /\ UNCHANGED touched
       \/ /\ ~Untouched(registry, mods, q) \/ "read" \in Faults
          /\ End
    /\ UNCHANGED <<registry, mods, staging, owed>>

(* Faulty variant: the file is not validated after it has been moved.      *)
TakeUnchecked(f) ==
    /\ op.pc = "taking"
    /\ op.cur # None
    /\ f = FileIn(registry, op.cur)
    /\ mods[f] # None
    /\ trash' = Moved(mods, trash, f)
    /\ mods' = Gone(mods, f)
    /\ Owes(f)
    /\ op' = [op EXCEPT !.todo = @ \ {op.cur}, !.cur = None]
    /\ UNCHANGED <<registry, staged, backups, touched>>

(* It is moved and validated once more where nobody else changes it.       *)
Take(f) ==
    /\ op.pc = "taking"
    /\ op.cur # None
    /\ f = FileIn(registry, op.cur)
    /\ mods[f] # None
    /\ trash' = Moved(mods, trash, f)
    /\ mods' = Gone(mods, f)
    /\ Owes(f)
    /\ \/ /\ mods[f] = registry[op.cur].version
          /\ op' = [op EXCEPT !.todo = @ \ {op.cur}, !.cur = None]
       \/ /\ mods[f] # registry[op.cur].version \/ "read" \in Faults
          /\ To("restoring")
    /\ UNCHANGED <<registry, staged, backups, touched>>

SaveRemoved ==
    /\ op.pc = "taking"
    /\ op.todo = {}
    /\ registry' = WithoutOrphans(registry, op.project)
    /\ owed' = {}
    /\ To("sweeping")
    /\ UNCHANGED <<mods, staging, touched>>

(* A rename or saving the record fails.                                    *)
RemoveFails ==
    /\ op.pc = "taking"
    /\ op.cur # None \/ op.todo = {}
    /\ To("restoring")
    /\ UNCHANGED <<registry, mods, staging, owed, touched>>

(* rollback_removal moves the files back, ...                              *)
Restore(f) ==
    /\ op.pc = "restoring"
    /\ trash[f] # None
    /\ mods[f] = None
    /\ mods' = Moved(trash, mods, f)
    /\ trash' = Gone(trash, f)
    /\ Returns(f)
    /\ UNCHANGED <<registry, staged, backups, op, touched>>

(* ... or gives up, and leaves the rest in the staging directory.          *)
RestoreEnds ==
    /\ op.pc = "restoring"
    /\ \/ trash = NoFiles
       \/ \E f \in Files : trash[f] # None /\ mods[f] # None
       \/ "rollback" \in Faults
    /\ End
    /\ UNCHANGED <<registry, mods, staging, owed>>

(* cleanup_staged_files. What cannot be deleted stays behind for good.     *)
Sweep ==
    /\ op.pc = "sweeping"
    /\ End
    /\ trash' = NoFiles \/ UNCHANGED trash
    /\ UNCHANGED <<registry, mods, staged, backups, owed>>

-----------------------------------------------------------------------------
(* The user changes or deletes a file, or the launcher dies.               *)

Edit(f, c) ==
    /\ op.pc = "idle" \/ "edit" \in Faults
    /\ mods' = [mods EXCEPT ![f] = c]
    /\ touched' = IF op.pc = "idle" THEN {} ELSE touched \cup {f}
    /\ UNCHANGED <<registry, staging, op, owed>>

Crash ==
    /\ "crash" \in Faults
    /\ op.pc # "idle"
    /\ End
    /\ UNCHANGED <<registry, mods, staging, owed>>

-----------------------------------------------------------------------------
Installing ==
    \/ \E p \in Projects, P \in SUBSET Versions : BeginInstall(p, P)
    \/ Stage
    \/ \E f \in Files :
        \/ Backup(f) \/ Vacant(f) \/ Publish(f) \/ Recognise(f) \/ Retire(f)
        \/ UndoPublished(f) \/ UndoMoved(f)
    \/ SaveInstalled \/ PublishFails \/ UndoEnds \/ CleanUp

Removing ==
    \/ \E p \in Projects : BeginRemove(p) \/ Check(p)
    \/ \E f \in Files : Take(f) \/ Restore(f)
    \/ SaveRemoved \/ RemoveFails \/ RestoreEnds \/ Sweep

Editing == \E f \in Files, c \in {Other, None} : Edit(f, c)

Next == Installing \/ Removing \/ Editing \/ Crash

Spec == Init /\ [][Next]_vars

-----------------------------------------------------------------------------
Operations ==
    [pc : {"idle", "staging", "publishing", "undo", "cleanup", "installed",
            "taking", "restoring", "sweeping"},
     project : Projects \cup {None}, plan : SUBSET Versions,
     cur : Files \cup Projects \cup {None}, todo : SUBSET Projects,
     published : SUBSET Files]

(* Every variable has its type.                                            *)
TypeOK ==
    /\ registry \in Records
    /\ mods \in [Files -> Contents]
    /\ staged \in [Files -> Versions \cup {None}]
    /\ backups \in [Files -> Contents]
    /\ trash \in [Files -> Contents]
    /\ op \in Operations
    /\ owed \subseteq Files \X Contents
    /\ touched \subseteq Files

(* The record and the directory as they are to be taken while an operation *)
(* is in progress: what it has moved away is still there, what it has      *)
(* published is not there yet.                                             *)
LogicalMods ==
    [f \in Files |->
        IF op.pc \in {"publishing", "undo"}
        THEN IF backups[f] # None THEN backups[f]
             ELSE IF f \in op.published THEN None ELSE mods[f]
        ELSE IF trash[f] # None /\ op.pc \in {"taking", "restoring"} THEN trash[f]
        ELSE mods[f]]

Store == INSTANCE ModStore WITH mods <- LogicalMods

(* Installations and removals are all or nothing: with one failure at any  *)
(* point they implement the abstract store, in which the record and the    *)
(* files change together.                                                  *)
AllOrNothing == Store!Spec

(* No JAR of a launcher-installed version is in the mods directory without *)
(* being the recorded one: an update leaves no second version of a mod     *)
(* behind, a removal no file.                                              *)
NoStrays ==
    op.pc = "idle" =>
        \A f \in Files : mods[f] \in Versions =>
            registry[ProjectOf[mods[f]]].version = mods[f]

(* Every recorded mod's required mods are recorded too: no removal takes   *)
(* away what another mod needs, whatever was installed, updated or removed *)
(* before, and whatever has failed or crashed in between.                  *)
DependenciesInstalled ==
    \A p \in Installed(registry) : Requires[registry[p].version] \subseteq Installed(registry)

(* A removal deletes only what the launcher installed: content the user    *)
(* has changed, even in the middle of the removal, is never deleted (error *)
(* ModifiedTrackedFile).                                                   *)
RemovalDeletesOwn == op.pc = "sweeping" => \A f \in Files : trash[f] # Other

(* An installation that reports success has every planned version in       *)
(* place, unless the user has changed the file meanwhile; whatever an      *)
(* earlier crash has left behind.                                          *)
InstalledFilesPresent ==
    op.pc = "installed" =>
        \A v \in op.plan : mods[FileOf[v]] = v \/ FileOf[v] \in touched

(* A file that is neither the record's nor, all the time of the operation, *)
(* has been the user's own is never replaced or deleted by the launcher.   *)
ForeignKept ==
    [][\/ Editing
       \/ \A f \in Files :
            mods[f] = Other /\ mods'[f] # Other =>
                f \in FilesIn(registry) \cup touched]_vars

(* What an operation has moved away and neither restored nor committed is  *)
(* never deleted (the test restores_mod_files_when_registry_commit_fails). *)
NothingLost ==
    [][\/ SaveInstalled \/ SaveRemoved
       \/ \E p \in Projects : BeginRemove(p)
       \/ \A x \in owed : x[2] \in {backups'[x[1]], trash'[x[1]], mods'[x[1]]}]_vars

(* An operation that refuses to go on leaves the mods directory as it was  *)
(* (the test refuses_to_remove_a_tracked_mod_that_was_modified).           *)
RefusalRestores == op.pc = "idle" => owed = {}
=============================================================================
