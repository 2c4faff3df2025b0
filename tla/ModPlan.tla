------------------------------- MODULE ModPlan -------------------------------
(***************************************************************************)
(* Mods, their versions and what an installation or a removal plans, from  *)
(* src-tauri/src/minecraft/modrinth_installer.rs. `reg' is the record of   *)
(* installed mods (modrinth-mods.json): per project the installed version  *)
(* and whether the user asked for it; `m' is the mods directory: the       *)
(* content of every file. File names are compared without regard to case,  *)
(* so a file stands for all spellings of its name.                         *)
(***************************************************************************)
EXTENDS FiniteSets

CONSTANTS
    Projects,   \* Modrinth projects
    Versions,   \* their versions, each with one JAR
    Files,      \* file names in the mods directory
    ProjectOf,  \* the project of a version
    FileOf,     \* the file name of a version's JAR
    Requires,   \* the projects a version requires
    Other,      \* a content that is no version's
    None        \* no version, no file, no project

ASSUME ModAssumption ==
    /\ ProjectOf \in [Versions -> Projects]
    /\ FileOf \in [Versions -> Files]
    /\ Requires \in [Versions -> SUBSET Projects]
    /\ Other \notin Versions
    /\ None \notin Versions \cup {Other} \cup Files \cup Projects

Contents == Versions \cup {Other, None}
Records  == [Projects -> [version : Versions \cup {None}, direct : BOOLEAN]]

NotInstalled == [version |-> None, direct |-> FALSE]
NoFiles == [f \in Files |-> None]

Installed(reg) == {p \in Projects : reg[p].version # None}
FileIn(reg, p) == FileOf[reg[p].version]
FilesIn(reg)   == {FileIn(reg, p) : p \in Installed(reg)}

-----------------------------------------------------------------------------
(* Installation.                                                           *)

Planned(P) == {ProjectOf[v] : v \in P}
Closed(P)  == \A v \in P : Requires[v] \subseteq Planned(P)

Acyclic(P) == \A S \in SUBSET P \ {{}} : \E v \in S : Requires[v] \cap Planned(S) = {}

(* A plan for project p: one version of p and of every project it requires *)
(* directly or through others, and nothing else; resolve_project refuses   *)
(* a cycle.                                                                *)
Plan(p, P) ==
    /\ \A v, w \in P : ProjectOf[v] = ProjectOf[w] => v = w
    /\ p \in Planned(P)
    /\ Closed(P)
    /\ Acyclic(P)
    /\ \A Q \in SUBSET P : p \in Planned(Q) /\ Closed(Q) => Q = P

(* Faulty variant: a file the launcher knows nothing of does not matter.   *)
AcceptableBlindly(reg, m, P) ==
    /\ \A v, w \in P : FileOf[v] = FileOf[w] => v = w
    /\ \A v \in P : \A q \in Installed(reg) \ {ProjectOf[v]} : FileIn(reg, q) # FileOf[v]

(* validate_file_conflicts: a planned file is no file of another planned   *)
(* or recorded mod, and a file that is there already has the planned       *)
(* content or is the mod's own in the record.                              *)
Acceptable(reg, m, P) ==
    /\ \A v, w \in P : FileOf[v] = FileOf[w] => v = w
    /\ \A v \in P : \A q \in Installed(reg) \ {ProjectOf[v]} : FileIn(reg, q) # FileOf[v]
    /\ \A v \in P :
          \/ m[FileOf[v]] \in {v, None}
          \/ ProjectOf[v] \in Installed(reg) /\ FileIn(reg, ProjectOf[v]) = FileOf[v]

(* Faulty variant: what is recorded is taken to be there.                  *)
ToFetchUnrecorded(reg, m, P) == {v \in P : reg[ProjectOf[v]].version # v}

(* stage_downloads skips what is recorded and there; the rest is fetched   *)
(* into the staging directory, under the name it will have.                *)
ToFetch(reg, m, P) ==
    {v \in P : ~(reg[ProjectOf[v]].version = v /\ m[FileOf[v]] = v)}

Fetched(V) ==
    [f \in Files |-> IF \E v \in V : FileOf[v] = f
                     THEN CHOOSE v \in V : FileOf[v] = f ELSE None]

(* The record after the plan P for project p.                              *)
WithPlan(reg, p, P) ==
    [q \in Projects |->
        IF q \in Planned(P)
        THEN [version |-> CHOOSE v \in P : ProjectOf[v] = q,
              direct  |-> reg[q].direct \/ q = p]
        ELSE reg[q]]

(* Faulty variant: the files of replaced versions are forgotten.           *)
OutdatedNone(old, new, m) == {}

(* Files of the record `old' that `new' does not name any more, as long as *)
(* they are what the launcher installed.                                   *)
Outdated(old, new, m) ==
    {f \in FilesIn(old) \ FilesIn(new) :
        \E p \in Installed(old) : FileIn(old, p) = f /\ m[f] = old[p].version}

-----------------------------------------------------------------------------
(* Removal.                                                                *)

Unmarked(reg, p) == [reg EXCEPT ![p].direct = FALSE]

(* retained_project_ids: what the user asked for, and what that requires   *)
(* directly or through others: the least set closed under Requires.        *)
ClosedIn(reg, S) ==
    \A q \in S : Requires[reg[q].version] \cap Installed(reg) \subseteq S

Retained(reg) ==
    {q \in Installed(reg) :
        \A S \in SUBSET Installed(reg) :
            {r \in Installed(reg) : reg[r].direct} \subseteq S /\ ClosedIn(reg, S) => q \in S}

(* Faulty variant: dependencies that other mods need go as well.           *)
OrphansAll(reg, p) ==
    {q \in Installed(reg) : ~Unmarked(reg, p)[q].direct}

Orphans(reg, p) == Installed(reg) \ Retained(Unmarked(reg, p))

WithoutOrphans(reg, p) ==
    [q \in Projects |-> IF q \in Orphans(reg, p) THEN NotInstalled ELSE Unmarked(reg, p)[q]]

(* Only what the user asked for can be removed.                            *)
Removable(reg, p) == p \in Installed(reg) /\ reg[p].direct

(* A file that is to go is absent or what the launcher installed.          *)
Untouched(reg, m, q) == m[FileIn(reg, q)] \in {reg[q].version, None}
=============================================================================
