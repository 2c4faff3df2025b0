------------------------------ MODULE GameFiles ------------------------------
(***************************************************************************)
(* The files one Minecraft version needs, in the store all instances share *)
(* (src-tauri/src/minecraft/installer.rs, runtime.rs, fabric.rs), the      *)
(* read-only view of the assets each instance has (runtime_assets.rs), the *)
(* diagnosis and repair of an instance (diagnostics.rs, minecraft.rs), and *)
(* the checks a launch makes before it starts the game (launcher.rs).      *)
(*                                                                         *)
(* InstanceRegistry shows that an installation or a repair excludes every  *)
(* other command and every game, so there is one job at a time here; its   *)
(* downloads run in parallel, it may fail at any of them, the launcher may *)
(* be killed at any moment, the servers may publish other metadata, and    *)
(* files may be damaged from outside.                                      *)
(*                                                                         *)
(* A `.part' file is truncated when it is opened and never read back; it   *)
(* is modelled while the download that writes it is in flight.             *)
(***************************************************************************)
EXTENDS Naturals

CONSTANTS
    Instances,      \* instances of the version
    Fabric,         \* those of them with the Fabric loader
    Revisions,      \* the states of the version's metadata on the servers
    LibrariesOf,    \* revision -> libraries that apply to this platform
    ObjectsOf,      \* revision -> objects named by its asset index
    JavaOf,         \* revision -> Java major it requires
    FabricLibraries,\* libraries of the loader's profile
    Digest,         \* revision -> file -> the content its metadata lists
    Fragile,        \* files that may be damaged from outside (bound)
    None            \* no such file, instance, revision or Java

Libraries == UNION {LibrariesOf[r] : r \in Revisions}
Objects   == UNION {ObjectsOf[r] : r \in Revisions}
Metadata  == {"json", "index"}
Files     == Metadata \cup {"jar"} \cup Libraries \cup Objects \cup FabricLibraries
Majors    == {JavaOf[r] : r \in Revisions}
Listed(f) == {Digest[r][f] : r \in Revisions}

(* Contents no metadata lists: "cut" is shorter than the file should be,   *)
(* "rot" as long.                                                          *)
Damages == {"cut", "rot"}
Contents == {None} \cup Damages \cup UNION {Listed(f) : f \in Files}

ASSUME GameFilesAssumption ==
    /\ Fabric \subseteq Instances
    /\ Fragile \subseteq Files
    /\ None \notin Instances \cup Revisions \cup Nat
    /\ \A r \in Revisions : JavaOf[r] \in Nat
    /\ \A r \in Revisions : Digest[r]["json"] = r /\ Digest[r]["index"] = r
    /\ \A f \in Files : (Damages \cup {None}) \cap Listed(f) = {}

VARIABLES
    upstream,   \* the revision the servers publish
    store,      \* shared store: file -> content
    hurt,       \* history: files damaged from outside and not replaced since
    runtime,    \* Java major -> "absent", "broken" (no executable) or "ready"
    staging,    \* Java major -> the extraction directory
    manifest,   \* instance -> Java major in its manifest, or None
    folder,     \* instance -> "absent", "bare" or "loader" (with the loader's profile)
    view,       \* instance -> object -> content in its runtime-cache
    linked,     \* instance -> objects whose view is a hard link to the store
    job,        \* the command at work
    got,        \* downloads in flight: file -> the body it receives
    fresh       \* history: instances ready, nothing changed outside since

java   == <<runtime, staging>>
owned  == <<manifest, folder>>
views  == <<view, linked>>
vars   == <<upstream, store, hurt, java, owned, views, job, got, fresh>>

Kinds == {"none", "install", "repair", "launch"}
PCs   == {"idle", "java", "archive", "extract", "rename", "metadata", "client",
          "libraries", "index", "objects", "offer", "profile", "loader", "manifest", "save",
          "verify", "check", "view", "run"}

Idle == [kind |-> "none", inst |-> None, pc |-> "idle", rev |-> None,
         java |-> None, todo |-> {}, err |-> FALSE, steady |-> TRUE]

Init ==
    /\ upstream \in Revisions
    /\ store = [f \in Files |-> None]
    /\ hurt = {}
    /\ runtime = [m \in Majors |-> "absent"]
    /\ staging = [m \in Majors |-> "absent"]
    /\ manifest = [i \in Instances |-> None]
    /\ folder = [i \in Instances |-> "absent"]
    /\ view = [i \in Instances |-> [o \in Objects |-> None]]
    /\ linked = [i \in Instances |-> {}]
    /\ job = Idle
    /\ got = [f \in Files |-> None]
    /\ fresh = {}

Working(pc) == job.pc = pc /\ ~job.err
To(pc) == job' = [job EXCEPT !.pc = pc]
ToFetch(pc, files) == job' = [job EXCEPT !.pc = pc, !.todo = files]

-----------------------------------------------------------------------------
(* Beginning and end of a job.                                             *)

Begin(kind, i, pc) ==
    /\ job = Idle
    /\ job' = [Idle EXCEPT !.kind = kind, !.inst = i, !.pc = pc]
    /\ UNCHANGED <<upstream, store, hurt, java, owned, views, got, fresh>>

(* An id whose directory exists is refused, with a manifest or without.    *)
BeginInstall(i) == folder[i] = "absent" /\ Begin("install", i, "java")

(* A repair installs into a temporary instance first; only the manifest    *)
(* has to be readable for that.                                            *)
BeginRepair(i) == manifest[i] # None /\ Begin("repair", i, "java")

BeginLaunch(i) == manifest[i] # None /\ Begin("launch", i, "check")

(* The error is returned when no download is in flight any more; an        *)
(* installation takes the directory it began with it.                      *)
Fail ==
    /\ job # Idle
    /\ \A f \in Files : got[f] = None
    /\ job' = Idle
    /\ folder' = IF job.kind = "install"
                 THEN [folder EXCEPT ![job.inst] = "absent"] ELSE folder
    /\ UNCHANGED <<upstream, store, hurt, java, manifest, views, got, fresh>>

(* The launcher is killed: the directory stays.                            *)
Crash ==
    /\ job # Idle
    /\ job' = Idle
    /\ got' = [f \in Files |-> None]
    /\ UNCHANGED <<upstream, store, hurt, java, owned, views, fresh>>

-----------------------------------------------------------------------------
(* The Java runtime.                                                       *)

(* find_java: a runtime directory without the executable counts as none.   *)
HasJava(m) == runtime[m] = "ready"

(* The major the version's metadata asks for at this moment, and whether   *)
(* its runtime directory already has an executable.                        *)
ChooseJava ==
    LET m == JavaOf[upstream] IN
    /\ Working("java")
    /\ job' = [job EXCEPT !.java = m,
                          !.pc = IF HasJava(m) THEN "metadata" ELSE "archive"]
    /\ UNCHANGED <<upstream, store, hurt, java, owned, views, got, fresh>>

(* download_and_verify: the archive is verified, whether it was there or   *)
(* has been downloaded, or the job fails.                                  *)
FetchArchive ==
    /\ Working("archive")
    /\ To("extract")
    /\ UNCHANGED <<upstream, store, hurt, java, owned, views, got, fresh>>

(* The staging directory is emptied, then filled.                          *)
ExtractArchive ==
    LET m == job.java IN
    /\ Working("extract")
    /\ \/ /\ staging[m] # "partial"
          /\ staging' = [staging EXCEPT ![m] = "partial"]
          /\ UNCHANGED job
       \/ /\ staging[m] = "partial"
          /\ staging' = [staging EXCEPT ![m] = "full"]
          /\ To("rename")
    /\ UNCHANGED <<upstream, store, hurt, runtime, owned, views, got, fresh>>

(* Faulty variant: the runtime is moved into place before it is complete.  *)
PublishRuntimeEarly ==
    LET m == job.java IN
    /\ Working("extract")
    /\ staging[m] = "partial"
    /\ runtime' = [runtime EXCEPT ![m] = "broken"]
    /\ staging' = [staging EXCEPT ![m] = "absent"]
    /\ To("metadata")
    /\ UNCHANGED <<upstream, store, hurt, owned, views, got, fresh>>

(* What is left of an older runtime is removed before the rename.          *)
PublishRuntime ==
    LET m == job.java IN
    /\ Working("rename")
    /\ \/ /\ runtime[m] # "absent"
          /\ runtime' = [runtime EXCEPT ![m] = "absent"]
          /\ UNCHANGED <<staging, job>>
       \/ /\ runtime[m] = "absent"
          /\ runtime' = [runtime EXCEPT ![m] = "ready"]
          /\ staging' = [staging EXCEPT ![m] = "absent"]
          /\ To("metadata")
    /\ UNCHANGED <<upstream, store, hurt, owned, views, got, fresh>>

-----------------------------------------------------------------------------
(* Metadata and downloads.                                                 *)

Publish(f, c) ==
    /\ store' = [store EXCEPT ![f] = c]
    /\ hurt' = hurt \ {f}

(* The version's metadata is fetched, verified and written atomically.     *)
FetchMetadata ==
    /\ Working("metadata")
    /\ Publish("json", upstream)
    /\ job' = [job EXCEPT !.pc = "client", !.rev = upstream, !.todo = {"jar"}]
    /\ UNCHANGED <<upstream, java, owned, views, got, fresh>>

Fetching == {"client", "libraries", "objects", "loader"}

(* The loader's libraries are fetched one after the other, the rest in     *)
(* parallel.                                                               *)
MayStart == job.pc = "loader" => \A f \in Files : got[f] = None

(* Faulty variant: a file of the right length is taken for the right one.  *)
ReusableByLength(f) == store[f] \notin {None, "cut"}

(* A file with the listed length and digest is not fetched again.          *)
Reusable(f) == store[f] = Digest[job.rev][f]

(* The body that will have been received when the download ends is what    *)
(* was asked for, something else, or cut short; nothing reads it before.   *)
StartDownload(f) ==
    /\ job.pc \in Fetching
    /\ f \in job.todo
    /\ got[f] = None
    /\ MayStart
    /\ IF Reusable(f)
       THEN job' = [job EXCEPT !.todo = @ \ {f}] /\ UNCHANGED got
       ELSE /\ \E c \in Damages \cup {Digest[job.rev][f]} : got' = [got EXCEPT ![f] = c]
            /\ UNCHANGED job
    /\ UNCHANGED <<upstream, store, hurt, java, owned, views, fresh>>

(* Faulty variant: only the length of the body is compared.                *)
AcceptedByLength(f) == got[f] # "cut"

(* Length and digest, computed over the body while it is written.          *)
Accepted(f) == got[f] = Digest[job.rev][f]

(* Publication by rename, or the first of the errors the job will return.  *)
FinishDownload(f) ==
    /\ got[f] # None
    /\ got' = [got EXCEPT ![f] = None]
    /\ IF Accepted(f)
       THEN /\ Publish(f, got[f])
            /\ linked' = [i \in Instances |-> linked[i] \ {f}]
            /\ job' = [job EXCEPT !.todo = @ \ {f}]
       ELSE /\ job' = [job EXCEPT !.err = TRUE]
            /\ UNCHANGED <<store, hurt, linked>>
    /\ UNCHANGED <<upstream, java, owned, view, fresh>>

Fetched(pc) == Working(pc) /\ job.todo = {}

ClientReady ==
    /\ Fetched("client")
    /\ ToFetch("libraries", LibrariesOf[job.rev])
    /\ UNCHANGED <<upstream, store, hurt, java, owned, views, got, fresh>>

LibrariesReady ==
    /\ Fetched("libraries")
    /\ To("index")
    /\ UNCHANGED <<upstream, store, hurt, java, owned, views, got, fresh>>

(* The index named by the metadata already read, whatever is published now.*)
FetchIndex ==
    /\ Working("index")
    /\ Publish("index", job.rev)
    /\ ToFetch("objects", ObjectsOf[job.rev])
    /\ UNCHANGED <<upstream, java, owned, views, got, fresh>>

(* The instance's directory is made when the shared files are there.       *)
ObjectsReady ==
    /\ Fetched("objects")
    /\ folder' = IF job.kind = "install"
                 THEN [folder EXCEPT ![job.inst] = "bare"] ELSE folder
    /\ To(IF job.inst \in Fabric THEN "offer" ELSE "manifest")
    /\ UNCHANGED <<upstream, store, hurt, java, manifest, views, got, fresh>>

Gives(valid, next) == IF valid THEN next ELSE job' = [job EXCEPT !.err = TRUE]

(* The loader has to be among those offered for the version at this moment.*)
ListLoaders ==
    /\ Working("offer")
    /\ \E offered \in BOOLEAN : Gives(offered, To("profile"))
    /\ UNCHANGED <<upstream, store, hurt, java, owned, views, got, fresh>>

(* validate_profile: this loader, for this version of the game, its main   *)
(* class, and libraries of Fabric's own repository only.                   *)
Profiles == {"asked", "other"}
Valid(profile) == profile = "asked"

(* The profile is validated as a whole before anything it names is fetched.*)
FetchProfile ==
    /\ Working("profile")
    /\ \E profile \in Profiles : Gives(Valid(profile), ToFetch("loader", FabricLibraries))
    /\ UNCHANGED <<upstream, store, hurt, java, owned, views, got, fresh>>

(* install_fabric writes the profile last; a repair writes the one of its  *)
(* temporary instance.                                                     *)
LoaderReady ==
    /\ Fetched("loader")
    /\ folder' = IF job.kind = "install"
                 THEN [folder EXCEPT ![job.inst] = "loader"] ELSE folder
    /\ To("manifest")
    /\ UNCHANGED <<upstream, store, hurt, java, manifest, views, got, fresh>>

-----------------------------------------------------------------------------
(* What launch and diagnosis ask of the files.                             *)

Installed == store["json"]
Readable(f) == store[f] \in Revisions

(* Class path and client of the installed metadata. (That the loader may   *)
(* replace some of the game's own libraries is left out.)                  *)
Needed(i) ==
    {"jar"} \cup LibrariesOf[Installed] \cup (IF i \in Fabric THEN FabricLibraries ELSE {})

(* load_instance: the manifest's Java has to be an executable in a managed *)
(* runtime.                                                                *)
Loads(i) == manifest[i] # None /\ runtime[manifest[i]] = "ready"

(* The checks of spawn_instance: files only have to exist.                 *)
Launchable(i) ==
    /\ Loads(i)
    /\ Readable("json")
    /\ manifest[i] >= JavaOf[Installed]
    /\ i \in Fabric => folder[i] = "loader"
    /\ \A f \in Needed(i) : store[f] # None

(* What runtime_assets needs before it can begin, and for each object.     *)
Viewable == Readable("index") /\ \A o \in ObjectsOf[store["index"]] : store[o] # None

(* Faulty variant: the objects of the index are not looked at.             *)
CheckedWithoutObjects(i) == Needed(i) \cup {"index"}

Checked(i) == Needed(i) \cup {"index"} \cup ObjectsOf[store["index"]]

(* diagnose_instance reports "healthy": every managed file has the listed  *)
(* length and digest.                                                      *)
Healthy(i) ==
    /\ Loads(i)
    /\ Readable("json")
    /\ manifest[i] >= JavaOf[Installed]
    /\ i \in Fabric => folder[i] = "loader"
    /\ Readable("index")
    /\ \A f \in Checked(i) : store[f] = Digest[Installed][f]

-----------------------------------------------------------------------------
(* The end of an installation or a repair.                                 *)

Ready(i) == IF job.steady THEN fresh \cup {i} ELSE fresh

(* The manifest is the last file an installation writes.                   *)
WriteManifest ==
    /\ Working("manifest")
    /\ IF job.kind = "install"
       THEN /\ manifest' = [manifest EXCEPT ![job.inst] = job.java]
            /\ fresh' = Ready(job.inst)
            /\ job' = Idle
       ELSE To("save") /\ UNCHANGED <<manifest, fresh>>
    /\ UNCHANGED <<upstream, store, hurt, java, folder, views, got>>

(* The profile of the temporary instance, then the Java path, go to the    *)
(* instance under repair.                                                  *)
SaveRepair ==
    LET i == job.inst IN
    /\ Working("save")
    /\ IF i \in Fabric /\ folder[i] = "bare"
       THEN folder' = [folder EXCEPT ![i] = "loader"] /\ UNCHANGED <<manifest, job>>
       ELSE manifest' = [manifest EXCEPT ![i] = job.java] /\ To("verify") /\ UNCHANGED folder
    /\ UNCHANGED <<upstream, store, hurt, java, views, got, fresh>>

(* The repair returns the diagnosis it ends with.                          *)
VerifyRepair ==
    /\ Working("verify")
    /\ Healthy(job.inst)
    /\ fresh' = Ready(job.inst)
    /\ job' = Idle
    /\ UNCHANGED <<upstream, store, hurt, java, owned, views, got>>

-----------------------------------------------------------------------------
(* A launch.                                                               *)

CheckLaunch ==
    /\ Working("check")
    /\ Launchable(job.inst)
    /\ Readable("index")
    /\ ToFetch("view", ObjectsOf[store["index"]])
    /\ UNCHANGED <<upstream, store, hurt, java, owned, views, got, fresh>>

SameLength(c, d) == (c = "cut") <=> (d = "cut")

(* materialize: an entry of the right length stays, any other becomes a    *)
(* hard link, or a copy where the volume has none.                         *)
Materialize(o) ==
    LET i == job.inst IN
    /\ Working("view")
    /\ o \in job.todo
    /\ store[o] # None
    /\ IF view[i][o] # None /\ SameLength(view[i][o], store[o])
       THEN UNCHANGED views
       ELSE /\ view' = [view EXCEPT ![i] = [@ EXCEPT ![o] = store[o]]]
            /\ \E link \in BOOLEAN :
                linked' = [linked EXCEPT ![i] = IF link THEN @ \cup {o} ELSE @ \ {o}]
    /\ job' = [job EXCEPT !.todo = @ \ {o}]
    /\ UNCHANGED <<upstream, store, hurt, java, owned, got, fresh>>

ViewReady ==
    /\ Fetched("view")
    /\ To("run")
    /\ UNCHANGED <<upstream, store, hurt, java, owned, views, got, fresh>>

-----------------------------------------------------------------------------
(* The world outside.                                                      *)

Disturbed == job' = IF job = Idle THEN Idle ELSE [job EXCEPT !.steady = FALSE]

Republish ==
    /\ upstream' \in Revisions \ {upstream}
    /\ fresh' = {}
    /\ Disturbed
    /\ UNCHANGED <<store, hurt, java, owned, views, got>>

(* A file in the store is changed in place, and with it every view that is *)
(* a hard link to it; or it is removed, which leaves those views alone.    *)
Damage(f) ==
    /\ f \in Fragile
    /\ store[f] \in Listed(f)
    /\ \E c \in Damages \cup {None} :
        /\ store' = [store EXCEPT ![f] = c]
        /\ view' = [i \in Instances |->
                        IF f \in linked[i] /\ c # None
                        THEN [view[i] EXCEPT ![f] = c] ELSE view[i]]
        /\ linked' = IF c = None THEN [i \in Instances |-> linked[i] \ {f}] ELSE linked
    /\ hurt' = hurt \cup {f}
    /\ fresh' = {}
    /\ Disturbed
    /\ UNCHANGED <<upstream, java, owned, got>>

(* The executable of a runtime, or an instance's profile, is lost.         *)
Lose ==
    /\ \/ /\ \E m \in Majors : runtime[m] = "ready" /\ runtime' = [runtime EXCEPT ![m] = "broken"]
          /\ UNCHANGED folder
       \/ /\ \E i \in Fabric : folder[i] = "loader" /\ folder' = [folder EXCEPT ![i] = "bare"]
          /\ UNCHANGED runtime
    /\ fresh' = {}
    /\ Disturbed
    /\ UNCHANGED <<upstream, store, hurt, staging, manifest, views, got>>

-----------------------------------------------------------------------------
Next ==
    \/ \E i \in Instances : BeginInstall(i) \/ BeginRepair(i) \/ BeginLaunch(i)
    \/ ChooseJava \/ FetchArchive \/ ExtractArchive \/ PublishRuntime
    \/ FetchMetadata \/ ClientReady \/ LibrariesReady \/ FetchIndex
    \/ \E f \in Files : StartDownload(f) \/ FinishDownload(f)
    \/ ObjectsReady \/ ListLoaders \/ FetchProfile \/ LoaderReady \/ WriteManifest \/ SaveRepair \/ VerifyRepair
    \/ CheckLaunch \/ ViewReady
    \/ \E o \in Objects : Materialize(o)
    \/ Fail \/ Crash
    \/ Republish \/ Lose
    \/ \E f \in Fragile : Damage(f)

Spec == Init /\ [][Next]_vars

-----------------------------------------------------------------------------
TypeOK ==
    /\ upstream \in Revisions
    /\ store \in [Files -> Contents]
    /\ hurt \subseteq Files
    /\ runtime \in [Majors -> {"absent", "broken", "ready"}]
    /\ staging \in [Majors -> {"absent", "partial", "full"}]
    /\ manifest \in [Instances -> Majors \cup {None}]
    /\ folder \in [Instances -> {"absent", "bare", "loader"}]
    /\ view \in [Instances -> [Objects -> Contents]]
    /\ linked \in [Instances -> SUBSET Objects]
    /\ job \in [kind : Kinds, inst : Instances \cup {None}, pc : PCs,
                rev : Revisions \cup {None}, java : Majors \cup {None},
                todo : SUBSET Files, err : BOOLEAN, steady : BOOLEAN]
    /\ got \in [Files -> Contents]
    /\ fresh \subseteq Instances

(* A file under its final name is absent, or what some published metadata  *)
(* lists for it, or was damaged from outside after it had been: whatever   *)
(* the servers send, wherever a job fails and whenever the launcher dies.  *)
NothingUnverified ==
    \A f \in Files : store[f] \in {None} \cup Listed(f) \/ f \in hurt

(* An instance whose installation or repair has ended well can be          *)
(* launched, with exactly the files its metadata lists, until something    *)
(* outside changes: other installations, repairs, failures, crashes and    *)
(* launches do not break it.                                               *)
ReadyInstanceLaunches ==
    \A i \in fresh : /\ Launchable(i) /\ Viewable
                     /\ \A f \in Needed(i) : store[f] = Digest[Installed][f]

(* An instance the diagnosis calls healthy passes every check of a launch. *)
HealthyInstanceLaunches ==
    \A i \in Instances : Healthy(i) => Launchable(i) /\ Viewable

(* The game of an instance that has just been repaired sees the assets its *)
(* index lists (runtime_assets.rs: content-addressed objects are           *)
(* immutable).                                                             *)
RepairReachesGame ==
    job.pc = "run" /\ job.inst \in fresh =>
        \A o \in ObjectsOf[store["index"]] : view[job.inst][o] = Digest[Installed][o]
=============================================================================
