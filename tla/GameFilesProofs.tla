---------------------------- MODULE GameFilesProofs ----------------------------
(***************************************************************************)
(* Proofs about GameFiles, for every set of instances, every number of     *)
(* revisions and any lists of files they name.                             *)
(***************************************************************************)
EXTENDS GameFiles, TLAPS

-----------------------------------------------------------------------------
(* The inductive invariant.                                                *)

Getting   == {"archive", "extract", "rename"}
AtLoader  == {"loader", "manifest", "save", "verify"}
AtObjects == {"objects", "offer", "profile"} \cup AtLoader
AtLibraries == {"libraries", "index"} \cup AtObjects
AtClient  == {"client"} \cup AtLibraries
AtJava    == {"metadata"} \cup AtClient
AtLaunch  == {"check", "view", "run"}

JobRecords == [kind : Kinds, inst : Instances \cup {None}, pc : PCs,
               rev : Revisions \cup {None}, java : Majors \cup {None},
               todo : SUBSET Files, err : BOOLEAN, steady : BOOLEAN]

(* What the job is, by the place where it stands.                          *)
JobShape ==
    /\ job.pc = "idle" => job = Idle
    /\ job.pc # "idle" => job.inst \in Instances /\ job.kind # "none"
    /\ job.kind = "launch" <=> job.pc \in AtLaunch
    /\ job.pc \in Getting \cup AtJava => job.java \in Majors
    /\ job.pc \in AtClient => job.rev \in Revisions
    /\ job.pc \notin Fetching \cup {"view"} => job.todo = {}
    /\ \A f \in Files : got[f] # None => f \in job.todo /\ job.pc \in Fetching
    /\ job.kind = "install" => manifest[job.inst] = None
    /\ job.kind = "repair" => manifest[job.inst] # None
    /\ job.pc \in {"save", "verify"} => job.kind = "repair"
    /\ job.kind = "install" /\ job.pc \in {"offer", "profile"} \cup AtLoader => folder[job.inst] # "absent"
    /\ \A i \in Instances : manifest[i] # None => folder[i] # "absent"

(* A file is the one the published metadata lists.                         *)
Current(f) == store[f] = Digest[upstream][f]

LoaderOf(i) == IF i \in Fabric THEN FabricLibraries ELSE {}

(* The files a job has asked for, by the place where it stands.            *)
Asked ==
    UNION {IF job.pc \in AtClient THEN {"json", "jar"} ELSE {},
           IF job.pc \in AtLibraries THEN LibrariesOf[upstream] ELSE {},
           IF job.pc \in AtObjects THEN {"index"} \cup ObjectsOf[upstream] ELSE {},
           IF job.pc \in AtLoader THEN LoaderOf(job.inst) ELSE {}}

(* A job during which nothing has changed outside works for what is        *)
(* published, and what it has asked for is there or still to be fetched.   *)
Steady ==
    /\ job.pc \in Getting \cup AtJava => job.java = JavaOf[upstream]
    /\ job.pc \in AtJava => runtime[job.java] = "ready"
    /\ job.pc \in AtClient => job.rev = upstream
    /\ \A f \in Asked : f \in job.todo \/ Current(f)
    /\ job.pc = "manifest" /\ job.kind = "install" /\ job.inst \in Fabric => folder[job.inst] = "loader"
    /\ job.pc = "verify" => manifest[job.inst] = job.java

(* All an instance needs.                                                  *)
Whole(i) ==
    {"json", "jar", "index"} \cup LibrariesOf[upstream] \cup ObjectsOf[upstream] \cup LoaderOf(i)

(* An instance called ready is complete for what is published, as long as  *)
(* it is called so; the job at work does not replace its Java.             *)
Complete(i) ==
    /\ manifest[i] = JavaOf[upstream]
    /\ runtime[JavaOf[upstream]] = "ready"
    /\ i \in Fabric => folder[i] = "loader"
    /\ \A f \in Whole(i) : Current(f)

GInv ==
    /\ TypeOK
    /\ NothingUnverified
    /\ JobShape
    /\ job.steady => Steady
    /\ fresh # {} => job.steady /\ job.pc \notin Getting
    /\ \A i \in fresh : Complete(i)

-----------------------------------------------------------------------------
(* The files a revision lists, and what it lists for them.                 *)
LEMMA ListedFiles ==
    ASSUME NEW r \in Revisions
    PROVE  /\ {"json", "jar", "index"} \subseteq Files
           /\ LibrariesOf[r] \subseteq Files /\ ObjectsOf[r] \subseteq Files
           /\ \A i \in Instances : LoaderOf(i) \subseteq Files
           /\ \A f \in Files : Digest[r][f] \in Listed(f) /\ Digest[r][f] \in Contents
                               /\ Digest[r][f] # None
           /\ Digest[r]["json"] = r /\ Digest[r]["index"] = r
           /\ JavaOf[r] \in Majors /\ JavaOf[r] \in Nat /\ JavaOf[r] # None /\ r # None
<1>1. /\ {"json", "jar", "index"} \subseteq Files
      /\ LibrariesOf[r] \subseteq Files /\ ObjectsOf[r] \subseteq Files
      /\ \A i \in Instances : LoaderOf(i) \subseteq Files
  BY DEF Files, Metadata, Libraries, Objects, LoaderOf
<1>2. \A f \in Files : Digest[r][f] \in Listed(f)
  BY DEF Listed
<1>3. \A f \in Files : Digest[r][f] \in Contents /\ Digest[r][f] # None
  BY <1>2, GameFilesAssumption DEF Contents
<1> QED
  BY <1>1, <1>2, <1>3, GameFilesAssumption DEF Majors

(* An empty data directory satisfies the invariant.                        *)
LEMMA InitGInv == Init => GInv
<1> SUFFICES ASSUME Init PROVE GInv
  OBVIOUS
<1>1. TypeOK
  BY DEF Init, TypeOK, Idle, Kinds, PCs, Contents
<1>2. NothingUnverified
  BY DEF Init, NothingUnverified
<1>3. JobShape /\ Steady
  BY DEF Init, JobShape, Steady, Idle, Fetching, AtLaunch, AtJava, AtClient, AtLibraries, AtObjects,
         AtLoader, Getting, Asked
<1> QED
  BY <1>1, <1>2, <1>3 DEF Init, GInv

-----------------------------------------------------------------------------
(* What is ready stays complete while what is published stays, instances   *)
(* and runtimes stay, and files are only replaced by what is listed.       *)
LEMMA CompleteKept ==
    ASSUME GInv, NEW i \in fresh,
           upstream' = upstream,
           manifest'[i] = manifest[i],
           runtime' = runtime,
           i \in Fabric => folder'[i] = folder[i],
           \A f \in Files : store'[f] = store[f] \/ store'[f] = Digest[upstream][f]
    PROVE  Complete(i)'
<1>1. upstream \in Revisions /\ i \in Instances
  BY DEF GInv, TypeOK
<1>2. Whole(i) \subseteq Files /\ Whole(i)' = Whole(i)
  BY <1>1, ListedFiles DEF Whole, LoaderOf
<1> QED
  BY <1>2 DEF GInv, Complete, Current

(* A step that replaces files, while nothing has changed outside, only by  *)
(* what is listed, and leaves what is ready alone.                         *)
LEMMA Kept ==
    ASSUME GInv, UNCHANGED <<upstream, runtime, fresh>>,
           TypeOK', NothingUnverified', JobShape', job'.steady = job.steady,
           job.steady => Steady', fresh # {} => job'.pc \notin Getting,
           \A i \in fresh : manifest'[i] = manifest[i] /\ folder'[i] = folder[i],
           job.steady => \A f \in Files : store'[f] = store[f] \/ store'[f] = Digest[upstream][f]
    PROVE  GInv'
<1>1. \A i \in fresh' : Complete(i)'
  BY CompleteKept DEF GInv
<1> QED
  BY <1>1 DEF GInv

(* A step that moves only the job.                                         *)
LEMMA Moved ==
    ASSUME GInv, UNCHANGED <<upstream, store, hurt, runtime, owned, fresh>>,
           TypeOK', JobShape', job'.steady = job.steady,
           job.steady => Steady', fresh # {} => job'.pc \notin Getting
    PROVE  GInv'
<1>1. NothingUnverified'
  BY DEF GInv, NothingUnverified
<1> QED
  BY <1>1, Kept DEF owned

(* A job begins.                                                           *)
LEMMA BeginStep ==
    ASSUME GInv, NEW i \in Instances, BeginInstall(i) \/ BeginRepair(i) \/ BeginLaunch(i)
    PROVE  GInv'
<1>1. PICK kind \in {"install", "repair", "launch"}, pc \in {"java", "check"} :
          /\ Begin(kind, i, pc)
          /\ kind = "launch" <=> pc = "check"
          /\ kind = "install" => folder[i] = "absent"
          /\ kind = "repair" => manifest[i] # None
  BY DEF BeginInstall, BeginRepair, BeginLaunch
<1>2. /\ job'.pc = pc /\ job'.kind = kind /\ job'.inst = i /\ job'.todo = {} /\ job'.steady = TRUE
      /\ job'.rev = None /\ job'.java = None /\ job'.err = FALSE /\ job.steady = TRUE
  BY <1>1 DEF Begin, Idle
<1>3. job' \in JobRecords
  BY <1>1 DEF Begin, Idle, Kinds, PCs, JobRecords
<1>4. TypeOK'
  BY <1>1, <1>3 DEF Begin, GInv, TypeOK, JobRecords, java, owned, views
<1>5. JobShape'
  BY <1>1, <1>2 DEF Begin, GInv, JobShape, Idle, Fetching, AtLaunch, AtJava, AtClient, AtLibraries,
                    AtObjects, AtLoader, Getting, owned
<1>6. Steady'
  BY <1>2 DEF Steady, AtLaunch, AtJava, AtClient, AtLibraries, AtObjects, AtLoader, Getting, Asked
<1> QED
  BY <1>1, <1>2, <1>4, <1>5, <1>6, Moved DEF Begin, Getting, java

(* The Java runtime.                                                       *)
LEMMA JavaStep ==
    ASSUME GInv, ChooseJava \/ FetchArchive \/ ExtractArchive
    PROVE  GInv'
<1>1. /\ upstream \in Revisions /\ JavaOf[upstream] \in Majors
      /\ job.pc \in {"java", "archive", "extract"}
      /\ job.steady /\ fresh # {} => runtime[JavaOf[upstream]] = "ready"
  BY ListedFiles DEF GInv, TypeOK, Complete, ChooseJava, FetchArchive, ExtractArchive, Working
<1>2. PICK pc \in {"metadata", "archive", "extract", "rename"}, m \in Majors :
          /\ job' = [job EXCEPT !.pc = pc, !.java = m]
          /\ job.steady => m = JavaOf[upstream]
          /\ pc = "metadata" => runtime[m] = "ready"
          /\ fresh # {} => pc = "metadata"
  <2>1. CASE ChooseJava
    BY <1>1, <2>1 DEF ChooseJava, HasJava, GInv
  <2>2. CASE FetchArchive \/ ExtractArchive
    <3>1. job.java \in Majors /\ fresh = {} /\ (job.steady => job.java = JavaOf[upstream])
      BY <2>2 DEF FetchArchive, ExtractArchive, Working, GInv, JobShape, Steady, Getting
    <3>2. job = [job EXCEPT !.pc = job.pc, !.java = job.java]
      BY DEF GInv, TypeOK
    <3>3. [job EXCEPT !.pc = "extract"] = [job EXCEPT !.pc = "extract", !.java = job.java]
      BY DEF GInv, TypeOK
    <3>4. [job EXCEPT !.pc = "rename"] = [job EXCEPT !.pc = "rename", !.java = job.java]
      BY DEF GInv, TypeOK
    <3> QED
      BY <2>2, <3>1, <3>2, <3>3, <3>4 DEF FetchArchive, ExtractArchive, Working, To
  <2> QED
    BY <2>1, <2>2
<1>3. /\ job'.pc = pc /\ job'.java = m /\ job'.kind = job.kind /\ job'.inst = job.inst
      /\ job'.todo = job.todo /\ job'.steady = job.steady
      /\ UNCHANGED <<upstream, store, hurt, runtime, owned, views, got, fresh>>
  BY <1>2 DEF GInv, TypeOK, ChooseJava, FetchArchive, ExtractArchive, java
<1>4. job' \in JobRecords
  BY <1>2 DEF GInv, TypeOK, JobRecords, PCs
<1>5. TypeOK'
  <2>1. staging' \in [Majors -> {"absent", "partial", "full"}]
    BY DEF GInv, TypeOK, ChooseJava, FetchArchive, ExtractArchive, java
  <2> QED
    BY <1>3, <1>4, <2>1 DEF GInv, TypeOK, JobRecords, owned, views
<1>6. JobShape'
  BY <1>1, <1>3, <1>2 DEF GInv, JobShape, Fetching, AtLaunch, AtJava, AtClient, AtLibraries,
                    AtObjects, AtLoader, Getting, owned
<1>7. job.steady => Steady'
  BY <1>2, <1>3 DEF Steady, AtJava, AtClient, AtLibraries, AtObjects, AtLoader, Getting, Asked
<1> QED
  BY <1>2, <1>3, <1>5, <1>6, <1>7, Moved DEF Getting

(* The runtime in its place is replaced only when nothing is ready: a      *)
(* ready instance has the Java that is asked for.                          *)
LEMMA PublishRuntimeStep ==
    ASSUME GInv, PublishRuntime
    PROVE  GInv'
<1>1. /\ job.pc = "rename" /\ fresh = {} /\ job.java \in Majors
      /\ job.steady => job.java = JavaOf[upstream]
  BY DEF PublishRuntime, Working, GInv, JobShape, Steady, Getting
<1>2. /\ runtime' \in [Majors -> {"absent", "broken", "ready"}]
      /\ staging' \in [Majors -> {"absent", "partial", "full"}]
      /\ UNCHANGED <<upstream, store, hurt, owned, views, got, fresh>>
  BY <1>1 DEF PublishRuntime, GInv, TypeOK
<1>3. \/ job' = job
      \/ job' = [job EXCEPT !.pc = "metadata"] /\ runtime'[job.java] = "ready"
  BY <1>1 DEF PublishRuntime, To, GInv, TypeOK
<1>4. /\ job'.java = job.java /\ job'.kind = job.kind /\ job'.inst = job.inst
      /\ job'.todo = job.todo /\ job'.steady = job.steady
      /\ job'.pc = "rename" \/ (job'.pc = "metadata" /\ runtime'[job.java] = "ready")
      /\ job' \in JobRecords
  BY <1>1, <1>3 DEF GInv, TypeOK, JobRecords, PCs
<1>5. TypeOK'
  BY <1>2, <1>4 DEF GInv, TypeOK, JobRecords, owned, views
<1>6. JobShape'
  BY <1>1, <1>2, <1>4 DEF GInv, JobShape, Fetching, AtLaunch, AtJava, AtClient, AtLibraries,
                    AtObjects, AtLoader, Getting, owned
<1>7. job.steady => Steady'
  BY <1>1, <1>2, <1>4 DEF Steady, AtJava, AtClient, AtLibraries, AtObjects, AtLoader, Getting, Asked
<1>8. NothingUnverified'
  BY <1>2 DEF GInv, NothingUnverified
<1> QED
  BY <1>1, <1>2, <1>4, <1>5, <1>6, <1>7, <1>8 DEF GInv

-----------------------------------------------------------------------------
(* Metadata and downloads.                                                 *)

(* A file published is one a revision lists.                               *)
LEMMA PublishListed ==
    ASSUME GInv, NEW f \in Files, NEW r \in Revisions, Publish(f, Digest[r][f])
    PROVE  /\ store' \in [Files -> Contents] /\ hurt' \in SUBSET Files
           /\ NothingUnverified'
           /\ store'[f] = Digest[r][f]
           /\ \A g \in Files : g # f => store'[g] = store[g]
<1>1. Digest[r][f] \in Listed(f) /\ Digest[r][f] \in Contents
  BY ListedFiles
<1>2. /\ store' \in [Files -> Contents] /\ hurt' \in SUBSET Files /\ store'[f] = Digest[r][f]
      /\ \A g \in Files : g # f => store'[g] = store[g]
  BY <1>1 DEF Publish, GInv, TypeOK
<1>3. NothingUnverified'
  BY <1>1, <1>2 DEF Publish, GInv, NothingUnverified
<1> QED
  BY <1>2, <1>3

(* The metadata of the revision the server has now is fetched.             *)
LEMMA MetadataStep ==
    ASSUME GInv, FetchMetadata
    PROVE  GInv'
<1>1. /\ upstream \in Revisions /\ "json" \in Files /\ "jar" \in Files
      /\ Digest[upstream]["json"] = upstream
  BY ListedFiles DEF GInv, TypeOK
<1>2. Publish("json", Digest[upstream]["json"])
  BY <1>1 DEF FetchMetadata
<1>3. /\ store' \in [Files -> Contents] /\ hurt' \in SUBSET Files /\ NothingUnverified'
      /\ store'["json"] = Digest[upstream]["json"]
      /\ \A g \in Files : g # "json" => store'[g] = store[g]
  BY <1>1, <1>2, PublishListed
<1>4. /\ job.pc = "metadata" /\ job'.pc = "client" /\ job'.rev = upstream /\ job'.todo = {"jar"}
      /\ job'.kind = job.kind /\ job'.inst = job.inst /\ job'.java = job.java
      /\ job'.steady = job.steady /\ job' \in JobRecords
      /\ UNCHANGED <<upstream, java, owned, views, got, fresh>>
  BY <1>1 DEF FetchMetadata, Working, GInv, TypeOK, JobRecords, PCs
<1>5. TypeOK'
  BY <1>3, <1>4 DEF GInv, TypeOK, JobRecords, java, owned, views
<1>6. JobShape'
  BY <1>1, <1>4 DEF GInv, JobShape, Fetching, AtLaunch, AtJava, AtClient, AtLibraries, AtObjects,
                    AtLoader, Getting, owned
<1>7. job.steady => Steady'
  BY <1>3, <1>4 DEF GInv, Steady, Current, AtJava, AtClient, AtLibraries, AtObjects, AtLoader, Getting,
                    Asked, java
<1> QED
  BY <1>3, <1>4, <1>5, <1>6, <1>7, Kept DEF Getting, java, owned

(* A download begins, or is not needed.                                    *)
LEMMA StartStep ==
    ASSUME GInv, NEW f \in Files, StartDownload(f)
    PROVE  GInv'
<1>1. /\ job.pc \in Fetching /\ job.rev \in Revisions /\ Digest[job.rev][f] \in Contents
      /\ f \in job.todo
  BY ListedFiles DEF StartDownload, GInv, JobShape, Fetching, AtClient, AtLibraries, AtObjects, AtLoader
<1>2. UNCHANGED <<upstream, store, hurt, java, owned, views, fresh>>
  BY DEF StartDownload
<1>3. CASE Reusable(f)
  <2>1. /\ job' = [job EXCEPT !.todo = @ \ {f}] /\ got' = got /\ got[f] = None
        /\ store[f] = Digest[job.rev][f]
    BY <1>3 DEF StartDownload, Reusable
  <2>2. /\ job'.pc = job.pc /\ job'.rev = job.rev /\ job'.todo = job.todo \ {f}
        /\ job'.kind = job.kind /\ job'.inst = job.inst /\ job'.java = job.java
        /\ job'.steady = job.steady /\ job' \in JobRecords
    BY <2>1 DEF GInv, TypeOK, JobRecords
  <2>3. TypeOK'
    BY <1>2, <2>1, <2>2 DEF GInv, TypeOK, JobRecords, java, owned, views
  <2>4. JobShape'
    BY <1>1, <1>2, <2>1, <2>2 DEF GInv, JobShape, Fetching, AtLaunch, AtJava, AtClient, AtLibraries,
        AtObjects, AtLoader, Getting, owned
  <2>5. job.steady => Steady'
    <3> SUFFICES ASSUME job.steady PROVE Steady'
      OBVIOUS
    <3>1. job.rev = upstream /\ Current(f)
      BY <1>1, <2>1 DEF GInv, Steady, Current, Fetching, AtClient, AtLibraries, AtObjects, AtLoader
    <3>2. Asked' = Asked
      BY <1>2, <2>2 DEF Asked
    <3>3. \A g \in Asked' : g \in job'.todo \/ Current(g)'
      BY <1>2, <2>2, <3>1, <3>2 DEF GInv, Steady, Current
    <3> QED
      BY <1>2, <2>2, <3>3 DEF GInv, Steady, java, owned
  <2> QED
    BY <1>1, <1>2, <2>2, <2>3, <2>4, <2>5, Moved DEF Getting, Fetching, java
<1>4. CASE ~Reusable(f)
  <2>1. /\ job' = job /\ got' \in [Files -> Contents]
        /\ \A g \in Files : got'[g] # None => g = f \/ got[g] # None
    BY <1>1, <1>4 DEF StartDownload, GInv, TypeOK, Contents
  <2>2. TypeOK'
    BY <1>2, <2>1 DEF GInv, TypeOK, java, owned, views
  <2>3. JobShape'
    BY <1>1, <1>2, <2>1 DEF GInv, JobShape, owned
  <2>4. job.steady => Steady'
    BY <1>2, <2>1 DEF GInv, Steady, Current, Asked, java, owned
  <2> QED
    BY <1>1, <1>2, <2>1, <2>2, <2>3, <2>4, Moved DEF Getting, Fetching, java
<1> QED
  BY <1>3, <1>4

(* A download ends: with what is listed, or with an error.                 *)
LEMMA FinishStep ==
    ASSUME GInv, NEW f \in Files, FinishDownload(f)
    PROVE  GInv'
<1>1. /\ job.pc \in Fetching /\ job.rev \in Revisions /\ f \in job.todo /\ None \in Contents
      /\ got' \in [Files -> Contents] /\ got'[f] = None
      /\ \A g \in Files : got'[g] # None => g # f /\ got[g] # None
      /\ UNCHANGED <<upstream, java, owned, view, fresh>>
  BY DEF FinishDownload, GInv, TypeOK, Contents, JobShape, Fetching, AtClient, AtLibraries, AtObjects,
         AtLoader
<1>2. CASE Accepted(f)
  <2>1. /\ Publish(f, Digest[job.rev][f])
        /\ linked' = [i \in Instances |-> linked[i] \ {f}]
        /\ job' = [job EXCEPT !.todo = @ \ {f}]
    BY <1>2 DEF FinishDownload, Accepted
  <2>2. /\ store' \in [Files -> Contents] /\ hurt' \in SUBSET Files /\ NothingUnverified'
        /\ store'[f] = Digest[job.rev][f]
        /\ \A g \in Files : g # f => store'[g] = store[g]
    BY <1>1, <2>1, PublishListed
  <2>3. /\ job'.pc = job.pc /\ job'.rev = job.rev /\ job'.todo = job.todo \ {f}
        /\ job'.kind = job.kind /\ job'.inst = job.inst /\ job'.java = job.java
        /\ job'.steady = job.steady /\ job' \in JobRecords
        /\ linked' \in [Instances -> SUBSET Objects]
    BY <2>1 DEF GInv, TypeOK, JobRecords
  <2>4. TypeOK'
    BY <1>1, <2>2, <2>3 DEF GInv, TypeOK, JobRecords, java, owned
  <2>5. JobShape'
    BY <1>1, <2>3 DEF GInv, JobShape, Fetching, AtLaunch, AtJava, AtClient, AtLibraries,
        AtObjects, AtLoader, Getting, owned
  <2>6. job.steady => job.rev = upstream
    BY <1>1 DEF GInv, Steady, Fetching, AtClient, AtLibraries, AtObjects, AtLoader
  <2>7. job.steady => Steady'
    <3> SUFFICES ASSUME job.steady PROVE Steady'
      OBVIOUS
    <3>1. Asked' = Asked /\ Asked \subseteq Files
      <4>1. Asked' = Asked
        BY <1>1, <2>3 DEF Asked
      <4>2. job.inst \in Instances /\ upstream \in Revisions
        BY <1>1 DEF GInv, TypeOK, JobShape, Fetching
      <4> QED
        BY <4>1, <4>2, ListedFiles DEF Asked
    <3>2. \A g \in Asked' : g \in job'.todo \/ Current(g)'
      BY <1>1, <2>2, <2>3, <2>6, <3>1 DEF GInv, Steady, Current
    <3> QED
      BY <1>1, <2>3, <3>2 DEF GInv, Steady, java, owned
  <2> QED
    BY <1>1, <2>2, <2>3, <2>4, <2>5, <2>6, <2>7, Kept DEF Getting, Fetching, java, owned
<1>3. CASE ~Accepted(f)
  <2>1. job' = [job EXCEPT !.err = TRUE] /\ UNCHANGED <<store, hurt, linked>>
    BY <1>3 DEF FinishDownload
  <2>2. /\ job'.pc = job.pc /\ job'.rev = job.rev /\ job'.todo = job.todo
        /\ job'.kind = job.kind /\ job'.inst = job.inst /\ job'.java = job.java
        /\ job'.steady = job.steady /\ job' \in JobRecords
    BY <2>1 DEF GInv, TypeOK, JobRecords
  <2>3. TypeOK'
    BY <1>1, <2>1, <2>2 DEF GInv, TypeOK, JobRecords, java, owned
  <2>4. JobShape'
    BY <1>1, <2>2 DEF GInv, JobShape, Fetching, AtLaunch, AtJava, AtClient, AtLibraries,
        AtObjects, AtLoader, Getting, owned
  <2>5. job.steady => Steady'
    BY <1>1, <2>1, <2>2 DEF GInv, Steady, Current, Asked, java, owned
  <2> QED
    BY <1>1, <2>1, <2>2, <2>3, <2>4, <2>5, Moved DEF Getting, Fetching, java
<1> QED
  BY <1>2, <1>3

-----------------------------------------------------------------------------
(* From one kind of file to the next.                                      *)

(* What the job has asked for so far is there.                             *)
LEMMA AskedIsThere ==
    ASSUME GInv, job.steady, job.todo = {}
    PROVE  \A f \in Asked : Current(f)
  BY DEF GInv, Steady

(* The places of a job by the stages they come after.                      *)
LEMMA StagesDiffer ==
    /\ Fetching = {"client", "libraries", "objects", "loader"}
    /\ AtLoader = {"loader", "manifest", "save", "verify"}
    /\ AtObjects = {"objects", "offer", "profile", "loader", "manifest", "save", "verify"}
    /\ AtLibraries = {"libraries", "index", "objects", "offer", "profile", "loader", "manifest",
                      "save", "verify"}
    /\ AtClient = {"client"} \cup AtLibraries
    /\ AtJava = {"metadata"} \cup AtClient
  BY DEF Fetching, AtLoader, AtObjects, AtLibraries, AtClient, AtJava

(* A job whose list is done goes on to its next one.                       *)
LEMMA AdvanceStep ==
    ASSUME GInv, ClientReady \/ LibrariesReady \/ ListLoaders \/ FetchProfile
    PROVE  GInv'
<1>1. /\ job.pc \in {"client", "libraries", "offer", "profile"} /\ job.todo = {}
      /\ job.rev \in Revisions /\ job.java \in Majors
      /\ UNCHANGED <<upstream, store, hurt, java, owned, views, got, fresh>>
  <2>1. job.pc \in {"client", "libraries", "offer", "profile"}
        /\ UNCHANGED <<upstream, store, hurt, java, owned, views, got, fresh>>
    BY DEF ClientReady, LibrariesReady, ListLoaders, FetchProfile, Working, Fetched
  <2>2. job.todo = {}
    BY DEF ClientReady, LibrariesReady, ListLoaders, FetchProfile, Working, Fetched, GInv, JobShape,
           Fetching
  <2> QED
    BY <2>1, <2>2, StagesDiffer DEF GInv, JobShape
<1>2. /\ LibrariesOf[job.rev] \subseteq Files /\ FabricLibraries \subseteq Files
      /\ job.steady => job.rev = upstream
      /\ \A f \in Files : got[f] = None
  BY <1>1, ListedFiles, StagesDiffer DEF Files, GInv, Steady, JobShape
<1>3. PICK pc \in PCs, todo \in SUBSET Files, err \in BOOLEAN :
          /\ job' = [job EXCEPT !.pc = pc, !.todo = todo, !.err = err]
          /\ \/ pc = job.pc /\ todo = {}
             \/ job.pc = "client" /\ pc = "libraries" /\ todo = LibrariesOf[job.rev]
             \/ job.pc = "libraries" /\ pc = "index" /\ todo = {}
             \/ job.pc = "offer" /\ pc = "profile" /\ todo = {}
             \/ job.pc = "profile" /\ pc = "loader" /\ todo = FabricLibraries
  <2>1. \A pc \in PCs : [job EXCEPT !.pc = pc] = [job EXCEPT !.pc = pc, !.todo = {}, !.err = job.err]
    BY <1>1 DEF GInv, TypeOK
  <2>2. \A pc \in PCs, todo \in SUBSET Files :
            [job EXCEPT !.pc = pc, !.todo = todo] = [job EXCEPT !.pc = pc, !.todo = todo, !.err = job.err]
    BY DEF GInv, TypeOK
  <2>3. [job EXCEPT !.err = TRUE] = [job EXCEPT !.pc = job.pc, !.todo = {}, !.err = TRUE]
    BY <1>1 DEF GInv, TypeOK
  <2>4. job.pc \in PCs /\ job.err \in BOOLEAN /\ {"libraries", "index", "profile", "loader"} \subseteq PCs
    BY DEF GInv, TypeOK, PCs
  <2>5. CASE ClientReady
    <3>1. job.pc = "client" /\ job' = [job EXCEPT !.pc = "libraries", !.todo = LibrariesOf[job.rev]]
      BY <2>5 DEF ClientReady, Fetched, Working, ToFetch
    <3>2. job' = [job EXCEPT !.pc = "libraries", !.todo = LibrariesOf[job.rev], !.err = job.err]
      BY <1>2, <2>2, <2>4, <3>1
    <3> QED
      BY <1>2, <2>4, <3>1, <3>2
  <2>6. CASE LibrariesReady
    BY <2>1, <2>4, <2>6 DEF LibrariesReady, Fetched, Working, To
  <2>7. CASE ListLoaders
    BY <2>1, <2>3, <2>4, <2>7 DEF ListLoaders, Gives, Working, To
  <2>8. CASE FetchProfile
    <3>1. CASE job' = [job EXCEPT !.pc = "loader", !.todo = FabricLibraries]
      <4>1. job' = [job EXCEPT !.pc = "loader", !.todo = FabricLibraries, !.err = job.err]
        BY <1>2, <2>2, <2>4, <3>1
      <4> QED
        BY <1>2, <2>4, <2>8, <4>1 DEF FetchProfile, Working
    <3>2. CASE job' = [job EXCEPT !.err = TRUE]
      BY <2>3, <2>4, <3>2
    <3> QED
      BY <2>8, <3>1, <3>2 DEF FetchProfile, Gives, ToFetch
  <2> QED
    BY <2>5, <2>6, <2>7, <2>8
<1>4. /\ job'.pc = pc /\ job'.todo = todo /\ job'.rev = job.rev /\ job'.java = job.java
      /\ job'.kind = job.kind /\ job'.inst = job.inst /\ job'.steady = job.steady
      /\ job' \in JobRecords
  BY <1>3 DEF GInv, TypeOK, JobRecords
<1>5. TypeOK'
  BY <1>1, <1>4 DEF GInv, TypeOK, JobRecords, java, owned, views
<1>6. JobShape'
  BY <1>1, <1>2, <1>3, <1>4, StagesDiffer DEF GInv, JobShape, AtLaunch, Getting, owned
<1>7. job.steady => Steady'
  <2> SUFFICES ASSUME job.steady PROVE Steady'
    OBVIOUS
  <2>1. \A f \in Asked' : f \in todo \/ f \in Asked
    BY <1>1, <1>2, <1>3, <1>4, StagesDiffer DEF Asked, LoaderOf
  <2>2. \A f \in Asked' : f \in job'.todo \/ Current(f)'
    BY <1>1, <1>4, <2>1, AskedIsThere DEF Current
  <2> QED
    BY <1>1, <1>3, <1>4, <2>2, StagesDiffer DEF GInv, Steady, java, owned, Getting
<1> QED
  BY <1>1, <1>3, <1>4, <1>5, <1>6, <1>7, Moved DEF Getting, java

(* The index of the assets is fetched, which lists the objects.            *)
LEMMA IndexStep ==
    ASSUME GInv, FetchIndex
    PROVE  GInv'
<1>1. /\ job.pc = "index" /\ job.todo = {} /\ job.rev \in Revisions /\ "index" \in Files
      /\ ObjectsOf[job.rev] \subseteq Files /\ Digest[job.rev]["index"] = job.rev
      /\ job.steady => job.rev = upstream
      /\ \A f \in Files : got[f] = None
  <2>1. job.pc = "index" /\ job.todo = {} /\ job.rev \in Revisions
    BY StagesDiffer DEF FetchIndex, Working, GInv, JobShape
  <2> QED
    BY <2>1, StagesDiffer, ListedFiles DEF GInv, JobShape, Steady
<1>2. Publish("index", Digest[job.rev]["index"])
  BY <1>1 DEF FetchIndex
<1>3. /\ store' \in [Files -> Contents] /\ hurt' \in SUBSET Files /\ NothingUnverified'
      /\ store'["index"] = Digest[job.rev]["index"]
      /\ \A g \in Files : g # "index" => store'[g] = store[g]
  BY <1>1, <1>2, PublishListed
<1>4. /\ job'.pc = "objects" /\ job'.rev = job.rev /\ job'.todo = ObjectsOf[job.rev]
      /\ job'.kind = job.kind /\ job'.inst = job.inst /\ job'.java = job.java
      /\ job'.steady = job.steady /\ job' \in JobRecords
      /\ UNCHANGED <<upstream, java, owned, views, got, fresh>>
  BY <1>1 DEF FetchIndex, ToFetch, GInv, TypeOK, JobRecords, PCs
<1>5. TypeOK'
  BY <1>3, <1>4 DEF GInv, TypeOK, JobRecords, java, owned, views
<1>6. JobShape'
  BY <1>1, <1>4, StagesDiffer DEF GInv, JobShape, AtLaunch, Getting, owned
<1>7. job.steady => Steady'
  <2> SUFFICES ASSUME job.steady PROVE Steady'
    OBVIOUS
  <2>1. job.inst \in Instances /\ upstream \in Revisions
    BY <1>1 DEF GInv, TypeOK, JobShape
  <2>2. /\ \A f \in Asked' : f \in ObjectsOf[upstream] \/ f = "index" \/ f \in Asked
        /\ Asked \subseteq Files
    BY <1>1, <1>4, <2>1, ListedFiles, StagesDiffer DEF Asked
  <2>3. \A f \in Asked' : f \in job'.todo \/ Current(f)'
    BY <1>1, <1>3, <1>4, <2>2, AskedIsThere DEF Current
  <2> QED
    BY <1>1, <1>4, <2>3, StagesDiffer DEF GInv, Steady, java, owned, Getting
<1> QED
  BY <1>1, <1>3, <1>4, <1>5, <1>6, <1>7, Kept DEF Getting, java, owned

(* An installation works on an instance that is not ready.                 *)
LEMMA InstalledIsNew ==
    ASSUME GInv, job.kind = "install"
    PROVE  job.inst \notin fresh
<1>1. upstream \in Revisions
  BY DEF GInv, TypeOK
<1> QED
  BY <1>1, ListedFiles DEF GInv, JobShape, Complete

(* A job that has the objects or the loader goes on to the directory of    *)
(* the instance.                                                           *)
LEMMA FolderStep ==
    ASSUME GInv, ObjectsReady \/ LoaderReady
    PROVE  GInv'
<1>1. /\ job.pc \in {"objects", "loader"} /\ job.todo = {} /\ job.rev \in Revisions
      /\ job.java \in Majors /\ job.inst \in Instances
      /\ UNCHANGED <<upstream, store, hurt, java, manifest, views, got, fresh>>
  <2>1. job.pc \in {"objects", "loader"} /\ job.todo = {}
        /\ UNCHANGED <<upstream, store, hurt, java, manifest, views, got, fresh>>
    BY DEF ObjectsReady, LoaderReady, Fetched, Working
  <2> QED
    BY <2>1, StagesDiffer DEF GInv, JobShape
<1>2. PICK pc \in {"offer", "manifest"}, home \in {"bare", "loader"} :
          /\ job' = [job EXCEPT !.pc = pc]
          /\ folder' = IF job.kind = "install" THEN [folder EXCEPT ![job.inst] = home] ELSE folder
          /\ pc = "offer" => job.pc = "objects"
          /\ pc = "manifest" => (job.pc = "loader" /\ home = "loader") \/ (job.pc = "objects" /\ job.inst \notin Fabric)
  <2>1. CASE ObjectsReady
    BY <2>1 DEF ObjectsReady, To, Fetched, Working
  <2>2. CASE LoaderReady
    BY <2>2 DEF LoaderReady, To, Fetched, Working
  <2> QED
    BY <2>1, <2>2
<1>3. /\ job'.pc = pc /\ job'.todo = {} /\ job'.rev = job.rev /\ job'.java = job.java
      /\ job'.kind = job.kind /\ job'.inst = job.inst /\ job'.steady = job.steady
      /\ job' \in JobRecords
  BY <1>1, <1>2 DEF GInv, TypeOK, JobRecords, PCs
<1>4. /\ folder' \in [Instances -> {"absent", "bare", "loader"}]
      /\ \A i \in Instances : folder'[i] = folder[i] \/ (i = job.inst /\ job.kind = "install" /\ folder'[i] = home)
      /\ job.kind = "install" => folder'[job.inst] = home
  BY <1>1, <1>2 DEF GInv, TypeOK
<1>5. TypeOK'
  BY <1>1, <1>3, <1>4 DEF GInv, TypeOK, JobRecords, java, views
<1>6. JobShape'
  BY <1>1, <1>3, <1>4, StagesDiffer DEF GInv, JobShape, AtLaunch, Getting
<1>7. job.steady => Steady'
  <2> SUFFICES ASSUME job.steady PROVE Steady'
    OBVIOUS
  <2>1. Asked' = Asked
    BY <1>1, <1>2, <1>3, StagesDiffer DEF Asked, LoaderOf
  <2>2. \A f \in Asked' : Current(f)'
    BY <1>1, <2>1, AskedIsThere DEF Current
  <2> QED
    BY <1>1, <1>2, <1>3, <1>4, <2>2, StagesDiffer DEF GInv, Steady, java, Getting
<1>8. \A i \in fresh : manifest'[i] = manifest[i] /\ folder'[i] = folder[i]
  BY <1>1, <1>4, InstalledIsNew DEF GInv, TypeOK
<1>9. NothingUnverified'
  BY <1>1 DEF GInv, NothingUnverified
<1> QED
  BY <1>1, <1>2, <1>3, <1>5, <1>6, <1>7, <1>8, <1>9, Kept DEF Getting, java

-----------------------------------------------------------------------------
(* The end of an installation or a repair.                                 *)

(* A job that has asked for everything while nothing changed leaves a      *)
(* complete instance when it has written its manifest.                     *)
LEMMA AskedIsWhole ==
    ASSUME GInv, job.pc \in AtLoader, job.inst \in Instances
    PROVE  Asked = Whole(job.inst)
  BY StagesDiffer DEF Asked, Whole

(* A job that is over leaves nothing half-fetched.                         *)
LEMMA IdleJob ==
    ASSUME GInv, job' = Idle, got' = [f \in Files |-> None]
    PROVE  /\ job' \in JobRecords /\ got' \in [Files -> Contents]
           /\ job'.pc = "idle" /\ job'.todo = {} /\ job'.steady = TRUE /\ job'.kind = "none"
           /\ Steady'
<1>1. /\ job' \in JobRecords /\ got' \in [Files -> Contents]
      /\ job'.pc = "idle" /\ job'.todo = {} /\ job'.steady = TRUE /\ job'.kind = "none"
  BY DEF Idle, JobRecords, Kinds, PCs, Contents
<1>2. Steady'
  BY <1>1, StagesDiffer DEF Steady, Asked, Getting
<1> QED
  BY <1>1, <1>2

(* The installation writes the manifest that makes the instance one.       *)
LEMMA WriteManifestStep ==
    ASSUME GInv, WriteManifest
    PROVE  GInv'
<1>1. /\ job.pc = "manifest" /\ job.todo = {} /\ job.rev \in Revisions
      /\ job.java \in Majors /\ job.inst \in Instances /\ job.java # None
      /\ \A f \in Files : got[f] = None
      /\ UNCHANGED <<upstream, store, hurt, java, folder, views, got>>
  <2>1. job.pc = "manifest" /\ UNCHANGED <<upstream, store, hurt, java, folder, views, got>>
    BY DEF WriteManifest, Working
  <2>2. job.todo = {} /\ job.rev \in Revisions /\ job.java \in Majors /\ job.inst \in Instances
    BY <2>1, StagesDiffer DEF GInv, JobShape
  <2>3. job.java # None
    BY <2>2, GameFilesAssumption DEF Majors
  <2> QED
    BY <2>1, <2>2, <2>3, StagesDiffer DEF GInv, JobShape
<1>2. NothingUnverified'
  BY <1>1 DEF GInv, NothingUnverified
<1>3. CASE job.kind = "install"
  <2>1. /\ manifest' = [manifest EXCEPT ![job.inst] = job.java]
        /\ fresh' = Ready(job.inst) /\ job' = Idle
    BY <1>3 DEF WriteManifest
  <2>2. /\ manifest' \in [Instances -> Majors \cup {None}] /\ manifest'[job.inst] = job.java
        /\ \A i \in Instances : i # job.inst => manifest'[i] = manifest[i]
        /\ fresh' \subseteq Instances
        /\ \A i \in fresh' : i \in fresh \/ (i = job.inst /\ job.steady)
    BY <1>1, <2>1 DEF Ready, GInv, TypeOK
  <2>3. got' = [f \in Files |-> None]
    BY <1>1 DEF GInv, TypeOK
  <2>4. TypeOK'
    BY <1>1, <2>1, <2>2, <2>3, IdleJob DEF GInv, TypeOK, JobRecords, java, views
  <2>5. folder[job.inst] # "absent"
    BY <1>1, <1>3, StagesDiffer DEF GInv, JobShape
  <2>6. JobShape'
    BY <1>1, <2>1, <2>2, <2>3, <2>5, IdleJob, StagesDiffer DEF GInv, JobShape, AtLaunch, Getting
  <2>7. ASSUME NEW i \in fresh' PROVE Complete(i)'
    <3>1. CASE i = job.inst /\ job.steady
      <4>1. \A f \in Whole(i) : Current(f)
        BY <1>1, <3>1, AskedIsThere, AskedIsWhole, StagesDiffer
      <4>2. job.java = JavaOf[upstream] /\ runtime[job.java] = "ready"
            /\ (i \in Fabric => folder[i] = "loader")
        BY <1>1, <1>3, <3>1, StagesDiffer DEF GInv, Steady
      <4> QED
        BY <1>1, <2>2, <3>1, <4>1, <4>2 DEF Complete, Current, Whole, LoaderOf, java
    <3>2. CASE i \in fresh
      <4>1. i \in Instances /\ i # job.inst
        BY <1>3, <3>2, InstalledIsNew DEF GInv, TypeOK
      <4> QED
        BY <1>1, <2>2, <3>2, <4>1, CompleteKept DEF java
    <3> QED
      BY <2>2, <3>1, <3>2
  <2> QED
    BY <1>2, <2>1, <2>3, <2>4, <2>6, <2>7, IdleJob DEF GInv, Getting
<1>4. CASE job.kind # "install"
  <2>1. job' = [job EXCEPT !.pc = "save"] /\ UNCHANGED <<manifest, fresh>>
    BY <1>4 DEF WriteManifest, To
  <2>2. /\ job'.pc = "save" /\ job'.todo = {} /\ job'.rev = job.rev /\ job'.java = job.java
        /\ job'.kind = job.kind /\ job'.inst = job.inst /\ job'.steady = job.steady
        /\ job' \in JobRecords
    BY <1>1, <2>1 DEF GInv, TypeOK, JobRecords, PCs
  <2>3. TypeOK'
    BY <1>1, <2>1, <2>2 DEF GInv, TypeOK, JobRecords, java, views
  <2>4. JobShape'
    <3>1. job.kind = "repair"
      BY <1>1, <1>4, StagesDiffer DEF GInv, TypeOK, JobShape, Kinds, AtLaunch
    <3> QED
      BY <1>1, <2>1, <2>2, <3>1, StagesDiffer DEF GInv, JobShape, AtLaunch, Getting
  <2>5. job.steady => Steady'
    <3>1. Asked' = Asked
      BY <1>1, <2>2, StagesDiffer DEF Asked, LoaderOf
    <3> QED
      BY <1>1, <2>1, <2>2, <3>1, StagesDiffer DEF GInv, Steady, Current, java, Getting
  <2> QED
    BY <1>1, <2>1, <2>2, <2>3, <2>4, <2>5, Moved DEF Getting, java, owned
<1> QED
  BY <1>3, <1>4

(* The repair writes back the manifest.                                    *)
LEMMA SaveStep ==
    ASSUME GInv, SaveRepair
    PROVE  GInv'
<1>1. /\ job.pc = "save" /\ job.todo = {} /\ job.rev \in Revisions
      /\ job.java \in Majors /\ job.inst \in Instances
      /\ UNCHANGED <<upstream, store, hurt, java, views, got, fresh>>
  <2>1. job.pc = "save" /\ UNCHANGED <<upstream, store, hurt, java, views, got, fresh>>
    BY DEF SaveRepair, Working
  <2> QED
    BY <2>1, StagesDiffer DEF GInv, JobShape
<1>2. NothingUnverified'
  BY <1>1 DEF GInv, NothingUnverified
<1>3. CASE job.inst \in Fabric /\ folder[job.inst] = "bare"
  <2>1. folder' = [folder EXCEPT ![job.inst] = "loader"] /\ UNCHANGED <<manifest, job>>
    BY <1>3 DEF SaveRepair
  <2>2. /\ folder' \in [Instances -> {"absent", "bare", "loader"}] /\ folder'[job.inst] = "loader"
        /\ \A i \in Instances : i # job.inst => folder'[i] = folder[i]
    BY <1>1, <2>1 DEF GInv, TypeOK
  <2>3. TypeOK'
    BY <1>1, <2>1, <2>2 DEF GInv, TypeOK, java, views
  <2>4. JobShape'
    BY <1>1, <2>1, <2>2, StagesDiffer DEF GInv, JobShape
  <2>5. job.steady => Steady'
    BY <1>1, <2>1, StagesDiffer DEF GInv, Steady, Current, Asked, LoaderOf, java, Getting
  <2>6. job.inst \notin fresh
    BY <1>3 DEF GInv, Complete
  <2>7. \A i \in fresh : manifest'[i] = manifest[i] /\ folder'[i] = folder[i]
    BY <2>1, <2>2, <2>6 DEF GInv, TypeOK
  <2> QED
    BY <1>1, <1>2, <2>1, <2>3, <2>4, <2>5, <2>7, Kept DEF Getting, java
<1>4. CASE ~(job.inst \in Fabric /\ folder[job.inst] = "bare")
  <2>1. /\ manifest' = [manifest EXCEPT ![job.inst] = job.java] /\ folder' = folder
        /\ job' = [job EXCEPT !.pc = "verify"]
    BY <1>4 DEF SaveRepair, To
  <2>2. /\ job'.pc = "verify" /\ job'.todo = {} /\ job'.rev = job.rev /\ job'.java = job.java
        /\ job'.kind = job.kind /\ job'.inst = job.inst /\ job'.steady = job.steady
        /\ job' \in JobRecords
    BY <1>1, <2>1 DEF GInv, TypeOK, JobRecords, PCs
  <2>3. /\ manifest' \in [Instances -> Majors \cup {None}] /\ manifest'[job.inst] = job.java
        /\ \A i \in Instances : i # job.inst => manifest'[i] = manifest[i]
    BY <1>1, <2>1 DEF GInv, TypeOK
  <2>4. TypeOK'
    BY <1>1, <2>1, <2>2, <2>3 DEF GInv, TypeOK, JobRecords, java, views
  <2>5. manifest[job.inst] # None /\ job.kind = "repair" /\ job.java # None
    BY <1>1, GameFilesAssumption DEF GInv, JobShape, Majors
  <2>6. JobShape'
    BY <1>1, <2>1, <2>2, <2>3, <2>5, StagesDiffer DEF GInv, JobShape, AtLaunch, Getting
  <2>7. job.steady => Steady'
    <3>1. Asked' = Asked
      BY <1>1, <2>2, StagesDiffer DEF Asked, LoaderOf
    <3> QED
      BY <1>1, <2>1, <2>2, <2>3, <3>1, StagesDiffer DEF GInv, Steady, Current, java, Getting
  <2>8. \A i \in fresh : manifest'[i] = manifest[i] /\ folder'[i] = folder[i]
    <3>1. ASSUME NEW i \in fresh PROVE manifest'[i] = manifest[i]
      <4>1. job.java = JavaOf[upstream] /\ manifest[i] = JavaOf[upstream] /\ i \in Instances
        BY <1>1, <3>1, StagesDiffer DEF GInv, TypeOK, Steady, Complete
      <4> QED
        BY <2>3, <4>1
    <3> QED
      BY <2>1, <3>1
  <2> QED
    BY <1>1, <1>2, <2>2, <2>4, <2>6, <2>7, <2>8, Kept DEF Getting, java
<1> QED
  BY <1>3, <1>4

(* The repair ends with a diagnosis of its own.                            *)
LEMMA VerifyStep ==
    ASSUME GInv, VerifyRepair
    PROVE  GInv'
<1>1. /\ job.pc = "verify" /\ job.todo = {} /\ job.inst \in Instances
      /\ \A f \in Files : got[f] = None
      /\ UNCHANGED <<upstream, store, hurt, java, owned, views, got>>
      /\ job.inst \in Fabric => folder[job.inst] = "loader"
      /\ fresh' = Ready(job.inst) /\ job' = Idle
  <2>1. /\ job.pc = "verify" /\ UNCHANGED <<upstream, store, hurt, java, owned, views, got>>
        /\ job.inst \in Fabric => folder[job.inst] = "loader"
        /\ fresh' = Ready(job.inst) /\ job' = Idle
    BY DEF VerifyRepair, Working, Healthy
  <2> QED
    BY <2>1, StagesDiffer DEF GInv, JobShape
<1>2. NothingUnverified'
  BY <1>1 DEF GInv, NothingUnverified
<1>3. got' = [f \in Files |-> None]
  BY <1>1 DEF GInv, TypeOK
<1>4. fresh' \subseteq Instances /\ \A i \in fresh' : i \in fresh \/ (i = job.inst /\ job.steady)
  BY <1>1 DEF Ready, GInv, TypeOK
<1>5. TypeOK'
  BY <1>1, <1>3, <1>4, IdleJob DEF GInv, TypeOK, JobRecords, java, owned, views
<1>6. JobShape'
  BY <1>1, <1>3, IdleJob, StagesDiffer DEF GInv, JobShape, AtLaunch, Getting, owned
<1>7. ASSUME NEW i \in fresh' PROVE Complete(i)'
  <2>1. CASE i = job.inst /\ job.steady
    <3>1. \A f \in Whole(i) : Current(f)
      BY <1>1, <2>1, AskedIsThere, AskedIsWhole, StagesDiffer
    <3>2. job.java = JavaOf[upstream] /\ runtime[job.java] = "ready" /\ manifest[i] = job.java
      BY <1>1, <2>1, StagesDiffer DEF GInv, Steady
    <3> QED
      BY <1>1, <2>1, <3>1, <3>2 DEF Complete, Current, Whole, LoaderOf, java, owned
  <2>2. CASE i \in fresh
    BY <1>1, <2>2, CompleteKept DEF java, owned
  <2> QED
    BY <1>4, <2>1, <2>2
<1> QED
  BY <1>1, <1>2, <1>3, <1>5, <1>6, <1>7, IdleJob DEF GInv, Getting

-----------------------------------------------------------------------------
(* A launch changes nothing but the job and the instance's view.           *)
LEMMA LaunchStep ==
    ASSUME GInv, CheckLaunch \/ ViewReady \/ \E o \in Objects : Materialize(o)
    PROVE  GInv'
<1>1. /\ job.pc \in {"check", "view"}
      /\ UNCHANGED <<upstream, store, hurt, java, owned, got, fresh>>
  BY DEF CheckLaunch, ViewReady, Materialize, Fetched, Working, views
<1>2. /\ view' \in [Instances -> [Objects -> Contents]] /\ linked' \in [Instances -> SUBSET Objects]
  <2>1. CASE CheckLaunch \/ ViewReady
    BY <2>1 DEF CheckLaunch, ViewReady, views, GInv, TypeOK
  <2>2. ASSUME NEW o \in Objects, Materialize(o)
        PROVE  /\ view' \in [Instances -> [Objects -> Contents]] /\ linked' \in [Instances -> SUBSET Objects]
    <3>1. o \in Files /\ store[o] \in Contents
      BY DEF Files, GInv, TypeOK
    <3>2. CASE UNCHANGED views
      BY <3>2 DEF views, GInv, TypeOK
    <3>3. CASE ~UNCHANGED views
      <4> DEFINE i == job.inst
      <4>1. PICK link \in BOOLEAN :
                /\ view' = [view EXCEPT ![i] = [view[i] EXCEPT ![o] = store[o]]]
                /\ linked' = [linked EXCEPT ![i] = IF link THEN linked[i] \cup {o} ELSE linked[i] \ {o}]
        BY <2>2, <3>3 DEF Materialize
      <4>2. i \in Instances
        BY <1>1 DEF GInv, JobShape
      <4>3. view[i] \in [Objects -> Contents] /\ linked[i] \in SUBSET Objects
        BY <4>2 DEF GInv, TypeOK
      <4>4. [view[i] EXCEPT ![o] = store[o]] \in [Objects -> Contents]
        BY <3>1, <4>3
      <4> QED
        BY <4>1, <4>2, <4>3, <4>4 DEF GInv, TypeOK
    <3> QED
      BY <3>2, <3>3
  <2> QED
    BY <2>1, <2>2
<1>3. PICK pc \in {"view", "run"}, todo \in SUBSET Files :
          job' = [job EXCEPT !.pc = pc, !.todo = todo] /\ (pc = "run" => todo = {})
  <2>1. CASE CheckLaunch
    <3>1. ObjectsOf[store["index"]] \subseteq Files
      BY <2>1, ListedFiles DEF CheckLaunch, Readable
    <3> QED
      BY <2>1, <3>1 DEF CheckLaunch, ToFetch
  <2>2. CASE ViewReady
    <3>1. job.todo = {} /\ job' = [job EXCEPT !.pc = "run"]
      BY <2>2 DEF ViewReady, Fetched, To
    <3>2. [job EXCEPT !.pc = "run"] = [job EXCEPT !.pc = "run", !.todo = {}]
      BY <3>1 DEF GInv, TypeOK
    <3> QED
      BY <3>1, <3>2
  <2>3. ASSUME NEW o \in Objects, Materialize(o)
        PROVE  job' = [job EXCEPT !.pc = "view", !.todo = job.todo \ {o}]
               /\ job.todo \ {o} \in SUBSET Files
    <3>1. job' = [job EXCEPT !.todo = job.todo \ {o}] /\ job.pc = "view"
      BY <2>3 DEF Materialize, Working
    <3>2. /\ [job EXCEPT !.todo = job.todo \ {o}] = [job EXCEPT !.pc = job.pc, !.todo = job.todo \ {o}]
          /\ job.todo \in SUBSET Files
      BY DEF GInv, TypeOK
    <3> QED
      BY <3>1, <3>2
  <2> QED
    BY <2>1, <2>2, <2>3
<1>4. /\ job'.pc = pc /\ job'.todo = todo /\ job'.rev = job.rev /\ job'.java = job.java
      /\ job'.kind = job.kind /\ job'.inst = job.inst /\ job'.steady = job.steady
      /\ job' \in JobRecords
  BY <1>3 DEF GInv, TypeOK, JobRecords, PCs
<1>5. TypeOK'
  BY <1>1, <1>2, <1>4 DEF GInv, TypeOK, JobRecords, java, owned
<1>6. JobShape'
  BY <1>1, <1>3, <1>4, StagesDiffer DEF GInv, JobShape, AtLaunch, Getting, owned
<1>7. Steady'
  BY <1>3, <1>4, StagesDiffer DEF Steady, Asked, Getting
<1> QED
  BY <1>1, <1>3, <1>4, <1>5, <1>6, <1>7, Moved DEF Getting, java

-----------------------------------------------------------------------------
(* A job that ends in an error or with the launcher.                       *)
LEMMA EndStep ==
    ASSUME GInv, Fail \/ Crash
    PROVE  GInv'
<1>1. /\ job' = Idle /\ job # Idle
      /\ UNCHANGED <<upstream, store, hurt, java, manifest, views, fresh>>
  BY DEF Fail, Crash, owned
<1>2. got' = [f \in Files |-> None]
  BY DEF Fail, Crash, GInv, TypeOK
<1>3. job.inst \in Instances
  BY <1>1 DEF GInv, JobShape
<1>4. /\ folder' \in [Instances -> {"absent", "bare", "loader"}]
      /\ \A i \in Instances : folder'[i] = folder[i] \/ (i = job.inst /\ job.kind = "install")
  BY <1>3 DEF Fail, Crash, owned, GInv, TypeOK
<1>5. TypeOK'
  BY <1>1, <1>2, <1>4, IdleJob DEF GInv, TypeOK, JobRecords, java, views
<1>6. JobShape'
  BY <1>1, <1>2, <1>4, IdleJob, StagesDiffer DEF GInv, JobShape, AtLaunch, Getting
<1>7. NothingUnverified'
  BY <1>1 DEF GInv, NothingUnverified
<1>8. \A i \in fresh' : Complete(i)'
  BY <1>1, <1>4, InstalledIsNew, CompleteKept DEF GInv, TypeOK, java
<1> QED
  BY <1>1, <1>2, <1>5, <1>6, <1>7, <1>8, IdleJob DEF GInv, Getting

(* Whatever changes outside, nothing is called ready afterwards, and a job  *)
(* at work is not steady any more.                                         *)
LEMMA OutsideStep ==
    ASSUME GInv, Republish \/ Lose \/ \E f \in Fragile : Damage(f)
    PROVE  GInv'
<1>1. /\ Disturbed /\ fresh' = {}
      /\ UNCHANGED <<staging, manifest, got>>
  BY DEF Republish, Lose, Damage, java, owned
<1>2. /\ job'.pc = job.pc /\ job'.todo = job.todo /\ job'.rev = job.rev /\ job'.java = job.java
      /\ job'.kind = job.kind /\ job'.inst = job.inst
      /\ job'.steady => job' = Idle
      /\ job.pc = "idle" => job' = Idle
      /\ job' \in JobRecords
  BY <1>1 DEF Disturbed, GInv, TypeOK, JobRecords, JobShape
<1>3. /\ upstream' \in Revisions
      /\ runtime' \in [Majors -> {"absent", "broken", "ready"}]
      /\ folder' \in [Instances -> {"absent", "bare", "loader"}]
      /\ \A i \in Instances : folder'[i] = "absent" => folder[i] = "absent"
      /\ view' \in [Instances -> [Objects -> Contents]] /\ linked' \in [Instances -> SUBSET Objects]
      /\ store' \in [Files -> Contents] /\ hurt' \in SUBSET Files
      /\ NothingUnverified'
  <2>1. CASE Republish
    BY <2>1 DEF Republish, java, owned, views, GInv, TypeOK, NothingUnverified
  <2>2. CASE Lose
    <3>1. /\ runtime' \in [Majors -> {"absent", "broken", "ready"}]
          /\ folder' \in [Instances -> {"absent", "bare", "loader"}]
          /\ \A i \in Instances : folder'[i] = "absent" => folder[i] = "absent"
      BY <2>2, GameFilesAssumption DEF Lose, GInv, TypeOK
    <3> QED
      BY <2>2, <3>1 DEF Lose, views, GInv, TypeOK, NothingUnverified
  <2>3. ASSUME NEW f \in Fragile, Damage(f)
        PROVE  /\ UNCHANGED <<upstream, java, owned>>
               /\ view' \in [Instances -> [Objects -> Contents]]
               /\ linked' \in [Instances -> SUBSET Objects]
               /\ store' \in [Files -> Contents] /\ hurt' \in SUBSET Files
               /\ NothingUnverified'
    <3>1. f \in Files /\ Damages \cup {None} \subseteq Contents
      BY GameFilesAssumption DEF Contents
    <3>2. PICK c \in Damages \cup {None} :
              /\ store' = [store EXCEPT ![f] = c]
              /\ view' = [i \in Instances |-> IF f \in linked[i] /\ c # None
                                              THEN [view[i] EXCEPT ![f] = c] ELSE view[i]]
              /\ linked' = IF c = None THEN [i \in Instances |-> linked[i] \ {f}] ELSE linked
      BY <2>3 DEF Damage
    <3>3. /\ hurt' = hurt \cup {f} /\ UNCHANGED <<upstream, java, owned>>
      BY <2>3 DEF Damage
    <3>4. c \in Contents /\ store' \in [Files -> Contents]
          /\ \A g \in Files : g # f => store'[g] = store[g]
      BY <3>1, <3>2 DEF GInv, TypeOK
    <3>5. view' \in [Instances -> [Objects -> Contents]]
      <4>1. \A i \in Instances : view[i] \in [Objects -> Contents]
        BY DEF GInv, TypeOK
      <4>2. \A i \in Instances : [view[i] EXCEPT ![f] = c] \in [Objects -> Contents]
        BY <3>4, <4>1
      <4> QED
        BY <3>2, <4>1, <4>2
    <3>6. linked' \in [Instances -> SUBSET Objects]
      BY <3>2 DEF GInv, TypeOK
    <3>7. NothingUnverified'
      BY <3>3, <3>4 DEF GInv, NothingUnverified
    <3> QED
      BY <3>1, <3>3, <3>4, <3>5, <3>6, <3>7 DEF GInv, TypeOK
  <2>4. ASSUME NEW f \in Fragile, Damage(f)
        PROVE  /\ upstream' \in Revisions
               /\ runtime' \in [Majors -> {"absent", "broken", "ready"}]
               /\ folder' \in [Instances -> {"absent", "bare", "loader"}]
               /\ \A i \in Instances : folder'[i] = "absent" => folder[i] = "absent"
    BY <2>3, <2>4 DEF java, owned, GInv, TypeOK
  <2> QED
    BY <2>1, <2>2, <2>3, <2>4
<1>4. TypeOK'
  BY <1>1, <1>2, <1>3 DEF GInv, TypeOK, JobRecords
<1>5. JobShape'
  <2>1. job.kind = "install" => job.inst \in Instances
    BY DEF GInv, JobShape, Idle
  <2>2. \A i \in Instances : manifest'[i] # None => folder'[i] # "absent"
    BY <1>1, <1>3 DEF GInv, JobShape
  <2> QED
    BY <1>1, <1>2, <1>3, <2>1, <2>2 DEF GInv, JobShape
<1>6. job'.steady => Steady'
  BY <1>2, StagesDiffer DEF Steady, Asked, Getting, Idle
<1> QED
  BY <1>1, <1>3, <1>4, <1>5, <1>6 DEF GInv

-----------------------------------------------------------------------------
(* Every step of a job, the server, a game and the world outside           *)
(* preserves the invariant.                                                *)
LEMMA NextGInv == GInv /\ [Next]_vars => GInv'
<1> SUFFICES ASSUME GInv, [Next]_vars PROVE GInv'
  OBVIOUS
<1>1. CASE UNCHANGED vars
  <2>1. TypeOK' /\ NothingUnverified' /\ JobShape'
    BY <1>1 DEF vars, java, owned, views, GInv, TypeOK, NothingUnverified, JobShape
  <2>2. job.steady => Steady'
    BY <1>1 DEF vars, java, owned, views, GInv, Steady, Asked, Current
  <2> QED
    BY <1>1, <2>1, <2>2, Moved DEF vars, java, GInv
<1>2. CASE Next
  BY <1>2, BeginStep, JavaStep, PublishRuntimeStep, MetadataStep, StartStep, FinishStep, AdvanceStep,
     IndexStep, FolderStep, WriteManifestStep, SaveStep, VerifyStep, LaunchStep, EndStep, OutsideStep
     DEF Next
<1> QED
  BY <1>1, <1>2

(* The invariant of the files holds in every reachable state.              *)
THEOREM Invariance == Spec => []GInv
  BY InitGInv, NextGInv, PTL DEF Spec

-----------------------------------------------------------------------------
(* A file under its final name is absent, listed by some revision, or was   *)
(* damaged from outside: for any servers, failures and deaths.             *)
THEOREM NothingEverUnverified == Spec => []NothingUnverified
<1>1. GInv => NothingUnverified
  BY DEF GInv
<1> QED
  BY <1>1, Invariance, PTL

(* An instance whose installation or repair ended well can be launched with *)
(* the files its metadata lists, until something outside changes.          *)
THEOREM ReadyAlwaysLaunches == Spec => []ReadyInstanceLaunches
<1>1. ASSUME GInv PROVE ReadyInstanceLaunches
  <2> SUFFICES ASSUME NEW i \in fresh
               PROVE  /\ Launchable(i) /\ Viewable
                      /\ \A f \in Needed(i) : store[f] = Digest[Installed][f]
    BY DEF ReadyInstanceLaunches
  <2>1. /\ upstream \in Revisions /\ i \in Instances /\ Complete(i)
        /\ Digest[upstream]["json"] = upstream /\ Digest[upstream]["index"] = upstream
    BY <1>1, ListedFiles DEF GInv, TypeOK
  <2>2. Installed = upstream /\ store["index"] = upstream
    BY <2>1 DEF Complete, Current, Whole, Installed
  <2>3. \A f \in Whole(i) : store[f] = Digest[upstream][f] /\ store[f] # None
    BY <2>1, ListedFiles DEF Complete, Current, Whole
  <2>4. Needed(i) \subseteq Whole(i) /\ ObjectsOf[upstream] \subseteq Whole(i)
    BY <2>2 DEF Needed, Whole, LoaderOf
  <2>5. Launchable(i)
    <3>1. JavaOf[upstream] \in Nat /\ JavaOf[upstream] # None
      BY <2>1, ListedFiles
    <3> QED
      BY <2>1, <2>2, <2>3, <2>4, <3>1 DEF Launchable, Loads, Readable, Complete, Installed
  <2> QED
    BY <2>1, <2>2, <2>3, <2>4, <2>5 DEF Viewable, Readable
<1> QED
  BY <1>1, Invariance, PTL

(* An instance the diagnosis calls healthy passes every check of a launch,  *)
(* whatever happened to the files before.                                  *)
THEOREM HealthyAlwaysLaunches == Spec => []HealthyInstanceLaunches
<1>1. ASSUME GInv, NEW i \in Instances, Healthy(i) PROVE Launchable(i) /\ Viewable
  <2>1. /\ Installed \in Revisions /\ store["index"] \in Revisions
        /\ \A f \in Checked(i) : store[f] = Digest[Installed][f]
    BY <1>1 DEF Healthy, Readable, Installed
  <2>2. Checked(i) \subseteq Files
    BY <2>1, ListedFiles DEF Checked, Needed, LoaderOf
  <2>3. \A f \in Checked(i) : store[f] # None
    BY <2>1, <2>2, ListedFiles
  <2> QED
    BY <1>1, <2>3 DEF Healthy, Launchable, Viewable, Checked
<1>2. GInv => HealthyInstanceLaunches
  BY <1>1 DEF HealthyInstanceLaunches
<1> QED
  BY <1>2, Invariance, PTL

-----------------------------------------------------------------------------
(* runtime_assets.rs takes the objects of the store for immutable. As long *)
(* as they are, what it makes for a game is what the index lists: the run  *)
(* repair_assets needs an object changed in place.                         *)

(* An object's name is its digest, whichever index names it.               *)
ContentAddressed == \A o \in Objects : \A r, s \in Revisions : Digest[r][o] = Digest[s][o]

(* A view has nothing an object never was; and what a launch has dealt     *)
(* with is there.                                                          *)
ViewsListed ==
    /\ hurt \cap Objects = {}
    /\ \A i \in Instances, o \in Objects : view[i][o] \in {None} \cup Listed(o)

ViewFilled ==
    job.pc \in {"view", "run"} /\ job.inst \in fresh =>
        \A o \in ObjectsOf[store["index"]] : o \in job.todo \/ view[job.inst][o] # None

(* A step that leaves the views alone, and of a launch all but its place.  *)
LEMMA ViewsUntouched ==
    ASSUME ViewsListed, ViewFilled, hurt' \subseteq hurt, view' = view,
           \/ job'.pc \notin {"view", "run"}
           \/ fresh' = {}
           \/ /\ job.pc \in {"view", "run"} /\ UNCHANGED <<store, fresh>>
              /\ job'.inst = job.inst /\ job'.todo = job.todo
    PROVE  ViewsListed' /\ ViewFilled'
<1>1. ViewsListed'
  BY DEF ViewsListed, Listed, Objects
<1>2. ViewFilled'
  BY DEF ViewFilled
<1> QED
  BY <1>1, <1>2

(* Every step keeps the views.                                             *)
LEMMA NextViews ==
    ASSUME Fragile \cap Objects = {}, GInv, ViewsListed, ViewFilled, [Next]_vars
    PROVE  ViewsListed' /\ ViewFilled'
<1> DEFINE Goal == ViewsListed' /\ ViewFilled'
<1>0. /\ job \in JobRecords /\ Idle.pc = "idle"
      /\ view \in [Instances -> [Objects -> Contents]]
      /\ linked \in [Instances -> SUBSET Objects]
  BY DEF GInv, TypeOK, JobRecords, Idle
<1>1. ASSUME NEW i \in Instances, BeginInstall(i) \/ BeginRepair(i) \/ BeginLaunch(i)
      PROVE  Goal
  <2>1. /\ job'.pc \in {"java", "check"} /\ view' = view /\ hurt' = hurt
    BY <1>1 DEF BeginInstall, BeginRepair, BeginLaunch, Begin, Idle, views
  <2> QED
    BY <2>1, ViewsUntouched
<1>2. ASSUME ChooseJava \/ FetchArchive \/ ExtractArchive \/ PublishRuntime
      PROVE  Goal
  <2>1. /\ job'.pc \in {"metadata", "archive", "extract", "rename"}
        /\ view' = view /\ hurt' = hurt
    BY <1>0, <1>2 DEF ChooseJava, FetchArchive, ExtractArchive, PublishRuntime, Working, To,
        JobRecords, views
  <2> QED
    BY <2>1, ViewsUntouched
<1>3. ASSUME FetchMetadata \/ ClientReady \/ LibrariesReady \/ FetchIndex \/ ObjectsReady
               \/ ListLoaders \/ FetchProfile \/ LoaderReady
      PROVE  Goal
  <2>1. /\ job'.pc \in PCs \ {"view", "run"} /\ view' = view /\ hurt' \subseteq hurt
    BY <1>0, <1>3 DEF FetchMetadata, ClientReady, LibrariesReady, FetchIndex, ObjectsReady,
        ListLoaders, FetchProfile, LoaderReady, Fetched, Working, To, ToFetch, Gives, Publish,
        JobRecords, PCs, views
  <2> QED
    BY <2>1, ViewsUntouched
<1>4. ASSUME NEW f \in Files, StartDownload(f) \/ FinishDownload(f)
      PROVE  Goal
  <2>1. job.pc \in Fetching
    BY <1>4 DEF StartDownload, FinishDownload, GInv, JobShape
  <2>2. /\ job'.pc = job.pc /\ view' = view /\ hurt' \subseteq hurt
    BY <1>0, <1>4 DEF StartDownload, FinishDownload, Publish, JobRecords, views
  <2> QED
    BY <2>1, <2>2, ViewsUntouched DEF Fetching
<1>5. ASSUME WriteManifest \/ SaveRepair \/ VerifyRepair
      PROVE  Goal
  <2>1. /\ job'.pc \in {"idle", "save", "verify"} /\ view' = view /\ hurt' = hurt
    BY <1>0, <1>5 DEF WriteManifest, SaveRepair, VerifyRepair, Working, To, JobRecords, views
  <2> QED
    BY <2>1, ViewsUntouched
<1>6. ASSUME CheckLaunch
      PROVE  Goal
  <2>1. /\ job'.todo = ObjectsOf[store["index"]] /\ UNCHANGED <<store, hurt, view>>
    BY <1>0, <1>6 DEF CheckLaunch, ToFetch, JobRecords, views
  <2>2. ViewsListed' /\ ViewFilled'
    BY <2>1 DEF ViewsListed, ViewFilled, Listed, Objects
  <2> QED
    BY <2>2
<1>7. ASSUME ViewReady
      PROVE  Goal
  <2>1. /\ job.pc = "view" /\ job'.inst = job.inst /\ job'.todo = job.todo
        /\ UNCHANGED <<store, fresh, hurt, view>>
    BY <1>0, <1>7 DEF ViewReady, Fetched, Working, To, JobRecords, views
  <2> QED
    BY <2>1, ViewsUntouched
<1>8. ASSUME NEW o \in Objects, Materialize(o)
      PROVE  Goal
  <2>1. /\ job.pc = "view" /\ job.inst \in Instances /\ o \in Files
        /\ job'.inst = job.inst /\ job'.todo = job.todo \ {o}
        /\ UNCHANGED <<store, fresh, hurt>>
    BY <1>0, <1>8 DEF Materialize, Working, JobRecords, GInv, JobShape, Files
  <2>2. store[o] \in Listed(o)
    BY <1>8, <2>1 DEF Materialize, GInv, NothingUnverified, ViewsListed
  <2>3. ASSUME NEW i \in Instances, NEW x \in Objects
        PROVE  \/ view'[i][x] = view[i][x] /\ (i = job.inst /\ x = o => view[i][x] # None)
               \/ i = job.inst /\ x = o /\ view'[i][x] = store[o] /\ store[o] # None
    BY <1>0, <1>8, <2>1 DEF Materialize, views
  <2>4. ViewsListed'
    BY <2>1, <2>2, <2>3 DEF ViewsListed, Listed, Objects
  <2>5. ViewFilled'
    <3> SUFFICES ASSUME job.inst \in fresh, NEW x \in ObjectsOf[store["index"]]
                 PROVE  x \in job'.todo \/ view'[job.inst][x] # None
      BY <2>1 DEF ViewFilled
    <3>1. x \in Objects
      <4>1. store["index"] \in Revisions
        BY ListedFiles DEF GInv, TypeOK, Complete, Current, Whole
      <4> QED
        BY <4>1 DEF Objects
    <3> QED
      BY <2>1, <2>3, <3>1 DEF ViewFilled
  <2> QED
    BY <2>4, <2>5
<1>9. ASSUME Fail \/ Crash
      PROVE  Goal
  <2>1. /\ job'.pc = "idle" /\ view' = view /\ hurt' = hurt
    BY <1>0, <1>9 DEF Fail, Crash, views
  <2> QED
    BY <2>1, ViewsUntouched
<1>10. ASSUME Republish \/ Lose
       PROVE  Goal
  <2>1. /\ fresh' = {} /\ view' = view /\ hurt' = hurt
    BY <1>10 DEF Republish, Lose, views
  <2> QED
    BY <2>1, ViewsUntouched
<1>11. ASSUME NEW f \in Fragile, Damage(f)
       PROVE  Goal
  <2>1. /\ f \notin Objects /\ fresh' = {} /\ hurt' = hurt \cup {f}
    BY <1>11 DEF Damage
  <2>2. \A i \in Instances : view'[i] = view[i]
    BY <1>0, <1>11, <2>1 DEF Damage
  <2>3. ViewsListed'
    BY <2>1, <2>2 DEF ViewsListed, Listed, Objects
  <2> QED
    BY <2>1, <2>3 DEF ViewFilled
<1>12. ASSUME UNCHANGED vars
       PROVE  Goal
  <2>1. UNCHANGED <<hurt, view, store, fresh, job>>
    BY <1>12 DEF vars, views
  <2> QED
    BY <2>1 DEF ViewsListed, ViewFilled, Listed, Objects
<1> QED
  BY <1>1, <1>2, <1>3, <1>4, <1>5, <1>6, <1>7, <1>8, <1>9, <1>10, <1>11, <1>12 DEF Next

(* The game of an instance that has just been repaired sees the assets its *)
(* index lists, whatever was damaged, interrupted or published before, as  *)
(* long as no object in the store is changed in place.                     *)
THEOREM RepairReachesGameWhileImmutable ==
    ASSUME ContentAddressed, Fragile \cap Objects = {}
    PROVE  Spec => []RepairReachesGame
<1>1. Init => GInv /\ ViewsListed /\ ViewFilled
  <2>1. Init => ViewsListed /\ ViewFilled
    BY DEF Init, Idle, ViewsListed, ViewFilled
  <2> QED
    BY <2>1, InitGInv
<1>2. GInv /\ ViewsListed /\ ViewFilled /\ [Next]_vars => GInv' /\ ViewsListed' /\ ViewFilled'
  BY NextGInv, NextViews
<1>3. GInv /\ ViewsListed /\ ViewFilled => RepairReachesGame
  <2> SUFFICES ASSUME GInv, ViewsListed, ViewFilled, job.pc = "run", job.inst \in fresh,
                      NEW o \in ObjectsOf[store["index"]]
               PROVE  view[job.inst][o] = Digest[Installed][o]
    BY DEF RepairReachesGame
  <2>1. Installed = upstream /\ store["index"] = upstream /\ upstream \in Revisions
    BY ListedFiles DEF GInv, TypeOK, Complete, Current, Whole, Installed
  <2>2. o \in Objects /\ job.inst \in Instances /\ job.todo = {}
    BY <2>1 DEF Objects, GInv, TypeOK, JobShape, Fetching
  <2>3. view[job.inst][o] \in Listed(o)
    BY <2>2 DEF ViewsListed, ViewFilled
  <2> QED
    BY <2>1, <2>2, <2>3 DEF ContentAddressed, Listed
<1> QED
  BY <1>1, <1>2, <1>3, PTL DEF Spec
==============================================================================
