-------------------------- MODULE InstanceRegistry --------------------------
(***************************************************************************)
(* The registry of src-tauri/src/commands/minecraft.rs: which instances    *)
(* are reserved by a command, whether the shared installation is being     *)
(* changed, and which game process runs for which instance, together with  *)
(* what the commands do to an instance's directory while they hold a       *)
(* reservation, the watcher thread of every game, and the shutdown path.   *)
(*                                                                         *)
(* One registry mutex protects `processes', `operations' and `shared', so  *)
(* a critical section is one action; whatever the code does between two    *)
(* critical sections (an await, a blocking task, a lock released and       *)
(* taken again) lies between two actions.                                  *)
(***************************************************************************)
EXTENDS FiniteSets

CONSTANTS
    Instances,      \* valid instance ids
    Jobs,           \* slots for concurrently running commands (bound)
    Games,          \* slots for children whose handles are in use (bound)
    Perms,          \* values of a manifest's permissions
    DefaultPerm,    \* permissions of a fresh installation
    None,           \* "no entry": neither a game nor an instance
    ChildrenDie,    \* the platform kills the games of a launcher that is gone
    MayCrash        \* the launcher itself may be killed at any moment

ASSUME RegistryAssumption ==
    /\ None \notin Games
    /\ None \notin Instances
    /\ DefaultPerm \in Perms
    /\ ChildrenDie \in BOOLEAN
    /\ MayCrash \in BOOLEAN

VARIABLES
    processes,  \* registry.processes: instance id -> child, or None
    operations, \* registry.operations
    shared,     \* registry.shared_installation
    phase,      \* "up", or "exiting" from ExitRequested on
    drained,    \* children terminate_all took out and has not waited for
    reaping,    \* the child terminate_all is waiting for, or None
    job,        \* the commands in progress, one record per slot
    store,      \* per instance: its directory on disk
    perm,       \* per instance: permissions in the manifest on disk
    acked,      \* history: the permissions last reported as saved
    game,       \* the children, one record per handle
    shown       \* per instance: the status the window last received

registry == <<processes, operations, shared>>
exit     == <<phase, drained, reaping>>
disk     == <<store, perm, acked>>
vars     == <<registry, exit, job, disk, game, shown>>

-----------------------------------------------------------------------------
(* Commands, by the reservation they take.                                 *)

(* Faulty variant: permissions may be saved under a running game.          *)
AllowRunningPermissions == {"diagnose", "rename", "permissions"}

AllowRunning  == {"diagnose", "rename"}
Exclusive     == {"permissions", "delete", "duplicate", "mods", "launch"}
SharedInstall == {"repair", "install"}
Commands      == AllowRunning \cup Exclusive \cup SharedInstall \cup {"stop"}

(* Commands without `async': Tauri runs them on the main thread, the one   *)
(* that also runs terminate_all, so at most one of them is in progress.    *)
Sync == {"rename", "permissions", "stop"}

(* A command: where it stands, which one it is, its instance and (for a    *)
(* duplicate) the destination, the ids of its live InstanceOperationGuards,*)
(* the child a launch or a stop has in its hands, and the permissions of   *)
(* the manifest it loaded.                                                 *)
PCs == {"idle", "second", "held", "working", "spawned", "inserted",
        "announce", "drop", "stopping"}

Idle == [pc |-> "idle", cmd |-> "diagnose", inst |-> None, dst |-> None,
         guards |-> {}, child |-> None, snap |-> DefaultPerm]

MainThreadFree == \A j \in Jobs : job[j].cmd \notin Sync

(* A child: its OS process, the instance it was started for, the           *)
(* permissions its sandbox was built from, and its watcher thread.         *)
NoChild == [os |-> "none", inst |-> None, perm |-> DefaultPerm, watch |-> "none"]

(* "absent": no directory. "partial": a directory without a manifest.      *)
(* "damaged": a manifest over files a delete has begun to remove.          *)
Loadable(i) == store[i] \in {"damaged", "ready"}

Init ==
    /\ processes = [i \in Instances |-> None]
    /\ operations = {}
    /\ shared = FALSE
    /\ phase = "up"
    /\ drained = {}
    /\ reaping = None
    /\ job = [j \in Jobs |-> Idle]
    /\ store \in [Instances -> {"absent", "ready"}]
    /\ perm = [i \in Instances |-> DefaultPerm]
    /\ acked = perm
    /\ game = [g \in Games |-> NoChild]
    /\ shown = [i \in Instances |-> "stopped"]

-----------------------------------------------------------------------------
(* Reservations. A refused command returns an error and changes nothing,   *)
(* so only the successful ones are steps.                                  *)

(* Faulty variants: each forgets one of the refusals.                      *)
MayReserveTwice(i, allowRunning) == ~shared /\ (allowRunning \/ processes[i] = None)
MayReserveRunning(i, allowRunning) == ~shared /\ i \notin operations

MayReserve(i, allowRunning) ==
    /\ ~shared
    /\ allowRunning \/ processes[i] = None
    /\ i \notin operations

(* Faulty variant: running games are not asked about.                      *)
MayInstallUnderGame == ~shared /\ operations = {}

MayInstallShared ==
    /\ ~shared
    /\ operations = {}
    /\ \A i \in Instances : processes[i] = None

(* Faulty variant: the window offers a launch at any time.                 *)
OfferedAlways(c, i) == TRUE

(* The window offers "launch" only for an instance it shows as stopped.    *)
Offered(c, i) == c = "launch" => shown[i] = "stopped"

Dispatch(j, c) ==
    /\ job[j].pc = "idle"
    /\ c \in Sync => phase = "up" /\ MainThreadFree

Started(c, i, pc, gs, g) ==
    [pc |-> pc, cmd |-> c, inst |-> i, dst |-> i, guards |-> gs, child |-> g,
     snap |-> DefaultPerm]

(* reserve_instance_operation on behalf of command c; a duplicate goes on  *)
(* to reserve its destination.                                             *)
ReserveInstance(j, c, i) ==
    /\ c \in AllowRunning \cup Exclusive
    /\ Dispatch(j, c)
    /\ Offered(c, i)
    /\ MayReserve(i, c \in AllowRunning)
    /\ operations' = operations \cup {i}
    /\ job' = [job EXCEPT ![j] =
                    Started(c, i, IF c = "duplicate" THEN "second" ELSE "held", {i}, None)]
    /\ UNCHANGED <<processes, shared, exit, disk, game, shown>>

(* The destination of a duplicate is reserved in a second critical         *)
(* section; if that is refused the source's guard is dropped.              *)
ReserveDestination(j, d) ==
    /\ job[j].pc = "second"
    /\ IF MayReserve(d, FALSE)
       THEN /\ operations' = operations \cup {d}
            /\ job' = [job EXCEPT ![j].pc = "held", ![j].dst = d, ![j].guards = @ \cup {d}]
       ELSE /\ job' = [job EXCEPT ![j].pc = "drop"]
            /\ UNCHANGED operations
    /\ UNCHANGED <<processes, shared, exit, disk, game, shown>>

(* reserve_shared_installation: nothing else may be going on anywhere.     *)
ReserveShared(j, c, i) ==
    /\ c \in SharedInstall
    /\ Dispatch(j, c)
    /\ MayInstallShared
    /\ shared' = TRUE
    /\ operations' = operations \cup {i}
    /\ job' = [job EXCEPT ![j] = Started(c, i, "held", {i}, None)]
    /\ UNCHANGED <<processes, exit, disk, game, shown>>

(* Drop of one InstanceOperationGuard. A command ends with its last guard, *)
(* except that a launch then announces the game it has inserted.           *)
Released(r, i) ==
    IF r.pc = "inserted" THEN [r EXCEPT !.pc = "announce", !.guards = {}]
    ELSE IF r.guards = {i} THEN Idle
    ELSE [r EXCEPT !.guards = @ \ {i}]

DropGuard(j, i) ==
    /\ job[j].pc \in {"drop", "inserted"}
    /\ i \in job[j].guards
    /\ operations' = operations \ {i}
    /\ shared' = (shared /\ job[j].cmd \notin SharedInstall)
    /\ job' = [job EXCEPT ![j] = Released(job[j], i)]
    /\ UNCHANGED <<processes, exit, disk, game, shown>>

-----------------------------------------------------------------------------
(* What a command does while it holds its reservation.                     *)

To(j, pc) == job' = [job EXCEPT ![j].pc = pc]

(* Faulty variant: the error path forgets the guard.                       *)
FailLeaking(j) ==
    /\ job[j].pc \in {"held", "working"}
    /\ job' = [job EXCEPT ![j] = Idle]
    /\ UNCHANGED <<registry, exit, disk, game, shown>>

(* Any step of the work can fail: the error is returned and the guard      *)
(* dropped. A failed install or duplicate removes the directory it has     *)
(* begun, which may fail too.                                              *)
Fail(j) ==
    /\ job[j].pc \in {"held", "working"}
    /\ To(j, "drop")
    /\ \/ UNCHANGED store
       \/ /\ job[j].pc = "working"
          /\ job[j].cmd \in {"install", "duplicate"}
          /\ store[job[j].dst] = "partial"
          /\ store' = [store EXCEPT ![job[j].dst] = "absent"]
    /\ UNCHANGED <<registry, exit, perm, acked, game, shown>>

(* load_instance and the other checks made before the work begins; the     *)
(* create_dir of a duplicate refuses an existing directory.                *)
Begin(j) ==
    /\ job[j].pc = "held"
    /\ CASE job[j].cmd = "diagnose" -> TRUE
         [] job[j].cmd = "install"  -> store[job[j].inst] = "absent"
         [] OTHER                   -> Loadable(job[j].inst)
    /\ IF job[j].cmd = "duplicate"
       THEN /\ store[job[j].dst] = "absent"
            /\ store' = [store EXCEPT ![job[j].dst] = "partial"]
       ELSE UNCHANGED store
    /\ job' = [job EXCEPT ![j].pc = "working", ![j].snap = perm[job[j].inst]]
    /\ UNCHANGED <<registry, exit, perm, acked, game, shown>>

Working(j, cs) == job[j].pc = "working" /\ job[j].cmd \in cs

(* diagnose_instance only reads; what the mod commands do below the        *)
(* instance's directory is the subject of ModTransaction.                  *)
FinishElsewhere(j) ==
    /\ Working(j, {"diagnose", "mods"})
    /\ To(j, "drop")
    /\ UNCHANGED <<registry, exit, disk, game, shown>>

(* rename_instance and repair write back the whole manifest they loaded.   *)
RewriteManifest(j) ==
    /\ Working(j, {"rename", "repair"})
    /\ To(j, "drop")
    /\ perm' = [perm EXCEPT ![job[j].inst] = job[j].snap]
    /\ UNCHANGED <<registry, exit, store, acked, game, shown>>

SavePermissions(j, p) ==
    /\ Working(j, {"permissions"})
    /\ To(j, "drop")
    /\ perm' = [perm EXCEPT ![job[j].inst] = p]
    /\ acked' = [acked EXCEPT ![job[j].inst] = p]
    /\ UNCHANGED <<registry, exit, store, game, shown>>

(* remove_dir_all takes the files in no particular order, the directory    *)
(* last.                                                                   *)
DeleteFiles(j) ==
    LET i == job[j].inst IN
    /\ Working(j, {"delete"})
    /\ \/ /\ store[i] = "ready"
          /\ store' = [store EXCEPT ![i] = "damaged"]
          /\ UNCHANGED job
       \/ /\ Loadable(i)
          /\ store' = [store EXCEPT ![i] = "partial"]
          /\ UNCHANGED job
       \/ /\ store[i] = "partial"
          /\ store' = [store EXCEPT ![i] = "absent"]
          /\ To(j, "drop")
    /\ UNCHANGED <<registry, exit, perm, acked, game, shown>>

(* The installer creates the directory when its downloads are complete,    *)
(* and the manifest last.                                                  *)
CreateInstance(j) ==
    /\ Working(j, {"install"})
    /\ store[job[j].inst] = "absent"
    /\ store' = [store EXCEPT ![job[j].inst] = "partial"]
    /\ UNCHANGED <<registry, exit, job, perm, acked, game, shown>>

PublishAs(j, p) ==
    LET d == job[j].dst IN
    /\ store[d] = "partial"
    /\ store' = [store EXCEPT ![d] = "ready"]
    /\ perm' = [perm EXCEPT ![d] = p]
    /\ acked' = [acked EXCEPT ![d] = p]
    /\ To(j, "drop")
    /\ UNCHANGED <<registry, exit, game, shown>>

Publish(j) == Working(j, {"install"}) /\ PublishAs(j, DefaultPerm)

(* duplicate_instance copies the game's files into the directory it made;  *)
(* the manifest comes last, with what was loaded of the source before.     *)
PublishCopy(j) == Working(j, {"duplicate"}) /\ PublishAs(j, job[j].snap)

-----------------------------------------------------------------------------
(* Launch, stop, and the watcher thread.                                   *)

(* spawn_instance_in_mode loads the manifest again and starts the child.   *)
(* A slot is free when no thread has a handle of the child it stood for.   *)
FreeSlot(g) ==
    /\ game[g] = NoChild
    /\ g \notin drained
    /\ \A k \in Jobs : job[k].child # g

Spawn(j, g) ==
    LET i == job[j].inst IN
    /\ Working(j, {"launch"})
    /\ Loadable(i)
    /\ FreeSlot(g)
    /\ game' = [game EXCEPT ![g].os = "alive", ![g].inst = i, ![g].perm = perm[i]]
    /\ job' = [job EXCEPT ![j].pc = "spawned", ![j].child = g]
    /\ UNCHANGED <<registry, exit, disk, shown>>

InsertProcess(j) ==
    /\ job[j].pc = "spawned"
    /\ processes' = [processes EXCEPT ![job[j].inst] = job[j].child]
    /\ To(j, "inserted")
    /\ UNCHANGED <<operations, shared, exit, disk, game, shown>>

(* After the guard is dropped: "running" is emitted, the watcher started.  *)
Announce(j) ==
    /\ job[j].pc = "announce"
    /\ shown' = [shown EXCEPT ![job[j].inst] = "running"]
    /\ game' = [game EXCEPT ![job[j].child].watch = "polling"]
    /\ job' = [job EXCEPT ![j] = Idle]
    /\ UNCHANGED <<registry, exit, disk>>

(* stop looks the child up under the registry lock and kills it after      *)
(* releasing that lock.                                                    *)
StopLookup(j, i) ==
    /\ Dispatch(j, "stop")
    /\ processes[i] # None
    /\ job' = [job EXCEPT ![j] = Started("stop", i, "stopping", {}, processes[i])]
    /\ UNCHANGED <<registry, exit, disk, game, shown>>

AfterKill(g) == IF game[g].os = "alive" THEN "dying" ELSE game[g].os

(* kill succeeds on a child that has ended; it may also report an error.   *)
StopKill(j) ==
    LET g == job[j].child IN
    /\ job[j].pc = "stopping"
    /\ \/ game' = [game EXCEPT ![g].os = AfterKill(g)]
       \/ UNCHANGED game
    /\ job' = [job EXCEPT ![j] = Idle]
    /\ UNCHANGED <<registry, exit, disk, shown>>

(* The OS process ends: by itself, or because it was killed.               *)
GameEnds(g, was) ==
    /\ game[g].os = was
    /\ game' = [game EXCEPT ![g].os = "dead"]
    /\ UNCHANGED <<registry, exit, job, disk, shown>>

(* Faulty variant: the watcher ends at an error without a report.          *)
WatcherEndsSilently(g) ==
    /\ game[g].watch = "polling"
    /\ game' = [game EXCEPT ![g].watch = "none", ![g].os = AfterKill(g)]
    /\ UNCHANGED <<registry, exit, job, disk, shown>>

(* try_wait returned an error: the watcher kills the game and waits.       *)
WatcherGivesUp(g) ==
    /\ game[g].watch = "polling"
    /\ game' = [game EXCEPT ![g].watch = "giving_up", ![g].os = AfterKill(g)]
    /\ UNCHANGED <<registry, exit, job, disk, shown>>

(* Faulty variant: after an error the entry goes before the game has.      *)
WatcherRemovesEarly(g) ==
    /\ game[g].watch \in {"polling", "giving_up"}
    /\ processes' = [processes EXCEPT ![game[g].inst] = None]
    /\ game' = [game EXCEPT ![g].watch = "removed"]
    /\ UNCHANGED <<operations, shared, exit, job, disk, shown>>

(* The game has ended: its entry is removed, by instance id.               *)
WatcherRemoves(g) ==
    /\ game[g].watch \in {"polling", "giving_up"}
    /\ game[g].os = "dead"
    /\ processes' = [processes EXCEPT ![game[g].inst] = None]
    /\ game' = [game EXCEPT ![g].watch = "removed"]
    /\ UNCHANGED <<operations, shared, exit, job, disk, shown>>

WatcherReports(g) ==
    /\ game[g].watch = "removed"
    /\ game' = [game EXCEPT ![g] = NoChild]
    /\ shown' = [shown EXCEPT ![game[g].inst] = "stopped"]
    /\ UNCHANGED <<registry, exit, job, disk>>

-----------------------------------------------------------------------------
(* Shutdown. ExitRequested runs terminate_all on the main thread, and the  *)
(* process exits when it returns; commands in flight on other threads go   *)
(* on until then.                                                          *)

TerminateAll ==
    /\ phase = "up"
    /\ MainThreadFree
    /\ phase' = "exiting"
    /\ operations' = {}
    /\ shared' = FALSE
    /\ drained' = {g \in Games : \E i \in Instances : processes[i] = g}
    /\ processes' = [i \in Instances |-> None]
    /\ UNCHANGED <<reaping, job, disk, game, shown>>

(* Faulty variant: terminate_all waits for a child it has not killed.      *)
TerminateKillMissing(g) ==
    /\ reaping = None
    /\ g \in drained
    /\ reaping' = g
    /\ UNCHANGED <<registry, phase, drained, job, disk, game, shown>>

TerminateKill(g) ==
    /\ reaping = None
    /\ g \in drained
    /\ reaping' = g
    /\ game' = [game EXCEPT ![g].os = AfterKill(g)]
    /\ UNCHANGED <<registry, phase, drained, job, disk, shown>>

TerminateWait ==
    /\ reaping # None
    /\ game[reaping].os \in {"dead", "none"}
    /\ drained' = drained \ {reaping}
    /\ reaping' = None
    /\ UNCHANGED <<registry, phase, job, disk, game, shown>>

(* The launcher process is gone and is started again: what was in memory   *)
(* is lost, the disk stays as it was. A game outlives it on a platform     *)
(* that does not tie the child to its parent. What a launcher leaves       *)
(* behind that was already exiting counts as acknowledged.                 *)
Restart ==
    /\ processes' = [i \in Instances |-> None]
    /\ operations' = {}
    /\ shared' = FALSE
    /\ phase' = "up"
    /\ drained' = {}
    /\ reaping' = None
    /\ job' = [j \in Jobs |-> Idle]
    /\ game' = [g \in Games |->
                 IF game[g].os = "alive" /\ ~ChildrenDie
                 THEN [game[g] EXCEPT !.watch = "none"] ELSE NoChild]
    /\ shown' = [i \in Instances |-> "stopped"]
    /\ acked' = IF phase = "up" THEN acked ELSE perm
    /\ UNCHANGED <<store, perm>>

Exit  == phase = "exiting" /\ drained = {} /\ Restart
Crash == MayCrash /\ Restart

-----------------------------------------------------------------------------
Request(j) ==
    \E i \in Instances :
        \/ \E c \in Commands : ReserveInstance(j, c, i) \/ ReserveShared(j, c, i)
        \/ StopLookup(j, i)

Work(j) ==
    \/ \E i \in Instances : ReserveDestination(j, i) \/ DropGuard(j, i)
    \/ Fail(j) \/ Begin(j) \/ FinishElsewhere(j) \/ RewriteManifest(j)
    \/ \E p \in Perms : SavePermissions(j, p)
    \/ DeleteFiles(j) \/ CreateInstance(j) \/ Publish(j) \/ PublishCopy(j)
    \/ \E g \in Games : Spawn(j, g)
    \/ InsertProcess(j) \/ Announce(j) \/ StopKill(j)

Watcher(g) == WatcherRemoves(g) \/ WatcherReports(g)

Shutdown == (\E g \in Games : TerminateKill(g)) \/ TerminateWait \/ Exit

Next ==
    \/ \E j \in Jobs : Request(j) \/ Work(j)
    \/ \E g \in Games :
        GameEnds(g, "alive") \/ GameEnds(g, "dying") \/ WatcherGivesUp(g) \/ Watcher(g)
    \/ TerminateAll \/ Shutdown \/ Crash

Spec == Init /\ [][Next]_vars

(* Threads and blocking tasks keep running, a killed process dies, and     *)
(* terminate_all goes on to its end. Nobody has to request anything.       *)
Fairness ==
    /\ \A j \in Jobs : WF_vars(Work(j))
    /\ \A g \in Games : WF_vars(GameEnds(g, "dying")) /\ WF_vars(Watcher(g))
    /\ WF_vars(Shutdown)

FairSpec == Spec /\ Fairness

-----------------------------------------------------------------------------
(* Properties. Those about reservations are claims about a launcher that   *)
(* has not been asked to exit: terminate_all forgets the reservations of   *)
(* commands that are still in flight.                                      *)

Jobrecords == [pc : PCs, cmd : Commands, inst : Instances \cup {None},
               dst : Instances \cup {None}, guards : SUBSET Instances,
               child : Games \cup {None}, snap : Perms]

Children == [os : {"none", "alive", "dying", "dead"}, inst : Instances \cup {None},
             perm : Perms, watch : {"none", "polling", "giving_up", "removed"}]

(* Every variable has its type.                                            *)
TypeOK ==
    /\ processes \in [Instances -> Games \cup {None}]
    /\ operations \subseteq Instances
    /\ shared \in BOOLEAN
    /\ phase \in {"up", "exiting"}
    /\ drained \subseteq Games
    /\ reaping \in Games \cup {None}
    /\ job \in [Jobs -> Jobrecords]
    /\ store \in [Instances -> {"absent", "partial", "damaged", "ready"}]
    /\ perm \in [Instances -> Perms]
    /\ acked \in [Instances -> Perms]
    /\ game \in [Games -> Children]
    /\ shown \in [Instances -> {"stopped", "running"}]

Holds(j, i) == i \in job[j].guards
Installing(j) == job[j].cmd \in SharedInstall /\ job[j].guards # {}

(* The registry and the guards alive in the commands agree: an instance is *)
(* reserved exactly while one command holds its guard, and the shared      *)
(* installation exactly while an install or a repair holds one. Guards are *)
(* dropped on every path of every command, in critical sections of their   *)
(* own, so that a leaked or doubly released entry would show here.         *)
ReservationsExact ==
    phase = "up" =>
        /\ operations = UNION {job[j].guards : j \in Jobs}
        /\ \A j, k \in Jobs : \A i \in Instances : Holds(j, i) /\ Holds(k, i) => j = k
        /\ shared <=> \E j \in Jobs : Installing(j)

(* While an install or a repair changes the files all instances share,     *)
(* no other command holds an instance and no game uses those files.        *)
SharedInstallAlone ==
    phase = "up" => \A j \in Jobs : Installing(j) =>
        /\ \A k \in Jobs \ {j} : job[k].guards = {}
        /\ \A i \in Instances : processes[i] = None

(* The commands that write below an instance's directory, or copy it.      *)
Touches(j, i) ==
    /\ job[j].pc = "working"
    /\ job[j].cmd \in {"permissions", "delete", "duplicate", "mods", "repair", "install"}
    /\ i \in {job[j].inst, job[j].dst}

(* From the moment a game is registered until its watcher has removed it,  *)
(* no command deletes, copies, repairs or changes the mods and permissions *)
(* of the instance it runs on, whatever was in flight when it started.     *)
NoWriterWhileRunning ==
    phase = "up" => \A i \in Instances : processes[i] # None =>
        \A j \in Jobs : ~Touches(j, i)

(* A registered game runs under the permissions its manifest has on disk:  *)
(* they are changed only for the next launch (docs/sandbox-policy.md), and *)
(* a launch in flight cannot start from permissions replaced meanwhile.    *)
PermissionsInForce ==
    phase = "up" => \A i \in Instances : processes[i] # None =>
        game[processes[i]].perm = perm[i]

(* A command that loads the manifest, works (a repair: for minutes) and    *)
(* writes the whole of it back does not undo permissions saved meanwhile,  *)
(* whether or not the launcher is killed on the way.                       *)
SavedPermissionsSurvive ==
    phase = "up" => \A i \in Instances : Loadable(i) => perm[i] = acked[i]

(* A live game is in the hands of the launch that has just started it or   *)
(* is the registered game of its instance, where stop and terminate_all    *)
(* find it.                                                                *)
LiveGameTracked ==
    phase = "up" => \A g \in Games : game[g].os = "alive" =>
        \/ \E j \in Jobs : job[j].cmd = "launch" /\ job[j].child = g
        \/ processes[game[g].inst] = g

(* The events of two launches of one instance are not applied out of       *)
(* order: a game whose watcher runs is shown as running, and an instance   *)
(* is shown as running only while a report that it stopped is still due.   *)
StatusEventsInOrder ==
    phase = "up" =>
        /\ \A g \in Games : game[g].watch \in {"polling", "giving_up"} =>
              shown[game[g].inst] = "running"
        /\ \A i \in Instances : shown[i] = "running" =>
              \E g \in Games : game[g].inst = i /\ game[g].watch # "none"

(* A killed game, whoever killed it, is in the end removed and reported.   *)
KilledGameReported ==
    \A g \in Games : game[g].os = "dying" ~> game[g].os = "none"

(* Every reservation is released, however the command ends.                *)
ReservationReleased ==
    \A i \in Instances : i \in operations ~> i \notin operations

(* terminate_all does not wait for ever: the launcher exits.               *)
ExitCompletes == phase = "exiting" ~> phase = "up"
=============================================================================
