----------------------- MODULE InstanceRegistryProofs -----------------------
(* Proofs about InstanceRegistry: type correctness, the safety properties  *)
(* of the reservations, and what holds of manifests, games and the window, *)
(* for any set of instances, commands in progress and games.               *)
EXTENDS InstanceRegistry, TLAPS

(* Where a command stands determines which guards it has.                  *)
WellFormed(r) ==
    /\ r.pc \in {"idle", "stopping", "announce"} => r.guards = {}
    /\ r.pc = "second" => r.cmd = "duplicate" /\ r.guards = {r.inst}
    /\ r.pc \in {"held", "working"} => r.guards = {r.inst, r.dst}
    /\ r.pc \in {"spawned", "inserted"} => r.guards = {r.inst}
    /\ r.cmd # "duplicate" => r.inst = r.dst /\ r.guards \subseteq {r.inst}
    /\ r.pc \in {"second", "held", "working", "spawned", "inserted"} => r.inst \in Instances
    /\ r.pc = "announce" => r.inst \in Instances
    /\ r.pc \in {"spawned", "inserted", "announce", "stopping"} => r.child \in Games
    /\ r.pc \in {"spawned", "inserted", "announce"} => r.cmd = "launch"

JobsWellFormed == \A j \in Jobs : WellFormed(job[j])

(* One holder per reservation, and nothing reserved without a holder.      *)
OneHolder ==
    /\ operations = UNION {job[j].guards : j \in Jobs}
    /\ \A j, k \in Jobs : \A i \in Instances : Holds(j, i) /\ Holds(k, i) => j = k

SharedHeld == shared <=> \E j \in Jobs : Installing(j)

InstallAlone ==
    \A j \in Jobs : Installing(j) =>
        /\ \A k \in Jobs \ {j} : job[k].guards = {}
        /\ \A i \in Instances : processes[i] = None

(* Once a game is registered, only the commands that allow a running game, *)
(* and the launch that has just registered it, hold its instance.          *)
RunningLeftAlone ==
    \A j \in Jobs : \A i \in Instances :
        processes[i] # None /\ Holds(j, i) =>
            job[j].cmd \in AllowRunning \/ job[j].pc = "inserted"

IInv ==
    /\ TypeOK
    /\ JobsWellFormed
    /\ phase = "up" => OneHolder /\ SharedHeld /\ InstallAlone /\ RunningLeftAlone

-----------------------------------------------------------------------------
USE DEF AllowRunning, Exclusive, SharedInstall, Commands, PCs

(* A free slot is a job record.                                            *)
LEMMA IdleType == Idle \in Jobrecords /\ WellFormed(Idle)
  BY RegistryAssumption DEF Idle, Jobrecords, WellFormed

(* A free slot for a child is one.                                         *)
LEMMA NoChildType == NoChild \in Children
  BY RegistryAssumption DEF NoChild, Children

(* Nothing is reserved at first.                                           *)
LEMMA InitIInv == Init => IInv
<1> SUFFICES ASSUME Init PROVE IInv
  OBVIOUS
<1> USE RegistryAssumption
<1>1. TypeOK
  BY IdleType, NoChildType DEF Init, TypeOK
<1>2. JobsWellFormed
  BY IdleType DEF Init, JobsWellFormed
<1>3. \A j \in Jobs : job[j].guards = {} /\ job[j] = Idle
  BY DEF Init, Idle
<1>4. OneHolder /\ SharedHeld /\ InstallAlone /\ RunningLeftAlone
  BY <1>3 DEF Init, OneHolder, SharedHeld, InstallAlone, RunningLeftAlone, Holds, Installing
<1> QED
  BY <1>1, <1>2, <1>4 DEF IInv

(* The part of the invariant that is about a launcher not asked to exit.   *)
Up == OneHolder /\ SharedHeld /\ InstallAlone /\ RunningLeftAlone

(* Most steps leave every command its guards, and register no game.        *)
LEMMA Quiet ==
    ASSUME IInv,
           \A k \in Jobs :
              /\ job'[k].guards = job[k].guards
              /\ job[k].guards # {} =>
                    /\ job'[k].cmd = job[k].cmd
                    /\ job[k].pc = "inserted" => job'[k].pc = "inserted",
           \A i \in Instances : processes'[i] \in {processes[i], None},
           UNCHANGED <<operations, shared, phase>>
    PROVE  (phase = "up" => Up)'
<1> SUFFICES ASSUME phase = "up" PROVE Up'
  OBVIOUS
<1>1. OneHolder'
  BY DEF IInv, OneHolder, Holds
<1>2. SharedHeld' /\ InstallAlone'
  BY DEF IInv, SharedHeld, InstallAlone, Installing
<1>3. RunningLeftAlone'
  BY DEF IInv, RunningLeftAlone, Holds
<1> QED
  BY <1>1, <1>2, <1>3 DEF Up

(* A step of one command, which becomes r.                                 *)
LEMMA JobStep ==
    ASSUME IInv, NEW j \in Jobs, NEW r \in Jobrecords, WellFormed(r),
           job' = [job EXCEPT ![j] = r]
    PROVE  /\ job' \in [Jobs -> Jobrecords]
           /\ JobsWellFormed'
           /\ job'[j] = r
           /\ \A k \in Jobs \ {j} : job'[k] = job[k]
  BY DEF IInv, TypeOK, JobsWellFormed

(* A reservation that is granted has one holder, and is no game's unless   *)
(* that is allowed.                                                        *)
LEMMA ReserveInstanceStep ==
    ASSUME IInv, NEW j \in Jobs, NEW c \in Commands, NEW i \in Instances, ReserveInstance(j, c, i)
    PROVE  IInv'
<1> USE RegistryAssumption
<1> DEFINE r == Started(c, i, IF c = "duplicate" THEN "second" ELSE "held", {i}, None)
<1>1. /\ r \in Jobrecords /\ WellFormed(r)
      /\ r.guards = {i} /\ r.cmd = c /\ r.pc \in {"second", "held"}
  BY DEF Started, Idle, Jobrecords, WellFormed
<1>2. job' = [job EXCEPT ![j] = r]
  BY DEF ReserveInstance
<1> HIDE DEF r
<1>3. /\ job' \in [Jobs -> Jobrecords] /\ JobsWellFormed'
      /\ job'[j] = r /\ \A k \in Jobs \ {j} : job'[k] = job[k]
  BY <1>1, <1>2, JobStep
<1>4. TypeOK'
  BY <1>3 DEF ReserveInstance, IInv, TypeOK, exit, disk
<1>5. SUFFICES ASSUME phase = "up" PROVE Up'
  BY <1>3, <1>4 DEF IInv, Up, ReserveInstance, exit
<1>6. /\ i \notin operations /\ ~shared /\ (c \in AllowRunning \/ processes[i] = None)
      /\ c \notin SharedInstall
      /\ operations' = operations \cup {i}
      /\ UNCHANGED <<processes, shared, phase>>
      /\ job[j].guards = {}
  BY DEF ReserveInstance, MayReserve, Dispatch, IInv, JobsWellFormed, WellFormed, exit
<1>7. \A k \in Jobs : job[k].guards \subseteq operations
  BY <1>5 DEF IInv, OneHolder
<1>8. OneHolder'
  BY <1>1, <1>3, <1>5, <1>6, <1>7 DEF IInv, OneHolder, Holds
<1>9. SharedHeld' /\ InstallAlone'
  BY <1>1, <1>3, <1>5, <1>6 DEF IInv, SharedHeld, InstallAlone, Installing
<1>10. RunningLeftAlone'
  BY <1>1, <1>3, <1>5, <1>6 DEF IInv, RunningLeftAlone, Holds
<1> QED
  BY <1>8, <1>9, <1>10 DEF Up

(* An installation that is granted finds every other command and every     *)
(* game gone.                                                              *)
LEMMA ReserveSharedStep ==
    ASSUME IInv, NEW j \in Jobs, NEW c \in Commands, NEW i \in Instances, ReserveShared(j, c, i)
    PROVE  IInv'
<1> USE RegistryAssumption
<1> DEFINE r == Started(c, i, "held", {i}, None)
<1>1. /\ r \in Jobrecords /\ WellFormed(r)
      /\ r.guards = {i} /\ r.cmd = c /\ r.pc = "held" /\ c \in SharedInstall
  BY DEF Started, Idle, Jobrecords, WellFormed, ReserveShared
<1>2. job' = [job EXCEPT ![j] = r]
  BY DEF ReserveShared
<1> HIDE DEF r
<1>3. /\ job' \in [Jobs -> Jobrecords] /\ JobsWellFormed'
      /\ job'[j] = r /\ \A k \in Jobs \ {j} : job'[k] = job[k]
  BY <1>1, <1>2, JobStep
<1>4. TypeOK'
  BY <1>3 DEF ReserveShared, IInv, TypeOK, exit, disk
<1>5. SUFFICES ASSUME phase = "up" PROVE Up'
  BY <1>3, <1>4 DEF IInv, Up, ReserveShared, exit
<1>6. /\ operations = {} /\ shared' = TRUE /\ operations' = {i}
      /\ \A k \in Instances : processes[k] = None
      /\ UNCHANGED <<processes, phase>>
  BY DEF ReserveShared, MayInstallShared, exit
<1>7. \A k \in Jobs : job[k].guards = {}
  BY <1>5, <1>6 DEF IInv, OneHolder
<1> QED
  BY <1>1, <1>3, <1>6, <1>7
     DEF Up, OneHolder, SharedHeld, InstallAlone, RunningLeftAlone, Holds, Installing

(* The second reservation of a duplicate has one holder too, or the first  *)
(* is about to be dropped.                                                 *)
LEMMA ReserveDestinationStep ==
    ASSUME IInv, NEW j \in Jobs, NEW d \in Instances, ReserveDestination(j, d)
    PROVE  IInv'
<1> USE RegistryAssumption
<1>0. /\ job[j].pc = "second" /\ job[j].cmd = "duplicate" /\ job[j] \in Jobrecords
      /\ job[j].inst \in Instances /\ job[j].guards = {job[j].inst}
      /\ UNCHANGED <<processes, shared, phase>>
  BY DEF ReserveDestination, IInv, JobsWellFormed, WellFormed, TypeOK, exit
<1>1. CASE MayReserve(d, FALSE)
  <2> DEFINE r == [job[j] EXCEPT !.pc = "held", !.dst = d, !.guards = @ \cup {d}]
  <2>1. /\ r \in Jobrecords /\ WellFormed(r) /\ r.cmd = "duplicate" /\ r.pc = "held"
        /\ r.guards = job[j].guards \cup {d}
    BY <1>0 DEF Jobrecords, WellFormed
  <2>2. job' = [job EXCEPT ![j] = r]
    BY <1>0, <1>1 DEF ReserveDestination, IInv, TypeOK, Jobrecords
  <2> HIDE DEF r
  <2>3. /\ job' \in [Jobs -> Jobrecords] /\ JobsWellFormed'
        /\ job'[j] = r /\ \A k \in Jobs \ {j} : job'[k] = job[k]
    BY <2>1, <2>2, JobStep
  <2>4. operations' = operations \cup {d} /\ d \notin operations /\ processes[d] = None
    BY <1>1 DEF ReserveDestination, MayReserve
  <2>5. TypeOK'
    BY <2>3, <2>4 DEF ReserveDestination, IInv, TypeOK, exit, disk
  <2>6. SUFFICES ASSUME phase = "up" PROVE Up'
    BY <1>0, <2>3, <2>5 DEF IInv, Up
  <2>7. \A k \in Jobs : job[k].guards \subseteq operations
    BY <2>6 DEF IInv, OneHolder
  <2>8. OneHolder'
    BY <2>1, <2>3, <2>4, <2>6, <2>7 DEF IInv, OneHolder, Holds
  <2>9. SharedHeld' /\ InstallAlone'
    BY <1>0, <2>1, <2>3, <2>6 DEF IInv, SharedHeld, InstallAlone, Installing
  <2>10. RunningLeftAlone'
    BY <1>0, <2>1, <2>3, <2>4, <2>6 DEF IInv, RunningLeftAlone, Holds
  <2> QED
    BY <2>8, <2>9, <2>10 DEF Up
<1>2. CASE ~MayReserve(d, FALSE)
  <2> DEFINE r == [job[j] EXCEPT !.pc = "drop"]
  <2>1. r \in Jobrecords /\ WellFormed(r) /\ r.cmd = job[j].cmd /\ r.guards = job[j].guards
    BY <1>0 DEF Jobrecords, WellFormed
  <2>2. job' = [job EXCEPT ![j] = r] /\ UNCHANGED operations
    BY <1>2 DEF ReserveDestination
  <2> HIDE DEF r
  <2>3. /\ job' \in [Jobs -> Jobrecords] /\ JobsWellFormed'
        /\ job'[j] = r /\ \A k \in Jobs \ {j} : job'[k] = job[k]
    BY <2>1, <2>2, JobStep
  <2>4. TypeOK'
    BY <2>2, <2>3 DEF ReserveDestination, IInv, TypeOK, exit, disk
  <2>5. (phase = "up" => Up)'
    BY <1>0, <2>1, <2>2, <2>3, Quiet
  <2> QED
    BY <2>3, <2>4, <2>5 DEF IInv, Up
<1> QED
  BY <1>1, <1>2

(* A guard that is dropped takes exactly its own reservation with it.      *)
LEMMA DropGuardStep ==
    ASSUME IInv, NEW j \in Jobs, NEW i \in Instances, DropGuard(j, i)
    PROVE  IInv'
<1> USE RegistryAssumption
<1> DEFINE r == Released(job[j], i)
<1>1. /\ job[j] \in Jobrecords /\ WellFormed(job[j])
      /\ job[j].pc \in {"drop", "inserted"} /\ i \in job[j].guards
      /\ operations' = operations \ {i}
      /\ shared' = (shared /\ job[j].cmd \notin SharedInstall)
      /\ UNCHANGED <<processes, phase>>
  BY DEF DropGuard, IInv, TypeOK, JobsWellFormed, exit
<1>2. /\ r \in Jobrecords /\ WellFormed(r)
      /\ r.guards = job[j].guards \ {i}
      /\ r.guards # {} => r.cmd = job[j].cmd /\ r.pc = job[j].pc
      /\ job[j].cmd \in SharedInstall => r.guards = {}
  <2>1. CASE job[j].pc = "inserted"
    <3>1. r = [job[j] EXCEPT !.pc = "announce", !.guards = {}]
      BY <2>1 DEF Released
    <3>2. r \in Jobrecords
      BY <1>1, <3>1 DEF Jobrecords, PCs
    <3>3. WellFormed(r) /\ r.guards = {} /\ job[j].guards = {i}
      BY <1>1, <2>1, <3>1 DEF Jobrecords, WellFormed
    <3> QED
      BY <3>2, <3>3
  <2>2. CASE job[j].pc # "inserted" /\ job[j].guards = {i}
    <3>1. r = Idle
      BY <2>2 DEF Released
    <3> QED
      BY <2>2, <3>1, IdleType DEF Idle
  <2>3. CASE job[j].pc # "inserted" /\ job[j].guards # {i}
    <3>1. r = [job[j] EXCEPT !.guards = @ \ {i}]
      BY <2>3 DEF Released
    <3>2. r \in Jobrecords
      BY <1>1, <3>1 DEF Jobrecords
    <3>3. /\ r.pc = job[j].pc /\ r.pc = "drop" /\ r.cmd = job[j].cmd
          /\ r.inst = job[j].inst /\ r.dst = job[j].dst /\ r.guards = job[j].guards \ {i}
      BY <1>1, <2>3, <3>1 DEF Jobrecords
    <3>4. WellFormed(r)
      BY <1>1, <3>3 DEF WellFormed
    <3>5. job[j].cmd = "duplicate"
      BY <1>1, <2>3 DEF WellFormed
    <3> QED
      BY <3>2, <3>3, <3>4, <3>5 DEF SharedInstall
  <2> QED
    BY <2>1, <2>2, <2>3
<1>3. job' = [job EXCEPT ![j] = r]
  BY DEF DropGuard
<1> HIDE DEF r
<1>4. /\ job' \in [Jobs -> Jobrecords] /\ JobsWellFormed'
      /\ job'[j] = r /\ \A k \in Jobs \ {j} : job'[k] = job[k]
  BY <1>2, <1>3, JobStep
<1>5. TypeOK'
  BY <1>1, <1>4 DEF DropGuard, IInv, TypeOK, exit, disk
<1>6. SUFFICES ASSUME phase = "up" PROVE Up'
  BY <1>1, <1>4, <1>5 DEF IInv, Up
<1>7. \A k \in Jobs \ {j} : i \notin job[k].guards
  BY <1>1, <1>6 DEF IInv, OneHolder, Holds
<1>8. OneHolder'
  BY <1>1, <1>2, <1>4, <1>6, <1>7 DEF IInv, OneHolder, Holds
<1>9. SharedHeld' /\ InstallAlone'
  BY <1>1, <1>2, <1>4, <1>6 DEF IInv, SharedHeld, InstallAlone, Installing
<1>10. RunningLeftAlone'
  BY <1>1, <1>2, <1>4, <1>6 DEF IInv, RunningLeftAlone, Holds
<1> QED
  BY <1>8, <1>9, <1>10 DEF Up

(* A game is registered by the one holder of its instance, while nothing   *)
(* is being installed.                                                     *)
LEMMA InsertProcessStep ==
    ASSUME IInv, NEW j \in Jobs, InsertProcess(j)
    PROVE  IInv'
<1> USE RegistryAssumption
<1> DEFINE r == [job[j] EXCEPT !.pc = "inserted"]
<1>1. /\ job[j] \in Jobrecords /\ WellFormed(job[j]) /\ job[j].pc = "spawned"
      /\ job[j].inst \in Instances /\ job[j].child \in Games
      /\ job[j].guards = {job[j].inst} /\ job[j].cmd = "launch"
      /\ processes' = [processes EXCEPT ![job[j].inst] = job[j].child]
      /\ UNCHANGED <<operations, shared, phase>>
  BY DEF InsertProcess, IInv, TypeOK, JobsWellFormed, WellFormed, exit
<1>2. /\ r \in Jobrecords /\ WellFormed(r) /\ r.pc = "inserted"
      /\ r.guards = job[j].guards /\ r.cmd = job[j].cmd
  BY <1>1 DEF Jobrecords, WellFormed
<1>3. job' = [job EXCEPT ![j] = r]
  BY DEF InsertProcess, To
<1> HIDE DEF r
<1>4. /\ job' \in [Jobs -> Jobrecords] /\ JobsWellFormed'
      /\ job'[j] = r /\ \A k \in Jobs \ {j} : job'[k] = job[k]
  BY <1>2, <1>3, JobStep
<1>5. TypeOK'
  BY <1>1, <1>4 DEF InsertProcess, IInv, TypeOK, exit, disk
<1>6. SUFFICES ASSUME phase = "up" PROVE Up'
  BY <1>1, <1>4, <1>5 DEF IInv, Up
<1>7. OneHolder'
  BY <1>1, <1>2, <1>4, <1>6 DEF IInv, OneHolder, Holds
<1>8. \A k \in Jobs : ~Installing(k)
  BY <1>1, <1>6 DEF IInv, InstallAlone, Installing
<1>9. SharedHeld' /\ InstallAlone'
  BY <1>1, <1>2, <1>4, <1>6, <1>8 DEF IInv, SharedHeld, InstallAlone, Installing
<1>10. \A k \in Jobs \ {j} : job[j].inst \notin job[k].guards
  BY <1>1, <1>6 DEF IInv, OneHolder, Holds
<1>11. \A i \in Instances : i # job[j].inst => processes'[i] = processes[i]
  BY <1>1 DEF IInv, TypeOK
<1>12. RunningLeftAlone'
  BY <1>1, <1>2, <1>4, <1>6, <1>10, <1>11 DEF IInv, RunningLeftAlone, Holds
<1> QED
  BY <1>7, <1>9, <1>12 DEF Up

-----------------------------------------------------------------------------
(* Steps that change no reservation and register no game.                  *)

(* A command moves on with the guards it has.                              *)
LEMMA QuietJobStep ==
    ASSUME IInv, NEW j \in Jobs, NEW r \in Jobrecords, WellFormed(r),
           job' = [job EXCEPT ![j] = r], TypeOK',
           r.guards = job[j].guards,
           r.guards = {} \/ (r.cmd = job[j].cmd /\ job[j].pc # "inserted"),
           UNCHANGED <<registry, phase>>
    PROVE  IInv'
<1>1. /\ JobsWellFormed' /\ job'[j] = r
      /\ \A k \in Jobs \ {j} : job'[k] = job[k]
  BY JobStep
<1>2. (phase = "up" => Up)'
  BY <1>1, Quiet DEF registry
<1> QED
  BY <1>1, <1>2 DEF IInv, Up

(* The registry stays, but for games that are removed.                     *)
LEMMA QuietStep ==
    ASSUME IInv, TypeOK', UNCHANGED <<job, operations, shared, phase>>,
           \A i \in Instances : processes'[i] \in {processes[i], None}
    PROVE  IInv'
<1>1. (phase = "up" => Up)'
  BY Quiet
<1> QED
  BY <1>1 DEF IInv, JobsWellFormed, Up

(* The steps of the work done under a reservation.                         *)
LEMMA WorkStep ==
    ASSUME IInv, NEW j \in Jobs,
           \/ Fail(j) \/ Begin(j) \/ FinishElsewhere(j) \/ RewriteManifest(j)
           \/ \E p \in Perms : SavePermissions(j, p)
           \/ Publish(j) \/ PublishCopy(j)
    PROVE  IInv'
<1> USE RegistryAssumption
<1>1. /\ job[j] \in Jobrecords /\ WellFormed(job[j])
      /\ job[j].pc \in {"held", "working"}
      /\ UNCHANGED <<registry, exit, shown>>
      /\ game' = game
  BY DEF Fail, Begin, FinishElsewhere, RewriteManifest, SavePermissions, Publish,
         PublishCopy, PublishAs, Working,
         IInv, TypeOK, JobsWellFormed
<1>2. /\ job[j].inst \in Instances /\ job[j].snap \in Perms /\ perm[job[j].inst] \in Perms
  BY <1>1 DEF WellFormed, Jobrecords, IInv, TypeOK
<1>3. /\ store' \in [Instances -> {"absent", "partial", "damaged", "ready"}]
      /\ perm' \in [Instances -> Perms]
      /\ acked' \in [Instances -> Perms]
  BY <1>2 DEF Fail, Begin, FinishElsewhere, RewriteManifest, SavePermissions, Publish, PublishCopy,
              PublishAs, disk, IInv, TypeOK
<1>4. PICK r \in Jobrecords : /\ WellFormed(r) /\ r.guards = job[j].guards
                              /\ r.cmd = job[j].cmd
                              /\ job' = [job EXCEPT ![j] = r]
  <2>1. [job[j] EXCEPT !.pc = "drop"] \in Jobrecords
    BY <1>1 DEF Jobrecords
  <2>2. WellFormed([job[j] EXCEPT !.pc = "drop"])
    BY <1>1 DEF Jobrecords, WellFormed
  <2>3. [job[j] EXCEPT !.pc = "working", !.snap = perm[job[j].inst]] \in Jobrecords
    <3>1. "working" \in PCs
      BY DEF PCs
    <3> QED
      BY <1>1, <1>2, <3>1 DEF Jobrecords
  <2>4. \/ job' = [job EXCEPT ![j] = [job[j] EXCEPT !.pc = "drop"]]
        \/ /\ job[j].pc = "held"
           /\ job' = [job EXCEPT ![j] = [job[j] EXCEPT !.pc = "working", !.snap = perm[job[j].inst]]]
    BY DEF Fail, Begin, FinishElsewhere, RewriteManifest, SavePermissions, Publish, PublishCopy,
           PublishAs, To
  <2>5. ASSUME job[j].pc = "held"
        PROVE  WellFormed([job[j] EXCEPT !.pc = "working", !.snap = perm[job[j].inst]])
    <3> DEFINE w == [job[j] EXCEPT !.pc = "working", !.snap = perm[job[j].inst]]
    <3>1. /\ w.pc = "working" /\ w.cmd = job[j].cmd /\ w.inst = job[j].inst
          /\ w.dst = job[j].dst /\ w.guards = job[j].guards /\ w.child = job[j].child
      BY <1>1 DEF Jobrecords
    <3> QED
      BY <1>1, <2>5, <3>1 DEF WellFormed
  <2> QED
    BY <1>1, <2>1, <2>2, <2>3, <2>4, <2>5 DEF Jobrecords
<1>5. TypeOK'
  BY <1>1, <1>3, <1>4, JobStep DEF IInv, TypeOK, registry, exit
<1> QED
  BY <1>1, <1>4, <1>5, QuietJobStep DEF exit

(* What a command does to the directory does not concern the registry.     *)
LEMMA DirectoryStep ==
    ASSUME IInv, NEW j \in Jobs, DeleteFiles(j) \/ CreateInstance(j)
    PROVE  IInv'
<1> USE RegistryAssumption
<1>1. /\ job[j] \in Jobrecords /\ WellFormed(job[j]) /\ job[j].pc = "working"
      /\ UNCHANGED <<registry, exit, perm, acked, game, shown>>
      /\ store' \in [Instances -> {"absent", "partial", "damaged", "ready"}]
  BY DEF DeleteFiles, CreateInstance, Working, IInv, TypeOK, JobsWellFormed
<1>2. CASE UNCHANGED job
  <2>1. TypeOK'
    BY <1>1, <1>2 DEF IInv, TypeOK, registry, exit
  <2> QED
    BY <1>1, <1>2, <2>1, QuietStep DEF registry, exit
<1>3. CASE To(j, "drop")
  <2> DEFINE r == [job[j] EXCEPT !.pc = "drop"]
  <2>1. /\ r \in Jobrecords /\ WellFormed(r)
        /\ r.guards = job[j].guards /\ r.cmd = job[j].cmd
    BY <1>1 DEF Jobrecords, WellFormed
  <2>2. job' = [job EXCEPT ![j] = r]
    BY <1>3 DEF To
  <2> HIDE DEF r
  <2>3. TypeOK'
    BY <1>1, <2>1, <2>2, JobStep DEF IInv, TypeOK, registry, exit
  <2> QED
    BY <1>1, <2>1, <2>2, <2>3, QuietJobStep DEF exit
<1> QED
  BY <1>2, <1>3 DEF DeleteFiles, CreateInstance

(* A game is started; it is not registered yet.                            *)
LEMMA SpawnStep ==
    ASSUME IInv, NEW j \in Jobs, NEW g \in Games, Spawn(j, g)
    PROVE  IInv'
<1> USE RegistryAssumption
<1> DEFINE r == [job[j] EXCEPT !.pc = "spawned", !.child = g]
<1>1. /\ job[j] \in Jobrecords /\ WellFormed(job[j]) /\ job[j].pc = "working"
      /\ job[j].cmd = "launch" /\ job[j].inst \in Instances
      /\ perm[job[j].inst] \in Perms
      /\ UNCHANGED <<registry, exit, disk, shown>>
  BY DEF Spawn, Working, IInv, TypeOK, JobsWellFormed, WellFormed
<1>2. /\ r \in Jobrecords /\ WellFormed(r)
      /\ r.guards = job[j].guards /\ r.cmd = job[j].cmd
  BY <1>1 DEF Jobrecords, WellFormed
<1>3. job' = [job EXCEPT ![j] = r]
  BY DEF Spawn
<1> HIDE DEF r
<1>4. game' \in [Games -> Children]
  <2> DEFINE c == [game[g] EXCEPT !.os = "alive", !.inst = job[j].inst,
                                  !.perm = perm[job[j].inst]]
  <2>1. game[g] \in Children /\ perm[job[j].inst] \in Perms /\ game \in [Games -> Children]
    BY <1>1 DEF IInv, TypeOK
  <2>2. c \in Children
    BY <1>1, <2>1 DEF Children
  <2>3. game' = [game EXCEPT ![g] = c]
    BY DEF Spawn
  <2> QED
    BY <2>1, <2>2, <2>3
<1>5. TypeOK'
  BY <1>1, <1>2, <1>3, <1>4, JobStep DEF IInv, TypeOK, registry, exit, disk
<1> QED
  BY <1>1, <1>2, <1>3, <1>5, QuietJobStep DEF exit

(* The window hears of a game when the guard is gone.                      *)
LEMMA AnnounceStep ==
    ASSUME IInv, NEW j \in Jobs, Announce(j)
    PROVE  IInv'
<1> USE RegistryAssumption
<1>1. /\ job[j] \in Jobrecords /\ job[j].guards = {}
      /\ job[j].inst \in Instances /\ job[j].child \in Games
      /\ Idle.guards = {}
      /\ job' = [job EXCEPT ![j] = Idle]
      /\ UNCHANGED <<registry, exit, disk>>
  BY DEF Announce, IInv, TypeOK, JobsWellFormed, WellFormed, Idle
<1>2. game' \in [Games -> Children] /\ shown' \in [Instances -> {"stopped", "running"}]
  <2> DEFINE c == [game[job[j].child] EXCEPT !.watch = "polling"]
  <2>1. game[job[j].child] \in Children /\ game \in [Games -> Children]
    BY <1>1 DEF IInv, TypeOK
  <2>2. c \in Children
    BY <2>1 DEF Children
  <2>3. game' = [game EXCEPT ![job[j].child] = c]
    BY DEF Announce
  <2>4. shown' \in [Instances -> {"stopped", "running"}]
    BY <1>1 DEF Announce, IInv, TypeOK
  <2> QED
    BY <2>1, <2>2, <2>3, <2>4
<1>3. TypeOK'
  BY <1>1, <1>2, IdleType, JobStep DEF IInv, TypeOK, registry, exit, disk
<1> QED
  BY <1>1, <1>3, IdleType, QuietJobStep DEF exit

(* A stop takes a handle and no reservation.                               *)
LEMMA StopLookupStep ==
    ASSUME IInv, NEW j \in Jobs, NEW i \in Instances, StopLookup(j, i)
    PROVE  IInv'
<1> USE RegistryAssumption
<1> DEFINE r == Started("stop", i, "stopping", {}, processes[i])
<1>1. /\ job[j].guards = {} /\ processes[i] \in Games
      /\ job' = [job EXCEPT ![j] = r]
      /\ UNCHANGED <<registry, exit, disk, game, shown>>
  BY DEF StopLookup, Dispatch, IInv, TypeOK, JobsWellFormed, WellFormed
<1>2. r \in Jobrecords /\ WellFormed(r) /\ r.guards = {}
  BY <1>1 DEF Jobrecords, WellFormed, Started
<1> HIDE DEF r
<1>3. TypeOK'
  BY <1>1, <1>2, JobStep DEF IInv, TypeOK, registry, exit, disk
<1> QED
  BY <1>1, <1>2, <1>3, QuietJobStep DEF exit

(* A killed child is still a child.                                        *)
LEMMA AfterKillType ==
    ASSUME IInv, NEW g \in Games
    PROVE  /\ [game EXCEPT ![g].os = AfterKill(g)] \in [Games -> Children]
           /\ [game EXCEPT ![g].watch = "giving_up", ![g].os = AfterKill(g)]
                \in [Games -> Children]
<1>1. AfterKill(g) \in {"none", "alive", "dying", "dead"}
  BY DEF AfterKill, IInv, TypeOK, Children
<1>2. game \in [Games -> Children]
  BY DEF IInv, TypeOK
<1>3. /\ [game[g] EXCEPT !.os = AfterKill(g)] \in Children
      /\ [game[g] EXCEPT !.watch = "giving_up", !.os = AfterKill(g)] \in Children
  <2>1. game[g] \in Children
    BY <1>2
  <2> QED
    BY <1>1, <2>1 DEF Children
<1> QED
  BY <1>2, <1>3

(* A stop kills outside the lock.                                          *)
LEMMA StopKillStep ==
    ASSUME IInv, NEW j \in Jobs, StopKill(j)
    PROVE  IInv'
<1> USE RegistryAssumption
<1>1. /\ job[j].guards = {} /\ job[j].child \in Games /\ Idle.guards = {}
      /\ job' = [job EXCEPT ![j] = Idle]
      /\ UNCHANGED <<registry, exit, disk, shown>>
  BY DEF StopKill, IInv, JobsWellFormed, WellFormed, Idle
<1>2. game' \in [Games -> Children]
  <2>1. [game EXCEPT ![job[j].child].os = AfterKill(job[j].child)] \in [Games -> Children]
    BY <1>1, AfterKillType
  <2>2. game \in [Games -> Children]
    BY DEF IInv, TypeOK
  <2>3. \/ game' = [game EXCEPT ![job[j].child].os = AfterKill(job[j].child)]
        \/ game' = game
    BY DEF StopKill
  <2> QED
    BY <2>1, <2>2, <2>3
<1>3. TypeOK'
  BY <1>1, <1>2, IdleType, JobStep DEF IInv, TypeOK, registry, exit, disk
<1> QED
  BY <1>1, <1>3, IdleType, QuietJobStep DEF exit

(* The steps of a child, of its watcher, and of its termination register   *)
(* nothing.                                                                *)
LEMMA GameStep ==
    ASSUME IInv, NEW g \in Games,
           \/ GameEnds(g, "alive") \/ GameEnds(g, "dying")
           \/ WatcherGivesUp(g) \/ Watcher(g) \/ TerminateKill(g)
    PROVE  IInv'
<1> USE RegistryAssumption
<1>1. UNCHANGED <<operations, shared, phase, job, disk>>
  BY DEF GameEnds, WatcherGivesUp, Watcher, WatcherRemoves, WatcherReports, TerminateKill,
         registry, exit
<1>2. \A i \in Instances : processes'[i] \in {processes[i], None}
  BY DEF GameEnds, WatcherGivesUp, Watcher, WatcherRemoves, WatcherReports, TerminateKill,
         registry, exit, IInv, TypeOK
<1>3. game' \in [Games -> Children]
  <2>1. CASE GameEnds(g, "alive") \/ GameEnds(g, "dying") \/ Watcher(g)
    BY <2>1, NoChildType DEF GameEnds, Watcher, WatcherRemoves, WatcherReports,
                             IInv, TypeOK, Children
  <2>2. CASE WatcherGivesUp(g) \/ TerminateKill(g)
    BY <2>2, AfterKillType DEF WatcherGivesUp, TerminateKill
  <2> QED
    BY <2>1, <2>2
<1>4. /\ processes' \in [Instances -> Games \cup {None}]
      /\ shown' \in [Instances -> {"stopped", "running"}]
      /\ drained' \subseteq Games /\ reaping' \in Games \cup {None}
  BY DEF GameEnds, WatcherGivesUp, Watcher, WatcherRemoves, WatcherReports, TerminateKill,
         registry, exit, IInv, TypeOK
<1>5. TypeOK'
  BY <1>1, <1>3, <1>4 DEF IInv, TypeOK, disk
<1> QED
  BY <1>1, <1>2, <1>5, QuietStep

(* The exit clears the registry; what is promised while the launcher is up *)
(* ends with it.                                                           *)
LEMMA TerminateStep ==
    ASSUME IInv, TerminateAll \/ TerminateWait
    PROVE  IInv'
<1> USE RegistryAssumption
<1>1. CASE TerminateAll
  <2>1. TypeOK' /\ phase' = "exiting" /\ UNCHANGED job
    BY <1>1 DEF TerminateAll, IInv, TypeOK, disk
  <2> QED
    BY <2>1 DEF IInv, JobsWellFormed
<1>2. CASE TerminateWait
  <2>1. TypeOK' /\ UNCHANGED <<job, operations, shared, phase, processes>>
    BY <1>2 DEF TerminateWait, IInv, TypeOK, disk, registry
  <2> QED
    BY <2>1, QuietStep
<1> QED
  BY <1>1, <1>2

(* A new launcher starts with nothing reserved.                            *)
LEMMA RestartStep ==
    ASSUME IInv, Restart
    PROVE  IInv'
<1> USE RegistryAssumption
<1>1. game' \in [Games -> Children]
  BY NoChildType DEF Restart, IInv, TypeOK, Children
<1>2. TypeOK'
  BY <1>1, IdleType DEF Restart, IInv, TypeOK
<1>3. \A j \in Jobs : job'[j] = Idle /\ job'[j].guards = {}
  BY DEF Restart, Idle
<1>4. JobsWellFormed'
  BY <1>3, IdleType DEF JobsWellFormed
<1>5. Up'
  BY <1>3 DEF Restart, Up, OneHolder, SharedHeld, InstallAlone, RunningLeftAlone, Holds,
              Installing
<1> QED
  BY <1>2, <1>4, <1>5 DEF IInv, Up

-----------------------------------------------------------------------------
(* Every step preserves the inductive invariant.                           *)
LEMMA NextIInv == IInv /\ [Next]_vars => IInv'
<1> SUFFICES ASSUME IInv, [Next]_vars PROVE IInv'
  OBVIOUS
<1>1. ASSUME NEW j \in Jobs, Request(j) PROVE IInv'
  BY <1>1, ReserveInstanceStep, ReserveSharedStep, StopLookupStep DEF Request
<1>2. ASSUME NEW j \in Jobs, Work(j) PROVE IInv'
  <2>1. ASSUME NEW i \in Instances, ReserveDestination(j, i) \/ DropGuard(j, i) PROVE IInv'
    BY <2>1, ReserveDestinationStep, DropGuardStep
  <2>2. CASE \/ Fail(j) \/ Begin(j) \/ FinishElsewhere(j) \/ RewriteManifest(j)
             \/ \E p \in Perms : SavePermissions(j, p)
             \/ Publish(j) \/ PublishCopy(j)
    BY <2>2, WorkStep
  <2>3. CASE DeleteFiles(j) \/ CreateInstance(j)
    BY <2>3, DirectoryStep
  <2>4. ASSUME NEW g \in Games, Spawn(j, g) PROVE IInv'
    BY <2>4, SpawnStep
  <2>5. CASE InsertProcess(j) \/ Announce(j) \/ StopKill(j)
    BY <2>5, InsertProcessStep, AnnounceStep, StopKillStep
  <2> QED
    BY <1>2, <2>1, <2>2, <2>3, <2>4, <2>5 DEF Work
<1>3. ASSUME NEW g \in Games,
             \/ GameEnds(g, "alive") \/ GameEnds(g, "dying")
             \/ WatcherGivesUp(g) \/ Watcher(g) \/ TerminateKill(g)
      PROVE  IInv'
  BY <1>3, GameStep
<1>4. CASE TerminateAll \/ TerminateWait
  BY <1>4, TerminateStep
<1>5. CASE Exit \/ Crash
  BY <1>5, RestartStep DEF Exit, Crash
<1>6. CASE UNCHANGED vars
  <2>1. TypeOK'
    BY <1>6 DEF vars, registry, exit, disk, IInv, TypeOK
  <2> QED
    BY <1>6, <2>1, QuietStep DEF vars, registry, exit
<1> QED
  BY <1>1, <1>2, <1>3, <1>4, <1>5, <1>6 DEF Next, Shutdown

(* The inductive invariant holds in every reachable state.                 *)
THEOREM Invariance == Spec => []IInv
  BY InitIInv, NextIInv, PTL DEF Spec

(* Every variable keeps its type.                                          *)
THEOREM TypeCorrect == Spec => []TypeOK
<1>1. IInv => TypeOK
  BY DEF IInv
<1> QED
  BY <1>1, Invariance, PTL

(* The registry and the guards of the commands agree, with one holder for  *)
(* each reserved instance.                                                 *)
THEOREM ReservationsAreExact == Spec => []ReservationsExact
<1>1. IInv => ReservationsExact
  BY DEF IInv, ReservationsExact, OneHolder, SharedHeld
<1> QED
  BY <1>1, Invariance, PTL

(* Installations and repairs exclude every other command and every game.   *)
THEOREM SharedInstallExcludes == Spec => []SharedInstallAlone
<1>1. IInv => SharedInstallAlone
  BY DEF IInv, SharedInstallAlone, InstallAlone
<1> QED
  BY <1>1, Invariance, PTL

(* No command writes below the directory of an instance whose game runs.   *)
THEOREM RunningInstanceUntouched == Spec => []NoWriterWhileRunning
<1>1. IInv => NoWriterWhileRunning
  BY DEF IInv, NoWriterWhileRunning, RunningLeftAlone, Touches, JobsWellFormed, WellFormed,
         Holds
<1> QED
  BY <1>1, Invariance, PTL

-----------------------------------------------------------------------------
(* Manifests. A command that works has loaded the permissions the manifest *)
(* still has.                                                              *)
SnapshotsCurrent ==
    phase = "up" => \A j \in Jobs : job[j].pc = "working" => job[j].snap = perm[job[j].inst]

DiskInv == SnapshotsCurrent /\ SavedPermissionsSurvive

(* A command at work is the only one at work on its instance, and nothing  *)
(* runs there unless the command allows it.                                *)
LEMMA AloneAtWork ==
    ASSUME IInv, phase = "up", NEW j \in Jobs, NEW i \in Instances,
           job[j].pc = "working", i \in {job[j].inst, job[j].dst}
    PROVE  /\ \A k \in Jobs \ {j} : i \notin job[k].guards
           /\ \A k \in Jobs \ {j} : job[k].pc = "working" => job[k].inst # i
           /\ job[j].cmd \notin AllowRunning => processes[i] = None
<1>1. Holds(j, i)
  BY DEF IInv, JobsWellFormed, WellFormed, Holds
<1>2. \A k \in Jobs \ {j} : i \notin job[k].guards
  BY <1>1 DEF IInv, OneHolder, Holds
<1>3. \A k \in Jobs : job[k].pc = "working" => job[k].guards = {job[k].inst, job[k].dst}
  BY DEF IInv, JobsWellFormed, WellFormed
<1>4. job[j].cmd \notin AllowRunning => processes[i] = None
  BY <1>1 DEF IInv, RunningLeftAlone
<1> QED
  BY <1>2, <1>3, <1>4

(* The manifests stay, and nobody begins to work.                          *)
LEMMA QuietDisk ==
    ASSUME DiskInv, UNCHANGED <<store, perm, acked, phase>>,
           \A k \in Jobs : job'[k].pc = "working" => job'[k] = job[k]
    PROVE  DiskInv'
  BY DEF DiskInv, SnapshotsCurrent, SavedPermissionsSurvive, Loadable

(* Files come and go, but no manifest is written.                          *)
LEMMA UnwrittenDisk ==
    ASSUME DiskInv, UNCHANGED <<perm, acked, phase>>,
           \A i \in Instances : Loadable(i)' => Loadable(i),
           \A k \in Jobs : job'[k].pc = "working" =>
               job'[k] = job[k] \/ job'[k].snap = perm[job'[k].inst]
    PROVE  DiskInv'
  BY DEF DiskInv, SnapshotsCurrent, SavedPermissionsSurvive

(* A command ends its work with a manifest written to the instance i.      *)
LEMMA WrittenDisk ==
    ASSUME IInv, DiskInv, phase = "up", phase' = phase,
           NEW j \in Jobs, NEW i \in Instances, NEW p \in Perms,
           job[j].pc = "working", i \in {job[j].inst, job[j].dst},
           To(j, "drop"),
           perm' = [perm EXCEPT ![i] = p],
           \/ acked' = [acked EXCEPT ![i] = p]
           \/ UNCHANGED acked /\ p = perm[i] /\ (Loadable(i)' => Loadable(i)),
           \A k \in Instances \ {i} : Loadable(k)' => Loadable(k)
    PROVE  DiskInv'
<1>1. /\ job \in [Jobs -> Jobrecords]
      /\ perm \in [Instances -> Perms] /\ acked \in [Instances -> Perms]
  BY DEF IInv, TypeOK
<1>2. /\ job'[j].pc = "drop" /\ \A k \in Jobs \ {j} : job'[k] = job[k]
  BY <1>1 DEF To, Jobrecords
<1>3. \A k \in Jobs \ {j} : job[k].pc = "working" =>
          job[k].inst # i /\ job[k].inst \in Instances
  BY AloneAtWork DEF IInv, JobsWellFormed, WellFormed
<1>4. perm'[i] = p /\ \A k \in Instances \ {i} : perm'[k] = perm[k]
  BY <1>1
<1>5. SnapshotsCurrent'
  BY <1>2, <1>3, <1>4 DEF DiskInv, SnapshotsCurrent
<1>6. SavedPermissionsSurvive'
  BY <1>1, <1>4 DEF DiskInv, SavedPermissionsSurvive
<1> QED
  BY <1>5, <1>6 DEF DiskInv

(* Every step of the work under a reservation leaves what was saved.       *)
LEMMA WorkDisk ==
    ASSUME IInv, DiskInv, phase = "up", NEW j \in Jobs,
           \/ Fail(j) \/ Begin(j) \/ FinishElsewhere(j) \/ RewriteManifest(j)
           \/ \E p \in Perms : SavePermissions(j, p)
           \/ DeleteFiles(j) \/ CreateInstance(j) \/ Publish(j) \/ PublishCopy(j)
    PROVE  DiskInv'
<1>1. /\ job \in [Jobs -> Jobrecords] /\ job[j] \in Jobrecords
      /\ job[j].pc \in {"held", "working"}
      /\ job[j].inst \in Instances /\ job[j].snap \in Perms
      /\ job[j].guards \subseteq Instances /\ job[j].guards = {job[j].inst, job[j].dst}
      /\ store \in [Instances -> {"absent", "partial", "damaged", "ready"}]
      /\ perm \in [Instances -> Perms] /\ acked \in [Instances -> Perms]
  BY DEF Fail, Begin, FinishElsewhere, RewriteManifest, SavePermissions, DeleteFiles,
         CreateInstance, Publish, PublishCopy, PublishAs, Working,
         IInv, TypeOK, JobsWellFormed, WellFormed, Jobrecords
<1>2. job[j].dst \in Instances /\ UNCHANGED phase
  BY <1>1 DEF Fail, Begin, FinishElsewhere, RewriteManifest, SavePermissions, DeleteFiles,
         CreateInstance, Publish, PublishCopy, PublishAs, exit
<1>3. To(j, "drop") => \A k \in Jobs : job'[k].pc = "working" => job'[k] = job[k]
  BY <1>1 DEF To, Jobrecords
<1>4. CASE Fail(j)
  <2>1. \A i \in Instances : Loadable(i)' => Loadable(i)
    BY <1>1, <1>2, <1>4 DEF Fail, Loadable
  <2> QED
    BY <1>2, <1>3, <1>4, <2>1, UnwrittenDisk DEF Fail
<1>5. CASE Begin(j)
  <2>1. \A i \in Instances : Loadable(i)' => Loadable(i)
    BY <1>1, <1>2, <1>5 DEF Begin, Loadable
  <2>2. \A k \in Jobs : job'[k].pc = "working" =>
            job'[k] = job[k] \/ job'[k].snap = perm[job'[k].inst]
    BY <1>1, <1>5 DEF Begin, Jobrecords
  <2> QED
    BY <1>2, <1>5, <2>1, <2>2, UnwrittenDisk DEF Begin
<1>6. CASE FinishElsewhere(j)
  BY <1>2, <1>3, <1>6, QuietDisk DEF FinishElsewhere, disk
<1>7. CASE RewriteManifest(j)
  <2>1. job[j].snap = perm[job[j].inst]
    BY <1>7 DEF RewriteManifest, Working, DiskInv, SnapshotsCurrent
  <2>2. \A i \in Instances : Loadable(i)' => Loadable(i)
    BY <1>7 DEF RewriteManifest, Loadable
  <2> QED
    BY <1>1, <1>2, <1>7, <2>1, <2>2, WrittenDisk DEF RewriteManifest, Working
<1>8. CASE \E p \in Perms : SavePermissions(j, p)
  <2>1. \A i \in Instances : Loadable(i)' => Loadable(i)
    BY <1>8 DEF SavePermissions, Loadable
  <2> QED
    BY <1>1, <1>2, <1>8, <2>1, WrittenDisk DEF SavePermissions, Working
<1>9. CASE DeleteFiles(j) \/ CreateInstance(j)
  <2>1. \A i \in Instances : Loadable(i)' => Loadable(i)
    BY <1>1, <1>9 DEF DeleteFiles, CreateInstance, Loadable
  <2> QED
    BY <1>2, <1>3, <1>9, <2>1, UnwrittenDisk DEF DeleteFiles, CreateInstance
<1>10. CASE Publish(j) \/ PublishCopy(j)
  <2>1. PICK p \in Perms : PublishAs(j, p) /\ job[j].pc = "working"
    BY <1>1, <1>10, RegistryAssumption DEF Publish, PublishCopy, Working
  <2>2. \A k \in Instances \ {job[j].dst} : Loadable(k)' => Loadable(k)
    BY <1>1, <1>2, <2>1 DEF PublishAs, Loadable
  <2> QED
    BY <1>1, <1>2, <2>1, <2>2, WrittenDisk DEF PublishAs
<1> QED
  BY <1>4, <1>5, <1>6, <1>7, <1>8, <1>9, <1>10

(* The steps in which no command begins, does or ends its work on files.   *)
LEMMA OtherDisk ==
    ASSUME IInv, DiskInv, phase = "up",
           \/ \E j \in Jobs :
                \/ Request(j) \/ InsertProcess(j) \/ Announce(j) \/ StopKill(j)
                \/ \E i \in Instances : ReserveDestination(j, i) \/ DropGuard(j, i)
                \/ \E g \in Games : Spawn(j, g)
           \/ \E g \in Games :
                \/ GameEnds(g, "alive") \/ GameEnds(g, "dying") \/ WatcherGivesUp(g)
                \/ Watcher(g) \/ TerminateKill(g)
           \/ TerminateWait \/ UNCHANGED vars
    PROVE  DiskInv'
<1>0. job \in [Jobs -> Jobrecords]
  BY DEF IInv, TypeOK
<1>1. CASE UNCHANGED job /\ UNCHANGED <<disk, phase>>
  BY <1>1, QuietDisk DEF disk
<1>2. ASSUME NEW j \in Jobs, job'[j].pc # "working",
             \A k \in Jobs \ {j} : job'[k] = job[k],
             UNCHANGED <<disk, phase>>
      PROVE  DiskInv'
  BY <1>0, <1>2, QuietDisk DEF disk
<1>3. ASSUME NEW j \in Jobs, Request(j) PROVE DiskInv'
  <2>1. ASSUME NEW i \in Instances, NEW c \in Commands, ReserveInstance(j, c, i)
        PROVE  DiskInv'
    BY <1>0, <1>2, <2>1 DEF ReserveInstance, Started, exit
  <2>2. ASSUME NEW i \in Instances, NEW c \in Commands, ReserveShared(j, c, i)
        PROVE  DiskInv'
    BY <1>0, <1>2, <2>2 DEF ReserveShared, Started, exit
  <2>3. ASSUME NEW i \in Instances, StopLookup(j, i)
        PROVE  DiskInv'
    BY <1>0, <1>2, <2>3 DEF StopLookup, Started, exit
  <2> QED
    BY <1>3, <2>1, <2>2, <2>3 DEF Request
<1>4. ASSUME NEW j \in Jobs, InsertProcess(j) \/ Announce(j) \/ StopKill(j) PROVE DiskInv'
  <2>1. CASE InsertProcess(j)
    BY <1>0, <1>2, <2>1 DEF InsertProcess, To, exit, Jobrecords
  <2>2. CASE Announce(j) \/ StopKill(j)
    BY <1>0, <1>2, <2>2 DEF Announce, StopKill, Idle, exit
  <2> QED
    BY <1>4, <2>1, <2>2
<1>5. ASSUME NEW j \in Jobs, NEW i \in Instances, ReserveDestination(j, i) \/ DropGuard(j, i)
      PROVE  DiskInv'
  <2>1. CASE ReserveDestination(j, i)
    <3>1. \A k \in Jobs : job'[k].pc = "working" => job'[k] = job[k]
      BY <1>0, <2>1 DEF ReserveDestination, Jobrecords
    <3> QED
      BY <2>1, <3>1, QuietDisk DEF ReserveDestination, exit, disk
  <2>2. CASE DropGuard(j, i)
    <3>1. Released(job[j], i).pc # "working"
      BY <1>0, <2>2 DEF DropGuard, Released, Idle, Jobrecords
    <3> QED
      BY <1>0, <1>2, <2>2, <3>1 DEF DropGuard, exit
  <2> QED
    BY <1>5, <2>1, <2>2
<1>6. ASSUME NEW j \in Jobs, NEW g \in Games, Spawn(j, g) PROVE DiskInv'
  <2>1. \A k \in Jobs : job'[k].pc = "working" => job'[k] = job[k]
    BY <1>0, <1>6 DEF Spawn, Jobrecords
  <2> QED
    BY <1>6, <2>1, QuietDisk DEF Spawn, exit, disk
<1>7. ASSUME NEW g \in Games,
             \/ GameEnds(g, "alive") \/ GameEnds(g, "dying") \/ WatcherGivesUp(g)
             \/ Watcher(g) \/ TerminateKill(g)
      PROVE  DiskInv'
  BY <1>1, <1>7 DEF GameEnds, WatcherGivesUp, Watcher, WatcherRemoves, WatcherReports,
                    TerminateKill, exit
<1>8. CASE TerminateWait \/ UNCHANGED vars
  BY <1>1, <1>8 DEF TerminateWait, vars, exit
<1> QED
  BY <1>3, <1>4, <1>5, <1>6, <1>7, <1>8

(* Every step leaves the manifests with what was last saved. While the     *)
(* launcher exits nothing is promised, and a new one starts from the disk. *)
LEMMA NextDisk == IInv /\ DiskInv /\ [Next]_vars => DiskInv'
<1> SUFFICES ASSUME IInv, DiskInv, [Next]_vars PROVE DiskInv'
  OBVIOUS
<1>1. CASE Restart
  <2>1. \A j \in Jobs : job'[j].pc = "idle"
    BY <1>1 DEF Restart, Idle
  <2>2. SavedPermissionsSurvive'
    BY <1>1 DEF Restart, DiskInv, SavedPermissionsSurvive, Loadable, IInv, TypeOK
  <2> QED
    BY <2>1, <2>2 DEF DiskInv, SnapshotsCurrent
<1>2. CASE TerminateAll
  BY <1>2 DEF TerminateAll, DiskInv, SnapshotsCurrent, SavedPermissionsSurvive
<1>3. CASE phase # "up" /\ UNCHANGED phase
  BY <1>3 DEF DiskInv, SnapshotsCurrent, SavedPermissionsSurvive
<1>4. ASSUME NEW j \in Jobs, Request(j) \/ Work(j) PROVE DiskInv'
  <2>1. UNCHANGED phase
    BY <1>4 DEF Request, Work, ReserveInstance, ReserveShared, StopLookup, ReserveDestination,
         DropGuard, Fail, Begin, FinishElsewhere, RewriteManifest, SavePermissions, DeleteFiles,
         CreateInstance, Publish, PublishCopy, PublishAs, Spawn, InsertProcess, Announce,
         StopKill, exit
  <2> QED
    BY <1>3, <1>4, <2>1, WorkDisk, OtherDisk DEF Work, IInv, TypeOK
<1>5. ASSUME NEW g \in Games,
             \/ GameEnds(g, "alive") \/ GameEnds(g, "dying") \/ WatcherGivesUp(g)
             \/ Watcher(g) \/ TerminateKill(g)
      PROVE  DiskInv'
  <2>1. UNCHANGED phase
    BY <1>5 DEF GameEnds, WatcherGivesUp, Watcher, WatcherRemoves, WatcherReports,
                TerminateKill, exit
  <2> QED
    BY <1>3, <1>5, <2>1, OtherDisk
<1>6. CASE TerminateWait \/ UNCHANGED vars
  <2>1. UNCHANGED phase
    BY <1>6 DEF TerminateWait, vars, exit
  <2> QED
    BY <1>3, <1>6, <2>1, OtherDisk
<1> QED
  BY <1>1, <1>2, <1>4, <1>5, <1>6 DEF Next, Shutdown, Exit, Crash

(* What a manifest says of the permissions is what was last saved, whoever *)
(* writes it back, unless the launcher is exiting.                         *)
THEOREM SavedAlwaysSurvives == Spec => []SavedPermissionsSurvive
<1>1. Init => DiskInv
  BY DEF Init, Idle, DiskInv, SnapshotsCurrent, SavedPermissionsSurvive
<1>2. DiskInv => SavedPermissionsSurvive
  BY DEF DiskInv
<1> QED
  BY <1>1, <1>2, NextDisk, Invariance, PTL DEF Spec

-----------------------------------------------------------------------------
(* Games. A launch has its child in its hands until the window is told.    *)
HasChild(j) == job[j].pc \in {"spawned", "inserted", "announce"}

Launching(j) ==
    job[j].cmd = "launch" /\ job[j].pc \in {"held", "working", "spawned", "inserted", "announce"}

Watched(g) == game[g].watch \in {"polling", "giving_up"}

(* A registered game is that of its instance, and runs under what the      *)
(* manifest says.                                                          *)
RegisteredGames ==
    \A i \in Instances : processes[i] # None =>
        /\ game[processes[i]].inst = i
        /\ game[processes[i]].watch # "removed"
        /\ game[processes[i]].perm = perm[i]

LaunchedGames ==
    \A j \in Jobs : HasChild(j) =>
        /\ game[job[j].child].inst = job[j].inst
        /\ game[job[j].child].watch = "none"
        /\ IF job[j].pc = "spawned" THEN game[job[j].child].perm = perm[job[j].inst]
                                    ELSE processes[job[j].inst] = job[j].child

OwnChild ==
    \A j, k \in Jobs : HasChild(j) /\ HasChild(k) /\ job[j].child = job[k].child => j = k

(* A watcher's game is registered, until it has removed it, and is the only *)
(* one of its instance that has a watcher.                                 *)
WatchedGames ==
    \A g \in Games :
        /\ Watched(g) => processes[game[g].inst] = g
        /\ game[g].watch # "none" =>
              /\ game[g].inst \in Instances
              /\ shown[game[g].inst] = "running"
              /\ \A h \in Games : game[h].watch # "none" /\ game[h].inst = game[g].inst => h = g

ShownGames ==
    \A i \in Instances : shown[i] = "running" =>
        \E g \in Games : game[g].inst = i /\ game[g].watch # "none"

(* An instance is launched only when no earlier game of it is watched.     *)
LaunchUnwatched ==
    \A j \in Jobs : Launching(j) =>
        \A g \in Games : game[g].inst = job[j].inst => game[g].watch = "none"

LiveGames ==
    ChildrenDie => \A g \in Games : game[g].os = "alive" =>
        \/ \E j \in Jobs : HasChild(j) /\ job[j].child = g
        \/ processes[game[g].inst] = g

UpGames ==
    /\ RegisteredGames /\ LaunchedGames /\ OwnChild /\ WatchedGames
    /\ ShownGames /\ LaunchUnwatched /\ LiveGames

GamesInv == phase = "up" => UpGames

(* Before an instance is launched no game of it is known, and whoever      *)
(* launches it has a child of that instance in hands.                      *)
LEMMA LaunchFacts ==
    ASSUME IInv, phase = "up", UpGames
    PROVE  /\ \A j \in Jobs : HasChild(j) =>
                 Launching(j) /\ job[j].inst \in Instances /\ job[j].child \in Games
           /\ \A j \in Jobs : Launching(j) /\ job[j].pc \in {"held", "working", "spawned"} =>
                 processes[job[j].inst] = None
           /\ \A j, k \in Jobs :
                 HasChild(j) /\ job[j].pc # "spawned" /\ Launching(k)
                 /\ job[k].inst = job[j].inst => j = k
           /\ \A i \in Instances : processes[i] \in Games \cup {None}
<1> USE RegistryAssumption
<1>1. \A j \in Jobs : HasChild(j) =>
          Launching(j) /\ job[j].inst \in Instances /\ job[j].child \in Games
  BY DEF IInv, JobsWellFormed, WellFormed, HasChild, Launching
<1>2. ASSUME NEW j \in Jobs, Launching(j), job[j].pc \in {"held", "working", "spawned"}
      PROVE  processes[job[j].inst] = None
  BY <1>2 DEF IInv, JobsWellFormed, WellFormed, RunningLeftAlone, Holds, Launching
<1>3. ASSUME NEW j \in Jobs, NEW k \in Jobs, HasChild(j), job[j].pc # "spawned",
             Launching(k), job[k].inst = job[j].inst
      PROVE  j = k
  <2>1. processes[job[k].inst] = job[j].child /\ job[j].child \in Games
    BY <1>1, <1>3 DEF UpGames, LaunchedGames
  <2>2. HasChild(k) /\ job[k].pc # "spawned"
    BY <1>2, <1>3, <2>1 DEF Launching, HasChild
  <2>3. job[k].child = job[j].child
    BY <2>1, <2>2 DEF UpGames, LaunchedGames
  <2> QED
    BY <1>3, <2>2, <2>3 DEF UpGames, OwnChild
<1>4. \A i \in Instances : processes[i] \in Games \cup {None}
  BY DEF IInv, TypeOK
<1> QED
  BY <1>1, <1>2, <1>3, <1>4

(* Most steps leave the registered games, their watchers and the children  *)
(* of launches alone.                                                      *)
LEMMA QuietGames ==
    ASSUME IInv, phase = "up", UpGames, UNCHANGED <<processes, shown>>,
           \A g \in Games :
              /\ game'[g].inst = game[g].inst /\ game'[g].perm = game[g].perm
              /\ game'[g].watch = game[g].watch \/ (Watched(g) /\ Watched(g)')
              /\ game'[g].os = "alive" => game[g].os = "alive",
           \A k \in Jobs :
              /\ HasChild(k)' => HasChild(k)
              /\ HasChild(k) =>
                    /\ HasChild(k)'
                    /\ job'[k].child = job[k].child /\ job'[k].inst = job[k].inst
                    /\ job'[k].pc = "spawned" <=> job[k].pc = "spawned"
              /\ Launching(k)' =>
                    \/ Launching(k) /\ job'[k].inst = job[k].inst
                    \/ \A g \in Games : game[g].inst = job'[k].inst => game[g].watch = "none",
           \A i \in Instances :
              \/ perm'[i] = perm[i]
              \/ processes[i] = None /\ \A k \in Jobs : HasChild(k) => job[k].inst # i
    PROVE  UpGames'
<1>0. /\ \A i \in Instances : processes[i] \in Games \cup {None}
      /\ \A k \in Jobs : HasChild(k) => job[k].child \in Games /\ job[k].inst \in Instances
  BY LaunchFacts
<1>1. RegisteredGames'
  BY <1>0 DEF UpGames, RegisteredGames, Watched
<1>2. LaunchedGames'
  BY <1>0 DEF UpGames, LaunchedGames, Watched
<1>3. OwnChild'
  BY DEF UpGames, OwnChild
<1>4. WatchedGames'
  BY DEF UpGames, WatchedGames, Watched
<1>5. ShownGames'
  BY DEF UpGames, ShownGames, Watched
<1>6. LaunchUnwatched'
  BY DEF UpGames, LaunchUnwatched, Watched
<1>7. LiveGames'
  BY DEF UpGames, LiveGames
<1> QED
  BY <1>1, <1>2, <1>3, <1>4, <1>5, <1>6, <1>7 DEF UpGames

(* The steps of a command up to its launch, and after it: what it writes   *)
(* to a manifest is not that of a running game.                            *)
LEMMA CommandGames ==
    ASSUME IInv, DiskInv, phase = "up", UpGames, NEW j \in Jobs,
           \/ Fail(j) \/ Begin(j) \/ FinishElsewhere(j) \/ RewriteManifest(j)
           \/ \E p \in Perms : SavePermissions(j, p)
           \/ DeleteFiles(j) \/ CreateInstance(j) \/ Publish(j) \/ PublishCopy(j)
    PROVE  UpGames'
<1>1. /\ job \in [Jobs -> Jobrecords] /\ job[j].pc \in {"held", "working"}
      /\ UNCHANGED <<processes, shown, game>>
  BY DEF Fail, Begin, FinishElsewhere, RewriteManifest, SavePermissions, DeleteFiles,
         CreateInstance, Publish, PublishCopy, PublishAs, Working, registry, IInv, TypeOK
<1>2. \A k \in Jobs : job'[k] = job[k] \/ (k = j /\ job'[k].pc = "drop")
                   \/ (k = j /\ job[k].pc = "held" /\ job'[k].pc = "working"
                       /\ job'[k].cmd = job[k].cmd /\ job'[k].inst = job[k].inst)
  BY <1>1 DEF Fail, Begin, FinishElsewhere, RewriteManifest, SavePermissions, DeleteFiles,
         CreateInstance, Publish, PublishCopy, PublishAs, To, Jobrecords
<1>3. \A i \in Instances :
          \/ perm'[i] = perm[i]
          \/ job[j].pc = "working" /\ i \in {job[j].inst, job[j].dst}
             /\ job[j].cmd \notin AllowRunning
  <2>1. perm \in [Instances -> Perms]
    BY DEF IInv, TypeOK
  <2>2. CASE RewriteManifest(j)
    BY <2>1, <2>2 DEF RewriteManifest, Working, DiskInv, SnapshotsCurrent
  <2>3. CASE \E p \in Perms : SavePermissions(j, p)
    BY <2>1, <2>3 DEF SavePermissions, Working
  <2>4. CASE Publish(j) \/ PublishCopy(j)
    BY <2>1, <2>4 DEF Publish, PublishCopy, PublishAs, Working
  <2>5. CASE Fail(j) \/ Begin(j) \/ FinishElsewhere(j) \/ DeleteFiles(j) \/ CreateInstance(j)
    BY <2>5 DEF Fail, Begin, FinishElsewhere, DeleteFiles, CreateInstance, disk
  <2> QED
    BY <2>2, <2>3, <2>4, <2>5
<1>4. \A i \in Instances :
          \/ perm'[i] = perm[i]
          \/ processes[i] = None /\ \A k \in Jobs : HasChild(k) => job[k].inst # i
  <2> SUFFICES ASSUME NEW i \in Instances, perm'[i] # perm[i]
               PROVE  /\ processes[i] = None
                      /\ \A k \in Jobs : HasChild(k) => job[k].inst # i
    OBVIOUS
  <2>1. processes[i] = None /\ \A k \in Jobs \ {j} : i \notin job[k].guards
    BY <1>3, AloneAtWork
  <2>2. \A k \in Jobs : job[k].pc = "spawned" => k # j /\ job[k].inst \in job[k].guards
    BY <1>1 DEF IInv, JobsWellFormed, WellFormed
  <2>3. \A k \in Jobs : HasChild(k) /\ job[k].pc # "spawned" => processes[job[k].inst] # None
    BY LaunchFacts, RegistryAssumption DEF UpGames, LaunchedGames
  <2> QED
    BY <2>1, <2>2, <2>3
<1>5. ~HasChild(j) /\ ~HasChild(j)' /\ (Launching(j)' => Launching(j))
  BY <1>1, <1>2 DEF HasChild, Launching
<1> QED
  <2>1. \A k \in Jobs :
            /\ HasChild(k)' => HasChild(k)
            /\ HasChild(k) => job'[k] = job[k]
            /\ Launching(k)' => Launching(k) /\ job'[k].inst = job[k].inst
    BY <1>2, <1>5 DEF HasChild, Launching
  <2>2. \A k \in Jobs : HasChild(k) => HasChild(k)'
    BY <2>1 DEF HasChild
  <2> QED
    BY <1>1, <1>4, <2>1, <2>2, QuietGames

(* A reservation, a stop, or a guard dropped. A launch is reserved only    *)
(* for an instance the window shows as stopped.                            *)
LEMMA ReserveGames ==
    ASSUME IInv, phase = "up", phase' = phase, UpGames, NEW j \in Jobs,
           Request(j) \/ (\E i \in Instances : ReserveDestination(j, i) \/ DropGuard(j, i))
           \/ StopKill(j)
    PROVE  UpGames'
<1>1. /\ job \in [Jobs -> Jobrecords] /\ WellFormed(job[j])
      /\ UNCHANGED <<processes, shown, perm>>
  BY DEF Request, ReserveInstance, ReserveShared, StopLookup, ReserveDestination, DropGuard,
         StopKill, registry, disk, IInv, TypeOK, JobsWellFormed
<1>2. \A k \in Jobs \ {j} : job'[k] = job[k]
  BY <1>1 DEF Request, ReserveInstance, ReserveShared, StopLookup, ReserveDestination,
              DropGuard, StopKill
<1>3. \A g \in Games :
          /\ game'[g].inst = game[g].inst /\ game'[g].perm = game[g].perm
          /\ game'[g].watch = game[g].watch
          /\ game'[g].os = "alive" => game[g].os = "alive"
  <2>1. CASE StopKill(j)
    BY <2>1 DEF StopKill, AfterKill, IInv, TypeOK, Children
  <2>2. CASE game' = game
    BY <2>2
  <2> QED
    BY <2>1, <2>2 DEF Request, ReserveInstance, ReserveShared, StopLookup, ReserveDestination,
                      DropGuard
<1>4. /\ HasChild(j)' => HasChild(j)
      /\ HasChild(j) => /\ HasChild(j)'
                        /\ job'[j].child = job[j].child /\ job'[j].inst = job[j].inst
                        /\ job'[j].pc = "spawned" <=> job[j].pc = "spawned"
      /\ Launching(j)' =>
            \/ Launching(j) /\ job'[j].inst = job[j].inst
            \/ \A g \in Games : game[g].inst = job'[j].inst => game[g].watch = "none"
  <2>1. ASSUME NEW i \in Instances, NEW c \in Commands, ReserveInstance(j, c, i)
        PROVE  <1>4!:
    <3>1. job'[j].pc \in {"second", "held"} /\ job[j].pc = "idle"
          /\ job'[j].cmd = c /\ job'[j].inst = i
      BY <1>1, <2>1 DEF ReserveInstance, Dispatch, Started
    <3>2. c = "launch" => \A g \in Games : game[g].inst = i => game[g].watch = "none"
      BY <2>1 DEF ReserveInstance, Offered, UpGames, WatchedGames
    <3> QED
      BY <3>1, <3>2 DEF HasChild, Launching
  <2>2. ASSUME NEW i \in Instances, NEW c \in Commands, ReserveShared(j, c, i)
        PROVE  <1>4!:
    BY <1>1, <2>2 DEF ReserveShared, Dispatch, Started, HasChild, Launching
  <2>3. ASSUME NEW i \in Instances, StopLookup(j, i)
        PROVE  <1>4!:
    BY <1>1, <2>3 DEF StopLookup, Dispatch, Started, HasChild, Launching
  <2>4. ASSUME NEW i \in Instances, ReserveDestination(j, i)
        PROVE  <1>4!:
    <3>1. job[j].pc = "second" /\ job[j].cmd = "duplicate"
      BY <1>1, <2>4 DEF ReserveDestination, WellFormed
    <3>2. job'[j].cmd = "duplicate" /\ job'[j].pc \in {"held", "drop"}
      <4>1. job[j] \in Jobrecords
        BY <1>1
      <4>2. CASE MayReserve(i, FALSE)
        <5> DEFINE r == [job[j] EXCEPT !.pc = "held", !.dst = i, !.guards = @ \cup {i}]
        <5>1. job' = [job EXCEPT ![j] = r]
          BY <1>1, <2>4, <4>1, <4>2 DEF ReserveDestination, Jobrecords
        <5>2. r.cmd = job[j].cmd /\ r.pc = "held"
          BY <4>1 DEF Jobrecords
        <5> QED
          BY <1>1, <3>1, <5>1, <5>2
      <4>3. CASE ~MayReserve(i, FALSE)
        BY <1>1, <2>4, <3>1, <4>1, <4>3 DEF ReserveDestination, Jobrecords
      <4> QED
        BY <4>2, <4>3
    <3> QED
      BY <3>1, <3>2 DEF HasChild, Launching
  <2>5. ASSUME NEW i \in Instances, DropGuard(j, i)
        PROVE  <1>4!:
    <3>1. job'[j] = Released(job[j], i) /\ job[j].pc \in {"drop", "inserted"}
      BY <1>1, <2>5 DEF DropGuard
    <3>2. CASE job[j].pc = "inserted"
      BY <1>1, <3>1, <3>2 DEF Released, HasChild, Launching, Jobrecords
    <3>3. CASE job[j].pc = "drop"
      <4>1. job'[j].pc \in {"idle", "drop"}
        BY <1>1, <3>1, <3>3 DEF Released, Idle, Jobrecords
      <4> QED
        BY <3>3, <4>1 DEF HasChild, Launching
    <3> QED
      BY <3>1, <3>2, <3>3
  <2>6. CASE StopKill(j)
    BY <1>1, <2>6 DEF StopKill, Idle, HasChild, Launching
  <2> QED
    BY <2>1, <2>2, <2>3, <2>4, <2>5, <2>6 DEF Request
<1>5. \A k \in Jobs \ {j} : (HasChild(k)' <=> HasChild(k)) /\ (Launching(k)' <=> Launching(k))
  BY <1>2 DEF HasChild, Launching
<1>6. \A k \in Jobs :
          /\ HasChild(k)' => HasChild(k)
          /\ HasChild(k) =>
                /\ HasChild(k)'
                /\ job'[k].child = job[k].child /\ job'[k].inst = job[k].inst
                /\ job'[k].pc = "spawned" <=> job[k].pc = "spawned"
          /\ Launching(k)' =>
                \/ Launching(k) /\ job'[k].inst = job[k].inst
                \/ \A g \in Games : game[g].inst = job'[k].inst => game[g].watch = "none"
  BY <1>2, <1>4, <1>5
<1> QED
  BY <1>1, <1>3, <1>6, QuietGames

(* The end of a game, a kill of the watcher or of the exit: the registry   *)
(* and who watches what stay.                                              *)
LEMMA EndingGames ==
    ASSUME IInv, phase = "up", UpGames, NEW g \in Games,
           \/ GameEnds(g, "alive") \/ GameEnds(g, "dying")
           \/ WatcherGivesUp(g) \/ TerminateKill(g)
    PROVE  UpGames'
<1>1. UNCHANGED <<processes, shown, perm, job>>
  BY DEF GameEnds, WatcherGivesUp, TerminateKill, registry, disk
<1>2. \A h \in Games :
          /\ game'[h].inst = game[h].inst /\ game'[h].perm = game[h].perm
          /\ game'[h].watch = game[h].watch \/ (Watched(h) /\ Watched(h)')
          /\ game'[h].os = "alive" => game[h].os = "alive"
  BY DEF GameEnds, WatcherGivesUp, TerminateKill, AfterKill, Watched, IInv, TypeOK, Children
<1>3. \A k \in Jobs : (HasChild(k)' <=> HasChild(k)) /\ (Launching(k)' <=> Launching(k))
  BY <1>1 DEF HasChild, Launching
<1> QED
  BY <1>1, <1>2, <1>3, QuietGames

(* A game is started in a slot that nothing refers to.                     *)
LEMMA SpawnGames ==
    ASSUME IInv, phase = "up", UpGames, NEW j \in Jobs, NEW g \in Games, Spawn(j, g)
    PROVE  UpGames'
<1> USE RegistryAssumption
<1> DEFINE i == job[j].inst
<1>1. /\ job[j].pc = "working" /\ job[j].cmd = "launch" /\ i \in Instances
      /\ game[g] = NoChild /\ \A k \in Jobs : job[k].child # g
      /\ UNCHANGED <<processes, shown, perm>>
  BY DEF Spawn, Working, FreeSlot, registry, disk, IInv, JobsWellFormed, WellFormed
<1>2. /\ game'[g].os = "alive" /\ game'[g].inst = i /\ game'[g].perm = perm[i]
      /\ game'[g].watch = "none"
      /\ \A h \in Games \ {g} : game'[h] = game[h]
  BY <1>1 DEF Spawn, IInv, TypeOK, NoChild
<1>3. /\ job'[j].pc = "spawned" /\ job'[j].child = g /\ job'[j].inst = i
      /\ job'[j].cmd = "launch"
      /\ \A k \in Jobs \ {j} : job'[k] = job[k]
  BY <1>1 DEF Spawn, IInv, TypeOK, Jobrecords
<1>4. /\ HasChild(j)' /\ ~HasChild(j) /\ Launching(j)' /\ Launching(j)
      /\ \A k \in Jobs \ {j} : (HasChild(k)' <=> HasChild(k)) /\ (Launching(k)' <=> Launching(k))
  BY <1>1, <1>3 DEF HasChild, Launching
<1>5. game[g].inst = None /\ game[g].watch = "none" /\ game[g].os = "none"
  BY <1>1 DEF NoChild
<1>6. \A k \in Instances : processes[k] # g
  BY <1>5 DEF UpGames, RegisteredGames
<1>7. RegisteredGames'
  BY <1>1, <1>2, <1>6, LaunchFacts DEF UpGames, RegisteredGames
<1>8. LaunchedGames'
  BY <1>1, <1>2, <1>3, <1>4, LaunchFacts DEF UpGames, LaunchedGames
<1>9. OwnChild'
  BY <1>1, <1>3, <1>4 DEF UpGames, OwnChild
<1>10. WatchedGames'
  BY <1>1, <1>2, <1>5 DEF UpGames, WatchedGames, Watched
<1>11. ShownGames'
  BY <1>1, <1>2, <1>5 DEF UpGames, ShownGames
<1>12. LaunchUnwatched'
  BY <1>2, <1>3, <1>4 DEF UpGames, LaunchUnwatched
<1>13. LiveGames'
  BY <1>1, <1>2, <1>3, <1>4 DEF UpGames, LiveGames
<1> QED
  BY <1>7, <1>8, <1>9, <1>10, <1>11, <1>12, <1>13 DEF UpGames

(* Its launch registers it for an instance without a game.                 *)
LEMMA InsertGames ==
    ASSUME IInv, phase = "up", UpGames, NEW j \in Jobs, InsertProcess(j)
    PROVE  UpGames'
<1> USE RegistryAssumption
<1> DEFINE i == job[j].inst
           g == job[j].child
<1>1. /\ job[j].pc = "spawned" /\ HasChild(j) /\ Launching(j)
      /\ i \in Instances /\ g \in Games /\ processes[i] = None
      /\ UNCHANGED <<game, shown, perm>>
  BY LaunchFacts DEF InsertProcess, HasChild, disk
<1>2. /\ processes'[i] = g /\ \A k \in Instances \ {i} : processes'[k] = processes[k]
  BY <1>1 DEF InsertProcess, IInv, TypeOK
<1>3. /\ job'[j].pc = "inserted" /\ job'[j].child = g /\ job'[j].inst = i
      /\ job'[j].cmd = job[j].cmd
      /\ \A k \in Jobs \ {j} : job'[k] = job[k]
  BY <1>1 DEF InsertProcess, To, IInv, TypeOK, Jobrecords
<1>4. \A k \in Jobs : (HasChild(k)' <=> HasChild(k)) /\ (Launching(k)' <=> Launching(k))
  BY <1>1, <1>3 DEF HasChild, Launching
<1>5. game[g].inst = i /\ game[g].watch = "none" /\ game[g].perm = perm[i]
  BY <1>1 DEF UpGames, LaunchedGames
<1>6. RegisteredGames'
  BY <1>1, <1>2, <1>5 DEF UpGames, RegisteredGames
<1>7. LaunchedGames'
  <2>1. \A k \in Jobs \ {j} : HasChild(k) /\ job[k].pc # "spawned" => job[k].inst # i
    BY <1>1, LaunchFacts
  <2> QED
    BY <1>1, <1>2, <1>3, <1>4, <1>5, <2>1, LaunchFacts DEF UpGames, LaunchedGames
<1>8. OwnChild'
  BY <1>3, <1>4 DEF UpGames, OwnChild
<1>9. WatchedGames'
  <2>1. \A h \in Games : game[h].watch # "none" => game[h].inst # i
    BY <1>1 DEF UpGames, LaunchUnwatched
  <2> QED
    BY <1>1, <1>2, <2>1 DEF UpGames, WatchedGames, Watched
<1>10. ShownGames' /\ LaunchUnwatched'
  BY <1>1, <1>3, <1>4 DEF UpGames, ShownGames, LaunchUnwatched
<1>11. LiveGames'
  <2>1. \A h \in Games : processes[game[h].inst] = h => game[h].inst # i
    BY <1>1
  <2> SUFFICES ASSUME ChildrenDie, NEW h \in Games, game[h].os = "alive"
               PROVE  \/ \E k \in Jobs : HasChild(k)' /\ job'[k].child = h
                      \/ processes'[game[h].inst] = h
    BY <1>1 DEF LiveGames
  <2>2. CASE \E k \in Jobs : HasChild(k) /\ job[k].child = h
    BY <1>3, <1>4, <2>2
  <2>3. CASE processes[game[h].inst] = h
    <3>1. processes' = [processes EXCEPT ![i] = g]
      BY DEF InsertProcess
    <3> QED
      BY <2>1, <2>3, <3>1 DEF IInv, TypeOK
  <2> QED
    BY <2>2, <2>3 DEF UpGames, LiveGames
<1> QED
  BY <1>6, <1>7, <1>8, <1>9, <1>10, <1>11 DEF UpGames

(* The window is told, and the watcher started, once the guard is gone.    *)
LEMMA AnnounceGames ==
    ASSUME IInv, phase = "up", UpGames, NEW j \in Jobs, Announce(j)
    PROVE  UpGames'
<1> USE RegistryAssumption
<1> DEFINE i == job[j].inst
           g == job[j].child
<1>1. /\ job[j].pc = "announce" /\ HasChild(j) /\ Launching(j)
      /\ i \in Instances /\ g \in Games /\ processes[i] = g
      /\ game[g].inst = i /\ game[g].watch = "none"
      /\ UNCHANGED <<processes, perm>>
  BY LaunchFacts DEF Announce, HasChild, registry, disk, UpGames, LaunchedGames
<1>2. /\ shown'[i] = "running" /\ \A k \in Instances \ {i} : shown'[k] = shown[k]
      /\ \A k \in Instances : shown'[k] = "running" => k = i \/ shown[k] = "running"
  BY <1>1 DEF Announce, IInv, TypeOK
<1>3. /\ game'[g].watch = "polling" /\ game'[g].inst = i /\ game'[g].perm = game[g].perm
      /\ game'[g].os = game[g].os
      /\ \A h \in Games \ {g} : game'[h] = game[h]
  BY <1>1 DEF Announce, IInv, TypeOK, Children
<1>4. /\ job'[j] = Idle /\ \A k \in Jobs \ {j} : job'[k] = job[k]
  BY DEF Announce, IInv, TypeOK
<1>5. /\ ~HasChild(j)' /\ ~Launching(j)'
      /\ \A k \in Jobs \ {j} : (HasChild(k)' <=> HasChild(k)) /\ (Launching(k)' <=> Launching(k))
  BY <1>4 DEF HasChild, Launching, Idle
<1>6. \A k \in Jobs \ {j} : Launching(k) => job[k].inst # i
  BY <1>1, LaunchFacts
<1>7. \A k \in Jobs \ {j} : HasChild(k) => job[k].child # g
  BY <1>1 DEF UpGames, OwnChild
<1>8. RegisteredGames'
  BY <1>1, <1>3, LaunchFacts DEF UpGames, RegisteredGames
<1>9. LaunchedGames'
  BY <1>1, <1>3, <1>4, <1>5, <1>7, LaunchFacts DEF UpGames, LaunchedGames
<1>10. OwnChild'
  BY <1>4, <1>5 DEF UpGames, OwnChild
<1>11. WatchedGames'
  <2>1. \A h \in Games : game[h].inst = i => game[h].watch = "none"
    BY <1>1 DEF UpGames, LaunchUnwatched
  <2> QED
    BY <1>1, <1>2, <1>3, <2>1 DEF UpGames, WatchedGames, Watched
<1>12. ShownGames'
  BY <1>1, <1>2, <1>3 DEF UpGames, ShownGames
<1>13. LaunchUnwatched'
  BY <1>3, <1>4, <1>5, <1>6 DEF UpGames, LaunchUnwatched
<1>14. LiveGames'
  BY <1>1, <1>3, <1>4, <1>5 DEF UpGames, LiveGames
<1> QED
  BY <1>8, <1>9, <1>10, <1>11, <1>12, <1>13, <1>14 DEF UpGames

(* The watcher removes an entry by instance: it is that of its own game.   *)
LEMMA RemoveGames ==
    ASSUME IInv, phase = "up", UpGames, NEW g \in Games, WatcherRemoves(g)
    PROVE  UpGames'
<1> USE RegistryAssumption
<1> DEFINE i == game[g].inst
<1>1. /\ Watched(g) /\ game[g].watch # "none" /\ game[g].os = "dead"
      /\ i \in Instances /\ processes[i] = g
      /\ UNCHANGED <<job, shown, perm>>
  BY DEF WatcherRemoves, Watched, disk, UpGames, WatchedGames
<1>2. /\ processes'[i] = None /\ \A k \in Instances \ {i} : processes'[k] = processes[k]
  BY <1>1 DEF WatcherRemoves, IInv, TypeOK
<1>3. /\ game'[g].watch = "removed" /\ game'[g].inst = i /\ game'[g].perm = game[g].perm
      /\ game'[g].os = "dead"
      /\ \A h \in Games \ {g} : game'[h] = game[h]
  BY <1>1 DEF WatcherRemoves, IInv, TypeOK, Children
<1>4. \A k \in Jobs : (HasChild(k)' <=> HasChild(k)) /\ (Launching(k)' <=> Launching(k))
  BY <1>1 DEF HasChild, Launching
<1>5. \A k \in Jobs : Launching(k) => job[k].inst # i
  BY <1>1 DEF UpGames, LaunchUnwatched
<1>6. \A h \in Games \ {g} : game[h].watch # "none" => game[h].inst # i
  BY <1>1 DEF UpGames, WatchedGames
<1>7. \A k \in Jobs : HasChild(k) => job[k].child # g
  BY <1>1 DEF UpGames, LaunchedGames
<1>8. RegisteredGames'
  <2>1. \A k \in Instances \ {i} : processes[k] # g
    BY DEF UpGames, RegisteredGames
  <2> QED
    BY <1>1, <1>2, <1>3, <2>1, LaunchFacts DEF UpGames, RegisteredGames
<1>9. LaunchedGames'
  BY <1>1, <1>2, <1>3, <1>4, <1>5, <1>7, LaunchFacts DEF UpGames, LaunchedGames
<1>10. OwnChild'
  BY <1>1, <1>4 DEF UpGames, OwnChild
<1>11. WatchedGames'
  BY <1>1, <1>2, <1>3, <1>6 DEF UpGames, WatchedGames, Watched
<1>12. ShownGames'
  BY <1>1, <1>3 DEF UpGames, ShownGames
<1>13. LaunchUnwatched'
  BY <1>1, <1>3, <1>4, <1>5 DEF UpGames, LaunchUnwatched
<1>14. LiveGames'
  <2>1. \A h \in Games \ {g} : processes[game[h].inst] = h => game[h].inst # i
    BY <1>1
  <2>2. ASSUME NEW h \in Games \ {g}, processes[game[h].inst] = h
        PROVE  processes'[game[h].inst] = h
    <3>1. processes' = [processes EXCEPT ![i] = None]
      BY DEF WatcherRemoves
    <3> QED
      BY <2>1, <2>2, <3>1 DEF IInv, TypeOK
  <2> QED
    BY <1>1, <1>3, <1>4, <2>2 DEF UpGames, LiveGames
<1> QED
  BY <1>8, <1>9, <1>10, <1>11, <1>12, <1>13, <1>14 DEF UpGames

(* What the window is told of it is the last it is told of that game.      *)
LEMMA ReportGames ==
    ASSUME IInv, phase = "up", UpGames, NEW g \in Games, WatcherReports(g)
    PROVE  UpGames'
<1> USE RegistryAssumption
<1> DEFINE i == game[g].inst
<1>1. /\ game[g].watch = "removed" /\ i \in Instances
      /\ UNCHANGED <<processes, job, perm>>
  BY DEF WatcherReports, registry, disk, UpGames, WatchedGames
<1>2. /\ shown'[i] = "stopped" /\ \A k \in Instances \ {i} : shown'[k] = shown[k]
  BY <1>1 DEF WatcherReports, IInv, TypeOK
<1>3. /\ game'[g].watch = "none" /\ game'[g].inst = None /\ game'[g].os = "none"
      /\ \A h \in Games \ {g} : game'[h] = game[h]
  BY <1>1 DEF WatcherReports, NoChild, IInv, TypeOK
<1>4. \A k \in Jobs : (HasChild(k)' <=> HasChild(k)) /\ (Launching(k)' <=> Launching(k))
  BY <1>1 DEF HasChild, Launching
<1>5. \A k \in Instances : processes[k] # g
  BY <1>1 DEF UpGames, RegisteredGames
<1>6. \A h \in Games \ {g} : game[h].watch # "none" => game[h].inst # i
  BY <1>1 DEF UpGames, WatchedGames
<1>7. \A k \in Jobs : HasChild(k) => job[k].child # g
  BY <1>1 DEF UpGames, LaunchedGames
<1>8. RegisteredGames'
  BY <1>1, <1>3, <1>5, LaunchFacts DEF UpGames, RegisteredGames
<1>9. LaunchedGames'
  BY <1>1, <1>3, <1>4, <1>7, LaunchFacts DEF UpGames, LaunchedGames
<1>10. OwnChild'
  BY <1>1, <1>4 DEF UpGames, OwnChild
<1>11. WatchedGames'
  BY <1>1, <1>2, <1>3, <1>6 DEF UpGames, WatchedGames, Watched
<1>12. ShownGames'
  BY <1>1, <1>2, <1>3 DEF UpGames, ShownGames
<1>13. LaunchUnwatched'
  BY <1>1, <1>3, <1>4 DEF UpGames, LaunchUnwatched
<1>14. LiveGames'
  BY <1>1, <1>3, <1>4 DEF UpGames, LiveGames
<1> QED
  BY <1>8, <1>9, <1>10, <1>11, <1>12, <1>13, <1>14 DEF UpGames

(* Every step preserves what is promised of games while the launcher is up. *)
LEMMA NextGames == IInv /\ DiskInv /\ GamesInv /\ [Next]_vars => GamesInv'
<1> SUFFICES ASSUME IInv, DiskInv, GamesInv, [Next]_vars PROVE GamesInv'
  OBVIOUS
<1>1. CASE Restart
  <2>1. /\ \A i \in Instances : processes'[i] = None /\ shown'[i] = "stopped"
        /\ \A j \in Jobs : job'[j] = Idle
    BY <1>1 DEF Restart
  <2>2. \A g \in Games : game'[g].watch = "none" /\ (ChildrenDie => game'[g].os = "none")
    <3> SUFFICES ASSUME NEW g \in Games
                 PROVE  game'[g].watch = "none" /\ (ChildrenDie => game'[g].os = "none")
      OBVIOUS
    <3>1. CASE game[g].os = "alive" /\ ~ChildrenDie
      <4>1. game[g] \in Children
        BY DEF IInv, TypeOK
      <4>2. game'[g] = [game[g] EXCEPT !.watch = "none"]
        BY <1>1, <3>1 DEF Restart
      <4> QED
        BY <3>1, <4>1, <4>2 DEF Children
    <3>2. CASE ~(game[g].os = "alive" /\ ~ChildrenDie)
      <4>1. game'[g] = NoChild
        BY <1>1, <3>2 DEF Restart
      <4> QED
        BY <4>1 DEF NoChild
    <3> QED
      BY <3>1, <3>2
  <2>3. UpGames'
    <3>1. \A j \in Jobs : ~HasChild(j)' /\ ~Launching(j)'
      BY <2>1 DEF HasChild, Launching, Idle
    <3> QED
      BY <2>1, <2>2, <3>1 DEF UpGames, RegisteredGames, LaunchedGames, OwnChild, WatchedGames,
         Watched, ShownGames, LaunchUnwatched, LiveGames
  <2> QED
    BY <2>3 DEF GamesInv
<1>2. CASE TerminateAll
  BY <1>2 DEF TerminateAll, GamesInv
<1>3. CASE phase # "up" /\ UNCHANGED phase
  BY <1>3 DEF GamesInv
<1>4. ASSUME NEW j \in Jobs, Request(j) \/ Work(j) PROVE GamesInv'
  <2>1. UNCHANGED phase
    BY <1>4 DEF Request, Work, ReserveInstance, ReserveShared, StopLookup, ReserveDestination,
         DropGuard, Fail, Begin, FinishElsewhere, RewriteManifest, SavePermissions, DeleteFiles,
         CreateInstance, Publish, PublishCopy, PublishAs, Spawn, InsertProcess, Announce,
         StopKill, exit
  <2>2. CASE phase = "up"
    <3>1. UpGames
      BY <2>2 DEF GamesInv
    <3>2. UpGames'
      BY <1>4, <2>1, <2>2, <3>1, ReserveGames, CommandGames, SpawnGames, InsertGames,
         AnnounceGames DEF Work
    <3> QED
      BY <3>2 DEF GamesInv
  <2> QED
    BY <1>3, <2>1, <2>2
<1>5. ASSUME NEW g \in Games,
             \/ GameEnds(g, "alive") \/ GameEnds(g, "dying") \/ WatcherGivesUp(g)
             \/ Watcher(g) \/ TerminateKill(g)
      PROVE  GamesInv'
  <2>1. UNCHANGED phase
    BY <1>5 DEF GameEnds, WatcherGivesUp, Watcher, WatcherRemoves, WatcherReports,
                TerminateKill, exit
  <2>2. CASE phase = "up"
    <3>1. UpGames
      BY <2>2 DEF GamesInv
    <3>2. UpGames'
      BY <1>5, <2>2, <3>1, EndingGames, RemoveGames, ReportGames DEF Watcher
    <3> QED
      BY <3>2 DEF GamesInv
  <2> QED
    BY <1>3, <2>1, <2>2
<1>6. CASE TerminateWait \/ UNCHANGED vars
  <2>1. UNCHANGED <<phase, processes, shown, perm, job, game>>
    BY <1>6 DEF TerminateWait, vars, registry, exit, disk
  <2>2. CASE phase = "up"
    <3>1. \A k \in Jobs : (HasChild(k)' <=> HasChild(k)) /\ (Launching(k)' <=> Launching(k))
      BY <2>1 DEF HasChild, Launching
    <3>2. UpGames'
      BY <2>1, <2>2, <3>1, QuietGames DEF GamesInv
    <3> QED
      BY <3>2 DEF GamesInv
  <2> QED
    BY <1>3, <2>1, <2>2
<1> QED
  BY <1>1, <1>2, <1>4, <1>5, <1>6 DEF Next, Shutdown, Exit, Crash

(* What is known of games holds in every reachable state.                  *)
LEMMA GamesAlways == Spec => [](IInv /\ DiskInv /\ GamesInv)
<1>1. Init => DiskInv /\ GamesInv
  <2>1. Init => DiskInv
    BY DEF Init, Idle, DiskInv, SnapshotsCurrent, SavedPermissionsSurvive
  <2>2. Init => UpGames
    <3>1. Init => /\ \A i \in Instances : processes[i] = None /\ shown[i] = "stopped"
                  /\ \A j \in Jobs : job[j] = Idle
                  /\ \A g \in Games : game[g].watch = "none" /\ game[g].os = "none"
      BY DEF Init, NoChild
    <3>2. Init => \A j \in Jobs : ~HasChild(j) /\ ~Launching(j)
      BY <3>1 DEF HasChild, Launching, Idle
    <3> QED
      BY <3>1, <3>2 DEF UpGames, RegisteredGames, LaunchedGames, OwnChild, WatchedGames,
         Watched, ShownGames, LaunchUnwatched, LiveGames
  <2> QED
    BY <2>1, <2>2 DEF GamesInv
<1> QED
  BY <1>1, NextDisk, NextGames, Invariance, PTL DEF Spec

(* A registered game runs under the permissions its manifest has on disk.  *)
THEOREM PermissionsAlwaysInForce == Spec => []PermissionsInForce
<1>1. GamesInv => PermissionsInForce
  BY DEF GamesInv, UpGames, RegisteredGames, PermissionsInForce
<1> QED
  BY <1>1, GamesAlways, PTL

(* Where a child dies with the launcher that has started it, no live game  *)
(* is out of the launcher's reach.                                         *)
THEOREM LiveGamesTracked == Spec => [](ChildrenDie => LiveGameTracked)
<1>1. IInv /\ GamesInv => (ChildrenDie => LiveGameTracked)
  BY DEF GamesInv, UpGames, LiveGames, LiveGameTracked, HasChild, IInv, JobsWellFormed,
         WellFormed
<1> QED
  BY <1>1, GamesAlways, PTL

(* The window is told of the games of an instance in the order in which    *)
(* they run.                                                               *)
THEOREM StatusAlwaysInOrder == Spec => []StatusEventsInOrder
<1>1. GamesInv => StatusEventsInOrder
  BY DEF GamesInv, UpGames, WatchedGames, ShownGames, StatusEventsInOrder
<1> QED
  BY <1>1, GamesAlways, PTL
=============================================================================
