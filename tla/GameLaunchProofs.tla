--------------------------- MODULE GameLaunchProofs ---------------------------
(***************************************************************************)
(* Proofs about GameLaunch: whichever step of a launch fails, and however  *)
(* the game and its process object end, on all three systems.              *)
(***************************************************************************)
EXTENDS GameLaunch, TLAPS

Prepared == {"files", "natives", "arguments", "channel", "grants", "spawn", "inspect", "adopt", "cursor"}
Owned == {"owned", "kill", "wait", "release"}

(* Who owns what, by the place of the launch.                              *)
Ownership ==
    /\ at \in {"idle", "layout"} =>
          owner["drive"] = "nobody" /\ owner["dir"] \in {"nobody", "disk"} /\ owner["channel"] = "nobody"
    /\ at \in Prepared =>
          /\ owner["drive"] = IF launchOS = "windows" THEN "layout" ELSE "nobody"
          /\ owner["dir"] = IF launchOS = "windows" THEN "disk" ELSE "layout"
          /\ owner["cursor"] = "nobody"
    /\ at \in Owned =>
          /\ owner["channel"] \in {"nobody", "child"}
          /\ owner["dir"] = "child" \/ (launchOS = "windows" /\ owner["dir"] = "disk")
          /\ launchOS = "windows" => owner["drive"] \in {"child", "layout"}
          /\ launchOS # "windows" => owner["drive"] = "nobody"
          /\ owner["cursor"] \in {"nobody", "child"}
    /\ at = "unwind" =>
          /\ owner["channel"] \in {"nobody", "call"} /\ owner["drive"] \in {"nobody", "layout"}
          /\ owner["dir"] \in {"nobody", "layout", "disk"}
    /\ at \in {"unwind", "idle"} => owner["cursor"] \in {"nobody", "reader"}
    /\ at = "layout" => owner["cursor"] = "nobody"
    /\ owner["cursor"] = "reader" => reader

(* What lives, by the place of the launch.                                 *)
Living ==
    /\ at \in Preparing => proc = "none" /\ kids = "none" /\ ~reader /\ ~asked
    /\ at = "inspect" => launchOS = "windows" /\ proc = "suspended" /\ kids = "none" /\ ~asked
    /\ at \in {"adopt", "cursor"} => launchOS = "windows" /\ proc \in {"running", "dead"} /\ ~asked
    /\ at \in {"owned", "kill"} => proc \in {"running", "dying", "dead"}
    /\ at = "wait" => proc \in {"dying", "dead"}
    /\ at = "release" => proc = "dead"
    /\ at \in {"unwind", "idle"} => proc \in {"none", "dead"}
    /\ at \in {"wait", "release", "unwind", "idle"} /\ kids = "running" => launchOS = "macos"
    /\ launchOS = "linux" /\ proc = "dead" => kids # "running"
    /\ proc = "dying" => asked
    /\ parent = IF launchOS = "linux" /\ at \in Owned THEN "own" ELSE "none"

(* Who plays is settled once, and the channel follows it.                  *)
Settled == [player |-> Player(request), token |-> PassesToken(request)]

Identity ==
    /\ given \in {Nothing, Settled}
    /\ at # "idle" => Accepted(request)
    /\ at \in {"idle", "layout", "files", "natives", "arguments"} =>
          given = Nothing /\ owner["channel"] = "nobody"
    /\ at \in {"channel", "grants", "spawn", "inspect", "adopt", "cursor"} \cup Owned => given = Settled
    /\ at = "channel" => WantsBroker(request) /\ owner["channel"] = "nobody"
    /\ at = "grants" /\ launchOS = "macos" => owner["channel"] = "nobody"
    /\ (at = "grants" /\ launchOS # "macos") \/ at \in {"spawn", "inspect", "adopt"} =>
          owner["channel"] = IF WantsBroker(request) THEN "call" ELSE "nobody"
    /\ at \in {"cursor", "owned", "kill"} /\ proc = "running" /\ ~asked =>
          owner["channel"] = IF WantsBroker(request) THEN "child" ELSE "nobody"
    /\ at = "cursor" => owner["channel"] \in {"nobody", "child"}

LInv == LaunchTypeOK /\ Ownership /\ Living /\ Identity

-----------------------------------------------------------------------------
(* The placeholder token is passed exactly when a broker is wanted.        *)
LEMMA TokenIsBroker ==
    ASSUME NEW r \in Requests
    PROVE  PassesToken(r) <=> WantsBroker(r)
  BY DEF PassesToken, WantsBroker, Demo, Player, Requests

(* Who plays has its type, and uses an account only in its mode.           *)
LEMMA SettledType ==
    ASSUME NEW r \in Requests
    PROVE  /\ Player(r) \in {"none", "offline", "named", "leased"} /\ PassesToken(r) \in BOOLEAN
           /\ Player(r) \in {"named", "leased"} => UsesAccount(r)
  BY DEF Player, PassesToken, Requests, Demo, UsesAccount

(* A request that has just arrived satisfies the invariant.                *)
LEMMA InitLInv == LaunchInit => LInv
<1> SUFFICES ASSUME LaunchInit PROVE LInv
  OBVIOUS
<1>1. LaunchTypeOK
  <2>1. given \in [player : {"none", "offline", "named", "leased"}, token : BOOLEAN]
    BY DEF LaunchInit, Nothing
  <2>2. owner \in [Resources -> {"nobody", "call", "layout", "child", "reader", "disk"}]
    BY DEF LaunchInit
  <2> QED
    BY <2>1, <2>2 DEF LaunchInit, LaunchTypeOK
<1>2. \A r \in Resources : owner[r] = "nobody"
  BY DEF LaunchInit
<1>3. /\ owner["dir"] = "nobody" /\ owner["drive"] = "nobody"
      /\ owner["channel"] = "nobody" /\ owner["cursor"] = "nobody"
  BY <1>2 DEF Resources
<1>4. Ownership
  BY <1>3 DEF LaunchInit, Ownership, Prepared, Owned
<1>5. Living
  BY DEF LaunchInit, Living, Preparing, Owned
<1>6. Identity
  BY <1>3 DEF LaunchInit, Identity, Owned
<1> QED
  BY <1>1, <1>4, <1>5, <1>6 DEF LInv

-----------------------------------------------------------------------------
(* The launching thread, up to a process.                                  *)
LEMMA ResolveStep ==
    ASSUME LInv, NEW r \in Requests, Resolve(r)
    PROVE  LInv'
  BY DEF Resolve, LInv, LaunchTypeOK, Ownership, Living, Identity, Prepared, Owned, Preparing

(* The directory of a launch is made, with a drive letter on Windows.      *)
LEMMA LayoutStep ==
    ASSUME LInv, WindowsLayout \/ UnixLayout
    PROVE  LInv'
<1> USE DEF GameVars
<1>1. owner \in [Resources -> {"nobody", "call", "layout", "child", "reader", "disk"}]
  BY DEF LInv, LaunchTypeOK
<1>2. CASE WindowsLayout
  <2>1. /\ owner'["drive"] = "layout" /\ owner'["dir"] = "disk"
        /\ owner'["channel"] = owner["channel"] /\ owner'["cursor"] = owner["cursor"]
        /\ owner' \in [Resources -> {"nobody", "call", "layout", "child", "reader", "disk"}]
    BY <1>1, <1>2 DEF WindowsLayout, Resources
  <2> QED
    BY <1>2, <2>1 DEF WindowsLayout, LInv, LaunchTypeOK, Ownership, Living, Identity, Prepared, Owned,
        Preparing
<1>3. CASE UnixLayout
  <2>1. /\ owner'["drive"] = owner["drive"] /\ owner'["dir"] \in {"layout", "disk"}
        /\ at' = "files" => owner'["dir"] = "layout"
        /\ owner'["channel"] = owner["channel"] /\ owner'["cursor"] = owner["cursor"]
        /\ owner' \in [Resources -> {"nobody", "call", "layout", "child", "reader", "disk"}]
    BY <1>1, <1>3 DEF UnixLayout, Resources
  <2> QED
    BY <1>3, <2>1 DEF UnixLayout, LInv, LaunchTypeOK, Ownership, Living, Identity, Prepared, Owned,
        Preparing
<1> QED
  BY <1>2, <1>3

(* Files, native libraries and the confinement are prepared, or fail.      *)
LEMMA PrepareStep ==
    ASSUME LInv, PrepareFiles \/ ExtractNatives \/ ConfineWindows \/ ConfineLinux \/ ConfineMac
    PROVE  LInv'
<1> USE DEF Goes, GameVars, LInv, LaunchTypeOK, Ownership, Living, Identity, Prepared, Owned, Preparing,
        Settled
<1>1. CASE PrepareFiles
  BY <1>1 DEF PrepareFiles
<1>2. CASE ExtractNatives
  BY <1>2 DEF ExtractNatives
<1>3. CASE ConfineWindows
  BY <1>3 DEF ConfineWindows
<1>4. CASE ConfineLinux
  BY <1>4 DEF ConfineLinux
<1>5. CASE ConfineMac
  BY <1>5 DEF ConfineMac
<1> QED
  BY <1>1, <1>2, <1>3, <1>4, <1>5

(* The arguments are settled: who plays and with which token.              *)
LEMMA ArgumentsStep ==
    ASSUME LInv, BuildArguments
    PROVE  LInv'
<1>1. given' = Settled /\ Settled' = Settled /\ at' = AfterArguments /\ at = "arguments"
      /\ UNCHANGED <<launchOS, request, owner, proc, kids, parent, reader, asked>>
  BY DEF BuildArguments, Goes, GameVars, Settled
<1>2. given' \in [player : {"none", "offline", "named", "leased"}, token : BOOLEAN]
  BY <1>1, SettledType DEF Settled, LInv, LaunchTypeOK
<1> QED
  BY <1>1, <1>2 DEF AfterArguments, LInv, LaunchTypeOK, Ownership, Living, Identity, Prepared, Owned,
      Preparing

(* The channel of the broker is opened.                                    *)
LEMMA ChannelStep ==
    ASSUME LInv, OpenChannel
    PROVE  LInv'
<1>1. /\ owner'["drive"] = owner["drive"] /\ owner'["dir"] = owner["dir"]
      /\ owner'["channel"] = "call" /\ owner'["cursor"] = owner["cursor"]
      /\ owner' \in [Resources -> {"nobody", "call", "layout", "child", "reader", "disk"}]
  BY DEF OpenChannel, Resources, LInv, LaunchTypeOK
<1> QED
  BY <1>1 DEF OpenChannel, GameVars, LInv, LaunchTypeOK, Ownership, Living, Identity, Prepared, Owned,
      Preparing, Settled

(* A process: suspended on Windows, running elsewhere.                     *)
LEMMA SpawnStep ==
    ASSUME LInv, SpawnWindows \/ SpawnUnix
    PROVE  LInv'
<1>1. CASE SpawnWindows
  BY <1>1 DEF SpawnWindows, LInv, LaunchTypeOK, Ownership, Living, Identity, Prepared, Owned,
      Preparing, Settled
<1>2. CASE SpawnUnix
  <2>1. owner \in [Resources -> {"nobody", "call", "layout", "child", "reader", "disk"}]
    BY DEF LInv, LaunchTypeOK
  <2>2. /\ owner' \in [Resources -> {"nobody", "call", "layout", "child", "reader", "disk"}]
        /\ \A r \in Resources : owner'[r] = IF owner[r] = "nobody" THEN "nobody" ELSE "child"
    BY <1>2, <2>1 DEF SpawnUnix
  <2>3. /\ owner["dir"] = "layout" /\ owner["drive"] = "nobody" /\ owner["cursor"] = "nobody"
        /\ owner["channel"] = IF WantsBroker(request) THEN "call" ELSE "nobody"
    BY <1>2 DEF SpawnUnix, LInv, Ownership, Identity, Prepared
  <2>4. /\ owner'["dir"] = "child" /\ owner'["drive"] = "nobody" /\ owner'["cursor"] = "nobody"
        /\ owner'["channel"] = IF WantsBroker(request) THEN "child" ELSE "nobody"
    BY <2>2, <2>3 DEF Resources
  <2> QED
    BY <1>2, <2>2, <2>4 DEF SpawnUnix, SpawningThread, LInv, LaunchTypeOK, Ownership, Living, Identity,
        Prepared, Owned, Preparing, Settled
<1> QED
  BY <1>1, <1>2

(* On Windows, from the suspended process to its object.                   *)
LEMMA InspectStep ==
    ASSUME LInv, InspectFails \/ Inspect \/ Adopt \/ Retain
    PROVE  LInv'
<1> USE DEF GameVars
<1>1. owner \in [Resources -> {"nobody", "call", "layout", "child", "reader", "disk"}]
  BY DEF LInv, LaunchTypeOK
<1>2. CASE InspectFails
  BY <1>2 DEF InspectFails, LInv, LaunchTypeOK, Ownership, Living, Identity, Prepared, Owned,
      Preparing, Settled
<1>3. CASE Inspect
  BY <1>3 DEF Inspect, LInv, LaunchTypeOK, Ownership, Living, Identity, Prepared, Owned,
      Preparing, Settled
<1>4. CASE Adopt
  <2>1. /\ owner'["drive"] = owner["drive"] /\ owner'["dir"] = owner["dir"]
        /\ owner'["channel"] = IF owner["channel"] = "call" THEN "child" ELSE owner["channel"]
        /\ owner'["cursor"] = owner["cursor"]
        /\ owner' \in [Resources -> {"nobody", "call", "layout", "child", "reader", "disk"}]
    BY <1>1, <1>4 DEF Adopt, Resources
  <2> QED
    BY <1>4, <2>1 DEF Adopt, LInv, LaunchTypeOK, Ownership, Living, Identity, Prepared, Owned,
        Preparing, Settled
<1>5. CASE Retain
  <2>1. /\ owner'["drive"] = "child" /\ owner'["dir"] = "child" /\ owner'["cursor"] = "child"
        /\ owner'["channel"] = owner["channel"]
        /\ owner' \in [Resources -> {"nobody", "call", "layout", "child", "reader", "disk"}]
    BY <1>1, <1>5 DEF Retain, Resources
  <2> QED
    BY <1>5, <2>1 DEF Retain, LInv, LaunchTypeOK, Ownership, Living, Identity, Prepared, Owned,
        Preparing, Settled
<1> QED
  BY <1>2, <1>3, <1>4, <1>5

-----------------------------------------------------------------------------
(* A call that returns without a game, or drops the one it has.            *)
LEMMA RefuseStep ==
    ASSUME LInv, Refuse \/ Abandon
    PROVE  LInv'
<1> USE DEF GameVars, LInv, LaunchTypeOK, Ownership, Living, Identity, Prepared, Owned, Preparing, Settled
<1>1. CASE Refuse
  BY <1>1 DEF Refuse
<1>2. CASE Abandon
  BY <1>2 DEF Abandon
<1> QED
  BY <1>1, <1>2

(* A launch that failed gives back what it still owns.                     *)
LEMMA UnwindStep ==
    ASSUME LInv, Unwind
    PROVE  LInv'
<1>1. owner \in [Resources -> {"nobody", "call", "layout", "child", "reader", "disk"}]
  BY DEF LInv, LaunchTypeOK
<1>2. /\ owner' \in [Resources -> {"nobody", "call", "layout", "child", "reader", "disk"}]
      /\ \A r \in Resources :
            owner'[r] = IF owner[r] \in {"call", "layout"} THEN "nobody" ELSE owner[r]
  BY <1>1 DEF Unwind
<1>3. /\ owner["channel"] \in {"nobody", "call"} /\ owner["drive"] \in {"nobody", "layout"}
      /\ owner["dir"] \in {"nobody", "layout", "disk"} /\ owner["cursor"] \in {"nobody", "reader"}
  BY DEF Unwind, LInv, Ownership
<1>4. /\ owner'["channel"] = "nobody" /\ owner'["drive"] = "nobody"
      /\ owner'["dir"] \in {"nobody", "disk"} /\ owner'["cursor"] = owner["cursor"]
  BY <1>2, <1>3 DEF Resources
<1>5. given' \in [player : {"none", "offline", "named", "leased"}, token : BOOLEAN] /\ given' = Nothing
  BY DEF Unwind, Nothing
<1> QED
  BY <1>2, <1>3, <1>4, <1>5 DEF Unwind, GameVars, LInv, LaunchTypeOK, Ownership, Living, Identity, Prepared,
      Owned, Preparing

-----------------------------------------------------------------------------
(* The process object.                                                     *)

(* What a kill does to the resources: at most the channel goes.            *)
LEMMA KillKeeps ==
    ASSUME LInv, Kill
    PROVE  /\ owner' \in [Resources -> {"nobody", "call", "layout", "child", "reader", "disk"}]
           /\ owner'["channel"] \in {"nobody", owner["channel"]}
           /\ owner'["dir"] = owner["dir"] /\ owner'["drive"] = owner["drive"]
           /\ owner'["cursor"] = owner["cursor"]
<1>1. owner \in [Resources -> {"nobody", "call", "layout", "child", "reader", "disk"}]
  BY DEF LInv, LaunchTypeOK
<1> QED
  BY <1>1 DEF Kill, Resources

(* The game is killed by a stop or by the drop of its object.              *)
LEMMA StopStep ==
    ASSUME LInv, Stop \/ DropKill
    PROVE  LInv'
<1>1. CASE Stop
  <2>1. Kill
    BY <1>1 DEF Stop
  <2> QED
    BY <1>1, <2>1, KillKeeps DEF Stop, Kill, Unix, LInv, LaunchTypeOK, Ownership, Living, Identity,
        Prepared, Owned, Preparing, Settled
<1>2. CASE DropKill
  <2>1. Kill
    BY <1>2 DEF DropKill
  <2> QED
    BY <1>2, <2>1, KillKeeps DEF DropKill, AfterKill, Kill, Unix, LInv, LaunchTypeOK, Ownership, Living,
        Identity, Prepared, Owned, Preparing, Settled
<1> QED
  BY <1>1, <1>2

(* The object of the game is let go, or waits for it to end.               *)
LEMMA DropStep ==
    ASSUME LInv, Release \/ DropWait
    PROVE  LInv'
<1> USE DEF GameVars, LInv, LaunchTypeOK, Ownership, Living, Identity, Prepared, Owned, Preparing, Settled
<1>1. CASE Release
  BY <1>1 DEF Release
<1>2. CASE DropWait
  BY <1>2 DEF DropWait
<1> QED
  BY <1>1, <1>2

(* The drop gives back what the object owns.                               *)
LEMMA ReleaseStep ==
    ASSUME LInv, DropRelease
    PROVE  LInv'
<1>1. owner \in [Resources -> {"nobody", "call", "layout", "child", "reader", "disk"}]
  BY DEF LInv, LaunchTypeOK
<1>2. /\ owner' \in [Resources -> {"nobody", "call", "layout", "child", "reader", "disk"}]
      /\ \A r \in Resources :
            owner'[r] = IF owner[r] # "child" THEN owner[r]
                        ELSE IF r = "cursor" /\ reader THEN "reader" ELSE "nobody"
  BY <1>1 DEF DropRelease
<1>3. /\ owner["channel"] \in {"nobody", "child"} /\ owner["cursor"] \in {"nobody", "child"}
      /\ owner["dir"] \in {"child", "disk"} /\ owner["drive"] \in {"nobody", "child", "layout"}
  BY DEF DropRelease, LInv, Ownership, Owned, LaunchTypeOK
<1>4. /\ owner'["channel"] = "nobody" /\ owner'["drive"] \in {"nobody", "layout"}
      /\ owner'["dir"] \in {"nobody", "disk"} /\ owner'["cursor"] \in {"nobody", "reader"}
      /\ owner'["cursor"] = "reader" => reader
  BY <1>2, <1>3 DEF Resources
<1> QED
  BY <1>2, <1>4 DEF DropRelease, LInv, LaunchTypeOK, Ownership, Living, Identity, Prepared, Owned,
      Preparing, Settled

-----------------------------------------------------------------------------
(* The game, the kernel and the threads.                                   *)
LEMMA GameStep ==
    ASSUME LInv, KidStarts \/ GameEndsItself \/ KidsEnd \/ PoolThreadRetires
    PROVE  LInv'
<1> USE DEF Around, LInv, LaunchTypeOK, Ownership, Living, Identity, Prepared, Owned, Preparing, Settled
<1>1. CASE KidStarts
  BY <1>1 DEF KidStarts
<1>2. CASE GameEndsItself
  BY <1>2 DEF GameEndsItself
<1>3. CASE KidsEnd
  BY <1>3 DEF KidsEnd
<1>4. CASE PoolThreadRetires
  BY <1>4 DEF PoolThreadRetires
<1> QED
  BY <1>1, <1>2, <1>3, <1>4

(* The system takes the dead game, and the readers of its output end.      *)
LEMMA ReapStep ==
    ASSUME LInv, UnixReap \/ ReaderEnds
    PROVE  LInv'
<1> USE DEF Around, GameVars
<1>1. owner \in [Resources -> {"nobody", "call", "layout", "child", "reader", "disk"}]
  BY DEF LInv, LaunchTypeOK
<1>2. CASE UnixReap
  <2>1. /\ owner' \in [Resources -> {"nobody", "call", "layout", "child", "reader", "disk"}]
        /\ owner'["channel"] = "nobody" /\ owner'["dir"] = owner["dir"]
        /\ owner'["drive"] = owner["drive"] /\ owner'["cursor"] = owner["cursor"]
    BY <1>1, <1>2 DEF UnixReap, Resources
  <2> QED
    BY <1>2, <2>1 DEF UnixReap, Unix, LInv, LaunchTypeOK, Ownership, Living, Identity, Prepared, Owned,
        Preparing, Settled
<1>3. CASE ReaderEnds
  <2>1. /\ owner' \in [Resources -> {"nobody", "call", "layout", "child", "reader", "disk"}]
        /\ owner'["cursor"] = IF owner["cursor"] = "reader" THEN "nobody" ELSE owner["cursor"]
        /\ owner'["channel"] = owner["channel"] /\ owner'["dir"] = owner["dir"]
        /\ owner'["drive"] = owner["drive"]
    BY <1>1, <1>3 DEF ReaderEnds, Resources
  <2>2. LaunchTypeOK'
    BY <1>3, <2>1 DEF ReaderEnds, LInv, LaunchTypeOK
  <2>3. Ownership'
    BY <1>3, <2>1 DEF ReaderEnds, LInv, LaunchTypeOK, Ownership, Prepared, Owned, Preparing
  <2>4. Living'
    BY <1>3, <2>1 DEF ReaderEnds, LInv, LaunchTypeOK, Living, Preparing, Owned
  <2>5. Identity'
    BY <1>3, <2>1 DEF ReaderEnds, LInv, LaunchTypeOK, Identity, Owned, Settled
  <2> QED
    BY <2>2, <2>3, <2>4, <2>5 DEF LInv
<1> QED
  BY <1>2, <1>3

-----------------------------------------------------------------------------
(* Every step of the launch, the game and the system preserves the         *)
(* invariant.                                                              *)
LEMMA NextLInv == LInv /\ [LaunchNext]_launchVars => LInv'
<1> SUFFICES ASSUME LInv, [LaunchNext]_launchVars PROVE LInv'
  OBVIOUS
<1>1. CASE UNCHANGED launchVars
  BY <1>1 DEF launchVars, LInv, LaunchTypeOK, Ownership, Living, Identity, Settled
<1>2. CASE LaunchNext
  BY <1>2, ResolveStep, LayoutStep, PrepareStep, ArgumentsStep, ChannelStep, SpawnStep, InspectStep,
      RefuseStep, UnwindStep, StopStep, DropStep, ReleaseStep, GameStep, ReapStep DEF LaunchNext
<1> QED
  BY <1>1, <1>2

(* Invariance: the strengthened invariant holds in every reachable state.  *)
THEOREM Invariance == LaunchSpec => []LInv
  BY InitLInv, NextLInv, PTL DEF LaunchSpec

(* What a game needs to run, its directory, its drive letter and the        *)
(* thread the kernel takes for its parent, stays until it is dead.          *)
THEOREM AlwaysHeld == LaunchSpec => []HeldWhileRunning
<1>1. LInv => HeldWhileRunning
  BY DEF LInv, LaunchTypeOK, Ownership, Living, HeldWhileRunning, Prepared, Owned, Preparing
<1> QED
  BY <1>1, Invariance, PTL

(* The placeholder token is given exactly to a game a broker answers for,  *)
(* and an account only in the mode it was meant for.                       *)
THEOREM TokenAlwaysMeansBroker == LaunchSpec => []TokenMeansBroker
<1>1. ASSUME LInv PROVE TokenMeansBroker
  <2>1. /\ request \in Requests
        /\ given \in {Nothing, Settled}
    BY <1>1 DEF LInv, LaunchTypeOK, Identity
  <2>2. given.player \in {"named", "leased"} => UsesAccount(request)
    BY <2>1, SettledType DEF Settled, Nothing
  <2>4. given.token => request.known
    <3>1. CASE at = "idle"
      BY <1>1, <3>1 DEF LInv, Identity, Nothing
    <3>2. CASE at # "idle"
      BY <1>1, <2>1, <3>2, TokenIsBroker DEF LInv, Identity, Accepted, Settled, Nothing
    <3> QED
      BY <3>1, <3>2
  <2>3. ASSUME proc = "running", ~asked
        PROVE  given.token <=> owner["channel"] # "nobody"
    <3>1. at \in {"adopt", "cursor", "owned", "kill"}
      BY <1>1, <2>3 DEF LInv, LaunchTypeOK, Living, Preparing
    <3>2. given = Settled
      BY <1>1, <3>1 DEF LInv, Identity, Owned
    <3>3. owner["channel"] # "nobody" <=> WantsBroker(request)
      BY <1>1, <2>3, <3>1 DEF LInv, Identity
    <3> QED
      BY <2>1, <3>2, <3>3, TokenIsBroker DEF Settled
  <2> QED
    BY <2>2, <2>3, <2>4 DEF TokenMeansBroker
<1> QED
  BY <1>1, Invariance, PTL

(* However a launch fails or ends, it leaves no broker, no drive letter     *)
(* and no process behind (but a macOS group without its leader).            *)
THEOREM NothingEverLeftBehind == LaunchSpec => []NothingLeftBehind
<1>1. LInv => NothingLeftBehind
  BY DEF LInv, LaunchTypeOK, Ownership, Living, Identity, NothingLeftBehind, Prepared, Owned, Preparing
<1> QED
  BY <1>1, Invariance, PTL
=============================================================================
