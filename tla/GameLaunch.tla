------------------------------ MODULE GameLaunch ------------------------------
(* One launch from its request to the end of the process object that owns   *)
(* the game: who it plays as, what it acquires on the way (a launch         *)
(* directory, a drive letter, a broker channel, a cursor worker, processes),*)
(* and what is given back whichever step fails and however the game ends    *)
(* (minecraft/launcher.rs and platform/{linux,macos,windows}).  A launch    *)
(* that is over may be followed by another.                                 *)
EXTENDS Naturals

VARIABLES
    launchOS,   \* "windows", "macos" or "linux"
    request,    \* what the user asked for, and the instance's manifest
    given,      \* the identity and the token on the game's command line
    at,         \* where the launching thread, then the owner, is
    owner,      \* who drops each resource: "nobody" when it does not exist
    proc,       \* the game's primary process
    kids,       \* the processes it started
    parent,     \* the thread the kernel takes for its parent
    reader,     \* whether the reader of its output holds the cursor worker
    asked       \* whether the game has been told to end

launchVars == <<launchOS, request, given, at, owner, proc, kids, parent, reader, asked>>

Resources == {"dir", "drive", "channel", "cursor"}

Requests == [mode : {"default", "offline", "demo"}, savedDemo : BOOLEAN,
             brokered : BOOLEAN, account : {"none", "named", "leased"},
             known : BOOLEAN]   \* one of the builds of the game a broker has an adapter for

Nothing == [player |-> "none", token |-> FALSE]

\* The steps of the call up to a process.
Preparing == {"layout", "files", "natives", "arguments", "channel", "grants", "spawn"}

LaunchTypeOK ==
    /\ launchOS \in {"windows", "macos", "linux"}
    /\ request \in Requests
    /\ given \in [player : {"none", "offline", "named", "leased"}, token : BOOLEAN]
    /\ at \in Preparing \cup {"idle", "inspect", "adopt", "cursor", "owned",
                           "kill", "wait", "release", "unwind"}
    /\ owner \in [Resources -> {"nobody", "call", "layout", "child", "reader", "disk"}]
    /\ proc \in {"none", "suspended", "running", "dying", "dead"}
    /\ kids \in {"none", "running", "dying"}
    /\ parent \in {"none", "caller", "own"}
    /\ reader \in BOOLEAN
    /\ asked \in BOOLEAN

-----------------------------------------------------------------------------
(* Who plays.                                                               *)

\* Only a launch in the mode the account was meant for uses it.
UsesAccount(r) == r.mode = "default" /\ ~r.savedDemo

Demo(r) == r.mode = "demo" \/ (r.mode = "default" /\ r.savedDemo)

\* Faulty: the account of the request is used whatever the mode.
PlayerAnyMode(r) == r.account

Player(r) == IF r.mode = "offline" THEN "offline"
             ELSE IF UsesAccount(r) THEN r.account ELSE "none"

\* A broker serves a launch that has the permission and a leased account.
WantsBroker(r) == r.brokered /\ ~Demo(r) /\ Player(r) = "leased"

\* A broker is refused to any other version, Java, loader or authlib, in the
\* metadata or on disk: the launch ends there.
Accepted(r) == WantsBroker(r) => r.known

\* The placeholder token is passed when the game is to ask a broker.
PassesToken(r) ==
    LET who == IF Demo(r) THEN "none" ELSE Player(r)
    IN  r.brokered /\ who = "leased"

-----------------------------------------------------------------------------
(* The launching thread.                                                    *)

LaunchInit ==
    /\ launchOS \in {"windows", "macos", "linux"}
    /\ request \in Requests
    /\ given = Nothing
    /\ at = "idle"
    /\ owner = [r \in Resources |-> "nobody"]
    /\ proc = "none"
    /\ kids = "none"
    /\ parent = "none"
    /\ reader = FALSE
    /\ asked = FALSE

GameVars == <<proc, kids, parent, reader, asked>>

\* The manifest, the version and the Java runtime are checked; the identity is
\* settled.  A launch refused here has acquired nothing.  The bound of the model
\* is one launch at a time: the next waits for what the last still had running.
Resolve(r) ==
    /\ at = "idle" /\ kids = "none" /\ ~reader
    /\ Accepted(r)
    /\ request' = r
    /\ at' = "layout"
    /\ proc' = "none"
    /\ asked' = FALSE
    /\ UNCHANGED <<launchOS, given, owner, kids, parent, reader>>

\* The launch directory: on Windows a new drive letter first, then every
\* earlier directory is removed, and the new one outlives the call.
WindowsLayout ==
    /\ at = "layout" /\ launchOS = "windows"
    /\ at' = "files"
    /\ owner' = [owner EXCEPT !["drive"] = "layout", !["dir"] = "disk"]
    /\ UNCHANGED <<launchOS, request, given, GameVars>>

\* Elsewhere one with a random name, which stays when its `tmp' cannot be made.
UnixLayout ==
    /\ at = "layout" /\ launchOS # "windows"
    /\ \/ at' = "files" /\ owner' = [owner EXCEPT !["dir"] = "layout"]
       \/ at' = "unwind" /\ owner' = [owner EXCEPT !["dir"] = "disk"]
    /\ UNCHANGED <<launchOS, request, given, GameVars>>

Goes(from, to) ==
    /\ at = from
    /\ at' = to
    /\ UNCHANGED <<launchOS, request, owner, GameVars>>

\* Class path and client, which have to be there (GameFiles).
PrepareFiles == Goes("files", "natives") /\ UNCHANGED given

\* Native libraries are unpacked into the launch directory.
ExtractNatives == Goes("natives", "arguments") /\ UNCHANGED given

\* What follows the arguments: macOS writes its policy before it opens a channel.
AfterArguments == IF WantsBroker(request) /\ launchOS # "macos" THEN "channel" ELSE "grants"

\* The agent that asks the broker is put into the directory; who plays, and the
\* placeholder of the token, go to the command line.
BuildArguments ==
    /\ Goes("arguments", AfterArguments)
    /\ given' = [player |-> Player(request), token |-> PassesToken(request)]

OpenChannel ==
    /\ at = "channel"
    /\ at' = IF launchOS = "macos" THEN "spawn" ELSE "grants"
    /\ owner' = [owner EXCEPT !["channel"] = "call"]
    /\ UNCHANGED <<launchOS, request, given, GameVars>>

\* The policy becomes access control lists,
ConfineWindows ==
    /\ launchOS = "windows"
    /\ Goes("grants", "spawn") /\ UNCHANGED given

\* mounts and a filter of system calls (SyscallFilter),
ConfineLinux ==
    /\ launchOS = "linux"
    /\ Goes("grants", "spawn") /\ UNCHANGED given

\* or a profile of the sandbox.
ConfineMac ==
    /\ launchOS = "macos"
    /\ Goes("grants", IF WantsBroker(request) THEN "channel" ELSE "spawn") /\ UNCHANGED given

\* Faulty: the calling thread of the blocking pool spawns the child.
SpawningThreadCaller == IF launchOS = "linux" THEN "caller" ELSE "none"

\* The kernel ends a Linux game with the thread that spawned it: a thread of
\* its own, kept for as long as the process object.
SpawningThread == IF launchOS = "linux" THEN "own" ELSE "none"

\* On Windows the process is suspended until it is inspected and in its job.
SpawnWindows ==
    /\ at = "spawn" /\ launchOS = "windows"
    /\ at' = "inspect"
    /\ proc' = "suspended"
    /\ UNCHANGED <<launchOS, request, given, owner, kids, parent, reader, asked>>

\* Elsewhere it runs, and from then on the process object owns the directory
\* and the channel.
SpawnUnix ==
    /\ at = "spawn" /\ launchOS # "windows"
    /\ at' = "owned"
    /\ proc' = "running"
    /\ parent' = SpawningThread
    /\ owner' = [r \in Resources |-> IF owner[r] = "nobody" THEN "nobody" ELSE "child"]
    /\ reader' = TRUE
    /\ UNCHANGED <<launchOS, request, given, kids, asked>>

\* Faulty: a suspended process that fails its inspection is left alone.
InspectFailsLeaving ==
    /\ at = "inspect"
    /\ at' = "unwind"
    /\ UNCHANGED <<launchOS, request, given, owner, GameVars>>

\* Token, job or resumption fail: the process that never ran is terminated.
InspectFails ==
    /\ at = "inspect"
    /\ at' = "unwind"
    /\ proc' = "dead"
    /\ asked' = TRUE
    /\ UNCHANGED <<launchOS, request, given, owner, kids, parent, reader>>

Inspect ==
    /\ at = "inspect"
    /\ at' = "adopt"
    /\ proc' = "running"
    /\ UNCHANGED <<launchOS, request, given, owner, kids, parent, reader, asked>>

\* The process object takes the channel; the cursor worker starts.
Adopt ==
    /\ at = "adopt"
    /\ at' = "cursor"
    /\ owner' = [owner EXCEPT !["channel"] = IF @ = "call" THEN "child" ELSE @]
    /\ UNCHANGED <<launchOS, request, given, GameVars>>

\* Then the cursor worker, the drive and the directory.
Retain ==
    /\ at = "cursor"
    /\ at' = "owned"
    /\ owner' = [owner EXCEPT !["cursor"] = "child", !["drive"] = "child", !["dir"] = "child"]
    /\ reader' = TRUE
    /\ UNCHANGED <<launchOS, request, given, proc, kids, parent, asked>>

\* A step fails before there is a process object: the call returns.
Refuse ==
    /\ at \in Preparing
    /\ at' = "unwind"
    /\ UNCHANGED <<launchOS, request, given, owner, GameVars>>

\* A step fails after: the process object is dropped first.
Abandon ==
    /\ at = "cursor"
    /\ at' = "kill"
    /\ UNCHANGED <<launchOS, request, given, owner, GameVars>>

\* The locals of the call are dropped, then the layout: the drive letter, and
\* the directory where the layout owns it.
Unwind ==
    /\ at = "unwind"
    /\ at' = "idle"
    /\ owner' = [r \in Resources |-> IF owner[r] \in {"call", "layout"} THEN "nobody" ELSE owner[r]]
    /\ given' = Nothing
    /\ UNCHANGED <<launchOS, request, GameVars>>

-----------------------------------------------------------------------------
(* The process object.                                                      *)

Unix == launchOS # "windows"

\* Stopping a game revokes its broker first on macOS and Linux.
Kill ==
    /\ asked' = TRUE
    /\ proc' = IF proc = "running" THEN "dying" ELSE proc
    /\ kids' = IF kids = "running" /\ (launchOS = "windows" \/ proc # "dead")
               THEN "dying" ELSE kids
    /\ owner' = IF Unix THEN [owner EXCEPT !["channel"] = "nobody"] ELSE owner

Stop ==
    /\ at = "owned"
    /\ Kill
    /\ UNCHANGED <<launchOS, request, given, at, parent, reader>>

\* The watcher sees the exit and lets the process object go; at the exit of
\* the launcher the object goes whatever the game does.
Release ==
    /\ at = "owned"
    /\ at' = "kill"
    /\ UNCHANGED <<launchOS, request, given, owner, GameVars>>

\* Faulty: the process object is taken apart without waiting.
AfterKillAtOnce == "release"

\* The object waits for the primary process it has killed.
AfterKill == IF proc = "dead" THEN "release" ELSE "wait"

DropKill ==
    /\ at = "kill"
    /\ Kill
    /\ at' = AfterKill
    /\ UNCHANGED <<launchOS, request, given, parent, reader>>

DropWait ==
    /\ at = "wait"
    /\ proc = "dead"
    /\ at' = "release"
    /\ UNCHANGED <<launchOS, request, given, owner, GameVars>>

\* Channel, cursor worker, drive and directory go, and on Linux the thread; a
\* cursor worker the reader still holds goes with the reader.
DropRelease ==
    /\ at = "release"
    /\ at' = "unwind"
    /\ owner' = [r \in Resources |->
                    IF owner[r] # "child" THEN owner[r]
                    ELSE IF r = "cursor" /\ reader THEN "reader" ELSE "nobody"]
    /\ parent' = "none"
    /\ UNCHANGED <<launchOS, request, given, proc, kids, reader, asked>>
-----------------------------------------------------------------------------
(* The game, the kernel and the threads around the process object.          *)

Around == <<launchOS, request, given, at>>

\* A process of a game that runs starts another.
KidStarts ==
    /\ proc = "running" /\ kids = "none"
    /\ kids' = "running"
    /\ UNCHANGED <<Around, owner, proc, parent, reader, asked>>

\* The game ends by itself, or the kill takes effect.  The end of the first
\* process of a PID namespace ends the others.
GameEndsItself ==
    /\ proc \in {"running", "dying"}
    /\ proc' = "dead"
    /\ kids' = IF launchOS = "linux" /\ kids = "running" THEN "dying" ELSE kids
    /\ UNCHANGED <<Around, owner, parent, reader, asked>>

KidsEnd ==
    /\ kids \in {"running", "dying"}
    /\ kids' = "none"
    /\ UNCHANGED <<Around, owner, proc, parent, reader, asked>>

\* The thread of the blocking pool that made the launch retires; the kernel
\* ends a game whose parent it was.
PoolThreadRetires ==
    /\ launchOS = "linux" /\ at = "owned"
    /\ proc' = IF parent = "caller" /\ proc = "running" THEN "dying" ELSE proc
    /\ parent' = IF parent = "caller" THEN "none" ELSE parent
    /\ UNCHANGED <<Around, owner, kids, reader, asked>>

\* The watcher polls: on macOS and Linux the exit revokes the broker at once.
UnixReap ==
    /\ Unix /\ at = "owned" /\ proc = "dead"
    /\ owner' = [owner EXCEPT !["channel"] = "nobody"]
    /\ UNCHANGED <<Around, GameVars>>

\* The output pipe closes with the last process that holds it.
ReaderEnds ==
    /\ reader /\ proc = "dead" /\ kids = "none"
    /\ reader' = FALSE
    /\ owner' = [owner EXCEPT !["cursor"] = IF @ = "reader" THEN "nobody" ELSE @]
    /\ UNCHANGED <<Around, proc, kids, parent, asked>>

LaunchNext ==
    \/ \E r \in Requests : Resolve(r)
    \/ WindowsLayout \/ UnixLayout \/ PrepareFiles \/ ExtractNatives \/ BuildArguments
    \/ OpenChannel \/ ConfineWindows \/ ConfineLinux \/ ConfineMac
    \/ SpawnWindows \/ SpawnUnix \/ InspectFails \/ Inspect \/ Adopt \/ Retain
    \/ Refuse \/ Abandon \/ Unwind
    \/ Stop \/ Release \/ DropKill \/ DropWait \/ DropRelease
    \/ KidStarts \/ GameEndsItself \/ KidsEnd \/ PoolThreadRetires
    \/ UnixReap \/ ReaderEnds

LaunchSpec == LaunchInit /\ [][LaunchNext]_launchVars

-----------------------------------------------------------------------------
(* Properties.                                                              *)

\* A running game nobody has stopped was given the placeholder token exactly
\* when a broker answers for it, only a build the broker knows gets it, and the
\* game plays under an account only in the mode that account was meant for.
TokenMeansBroker ==
    /\ (proc = "running" /\ ~asked) => (given.token <=> owner["channel"] # "nobody")
    /\ given.token => request.known
    /\ given.player \in {"named", "leased"} => UsesAccount(request)

\* Once a launch is over, however it failed or ended, no process of it runs (on
\* macOS a group that lost its leader is left to itself), and no broker, drive
\* letter or directory is left; a cursor worker is left only to a reader, and a
\* directory only to the next launch (Windows) or one made by halves (elsewhere).
NothingLeftBehind ==
    at = "idle" =>
        /\ proc \in {"none", "dead"}
        /\ kids = "running" => launchOS = "macos"
        /\ owner["channel"] = "nobody" /\ owner["drive"] = "nobody"
        /\ owner["cursor"] # "nobody" => reader
        /\ owner["dir"] \in {"nobody", "disk"}
        /\ parent = "none"

\* A game runs, and dies only when it was told to: its directory, its drive
\* letter and the thread the kernel takes for its parent stay until it is dead.
HeldWhileRunning ==
    proc \in {"running", "dying"} =>
        /\ owner["dir"] # "nobody"
        /\ launchOS = "windows" => owner["drive"] # "nobody"
        /\ launchOS = "linux" => parent # "none"
        /\ proc = "dying" => asked
=============================================================================
