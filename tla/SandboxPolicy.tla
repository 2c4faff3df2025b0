---------------------------- MODULE SandboxPolicy ----------------------------
(* The permissions an instance is saved with, the changes the launcher      *)
(* accepts, and the sandbox policy they become on each platform             *)
(* (minecraft/permissions.rs, sandbox/mod.rs, sandbox/runtime_cache.rs,     *)
(* sandbox/seatbelt.rs).  A permission is a switch that is on or off;       *)
(* `protected` are the areas of the game directory whose write switch is    *)
(* off.  Free holds switches that no platform restricts.                    *)
EXTENDS Naturals, Sequences

CONSTANTS Areas, Free

Platforms == {"windows", "macos", "linux"}

Restricted == {"brokered", "audio", "microphone", "clipboard",
               "integration", "graphicsCache"}

Switches == Restricted \cup Free

Permissions == [on : SUBSET Switches, protected : SUBSET Areas]

Toggle(p, switch) ==
    [p EXCEPT !.on = IF switch \in @ THEN @ \ {switch} ELSE @ \cup {switch}]

-----------------------------------------------------------------------------
(* What may be saved.                                                       *)

\* The switches a platform can control one by one.
Support(platform) ==
    {"brokered"} \cup
    (CASE platform = "windows" -> {}
       [] platform = "macos"   -> {"audio", "microphone", "clipboard",
                                   "integration", "graphicsCache"}
       [] platform = "linux"   -> {"audio", "graphicsCache"})

\* Grants that are off unless asked for, and defaults that are on.
OptIns == {"brokered", "microphone", "clipboard"}
Defaults == {"audio", "integration", "graphicsCache"}

\* Faulty: the whole record is validated, not only what changes.
MaySaveWhole(platform, old, new) ==
    /\ OptIns \cap new.on \subseteq Support(platform)
    /\ Defaults \ new.on \subseteq Support(platform)
    /\ ~("microphone" \in new.on /\ "audio" \notin new.on)

\* Faulty: each switch is validated alone.
MaySaveUnpaired(platform, old, new) ==
    /\ OptIns \cap (new.on \ old.on) \subseteq Support(platform)
    /\ Defaults \cap (old.on \ new.on) \subseteq Support(platform)

\* An unsupported grant may be kept or given up, an unsupported restriction
\* kept or lifted; a microphone without audio may only be kept.
MaySave(platform, old, new) ==
    LET gained == new.on \ old.on
        lost   == old.on \ new.on
    IN  /\ OptIns \cap gained \subseteq Support(platform)
        /\ Defaults \cap lost \subseteq Support(platform)
        /\ "microphone" \in new.on /\ "audio" \notin new.on
             => "microphone" \in old.on /\ "audio" \notin old.on

-----------------------------------------------------------------------------
(* What a backend accepts.                                                  *)

Compiles(platform, p) ==
    /\ "integration" \in p.on \/ platform = "macos"
    /\ "graphicsCache" \in p.on \/ platform # "windows"
    /\ "microphone" \in p.on => "audio" \in p.on
    /\ platform = "windows" => "audio" \in p.on
    /\ platform = "macos" \/ {"microphone", "clipboard"} \cap p.on = {}

\* The switches that stand in the way of a launch, each to be toggled.
Wrong(platform, p) ==
    LET unsupported == Restricted \ Support(platform)
    IN  ((Defaults \cap unsupported) \ p.on)
        \cup (OptIns \cap unsupported \cap p.on)
        \cup {s \in {"microphone"} : s \in p.on /\ "audio" \notin p.on}

-----------------------------------------------------------------------------
(* What the policy grants.  A path carries the grants of the paths above    *)
(* it.  The runtime, the libraries, the assets and the version are one path *)
(* "shared": they are read-only in every policy.                            *)

Paths == {"shared", "game", "launch", "temp", "view", "skins", "graphics"} \cup Areas

Above(path) ==
    {path} \cup (CASE path \in Areas -> {"game"}
                   [] path = "temp"  -> {"launch"}
                   [] path = "skins" -> {"view"}
                   [] OTHER          -> {})

\* What a permission record says of each path, whatever the backend.
MayWrite(p, path) ==
    CASE path = "game"     -> "gameWrite" \in p.on
      [] path \in Areas    -> "gameWrite" \in p.on /\ path \notin p.protected
      [] path = "skins"    -> "skinCache" \in p.on
      [] path = "graphics" -> "graphicsCache" \in p.on
      [] OTHER             -> path = "temp"

Rule(path, write) == [path |-> path, write |-> write]

\* The requested files, the read-only areas and the caches, in the order the
\* backends are given them.  The rule that comes last decides: a later bind
\* covers an earlier one, a later Seatbelt rule overrides an earlier one.
Requested(p) ==
    << {Rule("shared", FALSE), Rule("game", "gameWrite" \in p.on),
        Rule("launch", FALSE)},
       {Rule("temp", TRUE)},
       {Rule(area, FALSE) : area \in p.protected},
       {Rule("view", FALSE)},
       {Rule("skins", "skinCache" \in p.on), Rule("graphics", "graphicsCache" \in p.on)} >>

\* Whether a game may write a path under rules that are applied in order.
GrantedFiles(rules, path) ==
    LET touching == {i \in DOMAIN rules : \E r \in rules[i] : r.path \in Above(path)}
        last     == CHOOSE i \in touching : \A j \in touching : j <= i
    IN  \E r \in rules[last] : r.path \in Above(path) /\ r.write
=============================================================================
