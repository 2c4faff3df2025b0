---------------------------- MODULE SandboxGrants ----------------------------
(* Launches of one instance under permissions that change between them:     *)
(* what the user saves, what the sandbox of a launch then lets the game     *)
(* write.  On macOS and Linux every launch states its rules anew.  On       *)
(* Windows they are access control lists that stay on disk, set by a row of *)
(* icacls commands any of which may fail (sandbox_acl.rs).                  *)
(*                                                                          *)
(* An object of the instance's tree has                                     *)
(*   own     the package's explicit grant on it: "none", "RX" or "M"        *)
(*   sealed  whether it no longer inherits from the object above it         *)
(*   low     whether it carries a low integrity label of its own            *)
EXTENDS SandboxPolicy

CONSTANTS Items,        \* files and directories inside the areas
          AreaOf        \* the area each of them lies in

\* The fixed directories of an instance and the cache of textures.
Fixtures == {"instance", "game", "launch", "view", "skins", "graphics"}

ASSUME ObjectsAssumption ==
    /\ AreaOf \in [Items -> Areas]
    /\ Areas \cap Items = {}
    /\ (Areas \cup Items) \cap (Fixtures \cup {"shared", "temp"}) = {}

VARIABLES platform, saved, exists, own, sealed, low, todo, phase

aclVars == <<own, sealed, low>>
grantVars == <<platform, saved, exists, own, sealed, low, todo, phase>>

Objects == Fixtures \cup Areas \cup Items

Over(x) == CASE x \in Items -> AreaOf[x]
             [] x \in Areas -> "game"
             [] x = "skins" -> "view"
             [] OTHER       -> "instance"

Inside(x) == {y \in Items : AreaOf[y] = x}

GrantTypeOK ==
    /\ platform \in Platforms
    /\ saved \in Permissions
    /\ exists \subseteq Objects
    /\ own \in [Objects -> {"none", "RX", "M"}]
    /\ sealed \subseteq Objects
    /\ low \subseteq Objects
    /\ phase \in {"idle", "granting", "running"}

-----------------------------------------------------------------------------
(* Access control lists.                                                    *)

Stronger(g, h) == IF "M" \in {g, h} THEN "M" ELSE IF "RX" \in {g, h} THEN "RX" ELSE "none"

\* What the package may do with each object: its own grant and, unless the
\* object is sealed, what it inherits.
Access ==
    LET access[x \in Objects] ==
            IF x = "instance" \/ x \in sealed THEN own[x]
            ELSE Stronger(own[x], access[Over(x)])
    IN  access

\* An AppContainer writes only below a low label.
LowLabel ==
    LET label[x \in Objects] == x \in low \/ (x # "instance" /\ label[Over(x)])
    IN  label

Command(do, at, as) == [do |-> do, at |-> at, as |-> as]

\* icacls /grant:r: the package's own grant on one object is replaced.
Grant(at, write) == Command("grant", at, IF write THEN "M" ELSE "RX")

\* What is inherited is copied and the inheritance ends; then the package's
\* grants in the tree go and one grant is set throughout it.
Replace(at, write) == Command("seal", at, IF write THEN "M" ELSE "RX")

\* The command that completes another one.
Completion(c) ==
    CASE c.do = "grant" /\ c.as = "M" -> <<{Command("label", c.at, c.as)}>>
      [] c.do = "seal"                -> <<{Command("strip", c.at, c.as)}>>
      [] c.do = "strip"               -> <<{Command("set", c.at, c.as)}>>
      [] c.do = "set" /\ c.at = "launch" -> <<{Command("label", c.at, c.as)}>>
      [] OTHER                        -> <<>>

\* Faulty: an area goes by its own switch alone.
AreaBySwitch(p, area) == area \notin p.protected

\* An area is writable when the game directory is and its own switch says so.
AreaWritable(p, area) == "gameWrite" \in p.on /\ area \notin p.protected

\* Commands that are run in any order, if there are any.
Stage(commands) == IF commands = {} THEN <<>> ELSE <<commands>>

\* The commands of a launch, in stages.  Read-only grants come before writable
\* ones, and every area that exists and the skins are set again, whichever way
\* their switches point.
Plan(p, there) ==
    LET on       == {x \in {"game", "skins"} : MayWrite(p, x)}
        off      == {"game", "skins"} \ on
        readOnly == {Grant(x, FALSE) : x \in off \cup p.protected \cup {"view", "instance"}}
        writable == {Grant(x, TRUE) : x \in on \cup {"graphics"}}
                    \cup {Replace("launch", TRUE)}
        areas    == {Replace(area, AreaWritable(p, area)) : area \in Areas \cap there}
    IN  Stage(readOnly) \o Stage(writable) \o Stage(areas)
        \o Stage({Replace("skins", MayWrite(p, "skins"))})

\* The effect of one command.
Apply(c) ==
    LET x == c.at
    IN  CASE c.do = "grant" ->
               /\ own' = [own EXCEPT ![x] = c.as]
               /\ UNCHANGED <<sealed, low>>
          [] c.do = "seal" ->
               /\ own' = [own EXCEPT ![x] = Access[x]]
               /\ sealed' = sealed \cup {x}
               /\ UNCHANGED low
          [] c.do = "strip" ->
               /\ own' = [y \in Objects |-> IF y \in {x} \cup Inside(x) THEN "none" ELSE own[y]]
               /\ UNCHANGED <<sealed, low>>
          [] c.do = "set" ->
               /\ own' = [y \in Objects |-> IF y \in {x} \cup Inside(x) THEN c.as ELSE own[y]]
               /\ UNCHANGED <<sealed, low>>
          [] c.do = "label" ->
               /\ low' = low \cup {x}
               /\ UNCHANGED <<own, sealed>>

-----------------------------------------------------------------------------
(* Actions.                                                                 *)

\* New or newly made objects inherit everything.
Plain(X) ==
    /\ own' = [x \in Objects |-> IF x \in X THEN "none" ELSE own[x]]
    /\ sealed' = sealed \ X
    /\ low' = low \ X

\* An instance as some earlier release left it, or with imported permissions:
\* it may have granted the package the whole instance, or files in it.  Access
\* lists are a matter of Windows: elsewhere there are none to begin with.
GrantInit ==
    /\ platform \in Platforms
    /\ saved \in Permissions
    /\ exists \in {E \cup (Objects \ (Areas \cup Items)) :
                    E \in IF platform = "windows" THEN {{}, Areas \cup Items} ELSE {Areas \cup Items}}
    /\ \E broad \in SUBSET IF platform = "windows" THEN {"instance"} \cup (Items \cap exists) ELSE {} :
          own = [x \in Objects |-> IF x \in broad THEN "M" ELSE "none"]
    /\ sealed = {}
    /\ low = {}
    /\ todo = <<>>
    /\ phase = "idle"

SavePermissions(new) ==
    /\ phase = "idle"
    /\ MaySave(platform, saved, new)
    /\ saved' = new
    /\ UNCHANGED <<platform, exists, aclVars, todo, phase>>

\* A launch makes its own launch directory and the protected areas, and goes
\* on if the backend accepts the policy.
Launch ==
    /\ phase = "idle"
    /\ Compiles(platform, saved)
    /\ exists' = exists \cup saved.protected
    /\ Plain({"launch"} \cup (saved.protected \ exists))
    /\ IF platform = "windows"
       THEN phase' = "granting" /\ todo' = Plan(saved, exists')
       ELSE phase' = "running" /\ UNCHANGED todo
    /\ UNCHANGED <<platform, saved>>

RunCommand ==
    /\ phase = "granting"
    /\ todo # <<>>
    /\ LET c    == CHOOSE c \in Head(todo) : TRUE
           rest == Head(todo) \ {c}
       IN  /\ Apply(c)
           /\ todo' = Completion(c) \o Stage(rest) \o Tail(todo)
    /\ UNCHANGED <<platform, saved, exists, phase>>

\* A command or a later step of the launch fails: nothing is undone.
GiveUp ==
    /\ phase = "granting"
    /\ phase' = "idle"
    /\ todo' = <<>>
    /\ UNCHANGED <<platform, saved, exists, aclVars>>

Start ==
    /\ phase = "granting"
    /\ todo = <<>>
    /\ phase' = "running"
    /\ UNCHANGED <<platform, saved, exists, aclVars, todo>>

GameOver ==
    /\ phase = "running"
    /\ phase' = "idle"
    /\ UNCHANGED <<platform, saved, exists, aclVars, todo>>

\* The game makes a directory or a file where it may write, or the user does
\* while no game runs; either may take an area away again.
Make(x) ==
    /\ platform = "windows"
    /\ x \in (Areas \cup Items) \ exists
    /\ Over(x) \in exists
    /\ phase = "idle" \/ (phase = "running" /\ Access[Over(x)] = "M")
    /\ exists' = exists \cup {x}
    /\ Plain({x})
    /\ UNCHANGED <<platform, saved, todo, phase>>

Take(area) ==
    /\ platform = "windows"
    /\ area \in Areas \cap exists
    /\ phase = "idle" \/ (phase = "running" /\ Access[area] = "M")
    /\ exists' = exists \ ({area} \cup Inside(area))
    /\ Plain({area} \cup Inside(area))
    /\ UNCHANGED <<platform, saved, todo, phase>>

GrantNext ==
    \/ \E new \in Permissions : SavePermissions(new)
    \/ Launch
    \/ RunCommand
    \/ GiveUp
    \/ Start
    \/ GameOver
    \/ \E x \in Areas \cup Items : Make(x)
    \/ \E area \in Areas : Take(area)

GrantSpec == GrantInit /\ [][GrantNext]_grantVars

-----------------------------------------------------------------------------
(* Properties.                                                              *)

\* Permissions that can be launched stay so whatever is saved over them: the
\* table of what a platform supports and the checks of its backend agree.
StaysLaunchable ==
    [][Compiles(platform, saved) => Compiles(platform, saved')]_grantVars

\* Imported permissions that a platform cannot grant are repaired by toggling
\* the switches in the way, one at a time and in any order.
RepairableOneByOne ==
    /\ Compiles(platform, saved) <=> Wrong(platform, saved) = {}
    /\ \A switch \in Wrong(platform, saved) :
          MaySave(platform, saved, Toggle(saved, switch))

\* While a game runs it may write exactly what the saved permissions say,
\* whatever was saved, launched, half-launched or created before.  (On Windows
\* the launch directory is writable by a named exception.)
GrantsMatchPolicy ==
    phase = "running" =>
        IF platform = "windows"
        THEN \A x \in exists :
               LET wanted == CASE x = "launch" -> TRUE
                               [] x \in Items  -> MayWrite(saved, AreaOf[x])
                               [] OTHER        -> MayWrite(saved, x)
               IN  /\ Access[x] = IF wanted THEN "M" ELSE "RX"
                   /\ wanted => LowLabel[x]
        ELSE \A path \in Paths : GrantedFiles(Requested(saved), path) = MayWrite(saved, path)
=============================================================================
