----------------------------- MODULE SandboxProofs -----------------------------
(***************************************************************************)
(* Proofs about what confines the game.  The permissions of SandboxPolicy: *)
(* what a platform supports, the checks of a save and those of a backend   *)
(* agree, for every set of unrestricted switches.  The access lists of     *)
(* SandboxGrants: after a launch that set them up they say what the policy *)
(* says, whatever earlier launches left half-done, for every set of areas  *)
(* and items.  The system call filter of SyscallFilter: its jumps lead     *)
(* every call to the answer meant for it, for every set of denied calls.   *)
(***************************************************************************)
EXTENDS SandboxGrants, SyscallFilter, FiniteSetTheorems, TLAPS

(* What a save and a backend compare.                                      *)
Saved == platform \in Platforms /\ saved \in Permissions

(* The switches a platform leaves alone.                                   *)
Fixed(p) == Restricted \ Support(p)

(* The switches each platform leaves alone.                                *)
LEMMA FixedSwitches ==
    /\ Fixed("windows") = {"audio", "microphone", "clipboard", "integration", "graphicsCache"}
    /\ Fixed("macos") = {}
    /\ Fixed("linux") = {"microphone", "clipboard", "integration"}
  BY DEF Fixed, Restricted, Support

(* A backend accepts exactly the permissions with nothing in the way.      *)
LEMMA CompilesUnlessWrong ==
    ASSUME NEW plat \in Platforms, NEW p \in Permissions
    PROVE  Compiles(plat, p) <=> Wrong(plat, p) = {}
<1>1. Wrong(plat, p) = ((Defaults \cap Fixed(plat)) \ p.on) \cup (OptIns \cap Fixed(plat) \cap p.on)
                       \cup {s \in {"microphone"} : s \in p.on /\ "audio" \notin p.on}
  BY DEF Wrong, Fixed
<1>2. CASE plat = "windows"
  BY <1>1, <1>2, FixedSwitches DEF Compiles, Defaults, OptIns
<1>3. CASE plat = "macos"
  BY <1>1, <1>3, FixedSwitches DEF Compiles, Defaults, OptIns
<1>4. CASE plat = "linux"
  BY <1>1, <1>4, FixedSwitches DEF Compiles, Defaults, OptIns
<1> QED
  BY <1>2, <1>3, <1>4 DEF Platforms

(* What may be saved over permissions a backend accepts is accepted too.   *)
LEMMA SavesCompile ==
    ASSUME NEW plat \in Platforms, NEW old \in Permissions, NEW new \in Permissions,
           MaySave(plat, old, new), Compiles(plat, old)
    PROVE  Compiles(plat, new)
<1>1. CASE plat = "windows"
  BY <1>1 DEF MaySave, Compiles, Support, OptIns, Defaults
<1>2. CASE plat = "macos"
  BY <1>2 DEF MaySave, Compiles, Support, OptIns, Defaults
<1>3. CASE plat = "linux"
  BY <1>3 DEF MaySave, Compiles, Support, OptIns, Defaults
<1> QED
  BY <1>1, <1>2, <1>3 DEF Platforms

(* A switch in the way of a launch may be toggled whatever else is.        *)
LEMMA WrongMayBeToggled ==
    ASSUME NEW plat \in Platforms, NEW p \in Permissions, NEW switch \in Wrong(plat, p)
    PROVE  MaySave(plat, p, Toggle(p, switch))
<1> DEFINE q == Toggle(p, switch)
<1>1. p = [on |-> p.on, protected |-> p.protected]
  BY DEF Permissions
<1>2. q.on = IF switch \in p.on THEN p.on \ {switch} ELSE p.on \cup {switch}
  BY <1>1 DEF Toggle
<1> HIDE DEF q
<1>3. CASE switch \in p.on
  <2>1. q.on \ p.on = {} /\ p.on \ q.on = {switch}
    BY <1>2, <1>3
  <2>2. switch \in OptIns
    BY <1>3 DEF Wrong, OptIns, Defaults
  <2>3. Defaults \cap (p.on \ q.on) \subseteq Support(plat)
    BY <2>1, <2>2 DEF OptIns, Defaults
  <2>4. ASSUME "microphone" \in q.on, "audio" \notin q.on
        PROVE  "microphone" \in p.on /\ "audio" \notin p.on
    BY <1>2, <1>3, <2>2, <2>4 DEF OptIns
  <2> QED
    BY <2>1, <2>3, <2>4 DEF MaySave, q
<1>4. CASE switch \notin p.on
  <2>1. q.on \ p.on = {switch} /\ p.on \ q.on = {}
    BY <1>2, <1>4
  <2>2. switch \in Defaults
    BY <1>4 DEF Wrong, OptIns, Defaults
  <2>3. OptIns \cap (q.on \ p.on) \subseteq Support(plat)
    BY <2>1, <2>2 DEF OptIns, Defaults
  <2>4. ASSUME "microphone" \in q.on, "audio" \notin q.on
        PROVE  "microphone" \in p.on /\ "audio" \notin p.on
    BY <1>2, <1>4, <2>2, <2>4 DEF Defaults
  <2> QED
    BY <2>1, <2>3, <2>4 DEF MaySave, q
<1> QED
  BY <1>3, <1>4

-----------------------------------------------------------------------------
(* A launcher finds permissions of some platform.                          *)
LEMMA InitSaved == GrantInit => Saved
  BY DEF GrantInit, Saved

(* Only a save changes them, and it stores permissions.                    *)
LEMMA NextSaved == Saved /\ [GrantNext]_grantVars => Saved'
<1> SUFFICES ASSUME Saved, [GrantNext]_grantVars PROVE Saved'
  OBVIOUS
<1>1. ASSUME NEW new \in Permissions, SavePermissions(new) PROVE Saved'
  BY <1>1 DEF SavePermissions, Saved
<1>2. CASE UNCHANGED <<platform, saved>>
  BY <1>2 DEF Saved
<1> QED
  BY <1>1, <1>2 DEF GrantNext, grantVars, Launch, RunCommand, GiveUp, Start, GameOver, Make, Take

(* What is saved are permissions for the platform, whatever is saved.      *)
THEOREM SavedIsTyped == GrantSpec => []Saved
  BY InitSaved, NextSaved, PTL DEF GrantSpec

(* Permissions a backend refuses can be repaired by toggling, one at a      *)
(* time and in any order, the switches in the way, whatever was saved.      *)
THEOREM AlwaysRepairable == GrantSpec => []RepairableOneByOne
<1>1. Saved => RepairableOneByOne
  BY CompilesUnlessWrong, WrongMayBeToggled DEF Saved, RepairableOneByOne
<1> QED
  BY <1>1, SavedIsTyped, PTL

(* Permissions that can be launched can be launched after every save.       *)
THEOREM AlwaysLaunchable == GrantSpec => StaysLaunchable
<1>1. Saved /\ [GrantNext]_grantVars
        => [Compiles(platform, saved) => Compiles(platform, saved')]_grantVars
  <2> SUFFICES ASSUME Saved, GrantNext, Compiles(platform, saved)
               PROVE  Compiles(platform, saved')
    OBVIOUS
  <2>1. ASSUME NEW new \in Permissions, SavePermissions(new) PROVE Compiles(platform, saved')
    BY <2>1, SavesCompile DEF SavePermissions, Saved
  <2>2. CASE saved' = saved
    BY <2>2
  <2> QED
    BY <2>1, <2>2 DEF GrantNext, Launch, RunCommand, GiveUp, Start, GameOver, Make, Take
<1> QED
  BY <1>1, SavedIsTyped, PTL DEF GrantSpec, StaysLaunchable

-----------------------------------------------------------------------------
(* The tree of objects, and the two functions defined along it.           *)
LEMMA Geography ==
    /\ \A x \in Objects : x # "instance" => Over(x) \in Objects
    /\ \A x \in Items : AreaOf[x] \in Areas /\ Over(x) = AreaOf[x]
    /\ \A x \in Areas : Over(x) = "game"
    /\ Over("skins") = "view"
    /\ \A x \in Fixtures \ {"skins"} : Over(x) = "instance"
    /\ "skins" \in Fixtures
    /\ \A x \in Areas : x \notin Items \cup Fixtures
    /\ \A x \in Items : x \notin Areas \cup Fixtures
  BY ObjectsAssumption DEF Over, Objects, Fixtures

(* What a sandboxed process may do with an object.                         *)
AccessLevels == {"none", "RX", "M"}

(* The access of an object is that of the one over it and its own grant,   *)
(* unless it was cut off: the recursion reaches the instance in three      *)
(* steps, so the function exists.                                          *)
LEMMA AccessEquation ==
    Access = [x \in Objects |->
                IF x = "instance" \/ x \in sealed THEN own[x]
                ELSE Stronger(own[x], Access[Over(x)])]
<1> DEFINE top(x)  == IF x = "instance" \/ x \in sealed THEN own[x] ELSE Stronger(own[x], own["instance"])
           mid(x)  == IF x \in sealed THEN own[x] ELSE Stronger(own[x], top(Over(x)))
           leaf(x) == IF x \in sealed THEN own[x] ELSE Stronger(own[x], mid(Over(x)))
           access  == [x \in Objects |-> IF x \in Items THEN leaf(x)
                                         ELSE IF x \in Areas \cup {"skins"} THEN mid(x) ELSE top(x)]
<1>1. ASSUME NEW x \in Objects
      PROVE  access[x] = IF x = "instance" \/ x \in sealed THEN own[x]
                         ELSE Stronger(own[x], access[Over(x)])
  <2>1. CASE x \in Items
    BY <2>1, Geography DEF Objects, Fixtures
  <2>2. CASE x \in Areas
    BY <2>2, Geography DEF Objects, Fixtures
  <2>3. CASE x \in Fixtures
    BY <2>3, Geography DEF Objects, Fixtures
  <2> QED
    BY <2>1, <2>2, <2>3 DEF Objects
<1>2. access = [x \in Objects |-> IF x = "instance" \/ x \in sealed THEN own[x]
                                  ELSE Stronger(own[x], access[Over(x)])]
  BY <1>1
<1> HIDE DEF access
<1> QED
  BY <1>2 DEF Access

(* The same for the integrity label, which nothing cuts off.               *)
LEMMA LabelEquation ==
    LowLabel = [x \in Objects |-> x \in low \/ (x # "instance" /\ LowLabel[Over(x)])]
<1> DEFINE top(x)  == x \in low \/ (x # "instance" /\ "instance" \in low)
           mid(x)  == x \in low \/ top(Over(x))
           leaf(x) == x \in low \/ mid(Over(x))
           label   == [x \in Objects |-> IF x \in Items THEN leaf(x)
                                         ELSE IF x \in Areas \cup {"skins"} THEN mid(x) ELSE top(x)]
<1>1. ASSUME NEW x \in Objects
      PROVE  label[x] = (x \in low \/ (x # "instance" /\ label[Over(x)]))
  <2>1. CASE x \in Items
    BY <2>1, Geography DEF Objects, Fixtures
  <2>2. CASE x \in Areas
    BY <2>2, Geography DEF Objects, Fixtures
  <2>3. CASE x \in Fixtures
    BY <2>3, Geography DEF Objects, Fixtures
  <2> QED
    BY <2>1, <2>2, <2>3 DEF Objects
<1>2. label = [x \in Objects |-> x \in low \/ (x # "instance" /\ label[Over(x)])]
  BY <1>1
<1> HIDE DEF label
<1> QED
  BY <1>2 DEF LowLabel

-----------------------------------------------------------------------------
\* The commands still to run.
Pending(plan) == UNION {plan[i] : i \in DOMAIN plan}

(* Commands in the order of a plan, none of its stages empty.              *)
Stages(S) == {plan \in Seq(SUBSET S) : \A i \in DOMAIN plan : plan[i] # {}}

(* A stage holds its commands.                                             *)
LEMMA PendingStage ==
    ASSUME NEW S, NEW X \in SUBSET S
    PROVE  Stage(X) \in Stages(S) /\ Pending(Stage(X)) = X
<1>1. CASE X = {}
  BY <1>1 DEF Stage, Stages, Pending
<1>2. CASE X # {}
  <2>1. Stage(X) = <<X>>
    BY <1>2 DEF Stage
  <2> QED
    BY <1>2, <2>1 DEF Stages, Pending
<1> QED
  BY <1>1, <1>2

(* Plans put one after the other hold the commands of both.                *)
LEMMA PendingConcat ==
    ASSUME NEW S, NEW p \in Stages(S), NEW q \in Stages(S)
    PROVE  p \o q \in Stages(S) /\ Pending(p \o q) = Pending(p) \cup Pending(q)
<1>1. p \in Seq(SUBSET S) /\ q \in Seq(SUBSET S)
  BY DEF Stages
<1>2. /\ p \o q \in Seq(SUBSET S) /\ DOMAIN p = 1 .. Len(p) /\ DOMAIN q = 1 .. Len(q)
      /\ Len(p) \in Nat /\ Len(q) \in Nat
      /\ DOMAIN (p \o q) = 1 .. Len(p) + Len(q)
  BY <1>1
<1>3. \A i \in 1 .. Len(p) : i \in DOMAIN (p \o q) /\ (p \o q)[i] = p[i]
  BY <1>1, <1>2
<1>5. \A j \in 1 .. Len(q) : Len(p) + j \in DOMAIN (p \o q) /\ (p \o q)[Len(p) + j] = q[j]
  BY <1>1, <1>2
<1>6. \A i \in DOMAIN (p \o q) : i \in 1 .. Len(p) \/ \E j \in 1 .. Len(q) : i = Len(p) + j
  <2>1. ASSUME NEW i \in 1 .. Len(p) + Len(q), i \notin 1 .. Len(p)
        PROVE  i - Len(p) \in 1 .. Len(q) /\ i = Len(p) + (i - Len(p))
    BY <1>2, <2>1
  <2> QED
    BY <1>2, <2>1
<1>7. p \o q \in Stages(S)
  <2> DEFINE r == p \o q
  <2>1. (\A i \in DOMAIN p : p[i] # {}) /\ (\A j \in DOMAIN q : q[j] # {})
    BY DEF Stages
  <2>2. \A i \in DOMAIN r : r[i] # {}
    <3> HIDE DEF r
    <3> QED
      BY <1>2, <1>3, <1>5, <1>6, <2>1 DEF r
  <2>3. r \in Seq(SUBSET S)
    BY <1>2
  <2> HIDE DEF r
  <2> QED
    BY <2>2, <2>3 DEF Stages, r
<1>4. ASSUME NEW c PROVE c \in Pending(p \o q) <=> c \in Pending(p) \cup Pending(q)
  <2>1. c \in Pending(p \o q) => c \in Pending(p) \cup Pending(q)
    BY <1>2, <1>3, <1>5, <1>6 DEF Pending
  <2>2. c \in Pending(p) => c \in Pending(p \o q)
    BY <1>2, <1>3 DEF Pending
  <2>3. c \in Pending(q) => c \in Pending(p \o q)
    BY <1>2, <1>5 DEF Pending
  <2> QED
    BY <2>1, <2>2, <2>3
<1> QED
  BY <1>4, <1>7

(* The commands of a plan are those of its first stage and of the rest.    *)
LEMMA PendingHead ==
    ASSUME NEW S, NEW p \in Stages(S), p # <<>>
    PROVE  /\ Head(p) \in SUBSET S /\ Head(p) # {}
           /\ Tail(p) \in Stages(S)
           /\ Pending(p) = Head(p) \cup Pending(Tail(p))
<1>1. p \in Seq(SUBSET S) /\ Len(p) > 0
  BY DEF Stages
<1>2. /\ Head(p) = p[1] /\ 1 \in DOMAIN p
      /\ Tail(p) \in Seq(SUBSET S) /\ DOMAIN Tail(p) = 1 .. Len(p) - 1
      /\ \A i \in 1 .. Len(p) - 1 : Tail(p)[i] = p[i + 1] /\ i + 1 \in DOMAIN p
      /\ \A i \in DOMAIN p : i = 1 \/ (i - 1 \in 1 .. Len(p) - 1 /\ i = (i - 1) + 1)
  BY <1>1
<1>3. Head(p) \in SUBSET S /\ Head(p) # {} /\ Tail(p) \in Stages(S)
  <2>1. \A i \in DOMAIN p : p[i] \in SUBSET S /\ p[i] # {}
    BY <1>1 DEF Stages
  <2>2. \A i \in DOMAIN Tail(p) : Tail(p)[i] # {}
    BY <1>2, <2>1
  <2> QED
    BY <1>2, <2>1, <2>2 DEF Stages
<1>4. ASSUME NEW c PROVE c \in Pending(p) <=> c \in Head(p) \cup Pending(Tail(p))
  <2>1. c \in Pending(p) => c \in Head(p) \cup Pending(Tail(p))
    BY <1>2 DEF Pending
  <2>2. c \in Head(p) \cup Pending(Tail(p)) => c \in Pending(p)
    BY <1>2 DEF Pending
  <2> QED
    BY <2>1, <2>2
<1> QED
  BY <1>3, <1>4

-----------------------------------------------------------------------------
(* The commands a plan or its completions may hold.                        *)
AclCommands == [do : {"grant", "seal", "strip", "set", "label"}, at : Objects, as : {"RX", "M"}]

\* The grant an object should end up with under the saved permissions.
Due(x) ==
    IF x = "launch" \/ MayWrite(saved, IF x \in Items THEN AreaOf[x] ELSE x) THEN "M" ELSE "RX"

\* The objects that stand under the instance by a grant, and those that are
\* cut off from it.
Granted == {"instance", "game", "view", "graphics"}
Sealable == {"launch", "skins"} \cup Areas
(* Those cut off in this launch: an area only if it is there.              *)
Boundaries == {"launch", "skins"} \cup (Areas \cap exists)
(* The three commands that cut an object off, one after the other.         *)
Replacing == {"seal", "strip", "set"}

(* What holds between the launches as well.                                *)
GrantShape ==
    /\ GrantTypeOK
    /\ sealed \subseteq Sealable
    /\ Fixtures \subseteq exists
    /\ \A x \in Items \cap exists : AreaOf[x] \in exists
    /\ phase # "idle" => Compiles(platform, saved) /\ saved.protected \subseteq exists
    /\ phase = "granting" => platform = "windows"

(* The commands of the launch that goes on agree with its permissions.     *)
PlanAgrees ==
    /\ todo \in Stages(AclCommands)
    /\ \A c \in Pending(todo) :
          /\ c.as = Due(c.at)
          /\ c.do = "label" => c.as = "M"
          /\ c.do \in Replacing => c.at \in Boundaries
          /\ c.do \in {"strip", "set"} => c.at \in sealed

(* An object cut off, with its own grant and those of the files inside in  *)
(* place.                                                                  *)
Cut(x) ==
    /\ x \in sealed /\ own[x] = Due(x)
    /\ \A y \in Inside(x) \cap exists : own[y] = Due(y)

(* Every object has its grant already or a command that will set it.       *)
GrantsOnTheWay ==
    /\ \A x \in Granted :
          \/ own[x] = Due(x)
          \/ \E c \in Pending(todo) : c.at = x /\ c.do = "grant"
    /\ \A x \in Boundaries :
          \/ Cut(x)
          \/ \E c \in Pending(todo) : c.at = x /\ c.do \in Replacing
    /\ \A x \in {"game", "skins", "graphics", "launch"} :
          \/ Due(x) = "RX"
          \/ x \in low
          \/ \E c \in Pending(todo) :
                /\ c.at = x
                /\ c.do \in {"label", "grant"} \/ (x = "launch" /\ c.do \in Replacing)

(* While the game runs new areas and files have no grant of their own.     *)
New(x) == own[x] = "none" /\ Due(x) = "M"

(* What a game on Windows runs with: nothing is wrong but that new         *)
(* objects lack a grant of their own.                                      *)
GrantsInPlace ==
    /\ \A x \in Granted : own[x] = Due(x)
    /\ \A x \in {"launch", "skins"} : x \in sealed /\ own[x] = Due(x)
    /\ \A x \in Areas \cap exists : IF x \in sealed THEN own[x] = Due(x) ELSE New(x)
    /\ \A x \in Items \cap exists : own[x] = Due(x) \/ New(x)
    /\ \A x \in {"game", "skins", "graphics", "launch"} : Due(x) = "RX" \/ x \in low

(* The inductive invariant.                                                *)
GInv ==
    /\ GrantShape
    /\ phase = "granting" => PlanAgrees /\ GrantsOnTheWay
    /\ phase = "running" /\ platform = "windows" => GrantsInPlace

-----------------------------------------------------------------------------
(* The access of every object is a level.                                  *)
LEMMA AccessType ==
    ASSUME GrantTypeOK
    PROVE  \A x \in Objects : Access[x] \in AccessLevels
<1>1. \A x \in Objects : own[x] \in AccessLevels
  BY DEF GrantTypeOK, AccessLevels
<1>2. \A g, h \in AccessLevels : Stronger(g, h) \in AccessLevels
  BY DEF Stronger, AccessLevels
<1>3. \A x \in Objects : Access[x] = IF x = "instance" \/ x \in sealed THEN own[x]
                                     ELSE Stronger(own[x], Access[Over(x)])
  BY AccessEquation
<1>4. ASSUME NEW x \in Objects, x # "instance" => Access[Over(x)] \in AccessLevels
      PROVE  Access[x] \in AccessLevels
  <2>1. CASE x = "instance" \/ x \in sealed
    BY <1>1, <1>3, <2>1
  <2>2. CASE ~(x = "instance" \/ x \in sealed)
    <3>1. Access[x] = Stronger(own[x], Access[Over(x)])
      BY <1>3, <2>2
    <3> QED
      BY <1>1, <1>2, <1>4, <2>2, <3>1
  <2> QED
    BY <2>1, <2>2
<1>5. Access["instance"] \in AccessLevels
  BY <1>4 DEF Objects, Fixtures
<1>6. \A x \in Fixtures \ {"skins"} : Access[x] \in AccessLevels
  BY <1>4, <1>5, Geography DEF Objects
<1>7. \A x \in Areas \cup {"skins"} : Access[x] \in AccessLevels
  BY <1>4, <1>6, Geography DEF Objects, Fixtures
<1>8. \A x \in Items : Access[x] \in AccessLevels
  BY <1>4, <1>7, Geography DEF Objects
<1> QED
  BY <1>6, <1>7, <1>8 DEF Objects

(* What is due depends on the saved permissions alone.                     *)
LEMMA SameDue == saved' = saved => \A x : Due(x)' = Due(x)
  BY DEF Due

(* What is due to each object, and that files have what their area has.    *)
LEMMA DueFacts ==
    ASSUME saved \in Permissions
    PROVE  /\ \A x : Due(x) \in {"RX", "M"}
           /\ \A x \in Items : Due(x) = Due(AreaOf[x])
           /\ \A x \in Areas : Due(x) = IF AreaWritable(saved, x) THEN "M" ELSE "RX"
           /\ Due("instance") = "RX" /\ Due("view") = "RX" /\ Due("launch") = "M"
           /\ Due("game") = (IF MayWrite(saved, "game") THEN "M" ELSE "RX")
           /\ Due("skins") = (IF MayWrite(saved, "skins") THEN "M" ELSE "RX")
           /\ Due("graphics") = (IF "graphicsCache" \in saved.on THEN "M" ELSE "RX")
           /\ \A x \in Areas : Due(x) = "M" => Due("game") = "M"
           /\ \A x \in Areas : Due(x) = "M" <=> Due("game") = "M" /\ x \notin saved.protected
<1>1. \A x \in Areas \cup Fixtures : x \notin Items
  BY Geography
<1>2. \A x \in Areas : x \notin Fixtures \cup {"temp"}
  BY ObjectsAssumption
<1>3. \A x \in Items : AreaOf[x] \in Areas /\ x \notin Fixtures
  BY Geography
<1>4. \A x \in Areas : MayWrite(saved, x) = ("gameWrite" \in saved.on /\ x \notin saved.protected)
  BY <1>2 DEF MayWrite, Fixtures
<1>5. /\ MayWrite(saved, "instance") = FALSE /\ MayWrite(saved, "view") = FALSE
      /\ MayWrite(saved, "game") = ("gameWrite" \in saved.on)
      /\ MayWrite(saved, "graphics") = ("graphicsCache" \in saved.on)
  BY <1>2 DEF MayWrite, Fixtures
<1>6. \A x \in Areas : Due(x) = IF MayWrite(saved, x) THEN "M" ELSE "RX"
  BY <1>1, <1>2 DEF Due, Fixtures
<1>7. \A x \in Items : Due(x) = IF MayWrite(saved, AreaOf[x]) THEN "M" ELSE "RX"
  BY <1>3 DEF Due, Fixtures
<1>8. \A x \in Fixtures : Due(x) = IF x = "launch" \/ MayWrite(saved, x) THEN "M" ELSE "RX"
  BY <1>1 DEF Due
<1>9. /\ Due("instance") = "RX" /\ Due("view") = "RX" /\ Due("launch") = "M"
      /\ Due("game") = (IF MayWrite(saved, "game") THEN "M" ELSE "RX")
      /\ Due("skins") = (IF MayWrite(saved, "skins") THEN "M" ELSE "RX")
      /\ Due("graphics") = (IF "graphicsCache" \in saved.on THEN "M" ELSE "RX")
  BY <1>5, <1>8 DEF Fixtures
<1>10. \A x : Due(x) \in {"RX", "M"}
  BY DEF Due
<1> QED
  BY <1>3, <1>4, <1>5, <1>6, <1>7, <1>9, <1>10 DEF AreaWritable

(* A machine on which no launch has set anything up satisfies the          *)
(* invariant.                                                              *)
LEMMA InitGInv == GrantInit => GInv
<1> SUFFICES ASSUME GrantInit PROVE GInv
  OBVIOUS
<1>1. PICK E \in {{}, Areas \cup Items} : exists = E \cup (Objects \ (Areas \cup Items))
  BY DEF GrantInit
<1>2. exists \subseteq Objects /\ Fixtures \subseteq exists
  BY <1>1, Geography DEF Objects
<1>3. \A x \in Items \cap exists : AreaOf[x] \in exists
  BY <1>1, Geography
<1>4. own \in [Objects -> {"none", "RX", "M"}]
  BY DEF GrantInit
<1>5. sealed = {} /\ low = {} /\ phase = "idle" /\ platform \in Platforms /\ saved \in Permissions
  BY DEF GrantInit
<1>6. GrantShape
  BY <1>2, <1>3, <1>4, <1>5 DEF GrantShape, GrantTypeOK
<1> QED
  BY <1>5, <1>6 DEF GInv

-----------------------------------------------------------------------------
(* With the grants in place, every object that exists has the access it    *)
(* is due, and what may be written has the label that lets it be.          *)
LEMMA AccessInPlace ==
    ASSUME GrantShape, GrantsInPlace, "graphicsCache" \in saved.on
    PROVE  /\ \A x \in exists : Access[x] = Due(x)
           /\ \A x \in exists : Due(x) = "M" => LowLabel[x]
<1>1. saved \in Permissions /\ exists \subseteq Objects
  BY DEF GrantShape, GrantTypeOK
<1>2. \A x \in Objects : Access[x] = IF x = "instance" \/ x \in sealed THEN own[x]
                                     ELSE Stronger(own[x], Access[Over(x)])
  BY AccessEquation
<1>3. \A x \in Objects : LowLabel[x] = (x \in low \/ (x # "instance" /\ LowLabel[Over(x)]))
  BY LabelEquation
<1>4. /\ \A x : Due(x) \in {"RX", "M"}
      /\ \A x \in Items : Due(x) = Due(AreaOf[x])
      /\ Due("instance") = "RX" /\ Due("view") = "RX" /\ Due("launch") = "M" /\ Due("graphics") = "M"
      /\ \A x \in Areas : Due(x) = "M" => Due("game") = "M"
  BY <1>1, DueFacts
<1>5. /\ \A g \in {"RX", "M"} : Stronger(g, "RX") = g /\ Stronger("none", g) = g /\ Stronger(g, g) = g
  BY DEF Stronger
<1>6. Access["instance"] = "RX"
  BY <1>2, <1>4 DEF GrantsInPlace, Granted, Objects, Fixtures
<1>7. \A x \in Granted : Access[x] = Due(x)
  <2> SUFFICES ASSUME NEW x \in Granted, x # "instance" PROVE Access[x] = Due(x)
    BY <1>4, <1>6
  <2>1. x \in Objects /\ Over(x) = "instance" /\ x \notin sealed
    BY Geography DEF Granted, Objects, Fixtures, GrantShape, Sealable
  <2>2. Access[x] = Stronger(Due(x), "RX")
    BY <1>2, <1>6, <2>1 DEF GrantsInPlace
  <2> QED
    BY <1>4, <1>5, <2>2
<1>8. \A x \in {"launch", "skins"} : Access[x] = Due(x)
  BY <1>2 DEF GrantsInPlace, Objects, Fixtures
<1>9. \A x \in Areas \cap exists : Access[x] = Due(x)
  <2> SUFFICES ASSUME NEW x \in Areas \cap exists PROVE Access[x] = Due(x)
    OBVIOUS
  <2>1. CASE x \in sealed
    BY <1>1, <1>2, <2>1 DEF GrantsInPlace
  <2>2. CASE x \notin sealed
    <3>1. own[x] = "none" /\ Due(x) = "M" /\ Due("game") = "M"
      BY <1>4, <2>2 DEF GrantsInPlace, New
    <3>2. Access[x] = Stronger("none", Access["game"])
      BY <1>1, <1>2, <2>2, <3>1, Geography DEF Fixtures
    <3> QED
      BY <1>5, <1>7, <3>1, <3>2 DEF Granted
  <2> QED
    BY <2>1, <2>2
<1>10. \A x \in Items \cap exists : Access[x] = Due(x)
  <2> SUFFICES ASSUME NEW x \in Items \cap exists PROVE Access[x] = Due(x)
    OBVIOUS
  <2>1. x \notin sealed /\ x # "instance" /\ x \in Objects
    BY <1>1, Geography DEF GrantShape, Sealable, Fixtures
  <2>2. Over(x) = AreaOf[x] /\ AreaOf[x] \in Areas \cap exists
    BY Geography DEF GrantShape
  <2>3. Access[x] = Stronger(own[x], Due(x))
    BY <1>2, <1>4, <1>9, <2>1, <2>2
  <2>4. own[x] = Due(x) \/ own[x] = "none"
    BY DEF GrantsInPlace, New
  <2> QED
    BY <1>4, <1>5, <2>3, <2>4
<1>11. \A x \in {"game", "skins", "graphics", "launch"} : Due(x) = "M" => LowLabel[x]
  BY <1>3 DEF GrantsInPlace, Objects, Fixtures
<1>12. ASSUME NEW x \in Areas, Due(x) = "M" PROVE LowLabel[x]
  <2>1. x \in Objects /\ x # "instance" /\ Over(x) = "game"
    BY Geography DEF Objects, Fixtures
  <2>2. LowLabel["game"]
    BY <1>4, <1>11, <1>12
  <2> QED
    BY <1>3, <2>1, <2>2
<1>13. ASSUME NEW x \in Items, Due(x) = "M" PROVE LowLabel[x]
  <2>1. x \in Objects /\ x # "instance" /\ Over(x) = AreaOf[x] /\ AreaOf[x] \in Areas
    BY Geography DEF Objects, Fixtures
  <2>2. LowLabel[AreaOf[x]]
    BY <1>4, <1>12, <1>13, <2>1
  <2> QED
    BY <1>3, <2>1, <2>2
<1>14. \A x \in Fixtures : Access[x] = Due(x)
  BY <1>7, <1>8 DEF Granted, Fixtures
<1>15. \A x \in Fixtures : Due(x) = "M" => LowLabel[x]
  BY <1>4, <1>11 DEF Fixtures
<1> QED
  BY <1>1, <1>9, <1>10, <1>12, <1>13, <1>14, <1>15 DEF Objects

(* The game, or the user while none runs, makes an area or a file.         *)
LEMMA RunMakes ==
    ASSUME GInv, NEW x \in Areas \cup Items, Make(x)
    PROVE  GInv'
<1>1. /\ x \in (Areas \cup Items) \ exists /\ exists' = exists \cup {x} /\ Over(x) \in exists
      /\ own' = [y \in Objects |-> IF y \in {x} THEN "none" ELSE own[y]]
      /\ sealed' = sealed \ {x} /\ low' = low \ {x}
      /\ saved' = saved /\ platform' = platform /\ phase' = phase /\ platform = "windows"
      /\ phase = "idle" \/ (phase = "running" /\ Access[Over(x)] = "M")
  BY DEF Make, Plain
<1>2. \A y : Due(y)' = Due(y)
  BY <1>1, SameDue
<1>3. x \in Objects /\ x \notin Fixtures
  BY Geography DEF Objects
<1>4. GrantShape'
  <2>1. GrantTypeOK'
    BY <1>1, <1>3 DEF GInv, GrantShape, GrantTypeOK
  <2>2. \A y \in Items \cap exists' : AreaOf[y] \in exists'
    BY <1>1, Geography DEF GInv, GrantShape
  <2> QED
    BY <1>1, <2>1, <2>2 DEF GInv, GrantShape
<1>5. ASSUME phase = "running" PROVE GrantsInPlace'
  <2>1. GrantShape /\ GrantsInPlace /\ "graphicsCache" \in saved.on
    BY <1>1, <1>5 DEF GInv, GrantShape, Compiles
  <2>2. Due(x) = "M"
    <3>1. Due(Over(x)) = "M"
      BY <1>1, <1>5, <2>1, AccessInPlace
    <3>2. CASE x \in Items
      BY <2>1, <3>1, <3>2, DueFacts, Geography DEF GrantShape, GrantTypeOK
    <3>3. CASE x \in Areas
      <4>1. Due("game") = "M" /\ x \notin saved.protected
        BY <1>1, <1>5, <2>1, <3>1, <3>3, Geography DEF GrantShape
      <4> QED
        BY <2>1, <3>3, <4>1, DueFacts DEF GrantShape, GrantTypeOK
    <3> QED
      BY <3>2, <3>3
  <2>3. \A y \in Objects : own'[y] = IF y = x THEN "none" ELSE own[y]
    BY <1>1
  <2>4. \A y \in Areas \cap exists' : IF y \in sealed' THEN own'[y] = Due(y)' ELSE New(y)'
    BY <1>1, <1>2, <2>1, <2>2, <2>3 DEF GrantsInPlace, New, Objects
  <2>5. \A y \in Items \cap exists' : own'[y] = Due(y)' \/ New(y)'
    BY <1>1, <1>2, <2>1, <2>2, <2>3 DEF GrantsInPlace, New, Objects
  <2>6. \A y \in Granted : own'[y] = Due(y)'
    BY <1>2, <1>3, <2>1, <2>3 DEF GrantsInPlace, Granted, Objects, Fixtures
  <2>7. \A y \in {"launch", "skins"} : y \in sealed' /\ own'[y] = Due(y)'
    BY <1>1, <1>2, <1>3, <2>1, <2>3 DEF GrantsInPlace, Objects, Fixtures
  <2>8. \A y \in {"game", "skins", "graphics", "launch"} : Due(y)' = "RX" \/ y \in low'
    BY <1>1, <1>2, <1>3, <2>1 DEF GrantsInPlace, Fixtures
  <2> QED
    BY <2>4, <2>5, <2>6, <2>7, <2>8 DEF GrantsInPlace
<1> QED
  BY <1>1, <1>4, <1>5 DEF GInv

(* The game, or the user while none runs, removes an area with its files.  *)
LEMMA RunTakes ==
    ASSUME GInv, NEW area \in Areas, Take(area)
    PROVE  GInv'
<1> DEFINE gone == {area} \cup Inside(area)
<1>1. /\ area \in exists /\ exists' = exists \ gone
      /\ own' = [y \in Objects |-> IF y \in gone THEN "none" ELSE own[y]]
      /\ sealed' = sealed \ gone /\ low' = low \ gone
      /\ saved' = saved /\ platform' = platform /\ phase' = phase /\ platform = "windows"
      /\ phase = "idle" \/ (phase = "running" /\ Access[area] = "M")
  BY DEF Take, Plain
<1>2. \A y : Due(y)' = Due(y)
  BY <1>1, SameDue
<1>3. gone \subseteq Objects /\ gone \cap Fixtures = {} /\ Inside(area) \subseteq Items
  BY Geography DEF Objects, Inside
<1>4. \A y \in Items : y \notin gone => AreaOf[y] \notin gone
  BY Geography DEF Inside
<1> HIDE DEF gone
<1>5. GrantShape'
  <2>1. GrantTypeOK'
    BY <1>1, <1>3 DEF GInv, GrantShape, GrantTypeOK
  <2>2. \A y \in Items \cap exists' : AreaOf[y] \in exists'
    BY <1>1, <1>4 DEF GInv, GrantShape
  <2>3. phase # "idle" => area \notin saved.protected
    <3> SUFFICES ASSUME phase = "running" PROVE area \notin saved.protected
      BY <1>1
    <3>1. GrantShape /\ GrantsInPlace /\ "graphicsCache" \in saved.on
      BY <1>1 DEF GInv, GrantShape, Compiles
    <3>2. Due(area) = "M"
      BY <1>1, <3>1, AccessInPlace
    <3> QED
      BY <3>1, <3>2, DueFacts DEF GrantShape, GrantTypeOK
  <2>4. phase # "idle" => saved.protected \subseteq exists'
    <3>1. saved.protected \subseteq Areas
      BY DEF GInv, GrantShape, GrantTypeOK, Permissions
    <3>2. \A y \in Areas : y \in gone => y = area
      BY <1>3, Geography DEF gone
    <3> QED
      BY <1>1, <2>3, <3>1, <3>2 DEF GInv, GrantShape
  <2>5. sealed' \subseteq Sealable /\ Fixtures \subseteq exists'
    BY <1>1, <1>3 DEF GInv, GrantShape
  <2> QED
    BY <1>1, <2>1, <2>2, <2>4, <2>5 DEF GInv, GrantShape
<1>6. ASSUME phase = "running" PROVE GrantsInPlace'
  <2>1. GrantsInPlace /\ exists \subseteq Objects
    BY <1>1, <1>6 DEF GInv, GrantShape, GrantTypeOK
  <2>3. \A y \in Objects : y \notin gone => own'[y] = own[y]
    BY <1>1
  <2>4. \A y \in Areas \cap exists' : IF y \in sealed' THEN own'[y] = Due(y)' ELSE New(y)'
    BY <1>1, <1>2, <2>1, <2>3 DEF GrantsInPlace, New
  <2>5. \A y \in Items \cap exists' : own'[y] = Due(y)' \/ New(y)'
    BY <1>1, <1>2, <2>1, <2>3 DEF GrantsInPlace, New
  <2>6. \A y \in Granted : own'[y] = Due(y)'
    BY <1>2, <1>3, <2>1, <2>3 DEF GrantsInPlace, Granted, Objects, Fixtures
  <2>7. \A y \in {"launch", "skins"} : y \in sealed' /\ own'[y] = Due(y)'
    BY <1>1, <1>2, <1>3, <2>1, <2>3 DEF GrantsInPlace, Objects, Fixtures
  <2>8. \A y \in {"game", "skins", "graphics", "launch"} : Due(y)' = "RX" \/ y \in low'
    BY <1>1, <1>2, <1>3, <2>1 DEF GrantsInPlace, Fixtures
  <2> QED
    BY <2>4, <2>5, <2>6, <2>7, <2>8 DEF GrantsInPlace
<1> QED
  BY <1>1, <1>5, <1>6 DEF GInv

-----------------------------------------------------------------------------
(* The plan of a launch holds a command for every object that needs one,   *)
(* and each sets what is due.                                              *)
LEMMA PlanPending ==
    ASSUME saved \in Permissions, Compiles("windows", saved), NEW there \in SUBSET Objects,
           saved.protected \subseteq there
    PROVE  /\ Plan(saved, there) \in Stages(AclCommands)
           /\ \A c \in Pending(Plan(saved, there)) :
                 /\ c.as = Due(c.at) /\ c.do \in {"grant", "seal"}
                 /\ c.do = "seal" => c.at \in {"launch", "skins"} \cup (Areas \cap there)
           /\ \A x \in Granted : \E c \in Pending(Plan(saved, there)) : c.at = x /\ c.do = "grant"
           /\ \A x \in {"launch", "skins"} \cup (Areas \cap there) :
                 \E c \in Pending(Plan(saved, there)) : c.at = x /\ c.do = "seal"
           /\ Due("skins") = "M" => \E c \in Pending(Plan(saved, there)) : c.at = "skins" /\ c.do = "grant"
<1> DEFINE on       == {x \in {"game", "skins"} : MayWrite(saved, x)}
           off      == {"game", "skins"} \ on
           readOnly == {Grant(x, FALSE) : x \in off \cup saved.protected \cup {"view", "instance"}}
           writable == {Grant(x, TRUE) : x \in on \cup {"graphics"}} \cup {Replace("launch", TRUE)}
           areas    == {Replace(area, AreaWritable(saved, area)) : area \in Areas \cap there}
           skins    == {Replace("skins", MayWrite(saved, "skins"))}
           all      == readOnly \cup writable \cup areas \cup skins
<1>1. Plan(saved, there) = Stage(readOnly) \o Stage(writable) \o Stage(areas) \o Stage(skins)
  BY DEF Plan
<1>2. saved.protected \subseteq Areas /\ "graphicsCache" \in saved.on
  BY DEF Permissions, Compiles
<1>3. /\ \A x \in Objects : Grant(x, TRUE) = [do |-> "grant", at |-> x, as |-> "M"]
      /\ \A x \in Objects : Grant(x, FALSE) = [do |-> "grant", at |-> x, as |-> "RX"]
      /\ \A x \in Objects, w \in BOOLEAN :
            Replace(x, w) = [do |-> "seal", at |-> x, as |-> IF w THEN "M" ELSE "RX"]
  BY DEF Grant, Replace, Command
<1>4. /\ on \subseteq Objects /\ off \subseteq Objects /\ saved.protected \subseteq Objects
      /\ {"view", "instance", "graphics", "launch", "skins"} \subseteq Objects
      /\ Areas \cap there \subseteq Objects
      /\ MayWrite(saved, "skins") \in BOOLEAN
      /\ \A x \in Areas : AreaWritable(saved, x) \in BOOLEAN
  BY <1>2, Geography DEF Objects, Fixtures, AreaWritable, MayWrite
<1>5. /\ \A x \in off \cup saved.protected \cup {"view", "instance"} : Due(x) = "RX"
      /\ \A x \in on \cup {"graphics", "launch"} : Due(x) = "M"
      /\ \A x \in Areas : Due(x) = IF AreaWritable(saved, x) THEN "M" ELSE "RX"
      /\ Due("skins") = IF MayWrite(saved, "skins") THEN "M" ELSE "RX"
      /\ Due("skins") = "M" => "skins" \in on
  BY <1>2, DueFacts
<1>6. ASSUME NEW c \in readOnly PROVE c \in AclCommands /\ c.as = Due(c.at) /\ c.do = "grant"
  <2>1. PICK x \in off \cup saved.protected \cup {"view", "instance"} : c = Grant(x, FALSE)
    OBVIOUS
  <2>2. x \in Objects /\ Due(x) = "RX"
    BY <1>4, <1>5
  <2> QED
    BY <2>1, <2>2 DEF AclCommands, Grant, Command
<1>7. ASSUME NEW c \in writable
      PROVE  /\ c \in AclCommands /\ c.as = Due(c.at)
             /\ c.do = "grant" \/ (c.do = "seal" /\ c.at = "launch")
  <2>1. CASE c = Replace("launch", TRUE)
    BY <1>4, <1>5, <2>1 DEF AclCommands, Replace, Command
  <2>2. CASE c # Replace("launch", TRUE)
    <3>1. PICK x \in on \cup {"graphics"} : c = Grant(x, TRUE)
      BY <2>2
    <3>2. x \in Objects /\ Due(x) = "M"
      BY <1>4, <1>5
    <3> QED
      BY <3>1, <3>2 DEF AclCommands, Grant, Command
  <2> QED
    BY <2>1, <2>2
<1>8. \A c \in areas :
         /\ c \in AclCommands /\ c.as = Due(c.at)
         /\ c.do = "seal" /\ c.at \in Areas \cap there
  BY <1>3, <1>4, <1>5 DEF AclCommands
<1>9. /\ \A c \in skins : c \in AclCommands /\ c.as = Due(c.at) /\ c.do = "seal" /\ c.at = "skins"
  BY <1>3, <1>4, <1>5 DEF AclCommands
<1>10. ASSUME NEW x \in Granted PROVE \E c \in all : c.at = x /\ c.do = "grant"
  <2>1. CASE x \in off \cup {"view", "instance"}
    <3>1. Grant(x, FALSE) \in all /\ x \in Objects
      BY <1>4, <2>1
    <3> HIDE DEF all, on, off
    <3> QED
      BY <3>1 DEF Grant, Command
  <2>2. CASE x \in on \cup {"graphics"}
    <3>1. Grant(x, TRUE) \in all /\ x \in Objects
      BY <1>4, <2>2
    <3> HIDE DEF all, on, off
    <3> QED
      BY <3>1 DEF Grant, Command
  <2> QED
    BY <2>1, <2>2 DEF Granted
<1>11. Due("skins") = "M" => \E c \in all : c.at = "skins" /\ c.do = "grant"
  <2> SUFFICES ASSUME Due("skins") = "M" PROVE \E c \in all : c.at = "skins" /\ c.do = "grant"
    OBVIOUS
  <2>1. Grant("skins", TRUE) \in all
    BY <1>5
  <2> HIDE DEF all, on, off
  <2> QED
    BY <2>1 DEF Grant, Command
<1>12. ASSUME NEW x \in {"launch", "skins"} \cup (Areas \cap there)
       PROVE  \E c \in all : c.at = x /\ c.do = "seal"
  <2>1. x \in Objects /\ \E w \in BOOLEAN : Replace(x, w) \in all
    BY <1>4
  <2> HIDE DEF all
  <2> QED
    BY <1>3, <2>1
<1>13. Plan(saved, there) \in Stages(AclCommands) /\ Pending(Plan(saved, there)) = all
  <2> HIDE DEF readOnly, writable, areas, skins
  <2>1. /\ readOnly \in SUBSET AclCommands /\ writable \in SUBSET AclCommands
        /\ areas \in SUBSET AclCommands /\ skins \in SUBSET AclCommands
    BY <1>6, <1>7, <1>8, <1>9
  <2>2. /\ Stage(readOnly) \in Stages(AclCommands) /\ Pending(Stage(readOnly)) = readOnly
        /\ Stage(writable) \in Stages(AclCommands) /\ Pending(Stage(writable)) = writable
        /\ Stage(areas) \in Stages(AclCommands) /\ Pending(Stage(areas)) = areas
        /\ Stage(skins) \in Stages(AclCommands) /\ Pending(Stage(skins)) = skins
    BY <2>1, PendingStage
  <2>3. /\ Stage(readOnly) \o Stage(writable) \in Stages(AclCommands)
        /\ Pending(Stage(readOnly) \o Stage(writable)) = readOnly \cup writable
    BY <2>2, PendingConcat
  <2>4. /\ Stage(readOnly) \o Stage(writable) \o Stage(areas) \in Stages(AclCommands)
        /\ Pending(Stage(readOnly) \o Stage(writable) \o Stage(areas)) = readOnly \cup writable \cup areas
    BY <2>2, <2>3, PendingConcat
  <2>5. /\ Plan(saved, there) \in Stages(AclCommands)
        /\ Pending(Plan(saved, there)) = readOnly \cup writable \cup areas \cup skins
    <3> DEFINE first == Stage(readOnly) \o Stage(writable) \o Stage(areas)
    <3>1. Plan(saved, there) = first \o Stage(skins)
      BY <1>1
    <3> HIDE DEF first
    <3>2. first \in Stages(AclCommands) /\ Pending(first) = readOnly \cup writable \cup areas
      BY <2>4 DEF first
    <3> QED
      BY <2>2, <3>1, <3>2, PendingConcat
  <2> QED
    BY <2>5
<1>14. \A c \in all :
          /\ c.as = Due(c.at) /\ c.do \in {"grant", "seal"}
          /\ c.do = "seal" => c.at \in {"launch", "skins"} \cup (Areas \cap there)
  BY <1>6, <1>7, <1>8, <1>9
<1> HIDE DEF all
<1>15. all = Pending(Plan(saved, there))
  BY <1>13
<1>16. /\ \A x \in Granted : \E c \in Pending(Plan(saved, there)) : c.at = x /\ c.do = "grant"
       /\ \A x \in {"launch", "skins"} \cup (Areas \cap there) :
             \E c \in Pending(Plan(saved, there)) : c.at = x /\ c.do = "seal"
       /\ Due("skins") = "M" => \E c \in Pending(Plan(saved, there)) : c.at = "skins" /\ c.do = "grant"
  BY <1>10, <1>11, <1>12, <1>15
<1> QED
  BY <1>13, <1>14, <1>15, <1>16

(* A launch that begins finds every object with a command to come.         *)
LEMMA LaunchPrepares ==
    ASSUME GInv, Launch
    PROVE  GInv'
<1> DEFINE fresh == {"launch"} \cup (saved.protected \ exists)
<1>1. /\ phase = "idle" /\ Compiles(platform, saved)
      /\ exists' = exists \cup saved.protected
      /\ own' = [y \in Objects |-> IF y \in fresh THEN "none" ELSE own[y]]
      /\ sealed' = sealed \ fresh /\ low' = low \ fresh
      /\ saved' = saved /\ platform' = platform
      /\ platform = "windows" => phase' = "granting" /\ todo' = Plan(saved, exists')
      /\ platform # "windows" => phase' = "running"
  BY DEF Launch, Plain
<1>2. \A y : Due(y)' = Due(y)
  BY <1>1, SameDue
<1>3. saved \in Permissions /\ saved.protected \subseteq Areas
  BY DEF GInv, GrantShape, GrantTypeOK, Permissions
<1>4. GrantShape'
  <2>1. exists' \subseteq Objects
    BY <1>1, <1>3 DEF GInv, GrantShape, GrantTypeOK, Objects
  <2>2. own' \in [Objects -> {"none", "RX", "M"}] /\ sealed' \subseteq Objects /\ low' \subseteq Objects
    BY <1>1 DEF GInv, GrantShape, GrantTypeOK
  <2>3. \A y \in Items \cap exists' : AreaOf[y] \in exists'
    BY <1>1, <1>3, Geography DEF GInv, GrantShape
  <2>4. GrantTypeOK'
    BY <1>1, <2>1, <2>2 DEF GInv, GrantShape, GrantTypeOK
  <2> QED
    BY <1>1, <2>3, <2>4 DEF GInv, GrantShape
<1>5. ASSUME platform = "windows" PROVE PlanAgrees' /\ GrantsOnTheWay'
  <2>1. exists' \in SUBSET Objects /\ saved.protected \subseteq exists'
    BY <1>1, <1>4 DEF GrantShape, GrantTypeOK
  <2>2. todo' = Plan(saved, exists') /\ Compiles("windows", saved)
    BY <1>1, <1>5
  <2>3. /\ todo' \in Stages(AclCommands)
        /\ \A c \in Pending(todo') :
                 /\ c.as = Due(c.at) /\ c.do \in {"grant", "seal"}
                 /\ c.do = "seal" => c.at \in {"launch", "skins"} \cup (Areas \cap exists')
        /\ \A x \in Granted : \E c \in Pending(todo') : c.at = x /\ c.do = "grant"
        /\ \A x \in {"launch", "skins"} \cup (Areas \cap exists') :
                 \E c \in Pending(todo') : c.at = x /\ c.do = "seal"
        /\ Due("skins") = "M" => \E c \in Pending(todo') : c.at = "skins" /\ c.do = "grant"
    BY <1>3, <2>1, <2>2, PlanPending
  <2>4. Pending(todo)' = Pending(todo') /\ Boundaries' = {"launch", "skins"} \cup (Areas \cap exists')
    BY DEF Pending, Boundaries
  <2>5. PlanAgrees'
    BY <1>2, <2>3, <2>4 DEF PlanAgrees, Replacing
  <2>6. \A x \in {"game", "graphics"} : \E c \in Pending(todo') : c.at = x /\ c.do = "grant"
    BY <2>3 DEF Granted
  <2>7. \A x : Due(x) \in {"RX", "M"}
    BY DEF Due
  <2>8. \A x \in {"game", "skins", "graphics", "launch"} :
          \/ Due(x)' = "RX"
          \/ \E c \in Pending(todo') :
                c.at = x /\ (c.do \in {"label", "grant"} \/ (x = "launch" /\ c.do \in Replacing))
    BY <1>2, <2>3, <2>6, <2>7 DEF Replacing
  <2> QED
    BY <2>3, <2>4, <2>5, <2>8 DEF GrantsOnTheWay, Replacing
<1> QED
  BY <1>1, <1>4, <1>5 DEF GInv, Platforms

-----------------------------------------------------------------------------
(* What remains of a command once its first part has run.                  *)
LEMMA CompletionPending ==
    ASSUME NEW c \in AclCommands
    PROVE  /\ Completion(c) \in Stages(AclCommands)
           /\ Pending(Completion(c)) =
                 CASE c.do = "grant" /\ c.as = "M" -> {Command("label", c.at, c.as)}
                   [] c.do = "seal"                -> {Command("strip", c.at, c.as)}
                   [] c.do = "strip"               -> {Command("set", c.at, c.as)}
                   [] c.do = "set" /\ c.at = "launch" -> {Command("label", c.at, c.as)}
                   [] OTHER                        -> {}
<1>1. \A d \in AclCommands : <<{d}>> \in Stages(AclCommands) /\ Pending(<<{d}>>) = {d}
  <2> SUFFICES ASSUME NEW d \in AclCommands
               PROVE  <<{d}>> \in Stages(AclCommands) /\ Pending(<<{d}>>) = {d}
    OBVIOUS
  <2>1. <<{d}>> = Stage({d})
    BY DEF Stage
  <2> QED
    BY <2>1, PendingStage
<1>2. <<>> \in Stages(AclCommands) /\ Pending(<<>>) = {}
  <2>1. <<>> = Stage({})
    BY DEF Stage
  <2> QED
    BY <2>1, PendingStage
<1>3. \A do \in {"label", "strip", "set"} : Command(do, c.at, c.as) \in AclCommands
  BY DEF Command, AclCommands
<1>4. c.do \in {"grant", "seal", "strip", "set", "label"}
  BY DEF AclCommands
<1>5. CASE c.do = "grant" /\ c.as = "M"
  BY <1>1, <1>3, <1>5 DEF Completion
<1>6. CASE c.do = "seal"
  BY <1>1, <1>3, <1>6 DEF Completion
<1>7. CASE c.do = "strip"
  BY <1>1, <1>3, <1>7 DEF Completion
<1>8. CASE c.do = "set" /\ c.at = "launch"
  BY <1>1, <1>3, <1>8 DEF Completion
<1>9. CASE (c.do = "grant" /\ c.as # "M") \/ (c.do = "set" /\ c.at # "launch") \/ c.do = "label"
  BY <1>2, <1>9 DEF Completion
<1> QED
  BY <1>4, <1>5, <1>6, <1>7, <1>8, <1>9

(* A command is run: what it leaves to do comes in its place.              *)
LEMMA CommandRuns ==
    ASSUME NEW plan \in Stages(AclCommands), plan # <<>>, NEW c \in Head(plan),
           NEW next, next = Completion(c) \o Stage(Head(plan) \ {c}) \o Tail(plan)
    PROVE  /\ c \in AclCommands /\ c \in Pending(plan)
           /\ next \in Stages(AclCommands)
           /\ \A d \in Pending(plan) : d = c \/ d \in Pending(next)
           /\ Pending(Completion(c)) \subseteq Pending(next)
           /\ Pending(next) \subseteq Pending(plan) \cup Pending(Completion(c))
<1> DEFINE rest == Head(plan) \ {c}
           front == Completion(c) \o Stage(rest)
<1>1. /\ Head(plan) \in SUBSET AclCommands /\ Tail(plan) \in Stages(AclCommands)
      /\ Pending(plan) = Head(plan) \cup Pending(Tail(plan))
  BY PendingHead
<1>2. c \in AclCommands /\ rest \in SUBSET AclCommands
  BY <1>1
<1>3. Completion(c) \in Stages(AclCommands)
  BY <1>2, CompletionPending
<1>4. Stage(rest) \in Stages(AclCommands) /\ Pending(Stage(rest)) = rest
  <2> HIDE DEF rest
  <2> QED
    BY <1>2, PendingStage
<1>5. front \in Stages(AclCommands) /\ Pending(front) = Pending(Completion(c)) \cup rest
  <2> HIDE DEF rest
  <2> QED
    BY <1>3, <1>4, PendingConcat
<1>6. /\ next \in Stages(AclCommands)
      /\ Pending(next) = Pending(Completion(c)) \cup rest \cup Pending(Tail(plan))
  <2>1. next = front \o Tail(plan)
    OBVIOUS
  <2>2. Pending(front) = Pending(Completion(c)) \cup rest
    BY <1>5
  <2> HIDE DEF front, rest
  <2>3. /\ front \o Tail(plan) \in Stages(AclCommands)
        /\ Pending(front \o Tail(plan)) = Pending(front) \cup Pending(Tail(plan))
    BY <1>1, <1>5, PendingConcat
  <2> QED
    BY <2>1, <2>2, <2>3
<1> QED
  BY <1>1, <1>2, <1>6

(* A command of the plan runs; whatever it undoes elsewhere has a command  *)
(* to come.                                                                *)
LEMMA RunCommandOnTheWay ==
    ASSUME GInv, RunCommand
    PROVE  GInv'
<1>1. phase = "granting" /\ todo # <<>> /\ GrantShape /\ PlanAgrees /\ GrantsOnTheWay
  BY DEF RunCommand, GInv
<1>2. todo \in Stages(AclCommands)
  BY <1>1 DEF PlanAgrees
<1>3. PICK c \in Head(todo) :
         Apply(c) /\ todo' = Completion(c) \o Stage(Head(todo) \ {c}) \o Tail(todo)
  <2>1. Head(todo) # {}
    BY <1>1, <1>2, PendingHead
  <2>2. (CHOOSE d \in Head(todo) : TRUE) \in Head(todo)
    BY <2>1
  <2> QED
    BY <2>2 DEF RunCommand
<1>4. Apply(c) /\ todo' = Completion(c) \o Stage(Head(todo) \ {c}) \o Tail(todo)
  BY <1>3
<1>5. platform' = platform /\ saved' = saved /\ exists' = exists /\ phase' = phase
  BY DEF RunCommand
<1>6. /\ c \in AclCommands /\ c \in Pending(todo)
      /\ todo' \in Stages(AclCommands)
      /\ \A d \in Pending(todo) : d = c \/ d \in Pending(todo)'
      /\ Pending(Completion(c)) \subseteq Pending(todo)'
      /\ Pending(todo)' \subseteq Pending(todo) \cup Pending(Completion(c))
  <2>1. Pending(todo)' = Pending(todo')
    BY DEF Pending
  <2>2. \A next : next = Completion(c) \o Stage(Head(todo) \ {c}) \o Tail(todo) =>
          /\ c \in AclCommands /\ c \in Pending(todo)
          /\ next \in Stages(AclCommands)
          /\ \A d \in Pending(todo) : d = c \/ d \in Pending(next)
          /\ Pending(Completion(c)) \subseteq Pending(next)
          /\ Pending(next) \subseteq Pending(todo) \cup Pending(Completion(c))
    BY <1>1, <1>2, <1>3, CommandRuns
  <2> QED
    BY <1>4, <2>1, <2>2
<1>7. /\ c.as = Due(c.at) /\ c.at \in Objects /\ c.as \in {"RX", "M"}
      /\ c.do \in {"grant", "seal", "strip", "set", "label"}
      /\ c.do = "label" => c.as = "M"
      /\ c.do \in Replacing => c.at \in Boundaries
      /\ c.do \in {"strip", "set"} => c.at \in sealed
  BY <1>1, <1>6 DEF PlanAgrees, AclCommands
<1>8. \A x : Due(x)' = Due(x)
  BY <1>5, SameDue
<1>9. /\ own \in [Objects -> AccessLevels] /\ sealed \subseteq Sealable /\ Sealable \subseteq Objects
      /\ low \subseteq Objects /\ saved \in Permissions /\ exists \subseteq Objects
      /\ Boundaries' = Boundaries
  BY <1>1, <1>5, Geography
     DEF GrantShape, GrantTypeOK, AccessLevels, Sealable, Objects, Fixtures, Boundaries
<1>10. /\ \A x \in Boundaries : x \in Sealable /\ x \notin Granted /\ x \notin Items /\ Inside(x) \subseteq Items
       /\ \A x, y \in Boundaries : x # y => Inside(x) \cap Inside(y) = {}
       /\ \A x \in Boundaries : \A y \in Inside(x) : Due(y) = Due(x)
       /\ \A x \in Granted : x \in Objects /\ x \notin Items
       /\ Items \subseteq Objects
  <2>1. \A x \in Boundaries : \A y \in Inside(x) : y \in Items /\ AreaOf[y] = x /\ x \in Areas
    BY Geography DEF Inside
  <2>2. \A x \in Boundaries : x \in Sealable /\ x \notin Granted /\ x \notin Items
    BY Geography DEF Boundaries, Sealable, Granted, Fixtures
  <2>3. \A x \in Granted : x \in Objects /\ x \notin Items
    BY Geography DEF Granted, Objects, Fixtures
  <2>4. \A y \in Items : Due(y) = Due(AreaOf[y])
    BY <1>9, DueFacts
  <2> QED
    BY <2>1, <2>2, <2>3, <2>4 DEF Objects
<1>11. \A x \in Objects : Access[x] \in AccessLevels
  BY <1>1, AccessType DEF GrantShape
<1>12. Cut(c.at)' <=> /\ c.at \in sealed' /\ own'[c.at] = Due(c.at)
                      /\ \A y \in Inside(c.at) \cap exists : own'[y] = Due(y)
  BY <1>5, <1>8 DEF Cut, Inside
<1>13. \A x : Cut(x)' <=> /\ x \in sealed' /\ own'[x] = Due(x)
                           /\ \A y \in Inside(x) \cap exists : own'[y] = Due(y)
  BY <1>5, <1>8 DEF Cut, Inside
\* What is left to show of each command.
<1> DEFINE Effect ==
      /\ own' \in [Objects -> AccessLevels]
      /\ sealed \subseteq sealed' /\ sealed' \subseteq Sealable
      /\ low \subseteq low' /\ low' \subseteq Objects
      /\ \A d \in Pending(Completion(c)) :
            /\ d.at = c.at /\ d.as = c.as
            /\ d.do = "label" => c.as = "M"
            /\ d.do \in Replacing => c.do \in Replacing
            /\ d.do \in {"strip", "set"} => c.at \in sealed'
      /\ \A x \in Granted : own[x] = Due(x) => own'[x] = Due(x)
      /\ c.do = "grant" => own'[c.at] = Due(c.at)
      /\ \A x \in Boundaries : x # c.at /\ Cut(x) => Cut(x)'
      /\ c.at \in Boundaries =>
            \/ c.do \in {"grant", "label"} /\ (Cut(c.at) => Cut(c.at)')
            \/ Cut(c.at)'
            \/ \E d \in Pending(Completion(c)) : d.at = c.at /\ d.do \in Replacing
      /\ (Due(c.at) = "M" /\ (c.do \in {"label", "grant"} \/ (c.at = "launch" /\ c.do \in Replacing))) =>
            \/ c.at \in low'
            \/ \E d \in Pending(Completion(c)) :
                  d.at = c.at /\ (d.do = "label" \/ (c.at = "launch" /\ d.do \in Replacing))
<1>14. Effect
  <2>1. CASE c.do = "grant"
    <3>1. own' = [own EXCEPT ![c.at] = c.as] /\ sealed' = sealed /\ low' = low
      BY <1>4, <2>1 DEF Apply
    <3>2. \A d \in Pending(Completion(c)) : c.as = "M" /\ d = Command("label", c.at, c.as)
      BY <1>6, <2>1, CompletionPending
    <3>3. c.as = "M" => Command("label", c.at, c.as) \in Pending(Completion(c))
      BY <1>6, <2>1, CompletionPending
    <3>4. \A x \in Objects : own[x] = Due(x) => own'[x] = Due(x)
      BY <1>7, <1>9, <3>1
    <3>5. \A x \in Boundaries : Cut(x) => Cut(x)'
      BY <1>9, <1>10, <1>13, <3>1, <3>4 DEF Cut
    <3>6. own' \in [Objects -> AccessLevels] /\ own'[c.at] = Due(c.at)
      BY <1>7, <1>9, <3>1 DEF AccessLevels
    <3> QED
      BY <1>7, <1>9, <1>10, <2>1, <3>1, <3>2, <3>3, <3>4, <3>5, <3>6 DEF Command, Replacing
  <2>2. CASE c.do = "seal"
    <3>1. own' = [own EXCEPT ![c.at] = Access[c.at]] /\ sealed' = sealed \cup {c.at} /\ low' = low
      BY <1>4, <2>2 DEF Apply
    <3>2. Pending(Completion(c)) = {Command("strip", c.at, c.as)}
      BY <1>6, <2>2, CompletionPending
    <3>3. c.at \in Boundaries
      BY <1>7, <2>2 DEF Replacing
    <3>4. \A x \in Objects : x # c.at => own'[x] = own[x]
      BY <1>9, <3>1
    <3>5. \A x \in Boundaries : x # c.at /\ Cut(x) => Cut(x)'
      BY <1>9, <1>10, <1>13, <3>1, <3>3, <3>4 DEF Cut
    <3>6. own' \in [Objects -> AccessLevels]
      BY <1>7, <1>9, <1>11, <3>1
    <3> QED
      BY <1>7, <1>9, <1>10, <2>2, <3>1, <3>2, <3>3, <3>4, <3>5, <3>6 DEF Command, Replacing
  <2>3. CASE c.do = "strip"
    <3>1. /\ own' = [y \in Objects |-> IF y \in {c.at} \cup Inside(c.at) THEN "none" ELSE own[y]]
          /\ sealed' = sealed /\ low' = low
      BY <1>4, <2>3 DEF Apply
    <3>2. Pending(Completion(c)) = {Command("set", c.at, c.as)}
      BY <1>6, <2>3, CompletionPending
    <3>3. c.at \in Boundaries /\ c.at \in sealed
      BY <1>7, <2>3 DEF Replacing
    <3>4. \A x \in Objects : x # c.at /\ x \notin Inside(c.at) => own'[x] = own[x]
      BY <1>9, <3>1
    <3>5. \A x \in Boundaries : x # c.at /\ Cut(x) => Cut(x)'
      BY <1>9, <1>10, <1>13, <3>1, <3>3, <3>4 DEF Cut
    <3>6. own' \in [Objects -> AccessLevels]
      BY <1>9, <3>1 DEF AccessLevels
    <3>7. \A x \in Granted : own[x] = Due(x) => own'[x] = Due(x)
      BY <1>10, <3>3, <3>4
    <3>8. /\ Command("set", c.at, c.as).do = "set" /\ Command("set", c.at, c.as).at = c.at
          /\ Command("set", c.at, c.as).as = c.as
      BY DEF Command
    <3>9. \E d \in Pending(Completion(c)) : d.at = c.at /\ d.do \in Replacing
      BY <3>2, <3>8 DEF Replacing
    <3>10. \A d \in Pending(Completion(c)) :
             /\ d.at = c.at /\ d.as = c.as
             /\ d.do = "label" => c.as = "M"
             /\ d.do \in Replacing => c.do \in Replacing
             /\ d.do \in {"strip", "set"} => c.at \in sealed'
      BY <2>3, <3>1, <3>2, <3>3, <3>8 DEF Replacing
    <3>11. (Due(c.at) = "M" /\ (c.do \in {"label", "grant"} \/ (c.at = "launch" /\ c.do \in Replacing))) =>
              \E d \in Pending(Completion(c)) :
                 d.at = c.at /\ (d.do = "label" \/ (c.at = "launch" /\ d.do \in Replacing))
      BY <2>3, <3>9
    <3>12. sealed \subseteq sealed' /\ sealed' \subseteq Sealable /\ low \subseteq low' /\ low' \subseteq Objects
      BY <1>9, <3>1
    <3> QED
      BY <2>3, <3>5, <3>6, <3>7, <3>9, <3>10, <3>11, <3>12
  <2>4. CASE c.do = "set"
    <3>1. /\ own' = [y \in Objects |-> IF y \in {c.at} \cup Inside(c.at) THEN c.as ELSE own[y]]
          /\ sealed' = sealed /\ low' = low
      BY <1>4, <2>4 DEF Apply
    <3>2. Pending(Completion(c)) = IF c.at = "launch" THEN {Command("label", c.at, c.as)} ELSE {}
      BY <1>6, <2>4, CompletionPending
    <3>3. c.at \in Boundaries /\ c.at \in sealed
      BY <1>7, <2>4 DEF Replacing
    <3>4. \A x \in Objects : x # c.at /\ x \notin Inside(c.at) => own'[x] = own[x]
      BY <1>9, <3>1
    <3>5. \A x \in Boundaries : x # c.at /\ Cut(x) => Cut(x)'
      BY <1>9, <1>10, <1>13, <3>1, <3>3, <3>4 DEF Cut
    <3>6. own' \in [Objects -> AccessLevels]
      BY <1>7, <1>9, <3>1 DEF AccessLevels
    <3>7. \A x \in Granted : own[x] = Due(x) => own'[x] = Due(x)
      BY <1>10, <3>3, <3>4
    <3>8. Cut(c.at)'
      BY <1>7, <1>9, <1>10, <1>12, <3>1, <3>3
    <3>9. c.at = "launch" => c.as = "M"
      BY <1>7, <1>9, DueFacts
    <3>10. /\ Command("label", c.at, c.as).do = "label" /\ Command("label", c.at, c.as).at = c.at
           /\ Command("label", c.at, c.as).as = c.as
      BY DEF Command
    <3>11. \A d \in Pending(Completion(c)) :
             /\ d.at = c.at /\ d.as = c.as
             /\ d.do = "label" => c.as = "M"
             /\ d.do \in Replacing => c.do \in Replacing
             /\ d.do \in {"strip", "set"} => c.at \in sealed'
      BY <2>4, <3>1, <3>2, <3>3, <3>9, <3>10 DEF Replacing
    <3>12. c.at = "launch" => \E d \in Pending(Completion(c)) : d.at = c.at /\ d.do = "label"
      BY <3>2, <3>10
    <3>13. sealed \subseteq sealed' /\ sealed' \subseteq Sealable /\ low \subseteq low' /\ low' \subseteq Objects
      BY <1>9, <3>1
    <3> QED
      BY <2>4, <3>5, <3>6, <3>7, <3>8, <3>11, <3>12, <3>13
  <2>5. CASE c.do = "label"
    <3>1. own' = own /\ sealed' = sealed /\ low' = low \cup {c.at}
      BY <1>4, <2>5 DEF Apply
    <3>2. Pending(Completion(c)) = {}
      BY <1>6, <2>5, CompletionPending
    <3>3. \A x \in Boundaries : Cut(x) => Cut(x)'
      BY <1>13, <3>1 DEF Cut
    <3> QED
      BY <1>7, <1>9, <2>5, <3>1, <3>2, <3>3
  <2> QED
    BY <1>7, <2>1, <2>2, <2>3, <2>4, <2>5
<1>15. GrantShape'
  BY <1>1, <1>5, <1>9, <1>14 DEF GrantShape, GrantTypeOK, AccessLevels
<1>16. PlanAgrees'
  <2> SUFFICES ASSUME NEW d \in Pending(todo)'
               PROVE  /\ d.as = Due(d.at)
                      /\ d.do = "label" => d.as = "M"
                      /\ d.do \in Replacing => d.at \in Boundaries
                      /\ d.do \in {"strip", "set"} => d.at \in sealed'
    BY <1>6, <1>8, <1>9 DEF PlanAgrees, Replacing
  <2>1. CASE d \in Pending(todo)
    BY <1>1, <1>14, <2>1 DEF PlanAgrees
  <2>2. CASE d \in Pending(Completion(c))
    BY <1>7, <1>14, <2>2
  <2> QED
    BY <1>6, <2>1, <2>2
<1>17. GrantsOnTheWay'
  <2>1. ASSUME NEW x \in Granted
        PROVE  own'[x] = Due(x) \/ \E d \in Pending(todo)' : d.at = x /\ d.do = "grant"
    BY <1>1, <1>6, <1>14 DEF GrantsOnTheWay
  <2>2. ASSUME NEW x \in Boundaries
        PROVE  Cut(x)' \/ \E d \in Pending(todo)' : d.at = x /\ d.do \in Replacing
    <3>1. Cut(x) \/ \E d \in Pending(todo) : d.at = x /\ d.do \in Replacing
      BY <1>1 DEF GrantsOnTheWay
    <3>2. "grant" \notin Replacing /\ "label" \notin Replacing
      BY DEF Replacing
    <3> QED
      BY <1>6, <1>14, <3>1, <3>2
  <2>3. ASSUME NEW x \in {"game", "skins", "graphics", "launch"}
        PROVE  \/ Due(x) = "RX"
               \/ x \in low'
               \/ \E d \in Pending(todo)' :
                     /\ d.at = x
                     /\ d.do \in {"label", "grant"} \/ (x = "launch" /\ d.do \in Replacing)
    <3>1. Due(x) \in {"RX", "M"}
      BY <1>9, DueFacts
    <3>2. \/ Due(x) = "RX"
          \/ x \in low
          \/ \E d \in Pending(todo) :
                /\ d.at = x
                /\ d.do \in {"label", "grant"} \/ (x = "launch" /\ d.do \in Replacing)
      BY <1>1 DEF GrantsOnTheWay
    <3> QED
      BY <1>6, <1>14, <3>1, <3>2
  <2> QED
    BY <1>8, <1>9, <2>1, <2>2, <2>3 DEF GrantsOnTheWay, Replacing
<1> QED
  BY <1>1, <1>5, <1>15, <1>16, <1>17 DEF GInv

(* Permissions are saved, a launch gives up or starts the game, or the     *)
(* game ends.                                                              *)
LEMMA SimpleSteps ==
    ASSUME GInv,
           \/ \E new \in Permissions : SavePermissions(new)
           \/ GiveUp
           \/ Start
           \/ GameOver
           \/ UNCHANGED grantVars
    PROVE  GInv'
<1>1. ASSUME NEW new \in Permissions, SavePermissions(new) PROVE GInv'
  BY <1>1 DEF SavePermissions, aclVars, GInv, GrantShape, GrantTypeOK
<1>2. CASE GiveUp
  BY <1>2 DEF GiveUp, aclVars, GInv, GrantShape, GrantTypeOK
<1>3. CASE Start
  <2>1. /\ phase = "granting" /\ todo = <<>> /\ phase' = "running"
        /\ platform' = platform /\ saved' = saved /\ exists' = exists
        /\ own' = own /\ sealed' = sealed /\ low' = low
    BY <1>3 DEF Start, aclVars
  <2>2. Pending(todo) = {}
    BY <2>1 DEF Pending
  <2>3. GrantShape'
    BY <2>1 DEF GInv, GrantShape, GrantTypeOK
  <2>4. \A y : Due(y)' = Due(y)
    BY <2>1, SameDue
  <2>5. /\ \A x \in Granted : own[x] = Due(x)
        /\ \A x \in Boundaries : Cut(x)
        /\ \A x \in {"game", "skins", "graphics", "launch"} : Due(x) = "RX" \/ x \in low
    BY <2>1, <2>2 DEF GInv, GrantsOnTheWay
  <2>6. \A x \in Items \cap exists : own[x] = Due(x)
    <3> SUFFICES ASSUME NEW x \in Items \cap exists PROVE own[x] = Due(x)
      OBVIOUS
    <3>1. AreaOf[x] \in Boundaries /\ x \in Inside(AreaOf[x])
      BY Geography DEF GInv, GrantShape, Boundaries, Inside
    <3> QED
      BY <2>5, <3>1 DEF Cut
  <2>7. GrantsInPlace'
    BY <2>1, <2>4, <2>5, <2>6 DEF GrantsInPlace, Cut, Boundaries
  <2> QED
    BY <2>1, <2>3, <2>7 DEF GInv
<1>4. CASE GameOver
  BY <1>4 DEF GameOver, aclVars, GInv, GrantShape, GrantTypeOK
<1>5. CASE UNCHANGED grantVars
  <2>1. /\ GrantShape' = GrantShape /\ PlanAgrees' = PlanAgrees
        /\ GrantsOnTheWay' = GrantsOnTheWay /\ GrantsInPlace' = GrantsInPlace
    BY <1>5 DEF grantVars, GrantShape, GrantTypeOK, PlanAgrees, GrantsOnTheWay, GrantsInPlace, Cut, New,
                Due, Boundaries, Pending
  <2> QED
    BY <1>5, <2>1 DEF GInv, grantVars
<1> QED
  BY <1>1, <1>2, <1>3, <1>4, <1>5

(* Every step preserves the invariant.                                     *)
LEMMA NextGInv == GInv /\ [GrantNext]_grantVars => GInv'
<1> SUFFICES ASSUME GInv, [GrantNext]_grantVars PROVE GInv'
  OBVIOUS
<1>1. CASE Launch
  BY <1>1, LaunchPrepares
<1>2. CASE RunCommand
  BY <1>2, RunCommandOnTheWay
<1>3. ASSUME NEW x \in Areas \cup Items, Make(x) PROVE GInv'
  BY <1>3, RunMakes
<1>4. ASSUME NEW area \in Areas, Take(area) PROVE GInv'
  BY <1>4, RunTakes
<1> QED
  BY <1>1, <1>2, <1>3, <1>4, SimpleSteps DEF GrantNext

-----------------------------------------------------------------------------
(* What the policy allows, path by path.                                   *)
LEMMA MayWriteCases ==
    ASSUME NEW p
    PROVE  /\ \A x \in Areas : MayWrite(p, x) = ("gameWrite" \in p.on /\ x \notin p.protected)
           /\ MayWrite(p, "game") = ("gameWrite" \in p.on)
           /\ MayWrite(p, "skins") = ("skinCache" \in p.on)
           /\ MayWrite(p, "graphics") = ("graphicsCache" \in p.on)
           /\ MayWrite(p, "temp") = TRUE
           /\ \A x \in {"shared", "launch", "view"} : MayWrite(p, x) = FALSE
<1>1. Areas \cap {"shared", "game", "launch", "temp", "view", "skins", "graphics"} = {}
  BY ObjectsAssumption DEF Fixtures
<1> QED
  BY <1>1 DEF MayWrite

(* The last rule that touches a path decides as the policy means it.       *)
LEMMA RulesDecide ==
    ASSUME NEW p \in Permissions, NEW path \in Paths
    PROVE  GrantedFiles(Requested(p), path) <=> MayWrite(p, path)
<1> DEFINE rules == Requested(p)
           touching == {i \in DOMAIN rules : \E r \in rules[i] : r.path \in Above(path)}
           last == CHOOSE i \in touching : \A j \in touching : j <= i
<1>1. /\ DOMAIN rules = 1 .. 5
      /\ rules[1] = {Rule("shared", FALSE), Rule("game", "gameWrite" \in p.on), Rule("launch", FALSE)}
      /\ rules[2] = {Rule("temp", TRUE)}
      /\ rules[3] = {Rule(area, FALSE) : area \in p.protected}
      /\ rules[4] = {Rule("view", FALSE)}
      /\ rules[5] = {Rule("skins", "skinCache" \in p.on), Rule("graphics", "graphicsCache" \in p.on)}
  BY DEF Requested
<1>2. p.protected \subseteq Areas
  BY DEF Permissions
<1>3. Areas \cap {"shared", "game", "launch", "temp", "view", "skins", "graphics"} = {}
  BY ObjectsAssumption DEF Fixtures
<1>4. ASSUME NEW k \in 1 .. 5, k \in touching, \A j \in touching : j <= k
      PROVE  GrantedFiles(Requested(p), path) = \E r \in rules[k] : r.path \in Above(path) /\ r.write
  <2>1. last = k
    <3>1. \A i \in touching : i \in Nat
      BY <1>1
    <3>2. last \in touching /\ \A j \in touching : j <= last
      BY <1>4
    <3> HIDE DEF last, touching
    <3> QED
      BY <1>4, <3>1, <3>2
  <2> QED
    BY <2>1 DEF GrantedFiles
<1>5. \A i \in touching : i \in 1 .. 5
  BY <1>1
<1>6. /\ \A x \in Areas : Above(x) = {x, "game"}
      /\ Above("temp") = {"temp", "launch"} /\ Above("skins") = {"skins", "view"}
      /\ \A x \in {"shared", "game", "launch", "view", "graphics"} : Above(x) = {x}
  BY <1>3 DEF Above
<1>7. /\ \A r \in rules[1] : \/ r.path \in {"shared", "launch"} /\ ~r.write
                             \/ r.path = "game" /\ (r.write <=> "gameWrite" \in p.on)
      /\ \A x \in {"shared", "game", "launch"} : \E r \in rules[1] : r.path = x
      /\ \A r \in rules[2] : r.path = "temp" /\ r.write
      /\ \E r \in rules[2] : r.path = "temp"
      /\ \A r \in rules[3] : r.path \in p.protected /\ ~r.write
      /\ \A x \in p.protected : \E r \in rules[3] : r.path = x
      /\ \A r \in rules[4] : r.path = "view" /\ ~r.write
      /\ \E r \in rules[4] : r.path = "view"
      /\ \A r \in rules[5] : \/ r.path = "skins" /\ (r.write <=> "skinCache" \in p.on)
                             \/ r.path = "graphics" /\ (r.write <=> "graphicsCache" \in p.on)
      /\ \A x \in {"skins", "graphics"} : \E r \in rules[5] : r.path = x
  <2> DEFINE g == "gameWrite" \in p.on
             k == "skinCache" \in p.on
             c == "graphicsCache" \in p.on
  <2>1. g \in BOOLEAN /\ k \in BOOLEAN /\ c \in BOOLEAN
    OBVIOUS
  <2>2. /\ rules[1] = {[path |-> "shared", write |-> FALSE], [path |-> "game", write |-> g],
                       [path |-> "launch", write |-> FALSE]}
        /\ rules[2] = {[path |-> "temp", write |-> TRUE]}
        /\ rules[3] = {[path |-> area, write |-> FALSE] : area \in p.protected}
        /\ rules[4] = {[path |-> "view", write |-> FALSE]}
        /\ rules[5] = {[path |-> "skins", write |-> k], [path |-> "graphics", write |-> c]}
    BY <1>1 DEF Rule
  <2> HIDE DEF rules, g, k, c
  <2>3. /\ \A r \in rules[1] : \/ r.path \in {"shared", "launch"} /\ ~r.write
                               \/ r.path = "game" /\ (r.write <=> g)
        /\ \A x \in {"shared", "game", "launch"} : \E r \in rules[1] : r.path = x
    <3>1. ASSUME NEW r \in rules[1]
          PROVE  \/ r.path \in {"shared", "launch"} /\ ~r.write
                 \/ r.path = "game" /\ (r.write <=> g)
      <4>1. CASE r = [path |-> "game", write |-> g]
        BY <2>1, <4>1
      <4>2. CASE r # [path |-> "game", write |-> g]
        BY <2>2, <4>2
      <4> QED
        BY <4>1, <4>2
    <3>2. /\ [path |-> "shared", write |-> FALSE] \in rules[1] /\ [path |-> "game", write |-> g] \in rules[1]
          /\ [path |-> "launch", write |-> FALSE] \in rules[1]
      BY <2>2
    <3>3. (\E r \in rules[1] : r.path = "shared") /\ (\E r \in rules[1] : r.path = "launch")
      BY <3>2
    <3>4. \E r \in rules[1] : r.path = "game"
      <4>1. [path |-> "game", write |-> g].path = "game"
        OBVIOUS
      <4> QED
        BY <3>2, <4>1
    <3> QED
      BY <3>1, <3>3, <3>4
  <2>4. /\ \A r \in rules[2] : r.path = "temp" /\ r.write
        /\ \E r \in rules[2] : r.path = "temp"
    BY <2>2
  <2>5. /\ \A r \in rules[3] : r.path \in p.protected /\ ~r.write
        /\ \A x \in p.protected : \E r \in rules[3] : r.path = x
    <3>1. ASSUME NEW r \in rules[3] PROVE r.path \in p.protected /\ ~r.write
      <4>1. PICK area \in p.protected : r = [path |-> area, write |-> FALSE]
        BY <2>2
      <4> QED
        BY <4>1
    <3>2. ASSUME NEW x \in p.protected PROVE \E r \in rules[3] : r.path = x
      <4>1. [path |-> x, write |-> FALSE] \in rules[3]
        BY <2>2
      <4> QED
        BY <4>1
    <3> QED
      BY <3>1, <3>2
  <2>6. /\ \A r \in rules[4] : r.path = "view" /\ ~r.write
        /\ \E r \in rules[4] : r.path = "view"
    BY <2>2
  <2>7. /\ \A r \in rules[5] : \/ r.path = "skins" /\ (r.write <=> k)
                               \/ r.path = "graphics" /\ (r.write <=> c)
        /\ \A x \in {"skins", "graphics"} : \E r \in rules[5] : r.path = x
    <3>1. ASSUME NEW r \in rules[5]
          PROVE  \/ r.path = "skins" /\ (r.write <=> k)
                 \/ r.path = "graphics" /\ (r.write <=> c)
      <4>1. CASE r = [path |-> "skins", write |-> k]
        BY <2>1, <4>1
      <4>2. CASE r = [path |-> "graphics", write |-> c]
        BY <2>1, <4>2
      <4> QED
        BY <2>2, <4>1, <4>2
    <3>2. [path |-> "skins", write |-> k] \in rules[5] /\ [path |-> "graphics", write |-> c] \in rules[5]
      BY <2>2
    <3>3. [path |-> "skins", write |-> k].path = "skins" /\ [path |-> "graphics", write |-> c].path = "graphics"
      OBVIOUS
    <3>4. (\E r \in rules[5] : r.path = "skins") /\ (\E r \in rules[5] : r.path = "graphics")
      BY <3>2, <3>3
    <3> QED
      BY <3>1, <3>4
  <2> QED
    BY <2>3, <2>4, <2>5, <2>6, <2>7 DEF g, k, c
<1>8. \A k \in 1 .. 5 : k \in touching <=> \E r \in rules[k] : r.path \in Above(path)
  BY <1>1
<1>9. /\ \A x \in Areas : MayWrite(p, x) = ("gameWrite" \in p.on /\ x \notin p.protected)
      /\ MayWrite(p, "game") = ("gameWrite" \in p.on)
      /\ MayWrite(p, "skins") = ("skinCache" \in p.on)
      /\ MayWrite(p, "graphics") = ("graphicsCache" \in p.on)
      /\ MayWrite(p, "temp") = TRUE
      /\ \A x \in {"shared", "launch", "view"} : MayWrite(p, x) = FALSE
  BY MayWriteCases
<1> DEFINE granted(k) == \E r \in rules[k] : r.path \in Above(path) /\ r.write
           latest(k) == k \in 1 .. 5 /\ k \in touching /\ \A j \in touching : j <= k
<1> HIDE DEF touching, rules
<1>10. ASSUME NEW k, latest(k) PROVE GrantedFiles(Requested(p), path) <=> granted(k)
  BY <1>4, <1>10
<1>11. CASE path \in {"shared", "launch"}
  <2>1. latest(1)
    BY <1>2, <1>3, <1>5, <1>6, <1>7, <1>8, <1>11
  <2>2. ~granted(1)
    BY <1>6, <1>7, <1>11
  <2>3. GrantedFiles(Requested(p), path) <=> FALSE
    BY <1>10, <2>1, <2>2
  <2> QED
    BY <1>9, <1>11, <2>3
<1>12. CASE path = "view"
  <2>1. latest(4)
    BY <1>2, <1>3, <1>5, <1>6, <1>7, <1>8, <1>12
  <2>2. ~granted(4)
    BY <1>6, <1>7, <1>12
  <2>3. GrantedFiles(Requested(p), path) <=> FALSE
    BY <1>10, <2>1, <2>2
  <2> QED
    BY <1>9, <1>12, <2>3
<1>13. CASE path = "temp"
  <2>1. latest(2)
    BY <1>2, <1>3, <1>5, <1>6, <1>7, <1>8, <1>13
  <2>2. granted(2)
    BY <1>6, <1>7, <1>13
  <2>3. GrantedFiles(Requested(p), path) <=> TRUE
    BY <1>10, <2>1, <2>2
  <2> QED
    BY <1>9, <1>13, <2>3
<1>14. CASE path = "game"
  <2>1. latest(1)
    BY <1>2, <1>3, <1>5, <1>6, <1>7, <1>8, <1>14
  <2>2. granted(1) <=> "gameWrite" \in p.on
    BY <1>6, <1>7, <1>14
  <2>3. GrantedFiles(Requested(p), path) <=> "gameWrite" \in p.on
    BY <1>10, <2>1, <2>2
  <2> QED
    BY <1>9, <1>14, <2>3
<1>15. CASE path = "skins"
  <2>1. latest(5)
    BY <1>2, <1>3, <1>5, <1>6, <1>7, <1>8, <1>15
  <2>2. granted(5) <=> "skinCache" \in p.on
    BY <1>6, <1>7, <1>15
  <2>3. GrantedFiles(Requested(p), path) <=> "skinCache" \in p.on
    BY <1>10, <2>1, <2>2
  <2> QED
    BY <1>9, <1>15, <2>3
<1>17. CASE path = "graphics"
  <2>1. latest(5)
    BY <1>2, <1>3, <1>5, <1>6, <1>7, <1>8, <1>17
  <2>2. granted(5) <=> "graphicsCache" \in p.on
    BY <1>6, <1>7, <1>17
  <2>3. GrantedFiles(Requested(p), path) <=> "graphicsCache" \in p.on
    BY <1>10, <2>1, <2>2
  <2> QED
    BY <1>9, <1>17, <2>3
<1>16. CASE path \in Areas
  <2>0. Above(path) = {path, "game"} /\ path \notin {"shared", "game", "launch", "temp", "view", "skins", "graphics"}
    BY <1>3, <1>6, <1>16
  <2>1. CASE path \in p.protected
    <3>1. latest(3)
      BY <1>2, <1>3, <1>5, <1>7, <1>8, <2>0, <2>1
    <3>2. ~granted(3)
      BY <1>7
    <3>3. GrantedFiles(Requested(p), path) <=> FALSE
      BY <1>10, <3>1, <3>2
    <3> QED
      BY <1>9, <1>16, <2>1, <3>3
  <2>2. CASE path \notin p.protected
    <3>1. latest(1)
      BY <1>2, <1>3, <1>5, <1>7, <1>8, <2>0, <2>2
    <3>2. granted(1) <=> "gameWrite" \in p.on
      BY <1>7, <2>0
    <3>3. GrantedFiles(Requested(p), path) <=> "gameWrite" \in p.on
      BY <1>10, <3>1, <3>2
    <3> QED
      BY <1>9, <1>16, <2>2, <3>3
  <2> QED
    BY <2>1, <2>2
<1> QED
  BY <1>11, <1>12, <1>13, <1>14, <1>15, <1>16, <1>17 DEF Paths

(* On Windows the lists in place are the permissions of the launch.        *)
THEOREM GrantsAlwaysMatch == GrantSpec => []GrantsMatchPolicy
<1>1. GInv => GrantsMatchPolicy
  <2> SUFFICES ASSUME GInv, phase = "running"
               PROVE  IF platform = "windows"
                      THEN \A x \in exists :
                             LET wanted == CASE x = "launch" -> TRUE
                                             [] x \in Items  -> MayWrite(saved, AreaOf[x])
                                             [] OTHER        -> MayWrite(saved, x)
                             IN  /\ Access[x] = IF wanted THEN "M" ELSE "RX"
                                 /\ wanted => LowLabel[x]
                      ELSE \A path \in Paths : GrantedFiles(Requested(saved), path) = MayWrite(saved, path)
    BY DEF GrantsMatchPolicy
  <2>1. CASE platform = "windows"
    <3>1. GrantShape /\ GrantsInPlace /\ "graphicsCache" \in saved.on
      BY <2>1 DEF GInv, GrantShape, Compiles
    <3>2. /\ \A x \in exists : Access[x] = Due(x)
          /\ \A x \in exists : Due(x) = "M" => LowLabel[x]
      BY <3>1, AccessInPlace
    <3>3. ASSUME NEW x \in exists
          PROVE  LET wanted == CASE x = "launch" -> TRUE
                                 [] x \in Items  -> MayWrite(saved, AreaOf[x])
                                 [] OTHER        -> MayWrite(saved, x)
                 IN  /\ Access[x] = IF wanted THEN "M" ELSE "RX"
                     /\ wanted => LowLabel[x]
      <4> DEFINE wanted == CASE x = "launch" -> TRUE
                             [] x \in Items  -> MayWrite(saved, AreaOf[x])
                             [] OTHER        -> MayWrite(saved, x)
      <4>1. Due(x) = IF wanted THEN "M" ELSE "RX"
        BY Geography DEF Due, Fixtures
      <4> HIDE DEF wanted
      <4>2. Access[x] = (IF wanted THEN "M" ELSE "RX") /\ (wanted => LowLabel[x])
        BY <3>2, <4>1
      <4> QED
        BY <4>2 DEF wanted
    <3> QED
      BY <2>1, <3>3
  <2>2. CASE platform # "windows"
    <3>1. saved \in Permissions
      BY DEF GInv, GrantShape, GrantTypeOK
    <3>2. ASSUME NEW path \in Paths PROVE GrantedFiles(Requested(saved), path) = MayWrite(saved, path)
      <4>1. GrantedFiles(Requested(saved), path) \in BOOLEAN
        BY DEF GrantedFiles
      <4>2. MayWrite(saved, path) \in BOOLEAN
        <5>1. CASE path \in Areas
          <6>1. MayWrite(saved, path) = ("gameWrite" \in saved.on /\ path \notin saved.protected)
            BY <5>1, MayWriteCases
          <6>2. ("gameWrite" \in saved.on /\ path \notin saved.protected) \in BOOLEAN
            OBVIOUS
          <6> QED
            BY <6>1, <6>2
        <5>2. CASE path = "game"
          <6>1. MayWrite(saved, "game") = ("gameWrite" \in saved.on)
            BY MayWriteCases
          <6>2. ("gameWrite" \in saved.on) \in BOOLEAN
            OBVIOUS
          <6>3. MayWrite(saved, "game") \in BOOLEAN
            BY <6>1, <6>2
          <6> QED
            BY <5>2, <6>3
        <5>3. CASE path = "skins"
          <6>1. MayWrite(saved, "skins") = ("skinCache" \in saved.on)
            BY MayWriteCases
          <6>2. ("skinCache" \in saved.on) \in BOOLEAN
            OBVIOUS
          <6>3. MayWrite(saved, "skins") \in BOOLEAN
            BY <6>1, <6>2
          <6> QED
            BY <5>3, <6>3
        <5>4. CASE path = "graphics"
          <6>1. MayWrite(saved, "graphics") = ("graphicsCache" \in saved.on)
            BY MayWriteCases
          <6>2. ("graphicsCache" \in saved.on) \in BOOLEAN
            OBVIOUS
          <6>3. MayWrite(saved, "graphics") \in BOOLEAN
            BY <6>1, <6>2
          <6> QED
            BY <5>4, <6>3
        <5>5. CASE path \in {"shared", "launch", "view", "temp"}
          BY <5>5, MayWriteCases
        <5> QED
          BY <5>1, <5>2, <5>3, <5>4, <5>5 DEF Paths
      <4>3. GrantedFiles(Requested(saved), path) <=> MayWrite(saved, path)
        BY <3>1, RulesDecide
      <4> QED
        BY <4>1, <4>2, <4>3
    <3> QED
      BY <2>2, <3>2
  <2> QED
    BY <2>1, <2>2
<1> QED
  BY <1>1, InitGInv, NextGInv, PTL DEF GrantSpec

-----------------------------------------------------------------------------
(* The program of the system call filter.                                   *)
Words == Special \cup Denied \cup Namespaces \cup Families \cup IoctlRequests \cup {"native", "x32"}

(* The instructions of a filter.                                           *)
Instructions ==
    [op : {"load"}, word : {"arch", "nr", "arg0", "arg1"}]
    \cup [op : {"jump"}, jt : Nat, jf : Nat, value : SUBSET Words, all : BOOLEAN]
    \cup [op : {"ret"}, answer : {"kill", "EPERM", "ENOSYS", "EAFNOSUPPORT", "allow"}]

(* What the four builders return is an instruction.                        *)
LEMMA InstructionTypes ==
    /\ \A w \in {"arch", "nr", "arg0", "arg1"} : Load(w) \in Instructions
    /\ \A jt, jf \in Nat, v \in Words : Jeq(jt, jf, v) \in Instructions
    /\ \A jt, jf \in Nat, v \in SUBSET Words : Jset(jt, jf, v) \in Instructions
    /\ \A a \in {"kill", "EPERM", "ENOSYS", "EAFNOSUPPORT", "allow"} : Ret(a) \in Instructions
<1>1. \A w \in {"arch", "nr", "arg0", "arg1"} : Load(w) \in Instructions
  BY DEF Load, Instructions
<1>2. ASSUME NEW jt \in Nat, NEW jf \in Nat, NEW v \in Words PROVE Jeq(jt, jf, v) \in Instructions
  BY DEF Jeq, Instructions
<1>3. ASSUME NEW jt \in Nat, NEW jf \in Nat, NEW v \in SUBSET Words PROVE Jset(jt, jf, v) \in Instructions
  BY DEF Jset, Instructions
<1>4. \A a \in {"kill", "EPERM", "ENOSYS", "EAFNOSUPPORT", "allow"} : Ret(a) \in Instructions
  BY DEF Ret, Instructions
<1> QED
  BY <1>1, <1>2, <1>3, <1>4

(* Code put together from two pieces.                                      *)
LEMMA Joined ==
    ASSUME NEW S, NEW a \in Seq(S), NEW b \in Seq(S)
    PROVE  /\ a \o b \in Seq(S) /\ Len(a \o b) = Len(a) + Len(b)
           /\ \A i \in 1 .. Len(a) : (a \o b)[i] = a[i]
           /\ \A i \in 1 .. Len(b) : (a \o b)[Len(a) + i] = b[i]
<1>1. a \o b \in Seq(S) /\ Len(a \o b) = Len(a) + Len(b)
  OBVIOUS
<1>2. \A i \in 1 .. Len(a) : (a \o b)[i] = a[i]
  OBVIOUS
<1>3. \A i \in 1 .. Len(b) : (a \o b)[Len(a) + i] = b[i]
  OBVIOUS
<1> QED
  BY <1>1, <1>2, <1>3

(* How many calls are denied.                                              *)
D == Cardinality(Denied)

(* Every denied call has its refusal.                                      *)
LEMMA AllRefused ==
    /\ D \in Nat
    /\ Refused \in [1 .. D -> Denied]
    /\ \A name \in Denied : \E i \in 1 .. D : Refused[i] = name
<1>1. D \in Nat
  BY FilterAssumption, FS_CardinalityType DEF D
<1>2. PICK s \in [1 .. D -> Denied] : \A name \in Denied : \E i \in DOMAIN s : s[i] = name
  <2>1. PICK s : s \in Bijection(1 .. D, Denied)
    BY FilterAssumption, FS_CardinalityType DEF D, ExistsBijection
  <2>2. s \in [1 .. D -> Denied] /\ \A name \in Denied : \E i \in 1 .. D : s[i] = name
    BY <2>1 DEF Bijection, Injection, Surjection
  <2> QED
    BY <2>2
<1>3. /\ Refused \in [1 .. D -> Denied]
      /\ \A name \in Denied : \E i \in DOMAIN Refused : Refused[i] = name
  BY <1>2 DEF Refused, D
<1> QED
  BY <1>1, <1>3

(* The pieces of the program, their lengths, and what the one about        *)
(* sockets holds.                                                          *)
LEMMA PiecesTyped ==
    ASSUME NEW F \in Seq(Families), NEW name \in {"socket", "socketpair"}
    PROVE  /\ Entry \in Seq(Instructions) /\ Len(Entry) = 6
           /\ Refusals \in Seq(Instructions) /\ Len(Refusals) = 2 * D
           /\ Clones \in Seq(Instructions) /\ Len(Clones) = 7
           /\ Ioctls \in Seq(Instructions) /\ Len(Ioctls) = 7
           /\ Sockets(F, name) \in Seq(Instructions) /\ Len(Sockets(F, name)) = Len(F) + 4
           /\ Sockets(F, name)[1] = Jeq(0, Len(F) + 2, name)
           /\ Sockets(F, name)[2] = Load("arg0")
           /\ \A k \in 1 .. Len(F) : Sockets(F, name)[2 + k] = Jeq(Len(F) - (k - 1), 0, F[k])
           /\ Sockets(F, name)[Len(F) + 3] = Ret("EAFNOSUPPORT")
           /\ Sockets(F, name)[Len(F) + 4] = Load("nr")
<1>1. /\ \A x \in {"native", "clone3", "clone", "socket", "socketpair", "ioctl", "TIOCSTI", "TIOCLINUX"} : x \in Words
      /\ Denied \subseteq Words /\ Families \subseteq Words
      /\ Namespaces \in SUBSET Words /\ {"x32"} \in SUBSET Words
  BY DEF Words, Special, IoctlRequests
<1>2. Entry \in Seq(Instructions) /\ Len(Entry) = 6
  <2>1. /\ Load("arch") \in Instructions /\ Jeq(1, 0, "native") \in Instructions
        /\ Ret("kill") \in Instructions /\ Load("nr") \in Instructions
        /\ Jset(0, 1, {"x32"}) \in Instructions
    BY <1>1, InstructionTypes
  <2> QED
    BY <2>1 DEF Entry
<1>3. Clones \in Seq(Instructions) /\ Len(Clones) = 7
  <2>1. /\ Jeq(0, 1, "clone3") \in Instructions /\ Ret("ENOSYS") \in Instructions
        /\ Jeq(0, 3, "clone") \in Instructions /\ Load("arg0") \in Instructions
        /\ Jset(0, 1, Namespaces) \in Instructions /\ Ret("EPERM") \in Instructions
        /\ Load("nr") \in Instructions
    BY <1>1, InstructionTypes
  <2> QED
    BY <2>1 DEF Clones
<1>4. Ioctls \in Seq(Instructions) /\ Len(Ioctls) = 7
  <2>1. /\ Jeq(0, 5, "ioctl") \in Instructions /\ Load("arg1") \in Instructions
        /\ Jeq(0, 1, "TIOCSTI") \in Instructions /\ Ret("EPERM") \in Instructions
        /\ Jeq(0, 1, "TIOCLINUX") \in Instructions /\ Ret("allow") \in Instructions
    BY <1>1, InstructionTypes
  <2> QED
    BY <2>1 DEF Ioctls
<1>5. Refusals \in Seq(Instructions) /\ Len(Refusals) = 2 * D
  <2>1. \A k \in 1 .. 2 * D : k % 2 = 1 => (k + 1) \div 2 \in 1 .. D
    BY AllRefused
  <2>2. ASSUME NEW k \in 1 .. 2 * D
        PROVE  (IF k % 2 = 1 THEN Jeq(0, 1, Refused[(k + 1) \div 2]) ELSE Ret("EPERM")) \in Instructions
    BY <1>1, <2>1, AllRefused, InstructionTypes
  <2>3. Refusals \in [1 .. 2 * D -> Instructions]
    BY <2>2 DEF Refusals, D
  <2> QED
    BY <2>3, AllRefused
<1> DEFINE front  == <<Jeq(0, Len(F) + 2, name), Load("arg0")>>
           middle == [k \in 1 .. Len(F) |-> Jeq(FamilyJump(F, k - 1), 0, F[k])]
           end    == <<Ret("EAFNOSUPPORT"), Load("nr")>>
<1>6. /\ front \in Seq(Instructions) /\ Len(front) = 2
      /\ front[1] = Jeq(0, Len(F) + 2, name) /\ front[2] = Load("arg0")
  <2>1. Jeq(0, Len(F) + 2, name) \in Instructions /\ Load("arg0") \in Instructions
    BY <1>1, InstructionTypes
  <2> QED
    BY <2>1
<1>7. /\ end \in Seq(Instructions) /\ Len(end) = 2
      /\ end[1] = Ret("EAFNOSUPPORT") /\ end[2] = Load("nr")
  <2>1. Ret("EAFNOSUPPORT") \in Instructions /\ Load("nr") \in Instructions
    BY InstructionTypes
  <2> QED
    BY <2>1
<1>8. /\ middle \in Seq(Instructions) /\ Len(middle) = Len(F)
      /\ \A k \in 1 .. Len(F) : middle[k] = Jeq(Len(F) - (k - 1), 0, F[k])
  <2>1. ASSUME NEW k \in 1 .. Len(F)
        PROVE  /\ FamilyJump(F, k - 1) = Len(F) - (k - 1)
               /\ Jeq(FamilyJump(F, k - 1), 0, F[k]) \in Instructions
    <3>1. Len(F) - (k - 1) \in Nat /\ F[k] \in Words
      BY <1>1
    <3> QED
      BY <3>1, InstructionTypes DEF FamilyJump
  <2>2. middle \in [1 .. Len(F) -> Instructions]
    BY <2>1
  <2> QED
    BY <2>1, <2>2
<1>9. Sockets(F, name) = front \o middle \o end
  BY DEF Sockets
<1> HIDE DEF front, middle, end
<1>10. /\ front \o middle \in Seq(Instructions) /\ Len(front \o middle) = 2 + Len(F)
       /\ \A i \in 1 .. 2 : (front \o middle)[i] = front[i]
       /\ \A i \in 1 .. Len(F) : (front \o middle)[2 + i] = middle[i]
  <2>1. front \in Seq(Instructions) /\ middle \in Seq(Instructions)
    BY <1>6, <1>8
  <2>2. /\ front \o middle \in Seq(Instructions) /\ Len(front \o middle) = Len(front) + Len(middle)
        /\ \A i \in 1 .. Len(front) : (front \o middle)[i] = front[i]
        /\ \A i \in 1 .. Len(middle) : (front \o middle)[Len(front) + i] = middle[i]
    BY <2>1, Joined
  <2> QED
    BY <1>6, <1>8, <2>2
<1> DEFINE body == front \o middle
<1>11. /\ Sockets(F, name) \in Seq(Instructions) /\ Len(Sockets(F, name)) = Len(F) + 4
       /\ \A i \in 1 .. 2 + Len(F) : Sockets(F, name)[i] = body[i]
       /\ \A i \in 1 .. 2 : Sockets(F, name)[2 + Len(F) + i] = end[i]
  <2>1. body \in Seq(Instructions) /\ Len(body) = 2 + Len(F) /\ Sockets(F, name) = body \o end
    BY <1>9, <1>10
  <2>2. body \in Seq(Instructions) /\ end \in Seq(Instructions)
    BY <1>7, <2>1
  <2> HIDE DEF body
  <2>3. /\ body \o end \in Seq(Instructions) /\ Len(body \o end) = Len(body) + Len(end)
        /\ \A i \in 1 .. Len(body) : (body \o end)[i] = body[i]
        /\ \A i \in 1 .. Len(end) : (body \o end)[Len(body) + i] = end[i]
    BY <2>2, Joined
  <2>4. Len(F) \in Nat /\ (2 + Len(F)) + 2 = Len(F) + 4
    OBVIOUS
  <2> QED
    BY <1>7, <2>1, <2>3, <2>4
<1>12. /\ Sockets(F, name)[1] = Jeq(0, Len(F) + 2, name) /\ Sockets(F, name)[2] = Load("arg0")
       /\ \A k \in 1 .. Len(F) : Sockets(F, name)[2 + k] = Jeq(Len(F) - (k - 1), 0, F[k])
       /\ Sockets(F, name)[Len(F) + 3] = Ret("EAFNOSUPPORT")
       /\ Sockets(F, name)[Len(F) + 4] = Load("nr")
  <2>1. Len(F) \in Nat
    OBVIOUS
  <2>2. \A k \in 1 .. Len(F) : 2 + k \in 1 .. 2 + Len(F)
    BY <2>1
  <2>3. 2 + Len(F) + 1 = Len(F) + 3 /\ 2 + Len(F) + 2 = Len(F) + 4
    BY <2>1
  <2>4. 1 \in 1 .. 2 + Len(F) /\ 2 \in 1 .. 2 + Len(F)
    BY <2>1
  <2>5. Sockets(F, name)[1] = Jeq(0, Len(F) + 2, name) /\ Sockets(F, name)[2] = Load("arg0")
    BY <1>6, <1>10, <1>11, <2>4
  <2>6. ASSUME NEW k \in 1 .. Len(F)
        PROVE  Sockets(F, name)[2 + k] = Jeq(Len(F) - (k - 1), 0, F[k])
    BY <1>8, <1>10, <1>11, <2>2
  <2>7. Sockets(F, name)[Len(F) + 3] = Ret("EAFNOSUPPORT")
    BY <1>7, <1>11, <2>3
  <2>8. Sockets(F, name)[Len(F) + 4] = Load("nr")
    BY <1>7, <1>11, <2>3
  <2> QED
    BY <2>5, <2>6, <2>7, <2>8
<1> QED
  BY <1>2, <1>3, <1>4, <1>5, <1>11, <1>12

-----------------------------------------------------------------------------
(* Where each piece of the program stands.                                  *)
Placed(program, start, piece) == \A i \in 1 .. Len(piece) : program[start + i] = piece[i]

ClonesAt     == 6 + 2 * D
SocketsAt    == ClonesAt + 7
PairsAt(F)   == SocketsAt + Len(F) + 4
IoctlsAt(F)  == PairsAt(F) + Len(F) + 4

(* A program extended at its end keeps what stands in it.                  *)
LEMMA Extended ==
    ASSUME NEW S, NEW a \in Seq(S), NEW b \in Seq(S)
    PROVE  /\ Placed(a \o b, Len(a), b)
           /\ \A s \in Nat, x \in Seq(S) :
                 s + Len(x) <= Len(a) /\ Placed(a, s, x) => Placed(a \o b, s, x)
<1>1. /\ \A i \in 1 .. Len(a) : (a \o b)[i] = a[i]
      /\ \A i \in 1 .. Len(b) : (a \o b)[Len(a) + i] = b[i]
  BY Joined
<1>2. ASSUME NEW s \in Nat, NEW x \in Seq(S), s + Len(x) <= Len(a), Placed(a, s, x)
      PROVE  Placed(a \o b, s, x)
  <2>1. ASSUME NEW i \in 1 .. Len(x) PROVE (a \o b)[s + i] = x[i]
    <3>1. Len(x) \in Nat /\ Len(a) \in Nat
      OBVIOUS
    <3>2. s + i \in 1 .. Len(a)
      BY <1>2, <3>1
    <3> QED
      BY <1>1, <1>2, <3>2 DEF Placed
  <2> QED
    BY <2>1 DEF Placed
<1> QED
  BY <1>1, <1>2 DEF Placed

(* The pieces stand one after the other, and nothing comes after the       *)
(* last.                                                                   *)
LEMMA ProgramLayout ==
    ASSUME NEW F \in Seq(Families)
    PROVE  /\ Len(Program(F)) = IoctlsAt(F) + 7
           /\ Placed(Program(F), 0, Entry)
           /\ Placed(Program(F), 6, Refusals)
           /\ Placed(Program(F), ClonesAt, Clones)
           /\ Placed(Program(F), SocketsAt, Sockets(F, "socket"))
           /\ Placed(Program(F), PairsAt(F), Sockets(F, "socketpair"))
           /\ Placed(Program(F), IoctlsAt(F), Ioctls)
<1> DEFINE I  == Instructions
           s1 == Sockets(F, "socket")
           s2 == Sockets(F, "socketpair")
           p1 == Entry \o Refusals
           p2 == p1 \o Clones
           p3 == p2 \o s1
           p4 == p3 \o s2
           p5 == p4 \o Ioctls
           n  == Len(F)
<1>1. Program(F) = p5
  BY DEF Program
<1>2. /\ Entry \in Seq(I) /\ Len(Entry) = 6
      /\ Refusals \in Seq(I) /\ Len(Refusals) = 2 * D
      /\ Clones \in Seq(I) /\ Len(Clones) = 7
      /\ Ioctls \in Seq(I) /\ Len(Ioctls) = 7
      /\ s1 \in Seq(I) /\ Len(s1) = n + 4
      /\ s2 \in Seq(I) /\ Len(s2) = n + 4
  BY PiecesTyped
<1>3. D \in Nat /\ n \in Nat
  BY AllRefused
<1> HIDE DEF I, s1, s2, n
<1>5. Placed(Entry, 0, Entry)
  BY <1>2 DEF Placed
<1>6. /\ p1 \in Seq(I) /\ Len(p1) = ClonesAt
      /\ Placed(p1, 0, Entry) /\ Placed(p1, 6, Refusals)
  <2>1. /\ Placed(p1, Len(Entry), Refusals)
        /\ \A s \in Nat, x \in Seq(I) :
              s + Len(x) <= Len(Entry) /\ Placed(Entry, s, x) => Placed(p1, s, x)
    BY <1>2, Extended
  <2>2. p1 \in Seq(I) /\ Len(p1) = Len(Entry) + Len(Refusals)
    BY <1>2, Joined
  <2> QED
    BY <1>2, <1>3, <1>5, <2>1, <2>2 DEF ClonesAt
<1> HIDE DEF p1
<1>7. /\ p2 \in Seq(I) /\ Len(p2) = SocketsAt
      /\ Placed(p2, 0, Entry) /\ Placed(p2, 6, Refusals) /\ Placed(p2, ClonesAt, Clones)
  <2>1. /\ Placed(p2, Len(p1), Clones)
        /\ \A s \in Nat, x \in Seq(I) :
              s + Len(x) <= Len(p1) /\ Placed(p1, s, x) => Placed(p2, s, x)
    BY <1>2, <1>6, Extended
  <2>2. p2 \in Seq(I) /\ Len(p2) = Len(p1) + Len(Clones)
    BY <1>2, <1>6, Joined
  <2>3. /\ Len(p1) + Len(Clones) = SocketsAt
        /\ 0 \in Nat /\ 0 + Len(Entry) <= Len(p1)
        /\ 6 \in Nat /\ 6 + Len(Refusals) <= Len(p1)
    BY <1>2, <1>3, <1>6 DEF ClonesAt, SocketsAt
  <2> QED
    BY <1>2, <1>6, <2>1, <2>2, <2>3
<1> HIDE DEF p2
<1>8. /\ p3 \in Seq(I) /\ Len(p3) = PairsAt(F)
      /\ Placed(p3, 0, Entry) /\ Placed(p3, 6, Refusals) /\ Placed(p3, ClonesAt, Clones)
      /\ Placed(p3, SocketsAt, s1)
  <2>1. /\ Placed(p3, Len(p2), s1)
        /\ \A s \in Nat, x \in Seq(I) :
              s + Len(x) <= Len(p2) /\ Placed(p2, s, x) => Placed(p3, s, x)
    BY <1>2, <1>7, Extended
  <2>2. p3 \in Seq(I) /\ Len(p3) = Len(p2) + Len(s1)
    BY <1>2, <1>7, Joined
  <2>3. PairsAt(F) = SocketsAt + n + 4
    BY DEF PairsAt, n
  <2>4. /\ Len(p2) + Len(s1) = PairsAt(F)
        /\ 0 \in Nat /\ 0 + Len(Entry) <= Len(p2)
        /\ 6 \in Nat /\ 6 + Len(Refusals) <= Len(p2)
        /\ ClonesAt \in Nat /\ ClonesAt + Len(Clones) <= Len(p2)
    BY <1>2, <1>3, <1>7, <2>3 DEF ClonesAt, SocketsAt
  <2> QED
    BY <1>2, <1>7, <2>1, <2>2, <2>4
<1> HIDE DEF p3
<1>9. /\ p4 \in Seq(I) /\ Len(p4) = IoctlsAt(F)
      /\ Placed(p4, 0, Entry) /\ Placed(p4, 6, Refusals) /\ Placed(p4, ClonesAt, Clones)
      /\ Placed(p4, SocketsAt, s1) /\ Placed(p4, PairsAt(F), s2)
  <2>1. /\ Placed(p4, Len(p3), s2)
        /\ \A s \in Nat, x \in Seq(I) :
              s + Len(x) <= Len(p3) /\ Placed(p3, s, x) => Placed(p4, s, x)
    BY <1>2, <1>8, Extended
  <2>2. p4 \in Seq(I) /\ Len(p4) = Len(p3) + Len(s2)
    BY <1>2, <1>8, Joined
  <2>3. PairsAt(F) = SocketsAt + n + 4 /\ IoctlsAt(F) = PairsAt(F) + n + 4
    BY DEF PairsAt, IoctlsAt, n
  <2>4. /\ Len(p3) + Len(s2) = IoctlsAt(F)
        /\ 0 \in Nat /\ 0 + Len(Entry) <= Len(p3)
        /\ 6 \in Nat /\ 6 + Len(Refusals) <= Len(p3)
        /\ ClonesAt \in Nat /\ ClonesAt + Len(Clones) <= Len(p3)
        /\ SocketsAt \in Nat /\ SocketsAt + Len(s1) <= Len(p3)
    BY <1>2, <1>3, <1>8, <2>3 DEF ClonesAt, SocketsAt
  <2> QED
    BY <1>2, <1>8, <2>1, <2>2, <2>4
<1> HIDE DEF p4
<1>10. /\ Len(p5) = IoctlsAt(F) + 7
       /\ Placed(p5, 0, Entry) /\ Placed(p5, 6, Refusals) /\ Placed(p5, ClonesAt, Clones)
       /\ Placed(p5, SocketsAt, s1) /\ Placed(p5, PairsAt(F), s2) /\ Placed(p5, IoctlsAt(F), Ioctls)
  <2>1. /\ Placed(p5, Len(p4), Ioctls)
        /\ \A s \in Nat, x \in Seq(I) :
              s + Len(x) <= Len(p4) /\ Placed(p4, s, x) => Placed(p5, s, x)
    BY <1>2, <1>9, Extended
  <2>2. Len(p5) = Len(p4) + Len(Ioctls)
    BY <1>2, <1>9, Joined
  <2>3. PairsAt(F) = SocketsAt + n + 4 /\ IoctlsAt(F) = PairsAt(F) + n + 4
    BY DEF PairsAt, IoctlsAt, n
  <2>4. /\ Len(p4) + Len(Ioctls) = IoctlsAt(F) + 7
        /\ 0 \in Nat /\ 0 + Len(Entry) <= Len(p4)
        /\ 6 \in Nat /\ 6 + Len(Refusals) <= Len(p4)
        /\ ClonesAt \in Nat /\ ClonesAt + Len(Clones) <= Len(p4)
        /\ SocketsAt \in Nat /\ SocketsAt + Len(s1) <= Len(p4)
        /\ PairsAt(F) \in Nat /\ PairsAt(F) + Len(s2) <= Len(p4)
    BY <1>2, <1>3, <1>9, <2>3 DEF ClonesAt, SocketsAt
  <2> QED
    BY <1>2, <1>9, <2>1, <2>2, <2>4
<1> HIDE DEF p5
<1> QED
  BY <1>1, <1>10 DEF s1, s2

-----------------------------------------------------------------------------
(* What is known of the call c at each place of the program.                *)
Families1 == {F \in Seq(Families) : Len(F) > 0}

Admitted(c)   == c.arch = {"native"} /\ "x32" \notin c.nr
Undenied(c)   == Admitted(c) /\ Name(c) \notin Denied
(* The call asks for no namespace of its own.                              *)
Unseparated(c) == /\ Undenied(c) /\ Name(c) # "clone3"
                  /\ ~(Name(c) = "clone" /\ c.arg0 \cap Namespaces # {})
(* If this is the call, it asks for one of the families.                   *)
FamilyFine(F, name, c) == Name(c) = name => \E i \in 1 .. Len(F) : c.arg0 = {F[i]}

(* In the check of the architecture.                                       *)
AtEntry(c, p, a) ==
    \/ p = 1
    \/ p = 2 /\ a = c.arch
    \/ p = 3 /\ c.arch # {"native"}
    \/ p = 4 /\ c.arch = {"native"}
    \/ p = 5 /\ c.arch = {"native"} /\ a = c.nr
    \/ p = 6 /\ c.arch = {"native"} /\ "x32" \in c.nr

(* At the comparison with a denied call, past the ones before it.          *)
Comparing(j, c, p, a) ==
    /\ p = 5 + 2 * j /\ a = c.nr
    /\ \A i \in 1 .. D : i < j => Refused[i] # Name(c)

(* Among the refusals of the denied calls.                                 *)
AtRefusals(c, p, a) ==
    /\ Admitted(c)
    /\ \E j \in 1 .. D : Comparing(j, c, p, a) \/ (p = 6 + 2 * j /\ Name(c) = Refused[j])

(* In the piece about new processes.                                       *)
AtClones(c, p, a) ==
    /\ Undenied(c)
    /\ \/ p = ClonesAt + 1 /\ a = c.nr
       \/ p = ClonesAt + 2 /\ Name(c) = "clone3"
       \/ p = ClonesAt + 3 /\ Name(c) # "clone3" /\ a = c.nr
       \/ p = ClonesAt + 4 /\ Name(c) = "clone"
       \/ p = ClonesAt + 5 /\ Name(c) = "clone" /\ a = c.arg0
       \/ p = ClonesAt + 6 /\ Name(c) = "clone" /\ c.arg0 \cap Namespaces # {}
       \/ p = ClonesAt + 7 /\ Unseparated(c)

(* In one of the two pieces about sockets.                                 *)
AtSockets(F, name, s, c, p, a) ==
    \/ p = s + 1 /\ a = c.nr
    \/ p = s + 2 /\ Name(c) = name
    \/ \E k \in 1 .. Len(F) : /\ p = s + 2 + k /\ Name(c) = name /\ a = c.arg0
                              /\ \A i \in 1 .. Len(F) : i < k => c.arg0 # {F[i]}
    \/ p = s + Len(F) + 3 /\ Name(c) = name /\ ~FamilyFine(F, name, c)
    \/ p = s + Len(F) + 4 /\ FamilyFine(F, name, c)

(* In the piece about terminals, or at the final answer.                   *)
AtIoctls(s, c, p, a) ==
    \/ p = s + 1 /\ a = c.nr
    \/ p = s + 2 /\ Name(c) = "ioctl"
    \/ p = s + 3 /\ Name(c) = "ioctl" /\ a = c.arg1
    \/ p = s + 4 /\ Name(c) = "ioctl" /\ c.arg1 = {"TIOCSTI"}
    \/ p = s + 5 /\ Name(c) = "ioctl" /\ a = c.arg1 /\ c.arg1 # {"TIOCSTI"}
    \/ p = s + 6 /\ Name(c) = "ioctl" /\ c.arg1 = {"TIOCLINUX"}
    \/ p = s + 7 /\ ~(Name(c) = "ioctl" /\ c.arg1 \in {{"TIOCSTI"}, {"TIOCLINUX"}})

(* The pieces about sockets, with what the earlier ones have settled.      *)
AtCreation(F, c, p, a) == Unseparated(c) /\ AtSockets(F, "socket", SocketsAt, c, p, a)
AtPairs(F, c, p, a) ==
    /\ Unseparated(c) /\ FamilyFine(F, "socket", c)
    /\ AtSockets(F, "socketpair", PairsAt(F), c, p, a)
(* The last piece, with everything settled before it.                      *)
AtRequests(F, c, p, a) ==
    /\ Unseparated(c) /\ FamilyFine(F, "socket", c) /\ FamilyFine(F, "socketpair", c)
    /\ AtIoctls(IoctlsAt(F), c, p, a)

(* The interpreter is in one of the pieces.                                *)
Known(F, c, p, a) ==
    \/ AtEntry(c, p, a)
    \/ AtRefusals(c, p, a)
    \/ AtClones(c, p, a)
    \/ AtCreation(F, c, p, a)
    \/ AtPairs(F, c, p, a)
    \/ AtRequests(F, c, p, a)

(* The interpreter's step from place p with word a to place q with word b.  *)
Steps(instruction, c, p, a, q, b) ==
    \/ /\ instruction.op = "load"
       /\ b = c[instruction.word] /\ q = p + 1
    \/ /\ instruction.op = "jump" /\ b = a
       /\ q = p + 1 + (IF IF instruction.all THEN a = instruction.value
                           ELSE a \cap instruction.value # {}
                        THEN instruction.jt ELSE instruction.jf)

(* What the filter with these families means to answer.                    *)
Meant(F, c) ==
    IF ~Admitted(c) THEN "kill"
    ELSE IF Name(c) = "clone3" THEN "ENOSYS"
    ELSE IF ~Unseparated(c) THEN "EPERM"
    ELSE IF ~FamilyFine(F, "socket", c) \/ ~FamilyFine(F, "socketpair", c) THEN "EAFNOSUPPORT"
    ELSE IF Name(c) = "ioctl" /\ c.arg1 \in {{"TIOCSTI"}, {"TIOCLINUX"}} THEN "EPERM"
    ELSE "allow"

(* A load takes a word of the call and goes on.                            *)
LEMMA StepLoad ==
    ASSUME NEW w, NEW c, NEW p, NEW a, NEW q, NEW b
    PROVE  /\ Load(w).op = "load"
           /\ Steps(Load(w), c, p, a, q, b) => q = p + 1 /\ b = c[w]
<1>1. Load(w).op = "load" /\ Load(w).word = w
  BY DEF Load
<1> QED
  BY <1>1 DEF Steps

(* A comparison goes on by one of its jumps and keeps the word.            *)
LEMMA StepJeq ==
    ASSUME NEW jt, NEW jf, NEW v, NEW c, NEW p, NEW a, NEW q, NEW b
    PROVE  /\ Jeq(jt, jf, v).op = "jump"
           /\ Steps(Jeq(jt, jf, v), c, p, a, q, b) =>
                 b = a /\ q = p + 1 + (IF a = {v} THEN jt ELSE jf)
<1>1. /\ Jeq(jt, jf, v).op = "jump" /\ Jeq(jt, jf, v).all = TRUE
      /\ Jeq(jt, jf, v).jt = jt /\ Jeq(jt, jf, v).jf = jf /\ Jeq(jt, jf, v).value = {v}
  BY DEF Jeq
<1> QED
  BY <1>1 DEF Steps

(* A test of bits goes on by one of its jumps and keeps the word.          *)
LEMMA StepJset ==
    ASSUME NEW jt, NEW jf, NEW v, NEW c, NEW p, NEW a, NEW q, NEW b
    PROVE  /\ Jset(jt, jf, v).op = "jump"
           /\ Steps(Jset(jt, jf, v), c, p, a, q, b) =>
                 b = a /\ q = p + 1 + (IF a \cap v # {} THEN jt ELSE jf)
<1>1. /\ Jset(jt, jf, v).op = "jump" /\ Jset(jt, jf, v).all = FALSE
      /\ Jset(jt, jf, v).jt = jt /\ Jset(jt, jf, v).jf = jf /\ Jset(jt, jf, v).value = v
  BY DEF Jset
<1> QED
  BY <1>1 DEF Steps

(* A return answers and goes nowhere.                                      *)
LEMMA StepRet ==
    ASSUME NEW x, NEW c, NEW p, NEW a, NEW q, NEW b
    PROVE  /\ Ret(x).op = "ret" /\ Ret(x).answer = x
           /\ ~Steps(Ret(x), c, p, a, q, b)
<1>1. Ret(x).op = "ret" /\ Ret(x).answer = x
  BY DEF Ret
<1> QED
  BY <1>1 DEF Steps

(* The word of the number of an admitted call is its name alone.           *)
LEMMA TheName ==
    ASSUME NEW c \in Calls
    PROVE  /\ "x32" \notin c.nr => c.nr = {Name(c)}
           /\ Name(c) \in Special \cup Denied \cup Ordinary
<1>1. PICK name \in Special \cup Denied \cup Ordinary : c.nr \in {{name}, {name, "x32"}}
  BY DEF Calls
<1>2. "x32" \notin Special \cup Denied \cup Ordinary
  BY FilterAssumption DEF Special
<1>3. Name(c) \in Special \cup Denied \cup Ordinary /\ Name(c) \in c.nr
  BY <1>1 DEF Name
<1>4. Name(c) = name
  BY <1>1, <1>2, <1>3
<1> QED
  BY <1>1, <1>3, <1>4

(* The names the program treats apart are no denied ones.                  *)
LEMMA Apart ==
    \A c : Name(c) \in Denied => Name(c) \notin Special
  BY FilterAssumption DEF Special

(* Past the last denied call the piece about new processes begins.         *)
LEMMA Compared ==
    ASSUME NEW c \in Calls, NEW j \in 1 .. D + 1, NEW p, NEW a,
           Admitted(c), Comparing(j, c, p, a)
    PROVE  AtRefusals(c, p, a) \/ AtClones(c, p, a)
<1>1. D \in Nat
  BY AllRefused
<1>2. CASE j \in 1 .. D
  BY <1>2 DEF AtRefusals
<1>3. CASE j = D + 1
  <2>1. p = ClonesAt + 1 /\ a = c.nr
    BY <1>1, <1>3 DEF Comparing, ClonesAt
  <2>2. Name(c) \notin Denied
    <3>1. \A i \in 1 .. D : Refused[i] # Name(c)
      BY <1>1, <1>3 DEF Comparing
    <3> QED
      BY <3>1, AllRefused
  <2> QED
    BY <2>1, <2>2 DEF AtClones, Undenied
<1> QED
  BY <1>1, <1>2, <1>3

(* Each step from the check of the architecture leads to a place where     *)
(* what is known holds, and each answer there is the one meant.            *)
LEMMA EntryStep ==
    ASSUME NEW F \in Seq(Families), NEW c \in Calls, NEW p, NEW a, NEW q, NEW b, AtEntry(c, p, a)
    PROVE  /\ p \in 1 .. Len(Program(F))
           /\ Steps(Program(F)[p], c, p, a, q, b) => Known(F, c, q, b)
           /\ Program(F)[p].op = "ret" => Program(F)[p].answer = Meant(F, c)
<1> DEFINE P == Program(F)
<1>1. /\ P[1] = Load("arch") /\ P[2] = Jeq(1, 0, "native") /\ P[3] = Ret("kill")
      /\ P[4] = Load("nr") /\ P[5] = Jset(0, 1, {"x32"}) /\ P[6] = Ret("kill")
  <2>1. \A i \in 1 .. 6 : P[0 + i] = Entry[i]
    BY ProgramLayout, PiecesTyped DEF Placed
  <2>2. \A i \in 1 .. 6 : 0 + i = i
    OBVIOUS
  <2>3. \A i \in 1 .. 6 : P[i] = Entry[i]
    BY <2>1, <2>2
  <2> QED
    BY <2>3 DEF Entry
<1>2. p \in 1 .. Len(P)
  <2>1. p \in 1 .. 6
    BY DEF AtEntry
  <2>2. Len(F) \in Nat /\ D \in Nat
    BY AllRefused
  <2> QED
    BY <2>1, <2>2, ProgramLayout DEF IoctlsAt, PairsAt, SocketsAt, ClonesAt
<1> HIDE DEF P
<1>3. CASE p = 1
  <2>1. P[p].op # "ret"
    BY <1>1, <1>3, StepLoad
  <2>2. ASSUME Steps(P[p], c, p, a, q, b) PROVE AtEntry(c, q, b)
    <3>1. q = 2 /\ b = c["arch"]
      BY <1>1, <1>3, <2>2, StepLoad
    <3> QED
      BY <3>1 DEF AtEntry
  <2> QED
    BY <1>2, <2>1, <2>2 DEF P, Known
<1>4. CASE p = 2 /\ a = c.arch
  <2>1. P[p].op # "ret"
    BY <1>1, <1>4, StepJeq
  <2>2. ASSUME Steps(P[p], c, p, a, q, b) PROVE AtEntry(c, q, b)
    <3>1. b = a /\ q = p + 1 + (IF a = {"native"} THEN 1 ELSE 0)
      BY <1>1, <1>4, <2>2, StepJeq
    <3> QED
      BY <1>4, <3>1 DEF AtEntry
  <2> QED
    BY <1>2, <2>1, <2>2 DEF P, Known
<1>5. CASE p = 3 /\ c.arch # {"native"}
  <2>1. P[p].answer = "kill" /\ ~Steps(P[p], c, p, a, q, b)
    BY <1>1, <1>5, StepRet
  <2> QED
    BY <1>2, <1>5, <2>1 DEF P, Meant, Admitted
<1>6. CASE p = 4 /\ c.arch = {"native"}
  <2>1. P[p].op # "ret"
    BY <1>1, <1>6, StepLoad
  <2>2. ASSUME Steps(P[p], c, p, a, q, b) PROVE AtEntry(c, q, b)
    <3>1. q = 5 /\ b = c["nr"]
      BY <1>1, <1>6, <2>2, StepLoad
    <3> QED
      BY <1>6, <3>1 DEF AtEntry
  <2> QED
    BY <1>2, <2>1, <2>2 DEF P, Known
<1>7. CASE p = 5 /\ c.arch = {"native"} /\ a = c.nr
  <2>1. P[p].op # "ret"
    BY <1>1, <1>7, StepJset
  <2>2. ASSUME Steps(P[p], c, p, a, q, b) PROVE Known(F, c, q, b)
    <3>1. b = a /\ q = p + 1 + (IF a \cap {"x32"} # {} THEN 0 ELSE 1)
      BY <1>1, <1>7, <2>2, StepJset
    <3>2. CASE "x32" \in c.nr
      BY <1>7, <3>1, <3>2 DEF AtEntry, Known
    <3>3. CASE "x32" \notin c.nr
      <4>1. q = 7 /\ b = c.nr /\ Admitted(c)
        BY <1>7, <3>1, <3>3 DEF Admitted
      <4>2. 1 \in 1 .. D + 1 /\ Comparing(1, c, q, b)
        BY <4>1, AllRefused DEF Comparing
      <4> QED
        BY <4>1, <4>2, Compared DEF Known
    <3> QED
      BY <3>2, <3>3
  <2> QED
    BY <1>2, <2>1, <2>2 DEF P
<1>8. CASE p = 6 /\ c.arch = {"native"} /\ "x32" \in c.nr
  <2>1. P[p].answer = "kill" /\ ~Steps(P[p], c, p, a, q, b)
    BY <1>1, <1>8, StepRet
  <2> QED
    BY <1>2, <1>8, <2>1 DEF P, Meant, Admitted
<1> QED
  BY <1>3, <1>4, <1>5, <1>6, <1>7, <1>8 DEF AtEntry

(* The same among the refusals.                                            *)
LEMMA RefusalStep ==
    ASSUME NEW F \in Seq(Families), NEW c \in Calls, NEW p, NEW a, NEW q, NEW b, AtRefusals(c, p, a)
    PROVE  /\ p \in 1 .. Len(Program(F))
           /\ Steps(Program(F)[p], c, p, a, q, b) => Known(F, c, q, b)
           /\ Program(F)[p].op = "ret" => Program(F)[p].answer = Meant(F, c)
<1> DEFINE P == Program(F)
<1>1. PICK j \in 1 .. D : Comparing(j, c, p, a) \/ (p = 6 + 2 * j /\ Name(c) = Refused[j])
  BY DEF AtRefusals
<1>2. Admitted(c) /\ D \in Nat /\ j \in Nat
  BY AllRefused DEF AtRefusals
<1>3. /\ P[5 + 2 * j] = Jeq(0, 1, Refused[j])
      /\ P[6 + 2 * j] = Ret("EPERM")
  <2>1. \A i \in 1 .. 2 * D : P[6 + i] = Refusals[i]
    BY ProgramLayout, PiecesTyped DEF Placed
  <2>2. /\ 2 * j - 1 \in 1 .. 2 * D /\ 2 * j \in 1 .. 2 * D
        /\ (2 * j - 1) % 2 = 1 /\ (2 * j) % 2 # 1 /\ ((2 * j - 1) + 1) \div 2 = j
        /\ 6 + (2 * j - 1) = 5 + 2 * j
    BY <1>2
  <2>3. Refusals[2 * j - 1] = Jeq(0, 1, Refused[j]) /\ Refusals[2 * j] = Ret("EPERM")
    BY <2>2 DEF Refusals, D
  <2> QED
    BY <2>1, <2>2, <2>3
<1>4. p \in 1 .. Len(P)
  <2>1. p \in 1 .. 6 + 2 * D
    BY <1>1, <1>2 DEF Comparing
  <2>2. Len(F) \in Nat
    OBVIOUS
  <2> QED
    BY <1>2, <2>1, <2>2, ProgramLayout DEF IoctlsAt, PairsAt, SocketsAt, ClonesAt
<1> HIDE DEF P
<1>5. CASE Comparing(j, c, p, a)
  <2>1. P[p] = Jeq(0, 1, Refused[j]) /\ P[p].op # "ret"
    BY <1>3, <1>5, StepJeq DEF Comparing
  <2>2. ASSUME Steps(P[p], c, p, a, q, b) PROVE Known(F, c, q, b)
    <3>1. b = a /\ q = p + 1 + (IF a = {Refused[j]} THEN 0 ELSE 1)
      BY <2>1, <2>2, StepJeq
    <3>2. a = {Name(c)} /\ p = 5 + 2 * j
      BY <1>2, <1>5, TheName DEF Comparing, Admitted
    <3>3. CASE Name(c) = Refused[j]
      <4>1. q = 6 + 2 * j
        BY <1>2, <3>1, <3>2, <3>3
      <4> QED
        BY <1>2, <3>3, <4>1 DEF AtRefusals, Known
    <3>4. CASE Name(c) # Refused[j]
      <4>0. b = c.nr /\ a # {Refused[j]}
        BY <1>5, <3>1, <3>2, <3>4 DEF Comparing
      <4>1. q = 5 + 2 * (j + 1) /\ b = c.nr
        BY <1>2, <3>1, <3>2, <4>0
      <4>2. \A i \in 1 .. D : i < j + 1 => Refused[i] # Name(c)
        BY <1>2, <1>5, <3>4 DEF Comparing
      <4>3. j + 1 \in 1 .. D + 1 /\ Comparing(j + 1, c, q, b)
        BY <1>2, <4>1, <4>2 DEF Comparing
      <4> QED
        BY <1>2, <4>3, Compared DEF Known
    <3> QED
      BY <3>3, <3>4
  <2> QED
    BY <1>4, <2>1, <2>2 DEF P
<1>6. CASE p = 6 + 2 * j /\ Name(c) = Refused[j]
  <2>1. P[p].answer = "EPERM" /\ ~Steps(P[p], c, p, a, q, b)
    BY <1>3, <1>6, StepRet
  <2>2. Name(c) \in Denied /\ Name(c) # "clone3"
    BY <1>6, AllRefused, Apart DEF Special
  <2> QED
    BY <1>2, <1>4, <2>1, <2>2 DEF P, Meant, Unseparated, Undenied
<1> QED
  BY <1>1, <1>5, <1>6

(* The same in the piece about new processes.                              *)
LEMMA CloneStep ==
    ASSUME NEW F \in Seq(Families), NEW c \in Calls, NEW p, NEW a, NEW q, NEW b, AtClones(c, p, a)
    PROVE  /\ p \in 1 .. Len(Program(F))
           /\ Steps(Program(F)[p], c, p, a, q, b) => Known(F, c, q, b)
           /\ Program(F)[p].op = "ret" => Program(F)[p].answer = Meant(F, c)
<1> DEFINE P == Program(F)
           s == ClonesAt
<1>1. s \in Nat /\ SocketsAt = s + 7 /\ D \in Nat /\ Len(F) \in Nat
  BY AllRefused DEF ClonesAt, SocketsAt
<1>2. /\ P[s + 1] = Jeq(0, 1, "clone3") /\ P[s + 2] = Ret("ENOSYS")
      /\ P[s + 3] = Jeq(0, 3, "clone") /\ P[s + 4] = Load("arg0")
      /\ P[s + 5] = Jset(0, 1, Namespaces) /\ P[s + 6] = Ret("EPERM") /\ P[s + 7] = Load("nr")
  <2>1. \A i \in 1 .. 7 : P[s + i] = Clones[i]
    BY ProgramLayout, PiecesTyped DEF Placed
  <2> HIDE DEF P, s
  <2> QED
    BY <2>1 DEF Clones
<1>3. p \in 1 .. Len(P)
  <2>1. p \in s + 1 .. s + 7
    BY <1>1 DEF AtClones
  <2> QED
    BY <1>1, <2>1, ProgramLayout DEF IoctlsAt, PairsAt, SocketsAt
<1>4. /\ Undenied(c) /\ c.nr = {Name(c)}
  BY TheName DEF AtClones, Undenied, Admitted
<1> HIDE DEF P
<1>5. CASE p = s + 1 /\ a = c.nr
  <2>1. P[p].op # "ret"
    BY <1>2, <1>5, StepJeq
  <2>2. ASSUME Steps(P[p], c, p, a, q, b) PROVE AtClones(c, q, b)
    <3>1. b = a /\ q = p + 1 + (IF a = {"clone3"} THEN 0 ELSE 1)
      BY <1>2, <1>5, <2>2, StepJeq
    <3>2. (q = s + 2 /\ Name(c) = "clone3") \/ (q = s + 3 /\ Name(c) # "clone3")
      BY <1>1, <1>4, <1>5, <3>1
    <3> QED
      BY <1>4, <1>5, <3>1, <3>2 DEF AtClones
  <2> QED
    BY <1>3, <2>1, <2>2 DEF P, Known
<1>6. CASE p = s + 2 /\ Name(c) = "clone3"
  <2>1. P[p].answer = "ENOSYS" /\ ~Steps(P[p], c, p, a, q, b)
    BY <1>2, <1>6, StepRet
  <2> QED
    BY <1>3, <1>4, <1>6, <2>1 DEF P, Meant, Undenied
<1>7. CASE p = s + 3 /\ Name(c) # "clone3" /\ a = c.nr
  <2>1. P[p].op # "ret"
    BY <1>2, <1>7, StepJeq
  <2>2. ASSUME Steps(P[p], c, p, a, q, b) PROVE AtClones(c, q, b)
    <3>1. b = a /\ q = p + 1 + (IF a = {"clone"} THEN 0 ELSE 3)
      BY <1>2, <1>7, <2>2, StepJeq
    <3>2. (q = s + 4 /\ Name(c) = "clone") \/ (q = s + 7 /\ Name(c) # "clone")
      BY <1>1, <1>4, <1>7, <3>1
    <3> QED
      BY <1>4, <1>7, <3>1, <3>2 DEF AtClones, Unseparated
  <2> QED
    BY <1>3, <2>1, <2>2 DEF P, Known
<1>8. CASE p = s + 4 /\ Name(c) = "clone"
  <2>1. P[p].op # "ret"
    BY <1>2, <1>8, StepLoad
  <2>2. ASSUME Steps(P[p], c, p, a, q, b) PROVE AtClones(c, q, b)
    <3>1. b = c["arg0"] /\ q = s + 5
      BY <1>1, <1>2, <1>8, <2>2, StepLoad
    <3> QED
      BY <1>4, <1>8, <3>1 DEF AtClones
  <2> QED
    BY <1>3, <2>1, <2>2 DEF P, Known
<1>9. CASE p = s + 5 /\ Name(c) = "clone" /\ a = c.arg0
  <2>1. P[p].op # "ret"
    BY <1>2, <1>9, StepJset
  <2>2. ASSUME Steps(P[p], c, p, a, q, b) PROVE AtClones(c, q, b)
    <3>1. b = a /\ q = p + 1 + (IF a \cap Namespaces # {} THEN 0 ELSE 1)
      BY <1>2, <1>9, <2>2, StepJset
    <3>2. (q = s + 6 /\ a \cap Namespaces # {}) \/ (q = s + 7 /\ ~(a \cap Namespaces # {}))
      BY <1>1, <1>9, <3>1
    <3> QED
      BY <1>4, <1>9, <3>1, <3>2 DEF AtClones, Unseparated
  <2> QED
    BY <1>3, <2>1, <2>2 DEF P, Known
<1>10. CASE p = s + 6 /\ Name(c) = "clone" /\ c.arg0 \cap Namespaces # {}
  <2>1. P[p].answer = "EPERM" /\ ~Steps(P[p], c, p, a, q, b)
    BY <1>2, <1>10, StepRet
  <2> QED
    BY <1>3, <1>4, <1>10, <2>1 DEF P, Meant, Unseparated, Undenied
<1>11. CASE p = s + 7 /\ Unseparated(c)
  <2>1. P[p].op # "ret"
    BY <1>2, <1>11, StepLoad
  <2>2. ASSUME Steps(P[p], c, p, a, q, b) PROVE AtCreation(F, c, q, b)
    <3>1. b = c["nr"] /\ q = SocketsAt + 1
      BY <1>1, <1>2, <1>11, <2>2, StepLoad
    <3> QED
      BY <1>11, <3>1 DEF AtCreation, AtSockets
  <2> QED
    BY <1>3, <2>1, <2>2 DEF P, Known
<1> QED
  BY <1>5, <1>6, <1>7, <1>8, <1>9, <1>10, <1>11 DEF AtClones

(* Through either of the two pieces about sockets, wherever it stands.      *)
LEMMA SocketStep ==
    ASSUME NEW F \in Seq(Families), Len(F) > 0, NEW name \in {"socket", "socketpair"},
           NEW P, NEW s \in Nat, Placed(P, s, Sockets(F, name)),
           NEW c \in Calls, NEW p, NEW a, NEW q, NEW b,
           Admitted(c), AtSockets(F, name, s, c, p, a)
    PROVE  /\ p \in s + 1 .. s + Len(F) + 4
           /\ Steps(P[p], c, p, a, q, b) =>
                 \/ AtSockets(F, name, s, c, q, b)
                 \/ q = s + Len(F) + 5 /\ b = c.nr /\ FamilyFine(F, name, c)
           /\ P[p].op = "ret" =>
                 P[p].answer = "EAFNOSUPPORT" /\ ~FamilyFine(F, name, c)
<1>1. PICK n \in Nat : n = Len(F) /\ n > 0
  OBVIOUS
<1>2. /\ P[s + 1] = Jeq(0, n + 2, name) /\ P[s + 2] = Load("arg0")
      /\ \A k \in 1 .. n : P[s + 2 + k] = Jeq(n - (k - 1), 0, F[k])
      /\ P[s + n + 3] = Ret("EAFNOSUPPORT") /\ P[s + n + 4] = Load("nr")
  <2>1. \A i \in 1 .. n + 4 : P[s + i] = Sockets(F, name)[i]
    BY <1>1, PiecesTyped DEF Placed
  <2>2. /\ 1 \in 1 .. n + 4 /\ 2 \in 1 .. n + 4 /\ n + 3 \in 1 .. n + 4 /\ n + 4 \in 1 .. n + 4
        /\ s + (n + 3) = s + n + 3 /\ s + (n + 4) = s + n + 4
    BY <1>1
  <2>3. \A k \in 1 .. n : 2 + k \in 1 .. n + 4 /\ s + (2 + k) = s + 2 + k
    BY <1>1
  <2>4. /\ Sockets(F, name)[1] = Jeq(0, n + 2, name) /\ Sockets(F, name)[2] = Load("arg0")
        /\ \A k \in 1 .. n : Sockets(F, name)[2 + k] = Jeq(n - (k - 1), 0, F[k])
        /\ Sockets(F, name)[n + 3] = Ret("EAFNOSUPPORT") /\ Sockets(F, name)[n + 4] = Load("nr")
    BY <1>1, PiecesTyped
  <2>5. P[s + 1] = Jeq(0, n + 2, name) /\ P[s + 2] = Load("arg0")
    BY <2>1, <2>2, <2>4
  <2>6. P[s + n + 3] = Ret("EAFNOSUPPORT") /\ P[s + n + 4] = Load("nr")
    BY <2>1, <2>2, <2>4
  <2>7. \A k \in 1 .. n : P[s + 2 + k] = Jeq(n - (k - 1), 0, F[k])
    BY <2>1, <2>3, <2>4
  <2> QED
    BY <2>5, <2>6, <2>7
<1>3. c.nr = {Name(c)}
  BY TheName DEF Admitted
<1>4. CASE p = s + 1 /\ a = c.nr
  <2>1. P[p].op # "ret" /\ p \in s + 1 .. s + n + 4
    <3>3. P[p] = Jeq(0, n + 2, name)
      BY <1>2, <1>4
    <3>1. P[p].op # "ret"
      BY <3>3, StepJeq
    <3>2. p \in s + 1 .. s + n + 4
      BY <1>1, <1>4
    <3> QED
      BY <3>1, <3>2
  <2>2. ASSUME Steps(P[p], c, p, a, q, b)
        PROVE  AtSockets(F, name, s, c, q, b)
    <3>1. b = a /\ q = p + 1 + (IF a = {name} THEN 0 ELSE n + 2)
      BY <1>2, <1>4, <2>2, StepJeq
    <3>2. (q = s + 2 /\ Name(c) = name) \/ (q = s + n + 4 /\ Name(c) # name)
      <4>1. a = {name} <=> Name(c) = name
        BY <1>3, <1>4
      <4>2. CASE Name(c) = name
        <5>1. q = p + 1 + 0 /\ p = s + 1
          BY <1>4, <3>1, <4>1, <4>2
        <5> QED
          BY <4>2, <5>1
      <4>3. CASE Name(c) # name
        <5>1. q = p + 1 + (n + 2) /\ p = s + 1
          BY <1>4, <3>1, <4>1, <4>3
        <5> QED
          BY <1>1, <4>3, <5>1
      <4> QED
        BY <4>2, <4>3
    <3> QED
      BY <1>1, <3>2 DEF AtSockets, FamilyFine
  <2> QED
    BY <1>1, <2>1, <2>2
<1>5. CASE p = s + 2 /\ Name(c) = name
  <2>1. P[p].op # "ret" /\ p \in s + 1 .. s + n + 4
    <3>1. P[p].op # "ret"
      BY <1>2, <1>5, StepLoad
    <3>2. p \in s + 1 .. s + n + 4
      BY <1>1, <1>5
    <3> QED
      BY <3>1, <3>2
  <2>2. ASSUME Steps(P[p], c, p, a, q, b)
        PROVE  AtSockets(F, name, s, c, q, b)
    <3>1. b = c["arg0"] /\ q = s + 2 + 1
      BY <1>1, <1>2, <1>5, <2>2, StepLoad
    <3>2. 1 \in 1 .. Len(F) /\ \A i \in 1 .. Len(F) : i < 1 => c.arg0 # {F[i]}
      BY <1>1
    <3> QED
      BY <1>5, <3>1, <3>2 DEF AtSockets
  <2> QED
    BY <1>1, <2>1, <2>2
<1>6. ASSUME NEW k \in 1 .. n, p = s + 2 + k, Name(c) = name, a = c.arg0,
             \A i \in 1 .. n : i < k => c.arg0 # {F[i]}
      PROVE  /\ p \in s + 1 .. s + n + 4 /\ P[p].op # "ret"
             /\ Steps(P[p], c, p, a, q, b) => AtSockets(F, name, s, c, q, b)
  <2>3. P[p] = Jeq(n - (k - 1), 0, F[k])
    BY <1>2, <1>6
  <2>1. P[p].op # "ret" /\ p \in s + 1 .. s + n + 4
    <3>1. P[p].op # "ret"
      BY <2>3, StepJeq
    <3>2. p \in s + 1 .. s + n + 4
      BY <1>1, <1>6
    <3> QED
      BY <3>1, <3>2
  <2>2. ASSUME Steps(P[p], c, p, a, q, b)
        PROVE  AtSockets(F, name, s, c, q, b)
    <3>1. b = a /\ q = p + 1 + (IF a = {F[k]} THEN n - (k - 1) ELSE 0)
      BY <2>2, <2>3, StepJeq
    <3>2. CASE c.arg0 = {F[k]}
      <4>1. q = s + n + 4
        BY <1>1, <1>6, <3>1, <3>2
      <4>2. FamilyFine(F, name, c)
        BY <1>1, <3>2 DEF FamilyFine
      <4> QED
        BY <1>1, <4>1, <4>2 DEF AtSockets
    <3>3. CASE c.arg0 # {F[k]}
      <4>1. q = s + 2 + (k + 1) /\ b = c.arg0
        BY <1>1, <1>6, <3>1, <3>3
      <4>2. \A i \in 1 .. n : i < k + 1 => c.arg0 # {F[i]}
        BY <1>1, <1>6, <3>3
      <4>3. CASE k < n
        <5>1. k + 1 \in 1 .. n
          BY <1>1, <4>3
        <5> QED
          BY <1>1, <1>6, <4>1, <4>2, <5>1 DEF AtSockets
      <4>4. CASE k = n
        <5>1. q = s + n + 3
          BY <1>1, <4>1, <4>4
        <5>2. ~FamilyFine(F, name, c)
          <6>1. \A i \in 1 .. n : c.arg0 # {F[i]}
            BY <1>1, <4>2, <4>4
          <6> QED
            BY <1>1, <1>6, <6>1 DEF FamilyFine
        <5> QED
          BY <1>1, <1>6, <5>1, <5>2 DEF AtSockets
      <4> QED
        BY <1>1, <4>3, <4>4
    <3> QED
      BY <3>2, <3>3
  <2> QED
    BY <2>1, <2>2
<1>7. CASE p = s + n + 3 /\ Name(c) = name /\ ~FamilyFine(F, name, c)
  <2>1. P[p].answer = "EAFNOSUPPORT" /\ ~Steps(P[p], c, p, a, q, b)
    BY <1>2, <1>7, StepRet
  <2>2. p \in s + 1 .. s + n + 4
    BY <1>1, <1>7
  <2> QED
    BY <1>1, <1>7, <2>1, <2>2
<1>8. CASE p = s + n + 4 /\ FamilyFine(F, name, c)
  <2>1. P[p].op # "ret" /\ p \in s + 1 .. s + n + 4
    <3>1. P[p].op # "ret"
      BY <1>2, <1>8, StepLoad
    <3>2. p \in s + 1 .. s + n + 4
      BY <1>1, <1>8
    <3> QED
      BY <3>1, <3>2
  <2>2. ASSUME Steps(P[p], c, p, a, q, b)
        PROVE  q = s + n + 5 /\ b = c.nr
    <3>1. b = c["nr"] /\ q = p + 1
      BY <1>2, <1>8, <2>2, StepLoad
    <3> QED
      BY <1>1, <1>8, <3>1
  <2> QED
    BY <1>1, <1>8, <2>1, <2>2
<1>9. \/ p = s + 1 /\ a = c.nr
      \/ p = s + 2 /\ Name(c) = name
      \/ \E k \in 1 .. n : /\ p = s + 2 + k /\ Name(c) = name /\ a = c.arg0
                           /\ \A i \in 1 .. n : i < k => c.arg0 # {F[i]}
      \/ p = s + n + 3 /\ Name(c) = name /\ ~FamilyFine(F, name, c)
      \/ p = s + n + 4 /\ FamilyFine(F, name, c)
  BY <1>1 DEF AtSockets
<1>10. CASE \E k \in 1 .. n : /\ p = s + 2 + k /\ Name(c) = name /\ a = c.arg0
                             /\ \A i \in 1 .. n : i < k => c.arg0 # {F[i]}
  BY <1>1, <1>6, <1>10
<1> QED
  BY <1>4, <1>5, <1>7, <1>8, <1>9, <1>10

(* The same in the piece about socket.                                     *)
LEMMA CreationStep ==
    ASSUME NEW F \in Seq(Families), Len(F) > 0, NEW c \in Calls, NEW p, NEW a, NEW q, NEW b,
           AtCreation(F, c, p, a)
    PROVE  /\ p \in 1 .. Len(Program(F))
           /\ Steps(Program(F)[p], c, p, a, q, b) => Known(F, c, q, b)
           /\ Program(F)[p].op = "ret" => Program(F)[p].answer = Meant(F, c)
<1> DEFINE P == Program(F)
<1>1. PICK n \in Nat : n = Len(F)
  OBVIOUS
<1>2. Unseparated(c) /\ AtSockets(F, "socket", SocketsAt, c, p, a)
  BY DEF AtCreation
<1>3. Admitted(c) /\ Undenied(c)
  BY <1>2 DEF Unseparated, Undenied
<1>4. /\ SocketsAt \in Nat /\ Placed(P, SocketsAt, Sockets(F, "socket"))
      /\ Len(P) = IoctlsAt(F) + 7
  BY ProgramLayout, AllRefused DEF SocketsAt, ClonesAt
<1> HIDE DEF P
<1>5. /\ p \in SocketsAt + 1 .. SocketsAt + Len(F) + 4
      /\ Steps(P[p], c, p, a, q, b) =>
            \/ AtSockets(F, "socket", SocketsAt, c, q, b)
            \/ q = SocketsAt + Len(F) + 5 /\ b = c.nr /\ FamilyFine(F, "socket", c)
      /\ P[p].op = "ret" => P[p].answer = "EAFNOSUPPORT" /\ ~FamilyFine(F, "socket", c)
  BY <1>2, <1>3, <1>4, SocketStep
<1>6. p \in 1 .. Len(P)
  BY <1>1, <1>4, <1>5 DEF IoctlsAt, PairsAt
<1>7. ASSUME Steps(P[p], c, p, a, q, b) PROVE Known(F, c, q, b)
  <2>1. CASE AtSockets(F, "socket", SocketsAt, c, q, b)
    BY <1>2, <2>1 DEF AtCreation, Known
  <2>2. CASE q = SocketsAt + Len(F) + 5 /\ b = c.nr /\ FamilyFine(F, "socket", c)
    <3>1. q = PairsAt(F) + 1
      BY <1>1, <1>4, <2>2 DEF PairsAt
    <3> QED
      BY <1>2, <2>2, <3>1 DEF AtPairs, AtSockets, Known
  <2> QED
    BY <1>5, <1>7, <2>1, <2>2
<1>8. ASSUME P[p].op = "ret" PROVE P[p].answer = Meant(F, c)
  BY <1>2, <1>3, <1>5, <1>8 DEF Meant, Unseparated
<1> QED
  BY <1>6, <1>7, <1>8 DEF P

(* The same in the piece about socketpair.                                 *)
LEMMA PairStep ==
    ASSUME NEW F \in Seq(Families), Len(F) > 0, NEW c \in Calls, NEW p, NEW a, NEW q, NEW b,
           AtPairs(F, c, p, a)
    PROVE  /\ p \in 1 .. Len(Program(F))
           /\ Steps(Program(F)[p], c, p, a, q, b) => Known(F, c, q, b)
           /\ Program(F)[p].op = "ret" => Program(F)[p].answer = Meant(F, c)
<1> DEFINE P == Program(F)
<1>1. PICK n \in Nat : n = Len(F)
  OBVIOUS
<1>2. /\ Unseparated(c) /\ FamilyFine(F, "socket", c)
      /\ AtSockets(F, "socketpair", PairsAt(F), c, p, a)
  BY DEF AtPairs
<1>3. Admitted(c) /\ Undenied(c)
  BY <1>2 DEF Unseparated, Undenied
<1>4. /\ PairsAt(F) \in Nat /\ Placed(P, PairsAt(F), Sockets(F, "socketpair"))
      /\ Len(P) = IoctlsAt(F) + 7
  BY ProgramLayout, AllRefused DEF PairsAt, SocketsAt, ClonesAt
<1> HIDE DEF P
<1>5. /\ p \in PairsAt(F) + 1 .. PairsAt(F) + Len(F) + 4
      /\ Steps(P[p], c, p, a, q, b) =>
            \/ AtSockets(F, "socketpair", PairsAt(F), c, q, b)
            \/ q = PairsAt(F) + Len(F) + 5 /\ b = c.nr /\ FamilyFine(F, "socketpair", c)
      /\ P[p].op = "ret" => P[p].answer = "EAFNOSUPPORT" /\ ~FamilyFine(F, "socketpair", c)
  BY <1>2, <1>3, <1>4, SocketStep
<1>6. p \in 1 .. Len(P)
  BY <1>1, <1>4, <1>5 DEF IoctlsAt
<1>7. ASSUME Steps(P[p], c, p, a, q, b) PROVE Known(F, c, q, b)
  <2>1. CASE AtSockets(F, "socketpair", PairsAt(F), c, q, b)
    BY <1>2, <2>1 DEF AtPairs, Known
  <2>2. CASE q = PairsAt(F) + Len(F) + 5 /\ b = c.nr /\ FamilyFine(F, "socketpair", c)
    <3>1. q = IoctlsAt(F) + 1
      BY <1>1, <1>4, <2>2 DEF IoctlsAt
    <3> QED
      BY <1>2, <2>2, <3>1 DEF AtRequests, AtIoctls, Known
  <2> QED
    BY <1>5, <1>7, <2>1, <2>2
<1>8. ASSUME P[p].op = "ret" PROVE P[p].answer = Meant(F, c)
  BY <1>2, <1>3, <1>5, <1>8 DEF Meant, Unseparated
<1> QED
  BY <1>6, <1>7, <1>8 DEF P

(* The same in the piece about terminals.                                  *)
LEMMA IoctlStep ==
    ASSUME NEW F \in Seq(Families), NEW c \in Calls, NEW p, NEW a, NEW q, NEW b,
           AtRequests(F, c, p, a)
    PROVE  /\ p \in 1 .. Len(Program(F))
           /\ Steps(Program(F)[p], c, p, a, q, b) => Known(F, c, q, b)
           /\ Program(F)[p].op = "ret" => Program(F)[p].answer = Meant(F, c)
<1> DEFINE P == Program(F)
<1>1. PICK s \in Nat : s = IoctlsAt(F)
  BY AllRefused DEF IoctlsAt, PairsAt, SocketsAt, ClonesAt
<1>2. /\ P[s + 1] = Jeq(0, 5, "ioctl") /\ P[s + 2] = Load("arg1")
      /\ P[s + 3] = Jeq(0, 1, "TIOCSTI") /\ P[s + 4] = Ret("EPERM")
      /\ P[s + 5] = Jeq(0, 1, "TIOCLINUX") /\ P[s + 6] = Ret("EPERM") /\ P[s + 7] = Ret("allow")
  <2>1. \A i \in 1 .. 7 : P[s + i] = Ioctls[i]
    BY <1>1, ProgramLayout, PiecesTyped DEF Placed
  <2> HIDE DEF P
  <2> QED
    BY <2>1 DEF Ioctls
<1>3. /\ Unseparated(c) /\ FamilyFine(F, "socket", c) /\ FamilyFine(F, "socketpair", c)
      /\ AtIoctls(s, c, p, a)
  BY <1>1 DEF AtRequests
<1>4. Admitted(c) /\ Undenied(c) /\ c.nr = {Name(c)}
  BY <1>3, TheName DEF Unseparated, Undenied, Admitted
<1>5. p \in 1 .. Len(P)
  BY <1>1, <1>3, ProgramLayout DEF AtIoctls
<1> HIDE DEF P
<1> DEFINE Goal == /\ Steps(P[p], c, p, a, q, b) => AtIoctls(s, c, q, b)
                   /\ P[p].op = "ret" => P[p].answer = Meant(F, c)
<1>6. ASSUME p = s + 1 /\ a = c.nr PROVE Goal
  <2>0. P[p] = Jeq(0, 5, "ioctl")
    BY <1>2, <1>6
  <2>1. P[p].op # "ret"
    BY <2>0, StepJeq
  <2>2. ASSUME Steps(P[p], c, p, a, q, b) PROVE AtIoctls(s, c, q, b)
    <3>1. b = a /\ q = p + 1 + (IF a = {"ioctl"} THEN 0 ELSE 5)
      BY <2>0, <2>2, StepJeq
    <3>2. (q = s + 2 /\ Name(c) = "ioctl") \/ (q = s + 7 /\ Name(c) # "ioctl")
      BY <1>4, <1>6, <3>1
    <3> QED
      BY <3>2 DEF AtIoctls
  <2> QED
    BY <2>1, <2>2
<1>7. ASSUME p = s + 2 /\ Name(c) = "ioctl" PROVE Goal
  <2>0. P[p] = Load("arg1")
    BY <1>2, <1>7
  <2>1. P[p].op # "ret"
    BY <2>0, StepLoad
  <2>2. ASSUME Steps(P[p], c, p, a, q, b) PROVE AtIoctls(s, c, q, b)
    <3>1. b = c["arg1"] /\ q = s + 3
      BY <1>7, <2>0, <2>2, StepLoad
    <3> QED
      BY <1>7, <3>1 DEF AtIoctls
  <2> QED
    BY <2>1, <2>2
<1>8. ASSUME p = s + 3 /\ Name(c) = "ioctl" /\ a = c.arg1 PROVE Goal
  <2>0. P[p] = Jeq(0, 1, "TIOCSTI")
    BY <1>2, <1>8
  <2>1. P[p].op # "ret"
    BY <2>0, StepJeq
  <2>2. ASSUME Steps(P[p], c, p, a, q, b) PROVE AtIoctls(s, c, q, b)
    <3>1. b = a /\ q = p + 1 + (IF a = {"TIOCSTI"} THEN 0 ELSE 1)
      BY <2>0, <2>2, StepJeq
    <3>2. (q = s + 4 /\ a = {"TIOCSTI"}) \/ (q = s + 5 /\ a # {"TIOCSTI"})
      BY <1>8, <3>1
    <3> QED
      BY <1>8, <3>1, <3>2 DEF AtIoctls
  <2> QED
    BY <2>1, <2>2
<1>9. ASSUME p = s + 4 /\ Name(c) = "ioctl" /\ c.arg1 = {"TIOCSTI"} PROVE Goal
  <2>0. P[p] = Ret("EPERM")
    BY <1>2, <1>9
  <2>1. P[p].answer = "EPERM" /\ ~Steps(P[p], c, p, a, q, b)
    BY <2>0, StepRet
  <2> QED
    BY <1>3, <1>4, <1>9, <2>1 DEF Meant
<1>10. ASSUME p = s + 5 /\ Name(c) = "ioctl" /\ a = c.arg1 /\ c.arg1 # {"TIOCSTI"} PROVE Goal
  <2>0. P[p] = Jeq(0, 1, "TIOCLINUX")
    BY <1>2, <1>10
  <2>1. P[p].op # "ret"
    BY <2>0, StepJeq
  <2>2. ASSUME Steps(P[p], c, p, a, q, b) PROVE AtIoctls(s, c, q, b)
    <3>1. b = a /\ q = p + 1 + (IF a = {"TIOCLINUX"} THEN 0 ELSE 1)
      BY <2>0, <2>2, StepJeq
    <3>2. (q = s + 6 /\ a = {"TIOCLINUX"}) \/ (q = s + 7 /\ a # {"TIOCLINUX"})
      BY <1>10, <3>1
    <3> QED
      BY <1>10, <3>1, <3>2 DEF AtIoctls
  <2> QED
    BY <2>1, <2>2
<1>11. ASSUME p = s + 6 /\ Name(c) = "ioctl" /\ c.arg1 = {"TIOCLINUX"} PROVE Goal
  <2>0. P[p] = Ret("EPERM")
    BY <1>2, <1>11
  <2>1. P[p].answer = "EPERM" /\ ~Steps(P[p], c, p, a, q, b)
    BY <2>0, StepRet
  <2> QED
    BY <1>3, <1>4, <1>11, <2>1 DEF Meant
<1>12. ASSUME p = s + 7 /\ ~(Name(c) = "ioctl" /\ c.arg1 \in {{"TIOCSTI"}, {"TIOCLINUX"}}) PROVE Goal
  <2>0. P[p] = Ret("allow")
    BY <1>2, <1>12
  <2>1. P[p].answer = "allow" /\ ~Steps(P[p], c, p, a, q, b)
    BY <2>0, StepRet
  <2>2. Name(c) # "clone3"
    BY <1>3 DEF Unseparated
  <2> QED
    BY <1>3, <1>4, <1>12, <2>1, <2>2 DEF Meant
<1>13. Goal
  <2> HIDE DEF Goal
  <2> QED
    BY <1>3, <1>6, <1>7, <1>8, <1>9, <1>10, <1>11, <1>12 DEF AtIoctls
<1>14. AtIoctls(s, c, q, b) => Known(F, c, q, b)
  BY <1>1, <1>3 DEF AtRequests, Known
<1> QED
  BY <1>5, <1>13, <1>14 DEF P

(* From wherever the interpreter is, it goes where what is known holds,    *)
(* and answers what is meant.                                              *)
LEMMA KnownStep ==
    ASSUME NEW F \in Seq(Families), Len(F) > 0, NEW c \in Calls, NEW p, NEW a, NEW q, NEW b,
           Known(F, c, p, a)
    PROVE  /\ p \in 1 .. Len(Program(F))
           /\ Steps(Program(F)[p], c, p, a, q, b) => Known(F, c, q, b)
           /\ Program(F)[p].op = "ret" => Program(F)[p].answer = Meant(F, c)
<1>1. CASE AtEntry(c, p, a)
  BY <1>1, EntryStep
<1>2. CASE AtRefusals(c, p, a)
  BY <1>2, RefusalStep
<1>3. CASE AtClones(c, p, a)
  BY <1>3, CloneStep
<1>4. CASE AtCreation(F, c, p, a)
  BY <1>4, CreationStep
<1>5. CASE AtPairs(F, c, p, a)
  BY <1>5, PairStep
<1>6. CASE AtRequests(F, c, p, a)
  BY <1>6, IoctlStep
<1> QED
  BY <1>1, <1>2, <1>3, <1>4, <1>5, <1>6 DEF Known

-----------------------------------------------------------------------------
(* The families of the program in force.                                    *)
Allowed == IF network THEN <<"unix", "inet", "inet6">> ELSE <<"unix">>

(* The inductive invariant of the filter.                                  *)
FilterInv ==
    /\ network \in BOOLEAN /\ call \in Calls
    /\ Known(Allowed, call, pc, accumulator)
    /\ verdict # "none" => verdict = Meant(Allowed, call)

(* Whichever program is in force, it is the one for these families.        *)
LEMMA InForce ==
    ASSUME network \in BOOLEAN
    PROVE  /\ Allowed \in Seq(Families) /\ Len(Allowed) > 0
           /\ (IF network THEN Online ELSE Offline) = Program(Allowed)
           /\ Fetched = Program(Allowed)[pc]
           /\ {{Allowed[i]} : i \in 1 .. Len(Allowed)} =
                 {{f} : f \in {"unix"} \cup (IF network THEN {"inet", "inet6"} ELSE {})}
<1>1. CASE network = TRUE
  <2>1. Allowed = <<"unix", "inet", "inet6">>
    BY <1>1 DEF Allowed
  <2>2. /\ Allowed \in Seq(Families) /\ Len(Allowed) = 3
        /\ Allowed[1] = "unix" /\ Allowed[2] = "inet" /\ Allowed[3] = "inet6"
    BY <2>1 DEF Families
  <2>3. {{Allowed[i]} : i \in 1 .. Len(Allowed)} = {{f} : f \in {"unix", "inet", "inet6"}}
    BY <2>2
  <2>4. {"unix"} \cup (IF network THEN {"inet", "inet6"} ELSE {}) = {"unix", "inet", "inet6"}
    BY <1>1
  <2>5. /\ (IF network THEN Online ELSE Offline) = Program(Allowed)
        /\ Fetched = Program(Allowed)[pc]
    BY <1>1, <2>1 DEF Fetched, Online
  <2>6. Len(Allowed) > 0
    BY <2>2
  <2> QED
    BY <2>2, <2>3, <2>4, <2>5, <2>6
<1>2. CASE network = FALSE
  <2>1. Allowed = <<"unix">>
    BY <1>2 DEF Allowed
  <2>2. Allowed \in Seq(Families) /\ Len(Allowed) = 1 /\ Allowed[1] = "unix"
    BY <2>1 DEF Families
  <2>3. {{Allowed[i]} : i \in 1 .. Len(Allowed)} = {{f} : f \in {"unix"}}
    BY <2>2
  <2>4. {"unix"} \cup (IF network THEN {"inet", "inet6"} ELSE {}) = {"unix"}
    BY <1>2
  <2>5. /\ (IF network THEN Online ELSE Offline) = Program(Allowed)
        /\ Fetched = Program(Allowed)[pc]
    BY <1>2, <2>1 DEF Fetched, Offline
  <2>6. Len(Allowed) > 0
    BY <2>2
  <2> QED
    BY <2>2, <2>3, <2>4, <2>5, <2>6
<1> QED
  BY <1>1, <1>2

(* What is meant for these families is what the sandbox intends.           *)
LEMMA MeantIsIntended ==
    ASSUME network \in BOOLEAN, call \in Calls
    PROVE  Meant(Allowed, call) = Intended
<1> DEFINE allowed == {{f} : f \in {"unix"} \cup (IF network THEN {"inet", "inet6"} ELSE {})}
           name    == Name(call)
<1>1. /\ FamilyFine(Allowed, "socket", call) <=> (name = "socket" => call.arg0 \in allowed)
      /\ FamilyFine(Allowed, "socketpair", call) <=> (name = "socketpair" => call.arg0 \in allowed)
  <2>1. \A x : x \in allowed <=> \E i \in 1 .. Len(Allowed) : x = {Allowed[i]}
    BY InForce
  <2> HIDE DEF allowed
  <2> QED
    BY <2>1 DEF FamilyFine
<1>2. name \in Denied => name \notin Special
  BY Apart
<1> DEFINE fine == call.arg0 \in allowed
           apart == call.arg0 \cap Namespaces # {}
           refused == call.arg1 \in {{"TIOCSTI"}, {"TIOCLINUX"}}
<1>3. Intended =
        IF call.arch # {"native"} \/ "x32" \in call.nr THEN "kill"
        ELSE CASE name = "clone3" -> "ENOSYS"
               [] name \in Denied -> "EPERM"
               [] name = "clone" /\ apart -> "EPERM"
               [] name \in {"socket", "socketpair"} /\ ~fine -> "EAFNOSUPPORT"
               [] name = "ioctl" /\ refused -> "EPERM"
               [] OTHER -> "allow"
  BY DEF Intended
<1>4. Meant(Allowed, call) =
        IF call.arch # {"native"} \/ "x32" \in call.nr THEN "kill"
        ELSE IF name = "clone3" THEN "ENOSYS"
        ELSE IF name \in Denied \/ (name = "clone" /\ apart) THEN "EPERM"
        ELSE IF (name = "socket" /\ ~fine) \/ (name = "socketpair" /\ ~fine) THEN "EAFNOSUPPORT"
        ELSE IF name = "ioctl" /\ refused THEN "EPERM"
        ELSE "allow"
  <2> HIDE DEF fine
  <2>1. Admitted(call) <=> ~(call.arch # {"native"} \/ "x32" \in call.nr)
    BY DEF Admitted
  <2>2. /\ ~FamilyFine(Allowed, "socket", call) <=> (name = "socket" /\ ~fine)
        /\ ~FamilyFine(Allowed, "socketpair", call) <=> (name = "socketpair" /\ ~fine)
    BY <1>1 DEF fine
  <2>3. Admitted(call) /\ name # "clone3" =>
            (~Unseparated(call) <=> name \in Denied \/ (name = "clone" /\ apart))
    BY DEF Unseparated, Undenied
  <2> HIDE DEF name, apart, refused
  <2> QED
    BY <2>1, <2>2, <2>3 DEF Meant, name, refused
<1> HIDE DEF name, fine, apart, refused
<1> QED
  BY <1>2, <1>3, <1>4 DEF Special

(* Every step of the kernel preserves the invariant.                       *)
LEMMA FilterInductive ==
    FilterInv /\ [FilterNext]_filterVars => FilterInv'
<1> SUFFICES ASSUME FilterInv, [FilterNext]_filterVars
             PROVE  FilterInv'
  OBVIOUS
<1> USE DEF FilterInv
<1>1. /\ Allowed \in Seq(Families) /\ Len(Allowed) > 0
      /\ Fetched = Program(Allowed)[pc]
  BY InForce
<1>2. network' = network /\ call' = call => Allowed' = Allowed
  BY DEF Allowed
<1>3. ASSUME LoadWord \/ Jump PROVE FilterInv'
  <2>1. /\ Steps(Program(Allowed)[pc], call, pc, accumulator, pc', accumulator')
        /\ network' = network /\ call' = call /\ verdict = "none" /\ verdict' = verdict
    BY <1>1, <1>3 DEF LoadWord, Jump, Steps
  <2>2. Known(Allowed, call, pc', accumulator')
    BY <1>1, <2>1, KnownStep
  <2> QED
    BY <1>2, <2>1, <2>2
<1>4. ASSUME Answer PROVE FilterInv'
  <2>1. /\ network' = network /\ call' = call /\ pc' = pc /\ accumulator' = accumulator
        /\ Program(Allowed)[pc].op = "ret" /\ verdict' = Program(Allowed)[pc].answer
    BY <1>1, <1>4 DEF Answer
  <2>2. Program(Allowed)[pc].answer = Meant(Allowed, call)
    BY <1>1, <2>1, KnownStep
  <2> QED
    BY <1>2, <2>1, <2>2
<1>5. CASE UNCHANGED filterVars
  BY <1>2, <1>5 DEF filterVars
<1> QED
  BY <1>3, <1>4, <1>5 DEF FilterNext

(* The jumps lead the kernel, from whatever call it is asked about and     *)
(* for any set of denied calls, to the answer meant for that call, and     *)
(* never past the end.                                                     *)
THEOREM AnswersAlwaysAsIntended == FilterSpec => []AnswersAsIntended
<1>1. FilterInit => FilterInv
  BY DEF FilterInit, FilterInv, Known, AtEntry
<1>2. FilterInv => AnswersAsIntended
  <2> SUFFICES ASSUME FilterInv PROVE AnswersAsIntended
    OBVIOUS
  <2>1. pc \in 1 .. Len(Program(Allowed))
    BY InForce, KnownStep DEF FilterInv
  <2>2. Len(Program(Allowed)) = Len(IF network THEN Online ELSE Offline)
    BY InForce DEF FilterInv
  <2> QED
    BY <2>1, <2>2, MeantIsIntended DEF FilterInv, AnswersAsIntended
<1> QED
  BY <1>1, <1>2, FilterInductive, PTL DEF FilterSpec
================================================================================
