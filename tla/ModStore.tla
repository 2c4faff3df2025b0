------------------------------ MODULE ModStore ------------------------------
(***************************************************************************)
(* What src-tauri/src/minecraft/modrinth_installer.rs promises: the record *)
(* of installed mods and the files in the mods directory change together,  *)
(* in one step, or not at all.                                             *)
(***************************************************************************)
EXTENDS ModPlan

VARIABLES
    registry,   \* the record on disk
    mods        \* the mods directory

Init ==
    /\ registry = [p \in Projects |-> NotInstalled]
    /\ mods \in [Files -> {Other, None}]

(* A mod is installed or updated with everything it requires.              *)
Install(p, P) ==
    LET new == WithPlan(registry, p, P)
        fetched == Fetched(ToFetch(registry, mods, P))
        added == [f \in Files |-> IF fetched[f] # None THEN fetched[f] ELSE mods[f]]
    IN
    /\ Plan(p, P)
    /\ Acceptable(registry, mods, P)
    /\ registry' = new
    /\ mods' = [f \in Files |-> IF f \in Outdated(registry, new, added)
                                THEN None ELSE added[f]]

(* A mod is removed, with what only it required; or it stays because other *)
(* mods require it, but no longer as asked for.                            *)
Remove(p) ==
    LET gone == Orphans(registry, p)
        files == {FileIn(registry, q) : q \in gone}
    IN
    /\ Removable(registry, p)
    /\ \A q \in gone : Untouched(registry, mods, q)
    /\ registry' = WithoutOrphans(registry, p)
    /\ mods' = [f \in Files |-> IF f \in files THEN None ELSE mods[f]]

(* The user or the game changes or deletes a file.                         *)
Edit(f, c) ==
    /\ mods' = [mods EXCEPT ![f] = c]
    /\ UNCHANGED registry

Next ==
    \/ \E p \in Projects : Remove(p) \/ \E P \in SUBSET Versions : Install(p, P)
    \/ \E f \in Files, c \in {Other, None} : Edit(f, c)

Spec == Init /\ [][Next]_<<registry, mods>>
=============================================================================
