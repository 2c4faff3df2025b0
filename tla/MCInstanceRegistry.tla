------------------------- MODULE MCInstanceRegistry -------------------------
(* Instances of InstanceRegistry for TLC.                                  *)
EXTENDS InstanceRegistry, TLC

Symmetry == Permutations(Instances) \cup Permutations(Jobs) \cup Permutations(Games)

(* What the exploration is limited to: one instance with every game and    *)
(* every value of the permissions, or every instance with one game and the *)
(* permissions of a fresh installation.                                    *)
Untouched(i) ==
    /\ store[i] = "absent" /\ processes[i] = None
    /\ i \notin operations /\ acked[i] = DefaultPerm /\ perm[i] = DefaultPerm
    /\ \A j \in Jobs : i \notin {job[j].inst, job[j].dst}
    /\ \A g \in Games : game[g].inst # i

OneInstance == \A i, k \in Instances : i = k \/ Untouched(i) \/ Untouched(k)

OneGame ==
    /\ \A g, h \in Games : g = h \/ game[g] = NoChild \/ game[h] = NoChild
    /\ \A i \in Instances : perm[i] = DefaultPerm /\ acked[i] = DefaultPerm
    /\ \A j \in Jobs : job[j].snap = DefaultPerm
    /\ \A g \in Games : game[g].perm = DefaultPerm

Bounded == OneInstance \/ OneGame
=============================================================================
