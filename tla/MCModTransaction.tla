--------------------------- MODULE MCModTransaction ---------------------------
(* An instance of ModTransaction for TLC: mod p is updated from p1 to p2,  *)
(* which has another file and requires d; d is updated from d1 to d2 under *)
(* the same file name.                                                     *)
EXTENDS ModTransaction

MCProjects == {"p", "d"}
MCVersions == {"p1", "p2", "d1", "d2"}
MCFiles    == {"a.jar", "b.jar", "d.jar"}

MCProjectOf == [v \in MCVersions |-> IF v \in {"p1", "p2"} THEN "p" ELSE "d"]

MCFileOf ==
    [v \in MCVersions |->
        CASE v = "p1" -> "a.jar" [] v = "p2" -> "b.jar" [] OTHER -> "d.jar"]

MCRequires == [v \in MCVersions |-> IF v = "p2" THEN {"d"} ELSE {}]

(* With every fault: d has one version.                                    *)
FewVersions  == MCVersions \ {"d2"}
FewProjectOf == [v \in FewVersions |-> MCProjectOf[v]]
FewFileOf    == [v \in FewVersions |-> MCFileOf[v]]
FewRequires  == [v \in FewVersions |-> MCRequires[v]]
=============================================================================
