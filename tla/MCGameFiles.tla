----------------------------- MODULE MCGameFiles -----------------------------
(* An instance of GameFiles for TLC: the second revision of the metadata   *)
(* has a library more and needs a newer Java.                            *)
EXTENDS GameFiles

MCLibrariesOf == [r \in Revisions |-> IF r = "r1" THEN {} ELSE {"gson"}]
MCObjectsOf   == [r \in Revisions |-> {"icon"}]
MCJavaOf      == [r \in Revisions |-> IF r = "r1" THEN 21 ELSE 25]

MCFiles  == {"json", "index", "jar", "gson", "icon", "loader"}
MCDigest == [r \in Revisions |->
                [f \in MCFiles |-> IF f \in {"json", "index", "jar"} THEN r ELSE "v"]]
=============================================================================
