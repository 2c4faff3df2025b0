SPECIFICATION Spec
CONSTANTS
    Instances = {a}
    Fabric = {a}
    Revisions = {"r1", "r2"}
    LibrariesOf <- MCLibrariesOf
    ObjectsOf <- MCObjectsOf
    JavaOf <- MCJavaOf
    FabricLibraries = {"loader"}
    Digest <- MCDigest
    Fragile = {"icon"}
    None = None
INVARIANT
    RepairReachesGame
