SPECIFICATION FairSpec
CONSTANTS
    Instances = {a}
    Jobs = {j1, j2}
    Games = {g1}
    Perms = {p0}
    DefaultPerm = p0
    None = None
    ChildrenDie = TRUE
    MayCrash = TRUE
PROPERTIES
    KilledGameReported
    
    ExitCompletes
