SPECIFICATION Spec
CONSTANTS
    Instances = {a}
    Jobs = {j1, j2}
    Games = {g1, g2}
    Perms = {p0}
    DefaultPerm = p0
    None = None
    ChildrenDie = FALSE
    MayCrash = FALSE
INVARIANT LiveGameTracked
