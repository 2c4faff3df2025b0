SPECIFICATION Spec
CONSTANTS
    Instances = {a, b}
    Jobs = {j1, j2}
    Games = {g1, g2}
    Perms = {p0, p1}
    DefaultPerm = p0
    None = None
    ChildrenDie = TRUE
    MayCrash = TRUE
CONSTRAINT Bounded
SYMMETRY Symmetry
INVARIANTS
    ReservationsExact
    SharedInstallAlone
    NoWriterWhileRunning
    PermissionsInForce
    SavedPermissionsSurvive
    LiveGameTracked
    StatusEventsInOrder
