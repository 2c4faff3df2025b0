SPECIFICATION Spec
CONSTANTS
    Projects <- MCProjects
    Versions <- MCVersions
    Files <- MCFiles
    ProjectOf <- MCProjectOf
    FileOf <- MCFileOf
    Requires <- MCRequires
    Other = Other
    None = None
    Faults = {"rollback"}
PROPERTY NothingLost
