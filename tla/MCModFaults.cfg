SPECIFICATION Spec
CONSTANTS
    Projects <- MCProjects
    Versions <- FewVersions
    Files <- MCFiles
    ProjectOf <- FewProjectOf
    FileOf <- FewFileOf
    Requires <- FewRequires
    Other = Other
    None = None
    Faults = {"edit", "read", "rollback", "crash"}
INVARIANTS
    DependenciesInstalled
    RemovalDeletesOwn
    InstalledFilesPresent
 
