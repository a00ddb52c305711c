SPECIFICATION Spec
CONSTANTS
    cli = cli
    server = server
    Loaders = {cli, server}
    Keys <- MCKeys
    Dirs = {"app", "repo", "home", "shared"}
    Ancestors <- MCAncestors
    Files = {"app_p", "repo_k", "home_p", "base_k"}
    KonformToml = {"repo_k", "base_k"}
    DirOf <- MCDirOf
    ReadOnly = {"base_k"}
    Contents <- MCContents
    Sites <- MCSites
    Starts = {"app"}
    MaxEdits = 1
    MaxCrashes = 1
    NoFile = "none"
INVARIANTS
    RewriteKeepsMeaning
    LoadKeepsBounds
PROPERTIES
    LoadedAsWritten
SYMMETRY MCSymmetry
