CONSTANTS
    Path <- NestedPath
    Wd = {w1, w2, w3, w4, w5, w6, w7, w8, w9, w10}
    NoPath = NoPath
    NoWd = NoWd
    FixedDirs = {"root", "outside", "a", "b", "x"}
    SpareDirs = {d1, d2, d3}
    SpareFiles = {f1, f2}
    SpareLinks = {}
    Inode <- MCInode
    NoInode = NoInode
    Kind <- MCKind
    HeldOpen = {}
    InitialTrees <- NestedTrees
    MarkedBefore = {{}}
    Creatable <- NestedCreatable
    Deletable <- NestedDeletable
    Renamable <- NestedRenamable
    RenameReplaces = TRUE
    MaxQueuedEvents = 20
    MaxOps = 2
    EggInfoNames = {"x.egg-info"}
    TheRules <- MCRules
    DryRun = FALSE
    Unreadable = {}
    Unmarkable = {}
    MaxWatches = 10
    root <- r
    SplitReads = FALSE
    Interference = "between_drains"
    Signals = FALSE
SYMMETRY Interchangeable
SPECIFICATION Spec
INVARIANTS
    SkippedIsUnwatched
