CONSTANTS
    Path <- GrowthPath
    Wd = {w1, w2, w3, w4, w5, w6, w7, w8, w9, w10}
    NoPath = NoPath
    NoWd = NoWd
    FixedDirs = {"root", "a", "b", "locked", "artifact"}
    SpareDirs = {d1, d2}
    SpareFiles = {f1, f2}
    SpareLinks = {}
    Inode <- MCInode
    NoInode = NoInode
    Kind <- MCKind
    HeldOpen = {}
    InitialTrees <- GrowthTrees
    MarkedBefore = {{}}
    Creatable <- GrowthCreatable
    Deletable <- GrowthDeletable
    Renamable = {}
    RenameReplaces = FALSE
    MaxQueuedEvents = 20
    MaxOps = 3
    EggInfoNames = {"x.egg-info"}
    TheRules <- MCRules
    DryRun = FALSE
    Unreadable = {}
    Unmarkable = {}
    MaxWatches = 10
    root <- r
    SplitReads = TRUE
    Interference = "anytime"
    Signals = FALSE
SYMMETRY Interchangeable
SPECIFICATION Spec
INVARIANTS
    EveryMatchIsMarked
