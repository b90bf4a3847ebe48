CONSTANTS
    Path <- ServicePath
    Wd = {w1, w2, w3, w4, w5, w6, w7, w8, w9, w10}
    NoPath = NoPath
    NoWd = NoWd
    FixedDirs = {"root", "outside", "a"}
    SpareDirs = {d1, d2}
    SpareFiles = {f1}
    SpareLinks = {}
    Inode <- MCInode
    NoInode = NoInode
    Kind <- MCKind
    HeldOpen = {}
    InitialTrees <- ServiceTrees
    MarkedBefore = {{}}
    Creatable <- ServiceCreatable
    Deletable <- ServiceDeletable
    Renamable <- ServiceRenamable
    RenameReplaces = TRUE
    MaxQueuedEvents = 1
    MaxOps = 4
    EggInfoNames = {"x.egg-info"}
    TheRules <- MCRules
    DryRun = FALSE
    Unreadable = {}
    Unmarkable = {}
    MaxWatches = 10
    root <- r
    SplitReads = TRUE
    Interference = "after_seeding"
    Signals = TRUE
    MaxCrashes = 1
SPECIFICATION SupervisedSpec
INVARIANTS
    MarksComplete
    WatchesCoverTree
PROPERTIES
    ComesToRest
    ShutdownIsGranted
    RootIsWatchedAgain
