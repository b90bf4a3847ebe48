CONSTANTS
    Path <- MCPath
    Wd = {w1, w2, w3, w4, w5, w6, w7, w8, w9, w10}
    NoPath = NoPath
    NoWd = NoWd
    Inode <- MCInode
    NoInode = NoInode
    Kind <- MCKind
    HeldOpen = {}
    InitialTrees <- MCTrees
    MarkedBefore = {{}}
    Creatable <- MCCreatable
    Deletable <- MCDeletable
    Renamable <- MCRenamable
    RenameReplaces = FALSE
    MaxQueuedEvents = 3
    MaxOps = 0
    EggInfoNames = {"pkg.egg-info", "inner.egg-info", "package.egg-info", "other.egg-info"}
    TheRules <- MCRules
    DryRun = FALSE
    Unreadable <- MCLocked
    Unmarkable = {}
    MaxWatches = 10
    root <- r
    SplitReads = TRUE
    Interference = "between_drains"
    Signals = FALSE
SPECIFICATION TestSpec
PROPERTIES
    EveryTestPasses
