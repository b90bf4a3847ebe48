CONSTANTS
    Path <- TriggerRootPath
    Wd = {w1, w2, w3, w4, w5, w6, w7, w8, w9, w10}
    NoPath = NoPath
    NoWd = NoWd
    FixedDirs = {"root", "outside"}
    SpareDirs = {}
    SpareFiles = {f1}
    SpareLinks = {}
    Inode <- MCInode
    NoInode = NoInode
    Kind <- MCKind
    HeldOpen = {}
    InitialTrees <- TriggerRootTrees
    MarkedBefore = {{}}
    Creatable <- TriggerRootCreatable
    Deletable = {}
    Renamable <- TriggerRootRenamable
    RenameReplaces = TRUE
    MaxQueuedEvents = 20
    MaxOps = 2
    EggInfoNames = {"x.egg-info"}
    TheRules <- MCRules
    DryRun = FALSE
    Unreadable = {}
    Unmarkable = {}
    MaxWatches = 10
    root <- r
    SplitReads = TRUE
    Interference = "after_seeding"
    Signals = FALSE
SPECIFICATION Spec
PROPERTIES
    LostRootEndsProgram
