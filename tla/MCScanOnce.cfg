CONSTANTS
    Path <- MCPath
    Wd = {w1}
    NoPath = NoPath
    NoWd = NoWd
    Inode <- MCInode
    NoInode = NoInode
    Kind <- MCKind
    HeldOpen = {}
    InitialTrees <- MCTrees
    MarkedBefore <- MCMarks
    Creatable <- MCCreatable
    Deletable <- MCDeletable
    Renamable <- MCRenamable
    RenameReplaces = TRUE
    MaxQueuedEvents = 1
    MaxOps = 2
    EggInfoNames = {"x.egg-info"}
    root <- r
    TheRules <- MCRules
    DryRun = FALSE
    Unreadable <- MCLocked
    Unmarkable <- MCLocked
    MaxWatches = 1
SPECIFICATION Spec
INVARIANTS
    TypeOK
    SteadyMatchesAreMarked
    QuietScanIsExact
