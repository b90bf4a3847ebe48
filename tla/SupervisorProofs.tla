-------------------------- MODULE SupervisorProofs --------------------------
(***************************************************************************)
(* What is proved of watch mode holds of the supervised program, too,      *)
(* through any number of kills, failures and restarts.                     *)
(***************************************************************************)
EXTENDS Supervisor, WatcherUpkeepProofs

\* A program that has ended left no watch behind: it starts with an empty registry.
NoWatchWhenDown == pc \in Exited => \A wd \in Wd : ~Live(wd)

\* What TypeOK says of the program when it starts, whatever it was before.
LEMMA RestartType ==
  ASSUME TypeOK, Restart
  PROVE  TypeOK'
<1>1. RegistryTypeOK'
  BY DEF Restart, RegistryTypeOK
<1>2. TreeTypeOK'
  BY DEF Restart, TypeOK, TreeTypeOK, world
<1>3. WalkTypeOK'
  <2>1. <<root>> \in Seq(Path) /\ <<>> \in Seq(Path)
    BY RootAssumption
  <2> QED
    BY <2>1 DEF Restart, WalkTypeOK
<1>4. /\ pc' = "seed" /\ batch' = <<>> /\ pending' = <<>> /\ scopes' = {}
      /\ needs_rescan' = FALSE /\ shutdown' = shutdown
  BY DEF Restart
<1>5. shutdown \in BOOLEAN
  BY DEF TypeOK
<1>6. batch' \in Seq(Events) /\ pending' \in Seq(Path) /\ scopes' \subseteq Path
  BY <1>4
<1>7. DrainIsOver'
  BY <1>4 DEF DrainIsOver
<1> QED
  BY <1>1, <1>2, <1>3, <1>4, <1>5, <1>6, <1>7 DEF TypeOK

\* Each step of the supervised program keeps the type.
LEMMA SupervisedStepType ==
  ASSUME TypeOK, [SupervisedNext]_supervised
  PROVE  TypeOK'
<1>1. CASE Crash
  <2>1. TreeTypeOK'
    BY <1>1, CloseKernelType DEF Crash, Exit, TypeOK
  <2> QED
    BY <1>1, <2>1 DEF Crash, Exit, Exited, TypeOK, RegistryTypeOK, WalkTypeOK, registry, walk,
                      history, drain
<1>2. CASE OthersMeanwhile
  <2>1. TreeTypeOK'
    BY <1>2, TreeNextType DEF OthersMeanwhile, TypeOK
  <2> QED
    BY <1>2, <2>1 DEF OthersMeanwhile, Exited, TypeOK, RegistryTypeOK, WalkTypeOK, registry,
                      walk, history, drain
<1>3. CASE Next \/ UNCHANGED vars
  BY <1>3, ProgramType, EnvironmentType DEF Next, Terminated
<1> QED
  BY <1>1, <1>2, <1>3, RestartType DEF SupervisedNext, supervised

\* The state of the supervised program is well formed.
THEOREM SupervisedTypeCorrect == SupervisedSpec => []TypeOK
<1>1. SupervisedInit => TypeOK
  BY WatcherInitType DEF SupervisedInit
<1>2. TypeOK /\ [SupervisedNext]_supervised => TypeOK'
  BY SupervisedStepType
<1> QED
  BY <1>1, <1>2, PTL DEF SupervisedSpec

-----------------------------------------------------------------------------
\* No live kernel watch is ever orphaned, not by a restart either.

\* When the program ends, in whatever way, the kernel drops its watches.
LEMMA EndDropsWatches ==
  ASSUME TypeOK, Program \/ Crash, pc' \in Exited
  PROVE  \A wd \in Wd : ~Live(wd)'
<1>1. CASE CloseKernel
  BY <1>1 DEF CloseKernel, Live
<1>2. pc \notin Exited
  BY DEF Crash, Program, Walking, MayWalk, NoWatchesLeft, SeedDone, CheckShutdown,
         PollReturnsEmpty, ReadEvents, OnOverflow, OnMoveSelf, OnDeleteSelf, OnCreate,
         NextEvent, StartPending, RescanScope, RescanRoot, BatchIsDone, RebuildDone,
         DrainDone, Exited
<1>3. CASE Crash
  BY <1>1, <1>3 DEF Crash, Exit
<1>4. CASE NoWatchesLeft \/ CheckShutdown \/ OnMoveSelf \/ OnDeleteSelf \/ RebuildDone
  BY <1>1, <1>2, <1>4 DEF NoWatchesLeft, CheckShutdown, OnMoveSelf, OnDeleteSelf, RebuildDone,
                          Exit, Exited
<1>5. CASE \/ Walking \/ SeedDone \/ PollReturnsEmpty \/ ReadEvents \/ OnOverflow \/ OnCreate
           \/ StartPending \/ RescanScope \/ RescanRoot \/ DrainDone
  BY <1>2, <1>5 DEF Walking, SeedDone, PollReturnsEmpty, ReadEvents, OnOverflow, OnCreate,
                    NextEvent, StartPending, RescanScope, RescanRoot, DrainDone, Exited
<1> QED
  BY <1>3, <1>4, <1>5 DEF Program

\* The supervised program is never left with a watch that it does not know.
SupervisedIInv == OrphanIInv /\ NoWatchWhenDown

\* Every step of the supervised watcher, a restart too, keeps the invariant.
LEMMA SupervisedStepIInv ==
  ASSUME TypeOK, SupervisedIInv, [SupervisedNext]_supervised
  PROVE  SupervisedIInv'
<1> USE DEF SupervisedIInv
<1>1. CASE Program
  BY <1>1, ProgramKeepsOrphanIInv, EndDropsWatches DEF NoWatchWhenDown
<1>2. CASE Crash
  <2>1. OrphanIInv'
    BY <1>2, CloseKernelOrphans DEF Crash, Exit, drain
  <2> QED
    BY <1>2, <2>1, EndDropsWatches DEF NoWatchWhenDown
<1>3. CASE Restart
  <2>1. pc = "failed" /\ pc' = "seed" /\ batch' = <<>> /\ UNCHANGED <<watch, queue>>
    BY <1>3 DEF Restart, world
  <2>2. \A wd \in Wd : ~Live(wd)'
    BY <2>1 DEF NoWatchWhenDown, Exited, Live
  <2>3. \A event \in ToSet(queue) : event.mask = "DELETE_SELF" => event.wd \in Wd
    BY EventHasWd DEF Masks, TypeOK, TreeTypeOK
  <2>4. ToSet(batch') = {}
    BY <2>1 DEF ToSet
  <2> QED
    BY <2>1, <2>2, <2>3, <2>4
       DEF OrphanIInv, NoOrphanWatch, DeletedIsDead, DeadIn, NoWatchWhenDown
<1>4. CASE OthersMeanwhile
  <2>1. TreeNext /\ UNCHANGED <<by_descriptor, batch, pc>> /\ pc = "failed"
    BY <1>4 DEF OthersMeanwhile, registry, drain
  <2>2. (\A wd \in Wd : Live(wd)' => Live(wd)) /\ DeadIn(queue)'
    BY <2>1, OthersKeepWatches DEF OrphanIInv, DeletedIsDead
  <2>3. \A wd \in Wd : ~Live(wd)'
    BY <2>1, <2>2 DEF NoWatchWhenDown, Exited
  <2>4. \A event \in ToSet(batch) : event.mask = "DELETE_SELF" => event.wd \in Wd
    BY EventHasWd DEF Masks, TypeOK
  <2> QED
    BY <2>1, <2>2, <2>3, <2>4
       DEF OrphanIInv, NoOrphanWatch, DeletedIsDead, DeadIn, NoWatchWhenDown
<1>5. CASE Others
  BY <1>5, OthersKeepOrphanIInv DEF Others, NoWatchWhenDown
<1>6. CASE Signal \/ Terminated \/ UNCHANGED vars
  BY <1>6 DEF Signal, Terminated, vars, world, registry, drain, OrphanIInv, NoOrphanWatch,
              DeletedIsDead, DeadIn, Live, path_for, NoWatchWhenDown
<1> QED
  BY <1>1, <1>2, <1>3, <1>4, <1>5, <1>6 DEF SupervisedNext, supervised, Next

\* However often the program is killed and restarted, each live kernel watch is
\* registered, so that no event of it goes unheard.
THEOREM SupervisedNoOrphanWatch == SupervisedSpec => []NoOrphanWatch
<1>1. SupervisedInit => SupervisedIInv
  BY DEF SupervisedInit, SupervisedIInv, Init, TreeInit, OrphanIInv, NoOrphanWatch,
         DeletedIsDead, DeadIn, Live, ToSet, NoWatchWhenDown, Exited
<1>2. TypeOK /\ SupervisedIInv /\ [SupervisedNext]_supervised => SupervisedIInv'
  BY SupervisedStepIInv
<1>3. SupervisedIInv => NoOrphanWatch
  BY DEF SupervisedIInv, OrphanIInv
<1> QED
  BY <1>1, <1>2, <1>3, SupervisedTypeCorrect, PTL DEF SupervisedSpec

-----------------------------------------------------------------------------
\* No restart leaves an entry behind that nothing would ever remove.

\* A restart begins with an empty registry, as the first start does.
LEMMA RestartForgets ==
  ASSUME Restart
  PROVE  RegistryInit' /\ \A wd \in Wd : path_for(wd)' = NoPath
  BY DEF Restart, RegistryInit, path_for

\* The two maps stay each other's inverse, through any number of restarts.
LEMMA SupervisedStepInverse ==
  ASSUME TypeOK, RegistryInverse, [SupervisedNext]_supervised
  PROVE  RegistryInverse'
<1>1. CASE Restart
  BY <1>1, NoPathAssumption, NoWdAssumption DEF Restart, RegistryInverse
<1>2. CASE Program
  <2>1. RegistryIInv
    BY DEF RegistryIInv, TypeOK
  <2>2. RegistryNext \/ UNCHANGED registry
    BY <1>2, ProgramUsesRegistry
  <2>3. CASE UNCHANGED registry
    BY <2>3 DEF registry, RegistryInverse
  <2> QED
    BY <2>1, <2>2, <2>3, RegisterKeepsInv, RemoveKeepsInv, DrainKeepsInv DEF RegistryNext
<1>3. CASE Crash \/ OthersMeanwhile \/ Others \/ Signal \/ Terminated \/ UNCHANGED vars
  BY <1>3 DEF Crash, OthersMeanwhile, Others, Signal, Terminated, vars, registry,
              RegistryInverse
<1> QED
  BY <1>1, <1>2, <1>3 DEF SupervisedNext, supervised, Next

\* So it does with the notices of dead registrations.
LEMMA SupervisedStepNotice ==
  ASSUME TypeOK, RegistryInverse, NoticeIInv, [SupervisedNext]_supervised
  PROVE  NoticeIInv'
<1> USE DEF NoticeIInv
<1>1. CASE Program
  BY <1>1, ProgramKeepsOneWatch, ProgramStaysBelow, ProgramKeepsNotice
<1>2. CASE Others
  BY <1>2, OthersKeepNotice
<1>3. CASE Crash
  <2>1. pc' \in Exited /\ \A wd \in Wd : ~Live(wd)'
    BY <1>3 DEF Crash, Exit, CloseKernel, Exited, Live
  <2>2. BelowRoot'
    BY <1>3 DEF Crash, BelowRoot, Below, contains_path, registry, walk, drain
  <2> QED
    BY <2>1, <2>2 DEF OneWatchEach, DeadEntryHasNotice
<1>4. CASE Restart
  <2>1. OneWatchEach'
    BY <1>4 DEF Restart, world, OneWatchEach, Live
  <2>2. BelowRoot'
    BY <1>4, RootAssumption, StartsWithSelf
       DEF Restart, BelowRoot, Below, ToSet, contains_path
  <2>3. DeadEntryHasNotice'
    BY <1>4, RestartForgets DEF DeadEntryHasNotice
  <2> QED
    BY <2>1, <2>2, <2>3
<1>5. CASE OthersMeanwhile
  <2>1. TreeNext /\ pc' \in Exited /\ UNCHANGED <<registry, walk, drain>>
    BY <1>5 DEF OthersMeanwhile, Exited
  <2>2. OneWatchEach'
    BY <2>1, OthersTell DEF OneWatchEach, Live
  <2>3. BelowRoot'
    BY <2>1 DEF BelowRoot, Below, contains_path, registry, walk, drain
  <2> QED
    BY <2>1, <2>2, <2>3 DEF DeadEntryHasNotice
<1>6. CASE Signal \/ Terminated \/ UNCHANGED vars
  <2>1. UNCHANGED <<watch, queue, by_descriptor, by_path, pc, stack, watchers, batch,
                    pending, scopes, needs_rescan>>
    BY <1>6 DEF Signal, Terminated, vars, world, registry, walk, drain
  <2> QED
    BY <2>1 DEF OneWatchEach, BelowRoot, Below, DeadEntryHasNotice, Live, path_for,
                contains_path
<1> QED
  BY <1>1, <1>2, <1>3, <1>4, <1>5, <1>6 DEF SupervisedNext, supervised, Next

\* However often the program is killed and restarted, an entry whose watch is gone is
\* about to be cleaned up: a new start takes over none of the entries of the last one,
\* the notices of which went with its queue.
THEOREM SupervisedDeadEntryHasNotice == SupervisedSpec => []DeadEntryHasNotice
<1>1. SupervisedInit => RegistryInverse /\ NoticeIInv
  BY RegistryInitInv, InitNotice DEF SupervisedInit, Init, RegistryIInv
<1>2. TypeOK /\ RegistryInverse /\ NoticeIInv /\ [SupervisedNext]_supervised
      => (RegistryInverse /\ NoticeIInv)'
  BY SupervisedStepInverse, SupervisedStepNotice
<1>3. NoticeIInv => DeadEntryHasNotice
  BY DEF NoticeIInv
<1> QED
  BY <1>1, <1>2, <1>3, SupervisedTypeCorrect, PTL DEF SupervisedSpec

-----------------------------------------------------------------------------
\* Each start makes good whatever happened before it.

\* What others are asked for counts while the program runs.  While it is down they may
\* do as they like, to the root and to the markers, too.
ConsiderateWhileUp == pc \notin Exited => Considerate

\* What the coverage of a tree rests on holds of the supervised program.
LEMMA SupervisedSane == SupervisedSpec => [](Sane /\ NoWatchWhenDown)
<1>1. SupervisedInit => NoHardLinks /\ RegistryInverse /\ NoticeIInv /\ SupervisedIInv
  BY TreeInitNoHardLinks, RegistryInitInv, InitNotice
     DEF SupervisedInit, Init, RegistryIInv, TreeInit, SupervisedIInv, OrphanIInv, NoOrphanWatch,
         DeletedIsDead, DeadIn, Live, ToSet, NoWatchWhenDown, Exited
<1>2. TypeOK /\ NoHardLinks /\ [SupervisedNext]_supervised => NoHardLinks'
  <2> SUFFICES ASSUME TypeOK, NoHardLinks, [SupervisedNext]_supervised PROVE NoHardLinks'
    OBVIOUS
  <2>1. TreeNext \/ UNCHANGED tree
    <3>1. CASE [Next]_vars
      BY <3>1, TreeOrProgram
    <3>2. CASE Crash \/ Restart \/ OthersMeanwhile
      BY <3>2 DEF Crash, Restart, OthersMeanwhile, world
    <3> QED
      BY <3>1, <3>2 DEF SupervisedNext, supervised
  <2> QED
    BY <2>1, TreeNextNoHardLinks DEF TypeOK, NoHardLinks, Exists
<1>3. TypeOK /\ RegistryInverse /\ NoticeIInv /\ SupervisedIInv /\ [SupervisedNext]_supervised
      => (RegistryInverse /\ NoticeIInv /\ SupervisedIInv)'
  BY SupervisedStepInverse, SupervisedStepNotice, SupervisedStepIInv
<1>4. TypeOK /\ NoHardLinks /\ RegistryInverse /\ NoticeIInv /\ SupervisedIInv
      => Sane /\ NoWatchWhenDown
  BY DEF Sane, SupervisedIInv
<1> QED
  BY <1>1, <1>2, <1>3, <1>4, SupervisedTypeCorrect, PTL DEF SupervisedSpec

\* A restart has the whole tree to walk again, and a program that is down owes nothing.
LEMMA SupervisedLosesNothing ==
    SupervisedSpec /\ [][ConsiderateWhileUp]_tree => []NothingIsLost
<1>1. SupervisedInit => NothingIsLost
  BY InitKeeps DEF SupervisedInit
<1>2. Sane /\ NothingIsLost /\ [SupervisedNext]_supervised /\ [ConsiderateWhileUp]_tree
      => NothingIsLost'
  <2> SUFFICES ASSUME Sane, NothingIsLost, [SupervisedNext]_supervised,
                      [ConsiderateWhileUp]_tree
               PROVE  NothingIsLost'
    OBVIOUS
  <2>1. CASE Restart
    <3>1. (root \in ToSet(stack) => NothingIsLost)'
      BY RootDueLosesNothing, PTL
    <3>2. root \in ToSet(stack')
      BY <2>1 DEF Restart, ToSet
    <3> QED
      BY <3>1, <3>2
  <2>2. CASE Crash \/ OthersMeanwhile
    BY <2>2 DEF Crash, Exit, OthersMeanwhile, Exited, NothingIsLost
  <2>3. CASE [Next]_vars
    BY <2>3, StutterIsConsiderate, WatcherStepLosesNothing DEF ConsiderateWhileUp
  <2> QED
    BY <2>1, <2>2, <2>3 DEF SupervisedNext, supervised
<1> QED
  BY <1>1, <1>2, SupervisedSane, PTL DEF SupervisedSpec

\* However often the program is killed at whatever step, and whatever becomes of the tree
\* while it is down: when it rests, it watches every directory that a fresh walk would
\* watch, but for the two gaps of OutOfSight.
THEOREM SupervisedCoversTree ==
    SupervisedSpec /\ [][ConsiderateWhileUp]_tree => []WatchesCoverTree
<1>1. TypeOK /\ NothingIsLost => WatchesCoverTree
  BY AtRestNothingIsDue DEF WatchesCoverTree, Wanted
<1> QED
  BY <1>1, SupervisedTypeCorrect, SupervisedLosesNothing, PTL

\* In the same way it has marked every entry that a fresh walk would mark.
THEOREM SupervisedMarksComplete ==
    SupervisedSpec /\ [][ConsiderateWhileUp]_tree => []MarksComplete
<1>1. TypeOK /\ NothingIsLost => MarksComplete
  BY AtRestNothingIsDue DEF MarksComplete, Wanted, MustMark
<1> QED
  BY <1>1, SupervisedTypeCorrect, SupervisedLosesNothing, PTL

-----------------------------------------------------------------------------
\* The registry is right at rest, through any number of restarts.

\* Nobody hears what others do while the program is down.
LEMMA NobodyHears ==
  ASSUME TypeOK, TreeNext, \A wd \in Wd : ~Live(wd)
  PROVE  queue' = queue
<1> USE DEF TypeOK, TreeTypeOK
<1>1. \A inode : inode # NoInode => WdOf(inode) = NoWd
  BY DEF Live, WdOf
<1>2. \A events, mask, name : Notify(events, mask, NoWd, name) = events
  BY DEF Notify
<1>3. ASSUME NEW inode, inode # NoInode, NEW events, Unlink(inode, events) \/ Drop(inode, events)
      PROVE  queue' = events
  BY <1>1, <1>2, <1>3 DEF Unlink, Drop
<1>4. ASSUME NEW path \in Path, HasRoomFor(path) PROVE ParentWd(path) = NoWd
  <2>1. Len(path) \in Nat \ {0}
    BY PathsAreSequences
  <2>2. Len(path) = 1 \/ Len(path) > 1
    BY ONLY <2>1
  <2> QED
    BY <1>1, <1>4, <2>2 DEF ParentWd, HasRoomFor, IsDir, HasKind, Exists
<1>5. ASSUME NEW path \in Path, NEW inode \in Inode, Create(path, inode)
      PROVE  queue' = queue
  BY <1>2, <1>4, <1>5 DEF Create
<1>6. ASSUME NEW path \in Deletable, Delete(path)
      PROVE  queue' = queue
  BY <1>3, <1>6 DEF Delete, Exists
<1>7. ASSUME NEW move \in Renamable, Rename(move[1], move[2])
      PROVE  queue' = queue
  <2>1. PICK from \in Path, to \in Path : from = move[1] /\ to = move[2]
    BY ChangesAssumption
  <2>2. HasRoomFor(to) /\ tree[from] # NoInode
    BY <1>7, <2>1 DEF Rename, CanRename, Exists
  <2>3. /\ Notify(queue, "MOVED_TO", ParentWd(to), FileName(to)) = queue
        /\ Notify(queue, "MOVE_SELF", WdOf(tree[from]), NoName) = queue
    BY <1>1, <1>2, <1>4, <2>2
  <2> QED
    BY <1>3, <1>7, <2>1, <2>3 DEF Rename, Exists
<1>8. ASSUME NEW inode \in Inode, Release(inode)
      PROVE  queue' = queue
  BY <1>3, <1>8, NoInodeAssumption DEF Release
<1> QED
  BY <1>5, <1>6, <1>7, <1>8 DEF TreeNext

\* A start has no entries.
LEMMA RestartIsTended ==
  ASSUME NEW strict \in BOOLEAN, UpkeepIInv(strict), Restart
  PROVE  UpkeepIInv(strict)'
<1>1. queue' = <<>> /\ batch' = <<>> /\ pc' = "seed" /\ watchers' = <<>>
  BY DEF Restart, world, UpkeepIInv, Exited
<1>2. InOrder(batch' \o queue')
  BY <1>1 DEF InOrder
<1>3. \A path \in Path : ~contains_path(path)'
  BY DEF Restart, contains_path
<1> QED
  BY <1>1, <1>2, <1>3 DEF UpkeepIInv, Tended, EntryIsTrue, ToSet, Exited

\* Every step of the supervised program keeps its registry right.
LEMMA SupervisedStepUpkeep ==
  ASSUME Sane, Sane', NoWatchWhenDown, RootIsOnTop, NEW strict \in BOOLEAN, UpkeepIInv(strict),
         [SupervisedNext]_supervised, MayBeStrict(strict),
         strict /\ pc \notin Exited => Considerate
  PROVE  UpkeepIInv(strict)'
<1>1. CASE Crash
  BY <1>1 DEF Crash, Exit, CloseKernel, UpkeepIInv, Exited
<1>2. CASE OthersMeanwhile
  <2>1. queue' = queue
    BY <1>2, NobodyHears DEF OthersMeanwhile, NoWatchWhenDown, Exited, Sane
  <2> QED
    BY <1>2, <2>1 DEF OthersMeanwhile, UpkeepIInv, Exited
<1>3. CASE [Next]_vars
  BY <1>3, UpkeepStep
<1> QED
  BY <1>1, <1>2, <1>3, RestartIsTended DEF SupervisedNext, supervised

\* However often the program is killed, at whatever step, and whatever was renamed, replaced
\* or deleted while it was down or while it ran: at rest, no registered path names another
\* directory, or none, unless its entry hangs from nothing.
THEOREM SupervisedStaleIsDetached == RootIsOnTop /\ SupervisedSpec => []StaleIsDetached
<1>1. RootIsOnTop /\ SupervisedInit => StaleIInv
  BY InitIsTended DEF SupervisedInit, StaleIInv
<1>2. Sane /\ Sane' /\ NoWatchWhenDown /\ StaleIInv /\ [SupervisedNext]_supervised => StaleIInv'
  BY SupervisedStepUpkeep DEF StaleIInv, MayBeStrict, RootIsOnTop
<1>3. Sane /\ StaleIInv => StaleIsDetached
  BY RestIsNotStale DEF StaleIInv
<1> QED
  BY <1>1, <1>2, <1>3, SupervisedSane, PTL DEF SupervisedSpec

\* Nor, where others leave the tree alone during its walks, is anything watched below what
\* a rule skips, by the new run or by a left-over of the old one.
THEOREM SupervisedSkippedIsDetached ==
    /\ Interference = "between_drains" /\ RootIsOnTop
    /\ SupervisedSpec /\ [][ConsiderateWhileUp]_tree
    => []SkippedIsDetached
<1>1. Interference = "between_drains" /\ RootIsOnTop /\ SupervisedInit => SkippedIInv
  BY InitIsTended DEF SupervisedInit, SkippedIInv
<1>2. /\ Sane /\ Sane' /\ NoWatchWhenDown /\ SkippedIInv
      /\ [SupervisedNext]_supervised /\ [ConsiderateWhileUp]_tree
      => SkippedIInv'
  BY SupervisedStepUpkeep, StutterIsConsiderate
     DEF SkippedIInv, MayBeStrict, RootIsOnTop, ConsiderateWhileUp
<1>3. Sane /\ SkippedIInv => SkippedIsDetached
  BY RestIsNotSkipped DEF SkippedIInv
<1> QED
  BY <1>1, <1>2, <1>3, SupervisedSane, PTL DEF SupervisedSpec
=============================================================================
