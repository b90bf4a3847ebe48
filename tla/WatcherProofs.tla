--------------------------- MODULE WatcherProofs ---------------------------
(***************************************************************************)
(* Proofs about the watcher for any finite set of paths, any rules and any *)
(* number of inodes, descriptors and changes.                              *)
(***************************************************************************)
EXTENDS Watcher, WalkProofs, WatchRegistryProofs

-----------------------------------------------------------------------------
\* Type correctness of the steps of the watcher.

\* A rescan leaves the registry, the world and the stack well formed.
LEMMA RescanType ==
  ASSUME TypeOK, NEW scope \in Path, Rescan(scope), UNCHANGED <<tree, marked, queue>>
  PROVE  RegistryTypeOK' /\ TreeTypeOK' /\ stack' \in Seq(Path) /\ detached' \subseteq Path
<1> USE DEF TypeOK, Rescan
<1>1. RegistryTypeOK'
  BY DEF RegistryTypeOK, DrainSubtree
<1>2. TreeTypeOK'
  BY DEF TreeTypeOK, RemoveKernelWatches
<1>3. stack' \in Seq(Path)
  OBVIOUS
<1>4. detached' \subseteq Path
  BY DetachType DEF WalkTypeOK
<1> QED
  BY <1>1, <1>2, <1>3, <1>4

\* An event that is read stands for a descriptor, or for an overflow.
LEMMA HeadOfBatch ==
  ASSUME TypeOK, batch # <<>>
  PROVE  /\ Head(batch) \in Events
         /\ Tail(batch) \in Seq(Events)
         /\ Head(batch).mask \in Masks => Head(batch).wd \in Wd
<1>1. Head(batch) \in Events /\ Tail(batch) \in Seq(Events)
  BY DEF TypeOK
<1>2. OverflowEvent.mask \notin Masks
  BY DEF OverflowEvent, Event, Masks
<1> HIDE DEF OverflowEvent
<1> QED
  BY <1>1, <1>2 DEF Events

\* The state is well formed at the start.
LEMMA WatcherInitType == Init => TypeOK
<1> SUFFICES ASSUME Init PROVE TypeOK
  OBVIOUS
<1>1. RegistryTypeOK
  BY DEF Init, RegistryInit, RegistryTypeOK
<1>2. TreeTypeOK
  BY TreeInitType DEF Init
<1>3. WalkTypeOK
  BY RootAssumption DEF Init, WalkTypeOK
<1>4. DrainIsOver
  BY DEF Init, DrainIsOver
<1>5. /\ pc = "seed" /\ batch = <<>> /\ pending = <<>> /\ scopes = {}
      /\ needs_rescan \in BOOLEAN /\ shutdown \in BOOLEAN
  BY DEF Init
<1> QED
  BY <1>1, <1>2, <1>3, <1>4, <1>5 DEF TypeOK

\* Every step of the program keeps the type.
LEMMA ProgramType ==
  ASSUME TypeOK, Program
  PROVE  TypeOK'
<1> USE DEF Exited
<1> DEFINE event == Head(batch)
<1>1. CASE Walking
  <2>1. WalkerTypeOK'
    BY <1>1, VisitType, ApplyMatchType, AddWatchType
       DEF Walking, discover_watch_targets, TypeOK, WalkerTypeOK
  <2> QED
    BY <1>1, <2>1 DEF Walking, MayWalk, TypeOK, WalkerTypeOK, drain, DrainIsOver
<1>2. CASE NoWatchesLeft
  <2>1. TreeTypeOK'
    BY <1>2, CloseKernelType DEF NoWatchesLeft, Exit, TypeOK
  <2> QED
    BY <1>2, <2>1 DEF NoWatchesLeft, Exit, TypeOK, RegistryTypeOK, WalkTypeOK, registry,
                      walk, drain, history
<1>3. CASE SeedDone
  BY <1>3 DEF SeedDone, TypeOK, RegistryTypeOK, TreeTypeOK, WalkTypeOK, WalkIsOver,
              DrainIsOver, world, registry, walk, drain, history
<1>4. CASE CheckShutdown
  <2>1. TreeTypeOK'
    BY <1>4, CloseKernelType DEF CheckShutdown, Exit, TypeOK, TreeTypeOK, kernel
  <2> QED
    BY <1>4, <2>1 DEF CheckShutdown, Exit, TypeOK, RegistryTypeOK, WalkTypeOK, WalkIsOver,
                      DrainIsOver, registry, walk, drain, history
<1>5. CASE PollReturnsEmpty
  BY <1>5 DEF PollReturnsEmpty, TypeOK, RegistryTypeOK, TreeTypeOK, WalkTypeOK, WalkIsOver,
              DrainIsOver, world, registry, walk, drain, history
<1>6. CASE ReadEvents
  <2>1. batch' \in Seq(Events) /\ queue' \in Seq(Events)
    BY <1>6 DEF ReadEvents, ReadFirst, TypeOK, TreeTypeOK
  <2> QED
    BY <1>6, <2>1 DEF ReadEvents, TypeOK, RegistryTypeOK, TreeTypeOK, WalkTypeOK,
                      registry, walk, history
<1>7. CASE OnOverflow
  BY <1>7, HeadOfBatch
     DEF OnOverflow, NextEvent, TypeOK, RegistryTypeOK, TreeTypeOK, WalkTypeOK, world,
         registry, walk, history
<1>8. CASE OnMoveSelf
  <2> DEFINE path == path_for(event.wd)
  <2>1. path \in Path \cup {NoPath} /\ batch' \in Seq(Events)
    BY <1>8, HeadOfBatch DEF OnMoveSelf, NextEvent, TypeOK, RegistryTypeOK, path_for, Masks
  <2> HIDE DEF path
  <2>2. \/ UNCHANGED <<kernel, pc, scopes>>
        \/ Exit("failed") /\ UNCHANGED scopes
        \/ path # NoPath /\ scopes' = scopes \cup {path} /\ UNCHANGED <<kernel, pc>>
    BY <1>8 DEF OnMoveSelf, path
  <2>3. TreeTypeOK' /\ scopes' \subseteq Path
    BY <1>8, <2>1, <2>2, CloseKernelType DEF OnMoveSelf, Exit, TypeOK, TreeTypeOK, kernel
  <2>4. pc = "drain" /\ pc' \in {"drain", "failed"}
    BY <1>8, <2>2 DEF OnMoveSelf, NextEvent, Exit
  <2> QED
    BY <1>8, <2>1, <2>3, <2>4
       DEF OnMoveSelf, TypeOK, RegistryTypeOK, WalkTypeOK, registry, walk, history
<1>9. CASE OnDeleteSelf
  <2>1. event.wd \in Wd /\ batch' \in Seq(Events)
    BY <1>9, HeadOfBatch DEF OnDeleteSelf, NextEvent, Masks
  <2>2. RegistryTypeOK'
    BY <1>9, <2>1
       DEF OnDeleteSelf, RemoveByDescriptor, TypeOK, RegistryTypeOK, registry
  <2>3. TreeTypeOK'
    BY <1>9, CloseKernelType DEF OnDeleteSelf, Exit, TypeOK, TreeTypeOK, kernel
  <2>4. pc = "drain" /\ pc' \in {"drain", "failed"}
    BY <1>9 DEF OnDeleteSelf, NextEvent, Exit
  <2>5. detached' \subseteq Path
    BY <1>9, DetachType DEF OnDeleteSelf, TypeOK, WalkTypeOK
  <2> QED
    BY <1>9, <2>1, <2>2, <2>3, <2>4, <2>5 DEF OnDeleteSelf, TypeOK, WalkTypeOK, walk
<1>10. CASE OnCreate
  <2> DEFINE parent_dir == path_for(event.wd)
             full_path == Append(parent_dir, event.name)
  <2>1. batch' \in Seq(Events) /\ parent_dir \in Path \cup {NoPath}
    BY <1>10, HeadOfBatch DEF OnCreate, NextEvent, TypeOK, RegistryTypeOK, path_for, Masks
  <2> DEFINE known == parent_dir # NoPath
             found == known /\ full_path \in Path
  <2>2. scopes' = IF known /\ IsTriggerEvent(event) THEN scopes \cup {parent_dir} ELSE scopes
    BY <1>10 DEF OnCreate
  <2>3. matches' = IF found /\ plan_entry(full_path).apply_ignore THEN <<full_path>> ELSE <<>>
    BY <1>10 DEF OnCreate
  <2>4. pending' = IF found /\ plan_entry(full_path).watch_dir
                   THEN Append(pending, full_path) ELSE pending
    BY <1>10 DEF OnCreate
  <2> HIDE DEF full_path, parent_dir
  <2>5. scopes' \subseteq Path /\ matches' \in Seq(Path) /\ pending' \in Seq(Path)
    BY <2>1, <2>2, <2>3, <2>4 DEF TypeOK
  <2>6. pc' = "drain"
    BY <1>10 DEF OnCreate, NextEvent
  <2> QED
    BY <1>10, <2>1, <2>5, <2>6
       DEF OnCreate, TypeOK, RegistryTypeOK, TreeTypeOK, WalkTypeOK, world, registry, history
<1>11. CASE StartPending
  <2>1. Head(pending) \in Path /\ Tail(pending) \in Seq(Path)
    BY <1>11 DEF StartPending, TypeOK
  <2> QED
    BY <1>11, <2>1
       DEF StartPending, BatchIsDone, TypeOK, RegistryTypeOK, TreeTypeOK, WalkTypeOK, world,
           registry, history
<1>12. CASE RescanRoot
  <2>1. RegistryTypeOK' /\ TreeTypeOK' /\ stack' \in Seq(Path) /\ detached' \subseteq Path
    BY <1>12, RescanType, RootAssumption DEF RescanRoot
  <2> QED
    BY <1>12, <2>1 DEF RescanRoot, BatchIsDone, TypeOK, WalkTypeOK, DrainIsOver
<1>13. CASE RebuildDone
  <2>1. TreeTypeOK'
    BY <1>13, CloseKernelType DEF RebuildDone, Exit, TypeOK, TreeTypeOK, kernel
  <2> QED
    BY <1>13, <2>1 DEF RebuildDone, Exit, TypeOK, RegistryTypeOK, WalkTypeOK, WalkIsOver,
                       DrainIsOver, registry, walk, drain, history
<1>14. CASE RescanScope
  <2>1. PICK scope \in scopes : Rescan(scope) /\ scopes' = scopes \ {scope}
    BY <1>14 DEF RescanScope
  <2>2. RegistryTypeOK' /\ TreeTypeOK' /\ stack' \in Seq(Path) /\ detached' \subseteq Path
    BY <1>14, <2>1, RescanType DEF RescanScope, TypeOK
  <2> QED
    BY <1>14, <2>1, <2>2 DEF RescanScope, BatchIsDone, TypeOK, WalkTypeOK
<1>15. CASE DrainDone
  BY <1>15 DEF DrainDone, TypeOK, RegistryTypeOK, TreeTypeOK, WalkTypeOK, WalkIsOver,
               DrainIsOver, world, registry, walk, drain, history
<1> QED
  BY <1>1, <1>2, <1>3, <1>4, <1>5, <1>6, <1>7, <1>8, <1>9, <1>10, <1>11, <1>12, <1>13,
     <1>14, <1>15 DEF Program

\* A signal, a change by others and the end of the program keep it, too.
LEMMA EnvironmentType ==
  ASSUME TypeOK, Others \/ Signal \/ UNCHANGED vars
  PROVE  TypeOK'
<1>1. CASE Others
  <2>1. TreeTypeOK'
    BY <1>1, TreeNextType DEF Others, TypeOK
  <2>2. overlooked' \subseteq Inode
    BY <1>1, <2>1 DEF Others, Overlooks, IsDir, HasKind, Exists, TypeOK, TreeTypeOK, WalkTypeOK, ToSet
  <2> QED
    BY <1>1, <2>1, <2>2
       DEF Others, TypeOK, RegistryTypeOK, WalkTypeOK, WalkIsOver, DrainIsOver, registry,
           walk, drain
<1>2. CASE Signal
  BY <1>2 DEF Signal, TypeOK, RegistryTypeOK, TreeTypeOK, WalkTypeOK, WalkIsOver,
              DrainIsOver, world, registry, walk, drain, history
<1>3. CASE UNCHANGED vars
  BY <1>3 DEF vars, TypeOK, RegistryTypeOK, TreeTypeOK, WalkTypeOK, WalkIsOver,
              DrainIsOver, world, registry, walk, drain, history
<1> QED
  BY <1>1, <1>2, <1>3

\* The state is well formed in every reachable state, and nothing that a drain or
\* a walk has collected is left over when the program waits for events.
THEOREM WatcherTypeCorrect == Spec => []TypeOK
<1>1. TypeOK /\ [Next]_vars => TypeOK'
  BY ProgramType, EnvironmentType DEF Next, Terminated
<1> QED
  BY <1>1, WatcherInitType, PTL DEF Spec

-----------------------------------------------------------------------------
\* The watcher uses the registry by its operations only.

\* The program changes the registry by the operations of WatchRegistry only.
LEMMA ProgramUsesRegistry ==
  ASSUME TypeOK, Program
  PROVE  RegistryNext \/ UNCHANGED registry
<1>1. CASE Walking
  <2>1. CASE discover_watch_targets \/ ApplyMatch
    BY <2>1 DEF discover_watch_targets, Visit, ApplyMatch
  <2>2. CASE AddWatch(batch)
    <3> DEFINE path == Head(watchers)
    <3>1. path \in Path
      BY <2>2 DEF AddWatch, AddingWatches, TypeOK, WalkTypeOK
    <3> HIDE DEF path
    <3>2. CASE SkipRegistered(path) \/ SkipUnwatchable(path)
      BY <3>2 DEF SkipRegistered, SkipUnwatchable
    <3>3. CASE RegisterAgain(path)
      BY <3>1, <3>3, WdOfType DEF RegisterAgain, RegistryNext
    <3>4. CASE RegisterNew(path, batch)
      BY <3>1, <3>4 DEF RegisterNew, NextWd, RegistryNext
    <3> QED
      BY <2>2, <3>2, <3>3, <3>4 DEF AddWatch, path
  <2> QED
    BY <1>1, <2>1, <2>2 DEF Walking
<1>2. CASE OnDeleteSelf
  <2>1. Head(batch).wd \in Wd
    BY <1>2, HeadOfBatch DEF OnDeleteSelf, NextEvent, Masks
  <2> QED
    BY <1>2, <2>1 DEF OnDeleteSelf, RegistryNext
<1>3. CASE RescanRoot
  BY <1>3, RootAssumption DEF RescanRoot, Rescan, RegistryNext
<1>4. CASE RescanScope
  BY <1>4 DEF RescanScope, Rescan, RegistryNext, TypeOK
<1>5. CASE \/ NoWatchesLeft \/ SeedDone \/ CheckShutdown \/ PollReturnsEmpty \/ ReadEvents
           \/ OnOverflow \/ OnMoveSelf \/ OnCreate \/ StartPending \/ RebuildDone
           \/ DrainDone
  BY <1>5 DEF NoWatchesLeft, SeedDone, CheckShutdown, PollReturnsEmpty, ReadEvents,
              OnOverflow, OnMoveSelf, OnCreate, StartPending, RebuildDone, DrainDone
<1> QED
  BY <1>1, <1>2, <1>3, <1>4, <1>5 DEF Program

\* Every step of the watcher does one operation of WatchRegistry or none: add_watch
\* never registers a path twice, and a rescan drains one whole subtree at a time.
THEOREM WatcherRefinesRegistry == Spec => RegistrySpec
<1>1. Init => RegistryInit
  BY DEF Init
<1>2. TypeOK /\ [Next]_vars => [RegistryNext]_registry
  <2> SUFFICES ASSUME TypeOK, [Next]_vars
               PROVE  RegistryNext \/ UNCHANGED registry
    OBVIOUS
  <2>1. CASE Program
    BY <2>1, ProgramUsesRegistry
  <2>2. CASE Others \/ Signal \/ Terminated \/ UNCHANGED vars
    BY <2>2 DEF Others, Signal, Terminated, vars
  <2> QED
    BY <2>1, <2>2 DEF Next
<1> QED
  BY <1>1, <1>2, WatcherTypeCorrect, PTL DEF Spec, RegistrySpec

\* The two maps of the registry are each other's inverse in every state of the
\* watcher, whatever renames, deletions and rescans it goes through.
THEOREM WatcherRegistryInverse == Spec => []RegistryInverse
  BY WatcherRefinesRegistry, RegistryAlwaysInverse, PTL

-----------------------------------------------------------------------------
\* No live kernel watch is ever orphaned.

\* Events other than an overflow are about a descriptor.
LEMMA EventHasWd ==
  ASSUME NEW events \in Seq(Events), NEW event \in ToSet(events), event.mask \in Masks
  PROVE  event.wd \in Wd
<1>1. event \in Events
  BY DEF ToSet
<1>2. OverflowEvent.mask \notin Masks
  BY DEF OverflowEvent, Event, Masks
<1> HIDE DEF OverflowEvent
<1> QED
  BY <1>1, <1>2 DEF Events

\* A DELETE_SELF that is queued or read is about a watch the kernel has removed.
\* It is what makes it right to drop the entry when the event is handled.
DeadIn(events) == \A event \in ToSet(events) : event.mask = "DELETE_SELF" => ~Live(event.wd)

DeletedIsDead == DeadIn(queue) /\ DeadIn(batch)

OrphanIInv == NoOrphanWatch /\ DeletedIsDead

\* Queueing adds at most the event and an overflow, and nothing for no descriptor.
LEMMA NotifyAdds ==
  ASSUME NEW events \in Seq(Events), NEW mask \in Masks, NEW wd \in Wd \cup {NoWd},
         NEW name \in {FileName(path) : path \in Path} \cup {NoName}
  PROVE  \A event \in ToSet(Notify(events, mask, wd, name)) :
            \/ event \in ToSet(events)
            \/ event = Event(mask, wd, name) /\ wd # NoWd
            \/ event = OverflowEvent
<1> DEFINE new == Event(mask, wd, name)
<1>1. \A event : \A e \in ToSet(Append(events, event)) : e \in ToSet(events) \/ e = event
  BY DEF ToSet
<1>2. \/ Notify(events, mask, wd, name) = events
      \/ Notify(events, mask, wd, name) = Append(events, new) /\ wd # NoWd
      \/ Notify(events, mask, wd, name) = Append(events, OverflowEvent)
  BY DEF Notify
<1> HIDE DEF new
<1>3. CASE Notify(events, mask, wd, name) = events
  BY <1>3
<1>4. CASE Notify(events, mask, wd, name) = Append(events, new) /\ wd # NoWd
  BY <1>1, <1>4 DEF new
<1>5. CASE Notify(events, mask, wd, name) = Append(events, OverflowEvent)
  BY <1>1, <1>5
<1> QED
  BY <1>2, <1>3, <1>4, <1>5

\* The deletions in a queue are as dead as those of the queue it grew from.
LEMMA NotifyOfOthers ==
  ASSUME NEW events \in Seq(Events), NEW mask \in Masks \ {"DELETE_SELF"},
         NEW wd \in Wd \cup {NoWd},
         NEW name \in {FileName(path) : path \in Path} \cup {NoName}, DeadIn(events)
  PROVE  DeadIn(Notify(events, mask, wd, name))
<1>1. Event(mask, wd, name).mask # "DELETE_SELF" /\ OverflowEvent.mask # "DELETE_SELF"
  BY DEF Event, OverflowEvent
<1> QED
  BY <1>1, NotifyAdds DEF DeadIn

\* A watch that goes is announced as deleted, if at all, and no other watch is.
LEMMA DropKeepsWatches ==
  ASSUME TypeOK, NEW inode \in Inode, NEW events \in Seq(Events), DeadIn(events),
         Drop(inode, events)
  PROVE  /\ \A wd \in Wd : Live(wd)' => Live(wd)
         /\ DeadIn(queue)'
<1> USE DEF TypeOK, TreeTypeOK
<1> DEFINE deleted == Event("DELETE_SELF", WdOf(inode), NoName)
<1>1. /\ watch' = [wd \in Wd |-> IF watch[wd] = inode THEN NoInode ELSE watch[wd]]
      /\ queue' = Notify(events, "DELETE_SELF", WdOf(inode), NoName)
  BY DEF Drop
<1>2. \A wd \in Wd : ~Live(wd) => ~Live(wd)'
  BY <1>1 DEF Live
<1>3. \A wd \in Wd : wd = WdOf(inode) => ~Live(wd)'
  BY <1>1, WdOfType, NoWdAssumption DEF Live
<1>4. \A event \in ToSet(queue') :
         event \in ToSet(events) \/ (event = deleted /\ WdOf(inode) # NoWd) \/ event = OverflowEvent
  BY <1>1, WdOfType, NotifyAdds DEF Masks
<1>5. deleted.wd = WdOf(inode) /\ OverflowEvent.mask # "DELETE_SELF"
  BY DEF Event, OverflowEvent
<1>6. \A event \in ToSet(events) : event.mask = "DELETE_SELF" => event.wd \in Wd
  BY EventHasWd DEF Masks
<1> HIDE DEF deleted
<1>7. \A event \in ToSet(queue') : event.mask = "DELETE_SELF" => ~Live(event.wd)'
  <2> SUFFICES ASSUME NEW event \in ToSet(queue'), event.mask = "DELETE_SELF"
               PROVE  ~Live(event.wd)'
    OBVIOUS
  <2>1. CASE event \in ToSet(events)
    BY <1>2, <1>6, <2>1 DEF DeadIn
  <2>2. CASE event = deleted /\ WdOf(inode) # NoWd
    BY <1>3, <1>5, <2>2, WdOfType
  <2> QED
    BY <1>4, <1>5, <2>1, <2>2
<1>8. DeadIn(queue)'
  BY <1>7 DEF DeadIn
<1> QED
  BY <1>2, <1>8

\* Others only ever take watches away, and announce the deletion of those only.
LEMMA OthersKeepWatches ==
  ASSUME TypeOK, DeadIn(queue), TreeNext
  PROVE  /\ \A wd \in Wd : Live(wd)' => Live(wd)
         /\ DeadIn(queue)'
<1> USE DEF TypeOK, TreeTypeOK
<1> DEFINE Kept == /\ \A wd \in Wd : Live(wd)' => Live(wd)
                   /\ DeadIn(queue)'
<1>1. \A path \in Path : ParentWd(path) \in Wd \cup {NoWd}
  BY WdOfType DEF ParentWd
<1>2. ASSUME NEW events \in Seq(Events), DeadIn(events),
             queue' = events, UNCHANGED watch
      PROVE  Kept
  BY <1>2 DEF DeadIn, Live
<1>3. ASSUME NEW inode \in Inode, NEW events \in Seq(Events), DeadIn(events),
             Unlink(inode, events)
      PROVE  Kept
  BY <1>2, <1>3, DropKeepsWatches DEF Unlink
<1>4. ASSUME NEW path \in Path, NEW inode \in Inode, Create(path, inode)
      PROVE  Kept
  <2> DEFINE told == Notify(queue, "CREATE", ParentWd(path), FileName(path))
  <2>1. queue' = told /\ UNCHANGED watch
    BY <1>4 DEF Create
  <2>2. told \in Seq(Events) /\ DeadIn(told)
    BY <1>1, NotifyType, NotifyOfOthers DEF Masks
  <2> HIDE DEF told
  <2> QED
    BY <1>2, <2>1, <2>2
<1>5. ASSUME NEW path \in Deletable, Delete(path)
      PROVE  Kept
  <2>1. tree[path] \in Inode
    BY <1>5, ChangesAssumption DEF Delete, Exists
  <2> QED
    BY <1>3, <1>5, <2>1 DEF Delete
<1>6. ASSUME NEW move \in Renamable, Rename(move[1], move[2])
      PROVE  Kept
  <2> DEFINE from == move[1]
             to == move[2]
             arrived == Notify(queue, "MOVED_TO", ParentWd(to), FileName(to))
             moved == Notify(arrived, "MOVE_SELF", WdOf(tree[from]), NoName)
  <2>1. to \in Path
    BY ChangesAssumption
  <2>2. arrived \in Seq(Events) /\ DeadIn(arrived)
    BY <1>1, <2>1, NotifyType, NotifyOfOthers DEF Masks
  <2>3. moved \in Seq(Events) /\ DeadIn(moved)
    <3> HIDE DEF arrived
    <3> QED BY <2>2, WdOfType, NotifyType, NotifyOfOthers DEF Masks
  <2>4. \/ Exists(to) /\ Unlink(tree[to], moved)
        \/ queue' = moved /\ UNCHANGED watch
    BY <1>6 DEF Rename
  <2>5. Exists(to) => tree[to] \in Inode
    BY <2>1 DEF Exists
  <2> HIDE DEF moved, to
  <2> QED
    BY <1>2, <1>3, <2>3, <2>4, <2>5
<1>7. ASSUME NEW inode \in Inode, Release(inode)
      PROVE  Kept
  BY <1>7, DropKeepsWatches DEF Release
<1> QED
  BY <1>4, <1>5, <1>6, <1>7, ChangesAssumption DEF TreeNext

\* Others keep the watches, and the program drops an entry only with its watch.
LEMMA OthersKeepOrphanIInv ==
  ASSUME TypeOK, OrphanIInv, Others
  PROVE  OrphanIInv'
<1>1. TreeNext /\ UNCHANGED <<by_descriptor, batch>>
  BY DEF Others, registry, drain
<1>2. (\A wd \in Wd : Live(wd)' => Live(wd)) /\ DeadIn(queue)'
  BY <1>1, OthersKeepWatches DEF OrphanIInv, DeletedIsDead
<1>3. NoOrphanWatch'
  BY <1>1, <1>2 DEF OrphanIInv, NoOrphanWatch, path_for
<1>4. DeadIn(batch)'
  <2>1. \A event \in ToSet(batch) : event.mask = "DELETE_SELF" => event.wd \in Wd
    BY EventHasWd DEF Masks, TypeOK
  <2> QED
    BY <1>1, <1>2, <2>1 DEF OrphanIInv, DeletedIsDead, DeadIn
<1> QED
  BY <1>2, <1>3, <1>4 DEF OrphanIInv, DeletedIsDead

\* The program handles a part of the events, and dead watches stay dead.
LEMMA FewerEvents ==
  ASSUME TypeOK, DeletedIsDead, UNCHANGED watch,
         ToSet(queue') \subseteq ToSet(queue),
         ToSet(batch') \subseteq ToSet(queue) \cup ToSet(batch)
  PROVE  DeletedIsDead'
  BY DEF DeletedIsDead, DeadIn, Live

\* When the kernel closes the instance there is no watch to orphan.
LEMMA CloseKernelOrphans ==
  ASSUME TypeOK, CloseKernel, ToSet(batch') \subseteq ToSet(batch)
  PROVE  OrphanIInv'
<1>1. \A wd \in Wd : ~Live(wd)'
  BY DEF CloseKernel, Live
<1>2. \A event \in ToSet(batch) : event.mask = "DELETE_SELF" => event.wd \in Wd
  BY EventHasWd DEF Masks, TypeOK
<1>3. ToSet(queue') = {}
  BY DEF CloseKernel, ToSet
<1> QED
  BY <1>1, <1>2, <1>3 DEF OrphanIInv, NoOrphanWatch, DeletedIsDead, DeadIn

\* add_watch registers what it watches, under a descriptor that no event awaits.
LEMMA AddWatchOrphans ==
  ASSUME TypeOK, OrphanIInv, AddWatch(batch), UNCHANGED batch
  PROVE  OrphanIInv'
<1> USE DEF TypeOK, OrphanIInv
<1> DEFINE path == Head(watchers)
<1>1. path \in Path
  BY DEF AddWatch, AddingWatches, WalkTypeOK
<1> HIDE DEF path
<1>2. CASE SkipRegistered(path) \/ SkipUnwatchable(path)
  <2>1. UNCHANGED <<watch, queue, by_descriptor>>
    BY <1>2 DEF SkipRegistered, SkipUnwatchable, kernel, registry
  <2>2. NoOrphanWatch'
    BY <2>1 DEF NoOrphanWatch, Live, path_for
  <2> QED
    BY <2>1, <2>2, FewerEvents
<1>3. CASE RegisterAgain(path)
  <2>1. UNCHANGED <<watch, queue>> /\ by_descriptor' = [by_descriptor EXCEPT ![WdOf(tree[path])] = path]
    BY <1>3 DEF RegisterAgain, Register, Insert, kernel
  <2>2. NoOrphanWatch'
    BY <1>1, <2>1, NoPathAssumption DEF NoOrphanWatch, Live, path_for, RegistryTypeOK
  <2> QED
    BY <2>1, <2>2, FewerEvents
<1>4. CASE RegisterNew(path, batch)
  <2> DEFINE new == NextWd(batch)
  <2>1. /\ new \in Wd /\ Fresh(new, batch)
        /\ watch' = [watch EXCEPT ![new] = tree[path]]
        /\ by_descriptor' = [by_descriptor EXCEPT ![new] = path]
        /\ UNCHANGED queue
    BY <1>4 DEF RegisterNew, AddKernelWatch, Register, Insert, NextWd
  <2> HIDE DEF new
  <2>2. NoOrphanWatch'
    BY <1>1, <2>1, NoPathAssumption DEF NoOrphanWatch, Live, path_for, RegistryTypeOK
  <2>3. \A event \in ToSet(queue) \cup ToSet(batch) : event.wd # new
    BY <2>1 DEF Fresh, ToSet
  <2>4. \A event \in ToSet(queue) \cup ToSet(batch) :
           event.mask = "DELETE_SELF" => event.wd \in Wd
    BY EventHasWd DEF Masks, TreeTypeOK
  <2>5. DeletedIsDead'
    BY <2>1, <2>3, <2>4 DEF DeletedIsDead, DeadIn, Live, TreeTypeOK
  <2> QED
    BY <2>2, <2>5
<1> QED
  BY <1>2, <1>3, <1>4 DEF AddWatch, path

\* A rescan takes from the kernel what it takes from the registry.
LEMMA RescanOrphans ==
  ASSUME TypeOK, OrphanIInv, NEW scope \in Path, Rescan(scope), UNCHANGED <<queue, batch>>
  PROVE  OrphanIInv'
<1>1. NoOrphanWatch'
  BY DEF Rescan, DrainSubtree, RemoveKernelWatches, OrphanIInv, NoOrphanWatch, Live, path_for
<1>2. \A wd \in Wd : Live(wd)' => Live(wd)
  BY DEF Rescan, RemoveKernelWatches, Live
<1>3. \A event \in ToSet(queue) \cup ToSet(batch) :
         event.mask = "DELETE_SELF" => event.wd \in Wd
  BY EventHasWd DEF Masks, TypeOK, TreeTypeOK
<1>4. DeletedIsDead'
  BY <1>2, <1>3 DEF OrphanIInv, DeletedIsDead, DeadIn
<1> QED
  BY <1>1, <1>4 DEF OrphanIInv

\* The batch that is left is a part of the batch.
LEMMA TailOfBatch ==
  ASSUME TypeOK, batch # <<>>
  PROVE  Head(batch) \in ToSet(batch) /\ ToSet(Tail(batch)) \subseteq ToSet(batch)
  BY DEF TypeOK, ToSet

\* No step of the program leaves a live watch without its path.
LEMMA ProgramKeepsOrphanIInv ==
  ASSUME TypeOK, OrphanIInv, Program
  PROVE  OrphanIInv'
<1>1. ASSUME UNCHANGED <<watch, by_descriptor>>,
             ToSet(queue') \subseteq ToSet(queue),
             ToSet(batch') \subseteq ToSet(queue) \cup ToSet(batch)
      PROVE  OrphanIInv'
  <2>1. NoOrphanWatch'
    BY <1>1 DEF OrphanIInv, NoOrphanWatch, Live, path_for
  <2> QED
    BY <1>1, <2>1, FewerEvents DEF OrphanIInv
<1>2. CASE Walking
  <2>1. CASE discover_watch_targets \/ ApplyMatch
    BY <1>1, <1>2, <2>1 DEF Walking, discover_watch_targets, Visit, ApplyMatch, world, kernel,
                           registry, drain
  <2>2. CASE AddWatch(batch)
    BY <1>2, <2>2, AddWatchOrphans DEF Walking, drain
  <2> QED
    BY <1>2, <2>1, <2>2 DEF Walking
<1>3. CASE ReadEvents
  <2>1. PICK n \in 1..Len(queue) : batch' = SubSeq(queue, 1, n) /\ ReadFirst(n)
    BY <1>3 DEF ReadEvents
  <2>2. ToSet(batch') \subseteq ToSet(queue) /\ ToSet(queue') \subseteq ToSet(queue)
    BY <2>1 DEF ReadFirst, ToSet, TypeOK, TreeTypeOK
  <2> QED
    BY <1>1, <1>3, <2>2 DEF ReadEvents, registry
<1>4. CASE OnDeleteSelf
  <2> DEFINE wd == Head(batch).wd
  <2>1. wd \in Wd /\ ~Live(wd) /\ ToSet(batch') \subseteq ToSet(batch)
    BY <1>4, HeadOfBatch, TailOfBatch
       DEF OnDeleteSelf, NextEvent, Masks, OrphanIInv, DeletedIsDead, DeadIn
  <2>2. \/ CloseKernel
        \/ UNCHANGED kernel /\ by_descriptor' = [by_descriptor EXCEPT ![wd] = NoPath]
    BY <1>4 DEF OnDeleteSelf, Exit, RemoveByDescriptor
  <2> HIDE DEF wd
  <2>3. CASE CloseKernel
    BY <2>1, <2>3, CloseKernelOrphans
  <2>4. CASE UNCHANGED kernel /\ by_descriptor' = [by_descriptor EXCEPT ![wd] = NoPath]
    <3>1. NoOrphanWatch'
      BY <2>1, <2>4
         DEF OrphanIInv, NoOrphanWatch, Live, path_for, kernel, TypeOK, RegistryTypeOK
    <3>2. DeletedIsDead'
      BY <2>1, <2>4, FewerEvents DEF OrphanIInv, kernel
    <3> QED
      BY <3>1, <3>2 DEF OrphanIInv
  <2> QED
    BY <2>2, <2>3, <2>4
<1>5. CASE OnMoveSelf
  <2>1. ToSet(batch') \subseteq ToSet(batch)
    BY <1>5, TailOfBatch DEF OnMoveSelf, NextEvent
  <2>2. UNCHANGED kernel \/ CloseKernel
    BY <1>5 DEF OnMoveSelf, Exit
  <2> QED
    BY <1>1, <1>5, <2>1, <2>2, CloseKernelOrphans DEF OnMoveSelf, kernel, registry
<1>6. CASE OnOverflow \/ OnCreate
  BY <1>1, <1>6, TailOfBatch DEF OnOverflow, OnCreate, NextEvent, world, registry
<1>7. CASE RescanRoot
  BY <1>7, RescanOrphans, RootAssumption DEF RescanRoot
<1>8. CASE RescanScope
  BY <1>8, RescanOrphans DEF RescanScope, TypeOK
<1>9. CASE NoWatchesLeft
  BY <1>9, CloseKernelOrphans DEF NoWatchesLeft, Exit, drain
<1>10. CASE CheckShutdown \/ RebuildDone
  <2>1. UNCHANGED <<registry, batch>> /\ (UNCHANGED kernel \/ CloseKernel)
    BY <1>10 DEF CheckShutdown, RebuildDone, Exit, drain
  <2> QED
    BY <1>1, <2>1, CloseKernelOrphans DEF kernel, registry
<1>11. CASE SeedDone \/ PollReturnsEmpty \/ StartPending \/ DrainDone
  BY <1>1, <1>11
     DEF SeedDone, PollReturnsEmpty, StartPending, DrainDone, world, registry, drain
<1> QED
  BY <1>2, <1>3, <1>4, <1>5, <1>6, <1>7, <1>8, <1>9, <1>10, <1>11 DEF Program

\* Live watches are registered, and deletions are told of dead ones only.
LEMMA WatcherOrphanIInv == Spec => []OrphanIInv
<1>1. Init => OrphanIInv
  BY DEF Init, TreeInit, OrphanIInv, NoOrphanWatch, DeletedIsDead, DeadIn, Live, ToSet
<1>2. TypeOK /\ OrphanIInv /\ [Next]_vars => OrphanIInv'
  <2> SUFFICES ASSUME TypeOK, OrphanIInv, [Next]_vars
               PROVE  OrphanIInv'
    OBVIOUS
  <2>1. CASE Program
    BY <2>1, ProgramKeepsOrphanIInv
  <2>2. CASE Others
    BY <2>2, OthersKeepOrphanIInv
  <2>3. CASE Signal \/ Terminated \/ UNCHANGED vars
    BY <2>3 DEF Signal, Terminated, vars, world, registry, drain, OrphanIInv, NoOrphanWatch,
                DeletedIsDead, DeadIn, Live, path_for
  <2> QED
    BY <2>1, <2>2, <2>3 DEF Next
<1> QED
  BY <1>1, <1>2, WatcherTypeCorrect, PTL DEF Spec

\* In every state of the watcher each live kernel watch is registered, so that no
\* event of it goes unheard: in spite of renames, of files replaced while they are
\* held open, of rescans between an event and its handling, of lost events.
THEOREM WatcherNoOrphanWatch == Spec => []NoOrphanWatch
<1>1. OrphanIInv => NoOrphanWatch
  BY DEF OrphanIInv
<1> QED
  BY <1>1, WatcherOrphanIInv, PTL

-----------------------------------------------------------------------------
\* A dead entry is about to be cleaned up.

\* What is to be cleaned up is announced in a queue, or everything is.
Announced(wd, events) ==
    \/ Contains(events, Event("DELETE_SELF", wd, NoName))
    \/ Contains(events, OverflowEvent)

HasNotice(wd) == Announced(wd, queue) \/ Announced(wd, batch) \/ needs_rescan

\* A directory has one watch, so that the end of the watch is told when the
\* directory goes.
OneWatchEach == \A v, w \in Wd : Live(v) /\ watch[v] = watch[w] => v = w

\* The program keeps to the root and what is below, so that a rescan of the root
\* reaches every entry.
Below(paths) == \A path \in paths : StartsWith(path, root)

BelowRoot ==
    /\ \A path \in Path : contains_path(path) => StartsWith(path, root)
    /\ Below(ToSet(stack)) /\ Below(ToSet(watchers)) /\ Below(ToSet(pending)) /\ Below(scopes)

\* Queueing an event loses none that is queued, and tells of the event.
LEMMA NotifyTells ==
  ASSUME NEW events \in Seq(Events), NEW mask \in Masks, NEW wd \in Wd \cup {NoWd},
         NEW name \in {FileName(path) : path \in Path} \cup {NoName}
  PROVE  /\ \A e : Contains(events, e) => Contains(Notify(events, mask, wd, name), e)
         /\ wd # NoWd => \/ Contains(Notify(events, mask, wd, name), Event(mask, wd, name))
                        \/ Contains(Notify(events, mask, wd, name), OverflowEvent)
<1> DEFINE new == Event(mask, wd, name)
           all == Notify(events, mask, wd, name)
<1>1. \A event : /\ Contains(Append(events, event), event)
                 /\ \A e : Contains(events, e) => Contains(Append(events, event), e)
  BY DEF Contains
<1>2. events # <<>> /\ Last(events) = new => Contains(events, new)
  BY DEF Contains, Last
<1>3. \/ all = events /\ wd = NoWd
      \/ all = events /\ events # <<>> /\ Last(events) = new
      \/ all = events /\ Contains(events, OverflowEvent)
      \/ all = Append(events, new)
      \/ all = Append(events, OverflowEvent)
  BY DEF Notify
<1> HIDE DEF new, all
<1> QED
  BY <1>1, <1>2, <1>3 DEF new, all

\* An inode that goes takes its one watch along, and the queue tells of it.
LEMMA DropTells ==
  ASSUME TypeOK, OneWatchEach, NEW inode \in Inode, NEW events \in Seq(Events),
         Drop(inode, events)
  PROVE  /\ \A e : Contains(events, e) => Contains(queue', e)
         /\ \A wd \in Wd : Live(wd) => Announced(wd, queue') \/ watch'[wd] = watch[wd]
         /\ \A wd \in Wd : Live(wd)' => watch'[wd] = watch[wd]
<1> USE DEF TypeOK, TreeTypeOK
<1>1. /\ watch' = [wd \in Wd |-> IF watch[wd] = inode THEN NoInode ELSE watch[wd]]
      /\ queue' = Notify(events, "DELETE_SELF", WdOf(inode), NoName)
  BY DEF Drop
<1>2. /\ \A e : Contains(events, e) => Contains(queue', e)
      /\ WdOf(inode) # NoWd => Announced(WdOf(inode), queue')
  BY <1>1, WdOfType, NotifyTells DEF Masks, Announced
<1>3. ASSUME NEW wd \in Wd, Live(wd), watch[wd] = inode
      PROVE  WdOf(inode) # NoWd /\ wd = WdOf(inode)
  <2>1. \E w \in Wd : watch[w] = inode
    BY <1>3
  <2>2. WdOf(inode) \in Wd
    BY <2>1 DEF WdOf
  <2>3. watch[WdOf(inode)] = inode /\ WdOf(inode) # NoWd
    BY <2>2, WdOfType, NoWdAssumption
  <2> QED
    BY <1>3, <2>2, <2>3 DEF OneWatchEach
<1> QED
  BY <1>1, <1>2, <1>3 DEF Live

\* Whatever others do, no event is lost from the queue, and of every watch that goes
\* the queue tells.
LEMMA OthersTell ==
  ASSUME TypeOK, OneWatchEach, TreeNext
  PROVE  /\ \A e : Contains(queue, e) => Contains(queue', e)
         /\ \A wd \in Wd : Live(wd) => Announced(wd, queue') \/ watch'[wd] = watch[wd]
         /\ \A wd \in Wd : Live(wd)' => watch'[wd] = watch[wd]
<1> USE DEF TypeOK, TreeTypeOK
<1> DEFINE Told ==
      /\ \A e : Contains(queue, e) => Contains(queue', e)
      /\ \A wd \in Wd : Live(wd) => Announced(wd, queue') \/ watch'[wd] = watch[wd]
      /\ \A wd \in Wd : Live(wd)' => watch'[wd] = watch[wd]
<1>1. \A path \in Path : ParentWd(path) \in Wd \cup {NoWd}
  BY WdOfType DEF ParentWd
<1>2. ASSUME NEW events \in Seq(Events), \A e : Contains(queue, e) => Contains(events, e),
             queue' = events, UNCHANGED watch
      PROVE  Told
  BY <1>2
<1>3. ASSUME NEW inode \in Inode, NEW events \in Seq(Events),
             \A e : Contains(queue, e) => Contains(events, e), Unlink(inode, events)
      PROVE  Told
  BY <1>2, <1>3, DropTells DEF Unlink
<1>4. ASSUME NEW path \in Path, NEW inode \in Inode, Create(path, inode)
      PROVE  Told
  <2> DEFINE told == Notify(queue, "CREATE", ParentWd(path), FileName(path))
  <2>1. queue' = told /\ UNCHANGED watch
    BY <1>4 DEF Create
  <2>2. told \in Seq(Events) /\ \A e : Contains(queue, e) => Contains(told, e)
    BY <1>1, NotifyType, NotifyTells DEF Masks
  <2> HIDE DEF told
  <2> QED
    BY <1>2, <2>1, <2>2
<1>5. ASSUME NEW path \in Deletable, Delete(path)
      PROVE  Told
  <2>1. tree[path] \in Inode
    BY <1>5, ChangesAssumption DEF Delete, Exists
  <2> QED
    BY <1>3, <1>5, <2>1 DEF Delete
<1>6. ASSUME NEW move \in Renamable, Rename(move[1], move[2])
      PROVE  Told
  <2> DEFINE from == move[1]
             to == move[2]
             arrived == Notify(queue, "MOVED_TO", ParentWd(to), FileName(to))
             moved == Notify(arrived, "MOVE_SELF", WdOf(tree[from]), NoName)
  <2>1. to \in Path
    BY ChangesAssumption
  <2>2. arrived \in Seq(Events) /\ \A e : Contains(queue, e) => Contains(arrived, e)
    BY <1>1, <2>1, NotifyType, NotifyTells DEF Masks
  <2>3. moved \in Seq(Events) /\ \A e : Contains(queue, e) => Contains(moved, e)
    <3> HIDE DEF arrived
    <3> QED BY <2>2, WdOfType, NotifyType, NotifyTells DEF Masks
  <2>4. \/ Exists(to) /\ Unlink(tree[to], moved)
        \/ queue' = moved /\ UNCHANGED watch
    BY <1>6 DEF Rename
  <2>5. Exists(to) => tree[to] \in Inode
    BY <2>1 DEF Exists
  <2> HIDE DEF moved, to
  <2> QED
    BY <1>2, <1>3, <2>3, <2>4, <2>5
<1>7. ASSUME NEW inode \in Inode, Release(inode)
      PROVE  Told
  BY <1>7, DropTells DEF Release
<1> QED
  BY <1>4, <1>5, <1>6, <1>7, ChangesAssumption DEF TreeNext

\* No step of the program gives an inode a second watch.
LEMMA ProgramKeepsOneWatch ==
  ASSUME TypeOK, OneWatchEach, Program
  PROVE  OneWatchEach'
<1> USE DEF TypeOK, TreeTypeOK
<1>1. CASE UNCHANGED watch
  BY <1>1 DEF OneWatchEach, Live
<1>2. CASE CloseKernel
  BY <1>2 DEF OneWatchEach, Live, CloseKernel
<1>3. ASSUME NEW scope \in Path, Rescan(scope)
      PROVE  OneWatchEach'
  BY <1>3 DEF OneWatchEach, Live, Rescan, RemoveKernelWatches
<1>4. CASE AddWatch(batch)
  <2> DEFINE path == Head(watchers)
             new == NextWd(batch)
  <2>1. \/ UNCHANGED watch
        \/ /\ RegisterNew(path, batch)
           /\ WdOf(tree[path]) = NoWd
    BY <1>4 DEF AddWatch, SkipRegistered, SkipUnwatchable, RegisterAgain, RegisterNew,
                NeedsNewWatch, kernel
  <2>2. CASE RegisterNew(path, batch) /\ WdOf(tree[path]) = NoWd
    <3>1. new \in Wd /\ watch' = [watch EXCEPT ![new] = tree[path]]
      BY <2>2 DEF RegisterNew, AddKernelWatch, NextWd
    <3>2. \A wd \in Wd : watch[wd] # tree[path]
      <4>1. ASSUME NEW wd \in Wd, watch[wd] = tree[path] PROVE FALSE
        <5>1. WdOf(tree[path]) \in Wd
          BY <4>1 DEF WdOf
        <5> QED
          BY <2>2, <5>1, NoWdAssumption
      <4> QED
        BY <4>1
    <3> HIDE DEF new, path
    <3> QED
      BY <3>1, <3>2 DEF OneWatchEach, Live
  <2> QED
    BY <1>1, <2>1, <2>2
<1>5. \/ UNCHANGED watch \/ CloseKernel \/ AddWatch(batch)
      \/ \E scope \in Path : Rescan(scope)
  BY RootAssumption
     DEF Program, Walking, discover_watch_targets, Visit, ApplyMatch, NoWatchesLeft, SeedDone,
         CheckShutdown, PollReturnsEmpty, ReadEvents, OnOverflow, OnMoveSelf, OnDeleteSelf,
         OnCreate, StartPending, RescanScope, RescanRoot, RebuildDone, DrainDone, Exit,
         world, kernel
<1> QED
  BY <1>1, <1>2, <1>3, <1>4, <1>5

\* What a queue or a stack holds but for its first or last element, it held before.
LEMMA PartsOf ==
  ASSUME NEW S, NEW s \in Seq(S), s # <<>>
  PROVE  /\ Head(s) \in ToSet(s) /\ ToSet(Tail(s)) \subseteq ToSet(s)
         /\ Last(s) \in ToSet(s) /\ ToSet(Front(s)) \subseteq ToSet(s)
  BY DEF ToSet, Last, Front

\* A path the registry gives for a descriptor is at or below the root.
LEMMA KnownIsBelow ==
  ASSUME TypeOK, RegistryInverse, BelowRoot, NEW wd \in Wd, path_for(wd) # NoPath
  PROVE  path_for(wd) \in Path /\ by_path[path_for(wd)] = wd /\ StartsWith(path_for(wd), root)
<1>1. path_for(wd) \in Path
  BY DEF TypeOK, RegistryTypeOK, path_for
<1>2. by_path[path_for(wd)] = wd
  BY <1>1 DEF RegistryInverse, path_for
<1> QED
  BY <1>1, <1>2, NoWdAssumption DEF BelowRoot, contains_path

\* A walk stays below the root.
LEMMA VisitStaysBelow ==
  ASSUME TypeOK, BelowRoot, discover_watch_targets
  PROVE  Below(ToSet(stack')) /\ Below(ToSet(watchers'))
<1> DEFINE dir == Last(stack)
           subdirs == {c \in Listing(dir) : IsDir(c)}
<1>1. stack \in Seq(Path) /\ watchers \in Seq(Path) /\ stack # <<>>
  BY DEF TypeOK, WalkTypeOK, discover_watch_targets, Visit
<1>2. dir \in Path /\ StartsWith(dir, root) /\ Front(stack) \in Seq(Path)
      /\ ToSet(Front(stack)) \subseteq ToSet(stack)
  <2>1. dir \in ToSet(stack) /\ ToSet(Front(stack)) \subseteq ToSet(stack)
    BY <1>1, PartsOf
  <2>2. dir \in Path /\ Front(stack) \in Seq(Path)
    BY <1>1 DEF Last, Front
  <2> QED
    BY <2>1, <2>2 DEF BelowRoot, Below
<1>3. PICK dirs \in SetToSeqs(subdirs) : stack' = Front(stack) \o dirs
  BY DEF discover_watch_targets, Visit
<1>4. subdirs \subseteq Path /\ \A c \in subdirs : StartsWith(c, root)
  <2> SUFFICES ASSUME NEW c \in subdirs PROVE c \in Path /\ StartsWith(c, root)
    OBVIOUS
  <2>1. c \in Path /\ Parent(c) = dir
    BY DEF Listing, Children
  <2> QED
    BY <1>2, <2>1, ChildIsBelow
<1>5. watchers' = watchers \/ watchers' = Append(watchers, dir)
  BY DEF discover_watch_targets, Visit
<1> HIDE DEF dir, subdirs
<1>6. dirs \in Seq(Path) /\ dirs \in Seq(subdirs)
  BY <1>3, <1>4, OrderingsType, OrderingsAreOf
<1>7. ToSet(stack') \subseteq ToSet(Front(stack)) \cup subdirs
  <2> SUFFICES ASSUME NEW n \in DOMAIN stack' PROVE stack'[n] \in ToSet(Front(stack)) \cup subdirs
    BY DEF ToSet
  <2>1. CASE n <= Len(Front(stack))
    BY <1>2, <1>3, <1>6, <2>1, ConcatProperties DEF ToSet
  <2>2. CASE ~(n <= Len(Front(stack)))
    BY <1>2, <1>3, <1>6, <2>2, ConcatProperties
  <2> QED
    BY <2>1, <2>2
<1>8. ToSet(watchers') \subseteq ToSet(watchers) \cup {dir}
  BY <1>1, <1>5 DEF ToSet
<1> QED
  BY <1>2, <1>4, <1>7, <1>8 DEF BelowRoot, Below

\* What an event announces in a known directory is below the root.
LEMMA NewEntryIsBelow ==
  ASSUME NEW dir \in Path, StartsWith(dir, root), NEW name, Append(dir, name) \in Path
  PROVE  StartsWith(Append(dir, name), root)
<1>1. dir \in Seq(STRING) /\ Append(dir, name) \in Seq(STRING)
  BY PathsAreSequences
<1>2. Parent(Append(dir, name)) = dir
  BY <1>1 DEF Parent, Front
<1> QED
  BY <1>2, ChildIsBelow
\* No step of the program looks at anything above or beside the root.
LEMMA ProgramStaysBelow ==
  ASSUME TypeOK, RegistryInverse, BelowRoot, Program
  PROVE  BelowRoot'
<1> USE DEF TypeOK, WalkTypeOK
<1>1. ASSUME \A path \in Path : contains_path(path)' => contains_path(path),
             ToSet(stack') \subseteq ToSet(stack), ToSet(watchers') \subseteq ToSet(watchers),
             ToSet(pending') \subseteq ToSet(pending), scopes' \subseteq scopes
      PROVE  BelowRoot'
  BY <1>1 DEF BelowRoot, Below
<1>2. CASE Walking
  <2>1. UNCHANGED <<pending, scopes>>
    BY <1>2 DEF Walking, drain
  <2>2. CASE discover_watch_targets
    <3>1. UNCHANGED by_path
      BY <2>2 DEF discover_watch_targets, Visit, registry
    <3> QED
      BY <2>1, <2>2, <3>1, VisitStaysBelow DEF BelowRoot, Below, contains_path
  <2>3. CASE ApplyMatch
    BY <1>1, <2>1, <2>3 DEF ApplyMatch, registry, contains_path
  <2>4. CASE AddWatch(batch)
    <3> DEFINE path == Head(watchers)
    <3>1. watchers # <<>> /\ watchers' = Tail(watchers) /\ UNCHANGED stack
      BY <2>4 DEF AddWatch, AddingWatches
    <3>2. ToSet(watchers') \subseteq ToSet(watchers) /\ StartsWith(path, root)
      BY <3>1, PartsOf DEF BelowRoot, Below
    <3>3. \/ UNCHANGED by_path
          \/ \E wd : Insert(path, wd)
      BY <2>4 DEF AddWatch, SkipRegistered, SkipUnwatchable, RegisterAgain, RegisterNew, Register,
                  registry
    <3> HIDE DEF path
    <3>4. \A p \in Path : contains_path(p)' => contains_path(p) \/ p = path
      BY <3>3 DEF Insert, contains_path
    <3> QED
      BY <2>1, <3>1, <3>2, <3>4 DEF BelowRoot, Below
  <2> QED
    BY <1>2, <2>2, <2>3, <2>4 DEF Walking
<1>3. CASE OnMoveSelf
  <2>1. Head(batch).wd \in Wd
    BY <1>3, HeadOfBatch DEF OnMoveSelf, NextEvent, Masks
  <2>2. Below(scopes')
    BY <1>3, <2>1, KnownIsBelow DEF OnMoveSelf, BelowRoot, Below
  <2> QED
    BY <1>3, <2>2 DEF OnMoveSelf, BelowRoot, Below, registry, walk, contains_path
<1>4. CASE OnDeleteSelf
  <2>1. UNCHANGED <<walk, pending, scopes>>
    BY <1>4 DEF OnDeleteSelf
  <2>2. \A path \in Path : contains_path(path)' => contains_path(path)
    BY <1>4 DEF OnDeleteSelf, RemoveByDescriptor, registry, contains_path
  <2> QED
    BY <1>1, <2>1, <2>2 DEF walk
<1>5. CASE OnCreate
  <2> DEFINE event == Head(batch)
             dir == path_for(event.wd)
  <2>1. event.wd \in Wd
    BY <1>5, HeadOfBatch DEF OnCreate, NextEvent, Masks
  <2>2. dir # NoPath => dir \in Path /\ StartsWith(dir, root)
    BY <2>1, KnownIsBelow
  <2>3. UNCHANGED <<by_path, stack, watchers>> /\ scopes' \subseteq scopes \cup {dir}
    BY <1>5 DEF OnCreate, registry
  <2>4. \/ UNCHANGED pending
        \/ /\ dir # NoPath /\ Append(dir, event.name) \in Path
           /\ pending' = Append(pending, Append(dir, event.name))
    BY <1>5 DEF OnCreate
  <2>5. scopes' = scopes \/ dir # NoPath
    BY <1>5 DEF OnCreate
  <2> HIDE DEF dir
  <2>6. Below(scopes')
    BY <2>2, <2>3, <2>5 DEF BelowRoot, Below
  <2>7. Below(ToSet(pending'))
    <3>1. CASE UNCHANGED pending
      BY <3>1 DEF BelowRoot, Below
    <3>2. CASE /\ dir # NoPath /\ Append(dir, event.name) \in Path
               /\ pending' = Append(pending, Append(dir, event.name))
      <4>1. StartsWith(Append(dir, event.name), root)
        BY <2>2, <3>2, NewEntryIsBelow
      <4>2. ToSet(pending') \subseteq ToSet(pending) \cup {Append(dir, event.name)}
        BY <3>2 DEF ToSet
      <4> QED
        BY <4>1, <4>2 DEF BelowRoot, Below
    <3> QED
      BY <2>4, <3>1, <3>2
  <2> QED
    BY <2>3, <2>6, <2>7 DEF BelowRoot, Below, contains_path
<1>6. CASE StartPending
  <2>1. pending # <<>> /\ stack' = <<Head(pending)>> /\ pending' = Tail(pending)
        /\ UNCHANGED <<by_path, watchers, scopes>>
    BY <1>6 DEF StartPending, registry
  <2>2. StartsWith(Head(pending), root) /\ ToSet(pending') \subseteq ToSet(pending)
    BY <2>1, PartsOf DEF BelowRoot, Below
  <2>3. ToSet(stack') \subseteq {Head(pending)}
    BY <2>1 DEF ToSet
  <2> QED
    BY <2>1, <2>2, <2>3 DEF BelowRoot, Below, contains_path
<1>7. CASE RescanScope \/ RescanRoot
  <2>1. PICK scope \in scopes \cup {root} : Rescan(scope)
    BY <1>7 DEF RescanScope, RescanRoot
  <2>2. scopes' \subseteq scopes /\ UNCHANGED <<watchers, pending>>
    BY <1>7 DEF RescanScope, RescanRoot
  <2>3. StartsWith(scope, root)
    BY RootAssumption, StartsWithSelf DEF BelowRoot, Below
  <2>4. ToSet(stack') \subseteq {scope}
    BY <2>1 DEF Rescan, ToSet
  <2>5. \A path \in Path : contains_path(path)' => contains_path(path)
    BY <2>1 DEF Rescan, DrainSubtree, contains_path
  <2> QED
    BY <2>2, <2>3, <2>4, <2>5 DEF BelowRoot, Below
<1>8. CASE \/ NoWatchesLeft \/ SeedDone \/ CheckShutdown \/ PollReturnsEmpty \/ ReadEvents
           \/ OnOverflow \/ RebuildDone \/ DrainDone
  <2>1. UNCHANGED <<by_path, stack, watchers, pending, scopes>>
    BY <1>8 DEF NoWatchesLeft, SeedDone, CheckShutdown, PollReturnsEmpty, ReadEvents, OnOverflow,
                RebuildDone, DrainDone, registry, walk, drain
  <2> QED
    BY <1>1, <2>1 DEF contains_path
<1> QED
  BY <1>2, <1>3, <1>4, <1>5, <1>6, <1>7, <1>8 DEF Program

\* The program handles the notice of an entry together with the entry.
LEMMA ProgramKeepsNotice ==
  ASSUME TypeOK, RegistryInverse, BelowRoot, DeadEntryHasNotice, Program
  PROVE  DeadEntryHasNotice'
<1> USE DEF TypeOK, TreeTypeOK
<1> SUFFICES ASSUME NEW wd \in Wd, path_for(wd)' # NoPath, ~Live(wd)', pc' \notin Exited
             PROVE  HasNotice(wd)'
  BY DEF DeadEntryHasNotice, HasNotice, Announced
<1>1. pc \notin Exited /\ ~ \E code \in Exited : Exit(code)
  BY DEF Program, Walking, MayWalk, NoWatchesLeft, SeedDone, CheckShutdown, PollReturnsEmpty,
         ReadEvents, OnOverflow, OnMoveSelf, OnDeleteSelf, OnCreate, NextEvent, StartPending,
         RescanScope, RescanRoot, BatchIsDone, RebuildDone, DrainDone, Exited, Exit
<1>2. path_for(wd) # NoPath /\ ~Live(wd) => HasNotice(wd)
  BY <1>1 DEF DeadEntryHasNotice, HasNotice, Announced
<1>3. ASSUME path_for(wd) # NoPath, ~Live(wd), UNCHANGED queue, needs_rescan => needs_rescan',
             Announced(wd, batch) => HasNotice(wd)'
      PROVE  HasNotice(wd)'
  BY <1>2, <1>3 DEF HasNotice
<1>4. CASE Walking
  <2>1. UNCHANGED <<batch, needs_rescan>>
    BY <1>4 DEF Walking, drain
  <2>2. CASE discover_watch_targets \/ ApplyMatch
    <3>1. UNCHANGED <<queue, watch, by_descriptor>>
      BY <2>2 DEF discover_watch_targets, Visit, ApplyMatch, world, kernel, registry
    <3> QED
      BY <1>2, <2>1, <3>1 DEF HasNotice, path_for, Live
  <2>3. CASE AddWatch(batch)
    <3> DEFINE path == Head(watchers)
               new == NextWd(batch)
    <3>1. \/ UNCHANGED <<queue, watch, by_descriptor>>
          \/ /\ RegisterAgain(path) /\ UNCHANGED <<queue, watch>>
             /\ by_descriptor' = [by_descriptor EXCEPT ![WdOf(tree[path])] = path]
          \/ /\ RegisterNew(path, batch) /\ UNCHANGED queue
             /\ watch' = [watch EXCEPT ![new] = tree[path]]
             /\ by_descriptor' = [by_descriptor EXCEPT ![new] = path]
      BY <2>3 DEF AddWatch, SkipRegistered, SkipUnwatchable, RegisterAgain, RegisterNew, Register,
                  Insert, AddKernelWatch, kernel, registry
    <3>2. Readable(path) => tree[path] # NoInode
      BY DEF Readable, IsDir, HasKind, Exists
    <3>3. CASE UNCHANGED <<queue, watch, by_descriptor>>
      BY <1>2, <2>1, <3>3 DEF HasNotice, path_for, Live
    <3>4. CASE /\ RegisterAgain(path) /\ UNCHANGED <<queue, watch>>
               /\ by_descriptor' = [by_descriptor EXCEPT ![WdOf(tree[path])] = path]
      <4>1. watch[WdOf(tree[path])] # NoInode
        BY <3>2, <3>4, WdOfType DEF RegisterAgain
      <4>2. wd # WdOf(tree[path])
        BY <3>4, <4>1 DEF Live
      <4> QED
        BY <1>2, <2>1, <3>4, <4>2 DEF HasNotice, path_for, Live, RegistryTypeOK
    <3>5. CASE /\ RegisterNew(path, batch) /\ UNCHANGED queue
               /\ watch' = [watch EXCEPT ![new] = tree[path]]
               /\ by_descriptor' = [by_descriptor EXCEPT ![new] = path]
      <4>1. tree[path] # NoInode
        BY <3>2, <3>5 DEF RegisterNew, NeedsNewWatch
      <4> HIDE DEF new, path
      <4>2. wd # new
        BY <3>5, <4>1 DEF Live
      <4> QED
        BY <1>2, <2>1, <3>5, <4>2 DEF HasNotice, path_for, Live, RegistryTypeOK
    <3> QED
      BY <3>1, <3>3, <3>4, <3>5
  <2> QED
    BY <1>4, <2>2, <2>3 DEF Walking
<1>5. CASE ReadEvents
  <2>1. PICK n \in 1..Len(queue) :
           batch' = SubSeq(queue, 1, n) /\ queue' = SubSeq(queue, n + 1, Len(queue))
    BY <1>5 DEF ReadEvents, ReadFirst
  <2>2. batch = <<>> /\ ~needs_rescan /\ UNCHANGED <<watch, by_descriptor>>
    BY <1>5 DEF ReadEvents, DrainIsOver, registry
  <2>3. \A e : Contains(queue, e) => Contains(batch', e) \/ Contains(queue', e)
    <3> SUFFICES ASSUME NEW i \in 1..Len(queue)
                 PROVE  Contains(batch', queue[i]) \/ Contains(queue', queue[i])
      BY DEF Contains
    <3>1. CASE i <= n
      <4>1. i \in 1..Len(batch') /\ batch'[i] = queue[i]
        BY <2>1, <3>1
      <4> QED
        BY <4>1 DEF Contains
    <3>2. CASE i > n
      <4>1. i - n \in 1..Len(queue') /\ queue'[i - n] = queue[i]
        BY <2>1, <3>2
      <4> QED
        BY <4>1 DEF Contains
    <3> QED
      BY <3>1, <3>2
  <2>4. ~Announced(wd, batch)
    BY <2>2 DEF Announced, Contains
  <2> QED
    BY <1>2, <2>2, <2>3, <2>4 DEF HasNotice, Announced, path_for, Live
<1>6. ASSUME NEW mask, NextEvent(mask), UNCHANGED <<queue, watch>>,
             path_for(wd) # NoPath, needs_rescan => needs_rescan',
             mask = "DELETE_SELF" => Head(batch).wd # wd,
             mask = "Q_OVERFLOW" => needs_rescan'
      PROVE  HasNotice(wd)'
  <2>1. batch # <<>> /\ batch' = Tail(batch) /\ Head(batch).mask = mask
    BY <1>6 DEF NextEvent
  <2>2. \A e : Contains(batch, e) => e = Head(batch) \/ Contains(batch', e)
    <3> SUFFICES ASSUME NEW i \in 1..Len(batch)
                 PROVE  batch[i] = Head(batch) \/ Contains(batch', batch[i])
      BY DEF Contains
    <3>1. CASE i = 1
      BY <3>1
    <3>2. CASE i # 1
      <4>1. i - 1 \in 1..Len(batch') /\ batch'[i - 1] = batch[i]
        BY <2>1, <3>2
      <4> QED
        BY <4>1 DEF Contains
    <3> QED
      BY <3>1, <3>2
  <2>3. Event("DELETE_SELF", wd, NoName) = Head(batch) => mask = "DELETE_SELF" /\ Head(batch).wd = wd
    BY <2>1 DEF Event
  <2>4. OverflowEvent = Head(batch) => mask = "Q_OVERFLOW"
    BY <2>1 DEF OverflowEvent, Event
  <2>5. Announced(wd, batch) => HasNotice(wd)'
    BY <1>6, <2>2, <2>3, <2>4 DEF Announced, HasNotice
  <2> QED
    BY <1>3, <1>6, <2>5 DEF Live
<1>7. CASE OnOverflow
  BY <1>6, <1>7 DEF OnOverflow, world, registry, path_for
<1>8. CASE OnMoveSelf
  <2>1. UNCHANGED kernel
    BY <1>1, <1>8 DEF OnMoveSelf, Exited
  <2> QED
    BY <1>6, <1>8, <2>1 DEF OnMoveSelf, registry, path_for, kernel
<1>9. CASE OnDeleteSelf
  <2>1. RemoveByDescriptor(Head(batch).wd) /\ UNCHANGED kernel
    BY <1>1, <1>9 DEF OnDeleteSelf, Exited
  <2>2. wd # Head(batch).wd /\ path_for(wd) # NoPath
    BY <2>1 DEF RemoveByDescriptor, path_for, RegistryTypeOK
  <2> QED
    BY <1>6, <1>9, <2>1, <2>2 DEF OnDeleteSelf, kernel
<1>10. CASE OnCreate
  BY <1>6, <1>10 DEF OnCreate, world, registry, path_for
<1>11. CASE RescanRoot
  <2>1. by_descriptor' = [w \in Wd |-> IF w \in DrainedDescriptors(root) THEN NoPath
                                       ELSE by_descriptor[w]]
    BY <1>11 DEF RescanRoot, Rescan, DrainSubtree
  <2>2. path_for(wd) # NoPath /\ wd \notin DrainedDescriptors(root)
    BY <2>1 DEF path_for
  <2>3. path_for(wd) \in DrainedPaths(root) /\ by_path[path_for(wd)] = wd
    BY <2>2, KnownIsBelow, NoWdAssumption DEF DrainedPaths, contains_path
  <2> QED
    BY <2>2, <2>3 DEF DrainedDescriptors
<1>12. CASE RescanScope
  <2>1. PICK scope \in scopes : Rescan(scope)
    BY <1>12 DEF RescanScope
  <2>2. path_for(wd) # NoPath /\ ~Live(wd)
    BY <2>1 DEF Rescan, DrainSubtree, RemoveKernelWatches, path_for, Live
  <2> QED
    BY <1>2, <1>12, <2>2 DEF RescanScope, HasNotice
<1>13. CASE SeedDone \/ CheckShutdown \/ PollReturnsEmpty \/ StartPending \/ RebuildDone \/ DrainDone
  <2>1. UNCHANGED <<queue, watch, by_descriptor, batch, needs_rescan>>
    BY <1>1, <1>13
       DEF SeedDone, CheckShutdown, PollReturnsEmpty, StartPending, RebuildDone, DrainDone,
           world, kernel, registry, drain, Exited
  <2> QED
    BY <1>2, <2>1 DEF HasNotice, path_for, Live
<1>14. ~NoWatchesLeft
  BY <1>1 DEF NoWatchesLeft, Exited
<1> QED
  BY <1>4, <1>5, <1>7, <1>8, <1>9, <1>10, <1>11, <1>12, <1>13, <1>14 DEF Program

NoticeIInv == OneWatchEach /\ BelowRoot /\ DeadEntryHasNotice

\* What others do leaves every dead registration with its notice.
LEMMA OthersKeepNotice ==
  ASSUME TypeOK, NoticeIInv, Others
  PROVE  NoticeIInv'
<1> USE DEF NoticeIInv
<1>1. TreeNext /\ UNCHANGED <<registry, pc, walk, drain>>
  BY DEF Others
<1>2. /\ \A e : Contains(queue, e) => Contains(queue', e)
      /\ \A wd \in Wd : Live(wd) => Announced(wd, queue') \/ watch'[wd] = watch[wd]
      /\ \A wd \in Wd : Live(wd)' => watch'[wd] = watch[wd]
  BY <1>1, OthersTell
<1>3. OneWatchEach'
  BY <1>2 DEF OneWatchEach, Live
<1>4. BelowRoot'
  BY <1>1 DEF BelowRoot, Below, contains_path, registry, walk, drain
<1>5. ASSUME NEW wd \in Wd, path_for(wd)' # NoPath, ~Live(wd)', pc' \notin Exited
      PROVE  HasNotice(wd)'
  <2>1. path_for(wd) # NoPath /\ pc \notin Exited /\ UNCHANGED <<batch, needs_rescan>>
    BY <1>1, <1>5 DEF registry, path_for, drain
  <2>2. CASE Live(wd)
    BY <1>2, <1>5, <2>2 DEF HasNotice, Live
  <2>3. CASE ~Live(wd)
    <3>1. HasNotice(wd)
      BY <2>1, <2>3 DEF DeadEntryHasNotice, HasNotice, Announced
    <3> QED
      BY <1>2, <2>1, <3>1 DEF HasNotice, Announced
  <2> QED
    BY <2>2, <2>3
<1> QED
  BY <1>3, <1>4, <1>5 DEF DeadEntryHasNotice, HasNotice, Announced

\* A start has registered nothing and is to walk from the root.
LEMMA InitNotice == Init => NoticeIInv
<1> SUFFICES ASSUME Init PROVE NoticeIInv
  OBVIOUS
<1>1. /\ watch = [wd \in Wd |-> NoInode] /\ by_descriptor = [wd \in Wd |-> NoPath]
      /\ by_path = [path \in Path |-> NoWd]
      /\ stack = <<root>> /\ watchers = <<>> /\ pending = <<>> /\ scopes = {}
  BY DEF Init, TreeInit, RegistryInit
<1>2. OneWatchEach /\ DeadEntryHasNotice
  BY <1>1 DEF OneWatchEach, DeadEntryHasNotice, Live, path_for
<1>3. BelowRoot
  BY <1>1, RootAssumption, StartsWithSelf DEF BelowRoot, Below, ToSet, contains_path
<1> QED
  BY <1>2, <1>3 DEF NoticeIInv

\* A directory has one watch, the program keeps below the root, and dead entries have
\* their notice.
LEMMA WatcherNoticeIInv == Spec => []NoticeIInv
<1>1. Init => NoticeIInv
  BY InitNotice
<1>2. TypeOK /\ RegistryInverse /\ NoticeIInv /\ [Next]_vars => NoticeIInv'
  <2> SUFFICES ASSUME TypeOK, RegistryInverse, NoticeIInv, [Next]_vars
               PROVE  NoticeIInv'
    OBVIOUS
  <2>1. CASE Program
    BY <2>1, ProgramKeepsOneWatch, ProgramStaysBelow, ProgramKeepsNotice DEF NoticeIInv
  <2>2. CASE Others
    BY <2>2, OthersKeepNotice
  <2>3. CASE Signal \/ Terminated \/ UNCHANGED vars
    <3>1. UNCHANGED <<watch, queue, by_descriptor, by_path, pc, stack, watchers, batch,
                      pending, scopes, needs_rescan>>
      BY <2>3 DEF Signal, Terminated, vars, world, registry, walk, drain
    <3> QED
      BY <3>1 DEF NoticeIInv, OneWatchEach, BelowRoot, Below, DeadEntryHasNotice, Live,
                  path_for, contains_path
  <2> QED
    BY <2>1, <2>2, <2>3 DEF Next
<1> QED
  BY <1>1, <1>2, WatcherTypeCorrect, WatcherRegistryInverse, PTL DEF Spec

\* In every state of the watcher, an entry of a directory that is gone is about to
\* be removed: the event that says so is on its way, or a rescan of everything is due.
THEOREM WatcherDeadEntryHasNotice == Spec => []DeadEntryHasNotice
<1>1. NoticeIInv => DeadEntryHasNotice
  BY DEF NoticeIInv
<1> QED
  BY <1>1, WatcherNoticeIInv, PTL
=============================================================================
