------------------------ MODULE WatcherUpkeepProofs ------------------------
(***************************************************************************)
(* Proofs that the watcher goes on, and that what it keeps is right.       *)
(*                                                                         *)
(* It only ends with a failure for one of two reasons: the kernel allows   *)
(* fewer watches than there are directories, or the root went.  The root   *)
(* is what every failure turns on, so SurvivalIInv follows it: once        *)
(* registered, it is the directory at the root that is watched, no event   *)
(* says that this directory moved, and a rescan after an overflow has the  *)
(* root on one of its lists until it is registered again.                  *)
(*                                                                         *)
(* Its registry is right at rest, but for what hangs from nothing.         *)
(* UpkeepIInv follows each entry: all of the way to it is watched, so      *)
(* that whatever others do to that way is told on it; or an event that is  *)
(* on its way, or a scope, or a rescan after an overflow, will drop it; or *)
(* it is detached, or its directory was removed while somebody held it     *)
(* open.  Nothing is assumed of the interleaving for that.  Where others   *)
(* act between the drains only, a walk gets to what is right, too: what a  *)
(* rule says to skip loses its watches.                                    *)
(***************************************************************************)
EXTENDS WatcherCoverageProofs

\* What keeps the watcher going.

Dirs == {inode \in Inode : Kind[inode] = "dir"}

\* The kernel allows a watch for every directory there can be.
EnoughWatches == IsFiniteSet(Dirs) /\ MaxWatches \in Nat /\ Cardinality(Dirs) <= MaxWatches

OnlyDirsAreWatched == \A wd \in Wd : Live(wd) => watch[wd] \in Dirs

\* The entry of the root is never stale: no stale entry makes add_watch skip it.
RootIsWatched == contains_path(root) => Watched(root)

\* The event says that this directory moved.
Moves(event, inode) == event.mask = "MOVE_SELF" /\ watch[event.wd] = inode

RootIsUnmoved == \A event \in Events : Heard(event) => ~Moves(event, tree[root])

\* The rescan after an overflow finds the root again.
RootIsComing ==
    pc = "rebuild" => contains_path(root) \/ root \in ToSet(stack) \cup ToSet(watchers)

SurvivalIInv ==
    /\ EnoughWatches /\ Traversable(root) /\ pc # "failed"
    /\ pc \notin Exited =>
          OnlyDirsAreWatched /\ RootIsWatched /\ RootIsUnmoved /\ RootIsComing

-----------------------------------------------------------------------------
\* There is always a watch left.

\* A directory that is not watched yet can be: the watched ones are fewer than all.
LEMMA AddWatchSucceeds ==
  ASSUME Sane, EnoughWatches, OnlyDirsAreWatched
  PROVE  ~AddWatchFails
<1> USE DEF Sane, TypeOK, TreeTypeOK
<1> SUFFICES ASSUME AddWatchFails PROVE FALSE
  OBVIOUS
<1> DEFINE live == {wd \in Wd : Live(wd)}
<1>1. PICK path \in Path : Readable(path) /\ WdOf(tree[path]) = NoWd
  <2>1. watchers \in Seq(Path) /\ watchers # <<>>
    BY DEF AddWatchFails, AddingWatches, WalkTypeOK
  <2> QED
    BY <2>1, HeadOrTail DEF AddWatchFails, NeedsNewWatch
<1>2. tree[path] \in Dirs
  BY <1>1 DEF Readable, IsDir, HasKind, Exists, Dirs
<1>3. \A wd \in Wd : watch[wd] # tree[path]
  BY <1>1, NoWdAssumption DEF WdOf
<1> DEFINE others == Dirs \ {tree[path]}
<1>4. IsFiniteSet(others) /\ Cardinality(others) = Cardinality(Dirs) - 1
  BY <1>2, FS_RemoveElement DEF EnoughWatches
<1>5. [wd \in live |-> watch[wd]] \in Injection(live, others)
  <2>1. \A wd \in live : watch[wd] \in others
    BY <1>3 DEF OnlyDirsAreWatched
  <2>2. \A v, w \in live : watch[v] = watch[w] => v = w
    BY DEF NoticeIInv, OneWatchEach
  <2> HIDE DEF live, others
  <2> QED
    BY <2>1, <2>2 DEF Injection, IsInjective
<1>6. IsFiniteSet(live) /\ Cardinality(live) <= Cardinality(others)
  <2> HIDE DEF live, others
  <2> QED
    BY <1>4, <1>5, FS_Injection
<1>7. Cardinality(live) >= MaxWatches
  BY DEF AddWatchFails, WatchLimitReached
<1>8. Cardinality(live) \in Nat /\ Cardinality(Dirs) \in Nat
  <2> HIDE DEF live
  <2> QED
    BY <1>6, FS_CardinalityType DEF EnoughWatches
<1> HIDE DEF live, others
<1> QED
  BY <1>4, <1>6, <1>7, <1>8 DEF EnoughWatches

-----------------------------------------------------------------------------
\* The steps of the program.

\* A step that leaves tree, watches and registry alone and brings no event keeps what
\* is known of the root, if it does not lose the root on its way into a rescan.
LEMMA SameRoot ==
  ASSUME SurvivalIInv, pc \notin Exited, pc' # "failed",
         UNCHANGED <<tree, watch, by_path>>,
         \A event \in Events : Heard(event)' => Heard(event),
         RootIsComing'
  PROVE  SurvivalIInv'
<1>1. Traversable(root)' /\ EnoughWatches'
  BY TreeDecides DEF SurvivalIInv, EnoughWatches
<1>2. OnlyDirsAreWatched' /\ RootIsWatched' /\ RootIsUnmoved'
  BY DEF SurvivalIInv, OnlyDirsAreWatched, Live, RootIsWatched, Watched, contains_path,
         RootIsUnmoved, Moves
<1> QED
  BY <1>1, <1>2 DEF SurvivalIInv

\* A walk that comes by the root will have it watched, and a call of add_watch for
\* another path leaves the root alone.
LEMMA WalkingSurvives ==
  ASSUME Sane, SurvivalIInv, Walking
  PROVE  SurvivalIInv'
<1> USE DEF Sane, TypeOK, RegistryTypeOK, TreeTypeOK
<1>1. /\ pc \notin Exited /\ UNCHANGED <<pc, drain>>
      /\ Traversable(root) /\ root \in Path
  BY RootAssumption DEF Walking, MayWalk, Exited, SurvivalIInv
<1>2. CASE discover_watch_targets
  <2>1. UNCHANGED <<tree, watch, queue, by_path, batch>>
    BY <1>1, <1>2 DEF discover_watch_targets, Visit, world, registry, drain
  <2>2. root \in ToSet(stack) \cup ToSet(watchers)
        => root \in ToSet(stack') \cup ToSet(watchers')
    <3>1. ~Skipped(root)
      BY <1>1, TraversableFacts DEF Skipped
    <3> QED
      BY <1>2, <3>1, VisitLists
  <2>3. RootIsComing'
    BY <1>1, <2>1, <2>2 DEF SurvivalIInv, RootIsComing, contains_path
  <2> QED
    BY <1>1, <2>1, <2>3, SameRoot DEF Heard, SurvivalIInv
<1>3. CASE ApplyMatch
  <2>1. UNCHANGED <<tree, watch, queue, by_path, batch, stack, watchers>>
    BY <1>1, <1>3 DEF ApplyMatch, kernel, registry, drain
  <2>2. RootIsComing'
    BY <1>1, <2>1 DEF SurvivalIInv, RootIsComing, contains_path
  <2> QED
    BY <1>1, <2>1, <2>2, SameRoot DEF Heard, SurvivalIInv
<1>4. CASE AddWatch(batch)
  <2>1. UNCHANGED <<tree, queue, batch, stack>>
    BY <1>1, <1>4, AddWatchAdds DEF drain
  <2>2. PICK new \in Path : Added(new) /\ ToSet(watchers) = ToSet(watchers') \cup {new}
    BY <1>1, <1>4, AddWatchAdds
  <2>3. Exists(root) /\ Readable(root)
    BY <1>1, TraversableFacts
  <2>4. contains_path(root) => Watched(root)'
    BY <1>1, <2>2, <2>3 DEF SurvivalIInv, RootIsWatched, Added
  <2>5. new = root => Watched(root)'
    BY <2>2, <2>3, <2>4 DEF Added
  <2>6. RootIsWatched'
    BY <1>1, <2>2, <2>4, <2>5 DEF RootIsWatched, Added, contains_path
  <2>7. RootIsComing'
    BY <1>1, <2>1, <2>2, <2>4, <2>5 DEF SurvivalIInv, RootIsComing, Watched
  <2>8. OnlyDirsAreWatched'
    <3>1. Readable(new) => tree[new] \in Dirs
      BY <2>2 DEF Readable, IsDir, HasKind, Exists, Dirs
    <3> QED
      BY <1>1, <2>2, <3>1 DEF SurvivalIInv, OnlyDirsAreWatched, Added, Live
  <2>9. RootIsUnmoved'
    <3>1. ASSUME NEW event \in Events, Heard(event), event.mask = "MOVE_SELF"
          PROVE  event.wd \in Wd
      BY <3>1 DEF Events, OverflowEvent, Event
    <3> QED
      BY <1>1, <2>1, <2>2, <3>1 DEF SurvivalIInv, RootIsUnmoved, Moves, Added, Heard
  <2>10. Traversable(root)' /\ EnoughWatches'
    BY <2>1, TreeDecides DEF SurvivalIInv, EnoughWatches
  <2> QED
    BY <1>1, <2>6, <2>7, <2>8, <2>9, <2>10 DEF SurvivalIInv
<1> QED
  BY <1>2, <1>3, <1>4 DEF Walking

\* The event is not about the root: its path is another one, and it is none of the
\* two that end the program.
LEMMA EventIsNotTheRoots ==
  ASSUME Sane, SurvivalIInv, NextEvent("MOVE_SELF") \/ NextEvent("DELETE_SELF")
  PROVE  Head(batch).wd \in Wd /\ path_for(Head(batch).wd) # root
<1> USE DEF Sane, TypeOK, RegistryTypeOK, TreeTypeOK
<1>1. /\ pc \notin Exited /\ Exists(root) /\ root \in Path
      /\ RootIsWatched /\ RootIsUnmoved
  BY RootAssumption, TraversableFacts DEF NextEvent, Exited, SurvivalIInv
<1>2. PICK event \in Events : event = Head(batch) /\ Heard(event) /\ event.wd \in Wd
  BY HeadOfBatch, TailOfBatch DEF NextEvent, Heard, Contains, ToSet, Masks
<1>3. event.mask = "MOVE_SELF" => watch[event.wd] # tree[root]
  BY <1>1, <1>2 DEF RootIsUnmoved, Moves
<1>4. event.mask = "DELETE_SELF" => watch[event.wd] # tree[root]
  BY <1>1, <1>2, TailOfBatch DEF NextEvent, OrphanIInv, DeletedIsDead, DeadIn, Live, Exists
<1>5. path_for(event.wd) = root => watch[event.wd] = tree[root]
  BY <1>1, <1>2, NoWdAssumption
     DEF RegistryInverse, path_for, RootIsWatched, Watched, contains_path
<1> QED
  BY <1>2, <1>3, <1>4, <1>5 DEF NextEvent

\* A rescan takes watches away, and never the root's entry without its watch or the
\* watch without the entry.
LEMMA RescanSurvives ==
  ASSUME Sane, SurvivalIInv, RescanScope \/ RescanRoot
  PROVE  SurvivalIInv'
<1> USE DEF Sane, TypeOK, RegistryTypeOK, TreeTypeOK
<1>1. /\ pc \notin Exited /\ pc' \notin Exited
      /\ UNCHANGED <<tree, queue, batch>>
      /\ root \in Path /\ Exists(root) /\ WalkIsOver
  BY RootAssumption, TraversableFacts
     DEF RescanScope, RescanRoot, BatchIsDone, Exited, SurvivalIInv, drain
<1>2. PICK scope \in Path : Rescan(scope)
  BY <1>1 DEF RescanScope, RescanRoot
<1>3. /\ by_path' = [p \in Path |-> IF p \in DrainedPaths(scope) THEN NoWd ELSE by_path[p]]
      /\ watch' = [wd \in Wd |-> IF wd \in DrainedDescriptors(scope) THEN NoInode ELSE watch[wd]]
  BY <1>2 DEF Rescan, DrainSubtree, RemoveKernelWatches
<1>4. RootIsWatched'
  <2> SUFFICES ASSUME contains_path(root)' PROVE Watched(root)'
    BY DEF RootIsWatched
  <2>1. contains_path(root) /\ root \notin DrainedPaths(scope) /\ by_path'[root] = by_path[root]
    BY <1>1, <1>3 DEF contains_path
  <2>2. ~StartsWith(root, scope)
    BY <1>1, <2>1 DEF DrainedPaths
  <2>3. Watched(root)
    BY <1>1, <2>1 DEF SurvivalIInv, RootIsWatched
  <2> QED
    BY <1>1, <1>2, <2>2, <2>3, RescanSpares
<1>5. OnlyDirsAreWatched'
  BY <1>1, <1>3 DEF SurvivalIInv, OnlyDirsAreWatched, Live
<1>6. RootIsUnmoved'
  <2> SUFFICES ASSUME NEW event \in Events, Heard(event), event.mask = "MOVE_SELF"
               PROVE  watch'[event.wd] # tree[root]
    BY <1>1 DEF RootIsUnmoved, Moves, Heard
  <2>1. event.wd \in Wd
    BY DEF Events, OverflowEvent, Event
  <2> QED
    BY <1>1, <1>3, <2>1 DEF SurvivalIInv, RootIsUnmoved, Moves, Exists
<1>7. RootIsComing'
  <2>1. CASE RescanScope
    BY <2>1 DEF RescanScope, BatchIsDone, RootIsComing
  <2>2. CASE RescanRoot
    <3>1. stack' = <<root>>
      BY <2>2 DEF RescanRoot, Rescan
    <3>2. root \in ToSet(stack')
      BY <3>1 DEF ToSet
    <3> QED
      BY <3>2 DEF RootIsComing
  <2> QED
    BY <2>1, <2>2
<1>8. Traversable(root)' /\ EnoughWatches'
  BY <1>1, TreeDecides DEF SurvivalIInv, EnoughWatches
<1> QED
  BY <1>1, <1>4, <1>5, <1>6, <1>7, <1>8 DEF SurvivalIInv, Exited

\* No step of the program ends it with a failure.
LEMMA ProgramSurvives ==
  ASSUME Sane, SurvivalIInv, Program
  PROVE  SurvivalIInv'
<1> USE DEF Sane, TypeOK, RegistryTypeOK, TreeTypeOK
<1>1. pc \notin Exited
  BY DEF Program, Walking, MayWalk, NoWatchesLeft, SeedDone, CheckShutdown, PollReturnsEmpty,
         ReadEvents, OnOverflow, OnMoveSelf, OnDeleteSelf, OnCreate, NextEvent, StartPending,
         RescanScope, RescanRoot, BatchIsDone, RebuildDone, DrainDone, Exited
<1>2. ~NoWatchesLeft
  BY <1>1, AddWatchSucceeds DEF NoWatchesLeft, SurvivalIInv
<1>3. CASE Walking
  BY <1>3, WalkingSurvives
<1>4. CASE RescanScope \/ RescanRoot
  BY <1>4, RescanSurvives
<1>5. CASE CheckShutdown /\ shutdown
  <2>1. UNCHANGED tree /\ pc' = "ok"
    BY <1>5 DEF CheckShutdown, Exit
  <2> QED
    BY <2>1, TreeDecides DEF SurvivalIInv, EnoughWatches, Exited
<1>6. CASE ReadEvents
  <2>1. PICK n \in 1..Len(queue) :
           batch' = SubSeq(queue, 1, n) /\ queue' = SubSeq(queue, n + 1, Len(queue))
    BY <1>6 DEF ReadEvents, ReadFirst
  <2>2. \A event : Contains(batch', event) \/ Contains(queue', event) => Contains(queue, event)
    <3>1. /\ \A i \in DOMAIN batch' : i \in DOMAIN queue /\ batch'[i] = queue[i]
          /\ \A i \in DOMAIN queue' : i + n \in DOMAIN queue /\ queue'[i] = queue[i + n]
      BY <2>1
    <3> QED
      BY <3>1 DEF Contains
  <2>3. UNCHANGED <<tree, watch, by_path>> /\ pc' = "drain"
    BY <1>6 DEF ReadEvents, registry
  <2> QED
    BY <1>1, <2>2, <2>3, SameRoot DEF Heard, RootIsComing
<1>7. CASE OnMoveSelf
  <2>1. path_for(Head(batch).wd) # root
    BY <1>7, EventIsNotTheRoots DEF OnMoveSelf
  <2>2. /\ UNCHANGED <<tree, watch, queue, by_path, pc>> /\ batch' = Tail(batch)
        /\ pc = "drain" /\ batch # <<>>
    BY <1>7, <2>1 DEF OnMoveSelf, NextEvent, kernel, registry
  <2>3. \A event : Heard(event)' => Heard(event)
    BY <2>2, PartsOf DEF Heard, Contains, ToSet
  <2> QED
    BY <1>1, <2>2, <2>3, SameRoot DEF RootIsComing, Exited
<1>8. CASE OnDeleteSelf
  <2>1. Head(batch).wd \in Wd /\ path_for(Head(batch).wd) # root
    BY <1>8, EventIsNotTheRoots DEF OnDeleteSelf
  <2>2. /\ UNCHANGED <<tree, watch, queue, pc>> /\ batch' = Tail(batch)
        /\ pc = "drain" /\ batch # <<>>
    BY <1>8, <2>1 DEF OnDeleteSelf, NextEvent, kernel
  <2>3. \A event : Heard(event)' => Heard(event)
    BY <2>2, PartsOf DEF Heard, Contains, ToSet
  <2>4. by_path'[root] = by_path[root]
    BY <1>8, <2>1, RootAssumption DEF OnDeleteSelf, RemoveByDescriptor
  <2>5. OnlyDirsAreWatched' /\ RootIsWatched' /\ RootIsUnmoved' /\ RootIsComing'
    BY <1>1, <2>2, <2>3, <2>4
       DEF SurvivalIInv, OnlyDirsAreWatched, Live, RootIsWatched, Watched, contains_path,
           RootIsUnmoved, Moves, RootIsComing
  <2> QED
    BY <1>1, <2>2, <2>5, TreeDecides DEF SurvivalIInv, EnoughWatches
<1>9. CASE OnOverflow \/ OnCreate
  <2>1. /\ UNCHANGED <<tree, watch, queue, by_path, pc>> /\ batch' = Tail(batch)
        /\ pc = "drain" /\ batch # <<>>
    BY <1>9 DEF OnOverflow, OnCreate, NextEvent, world, registry
  <2>2. \A event : Heard(event)' => Heard(event)
    BY <2>1, PartsOf DEF Heard, Contains, ToSet
  <2> QED
    BY <1>1, <2>1, <2>2, SameRoot DEF RootIsComing, Exited
<1>10. CASE RebuildDone
  <2>1. contains_path(root)
    BY <1>1, <1>10 DEF RebuildDone, WalkIsOver, SurvivalIInv, RootIsComing, ToSet
  <2>2. UNCHANGED <<tree, watch, queue, by_path, batch>> /\ pc' = "check"
    BY <1>10, <2>1 DEF RebuildDone, kernel, registry, drain
  <2> QED
    BY <1>1, <2>2, SameRoot DEF Heard, RootIsComing
<1>11. CASE SeedDone \/ (CheckShutdown /\ ~shutdown) \/ PollReturnsEmpty \/ StartPending \/ DrainDone
  <2>1. UNCHANGED <<tree, watch, queue, by_path, batch>> /\ pc' \notin {"failed", "rebuild"}
    BY <1>11 DEF SeedDone, CheckShutdown, PollReturnsEmpty, StartPending, BatchIsDone, DrainDone,
                 world, kernel, registry, drain
  <2> QED
    BY <1>1, <2>1, SameRoot DEF Heard, RootIsComing
<1> QED
  BY <1>2, <1>3, <1>4, <1>5, <1>6, <1>7, <1>8, <1>9, <1>10, <1>11 DEF Program

-----------------------------------------------------------------------------
\* What others do.

\* What is renamed does not stay.
LEMMA RenamedLeaves ==
  ASSUME NoHardLinks, NEW from \in Path, NEW to \in Path, CanRename(from, to),
         tree' = TreeAfterRename(from, to)
  PROVE  tree'[from] # tree[from]
<1>1. Exists(from) /\ ~StartsWith(to, from) /\ from # to
  BY StartsWithSelf DEF CanRename
<1> SUFFICES ASSUME tree'[from] = tree[from] PROVE FALSE
  OBVIOUS
<1>2. /\ StartsWith(from, to) /\ Rebase(from, to, from) \in Path
      /\ tree[Rebase(from, to, from)] = tree[from]
  BY <1>1, StartsWithSelf DEF TreeAfterRename, Exists
<1>3. Rebase(from, to, from) = Rebase(to, to, from)
  BY <1>1, <1>2, RebaseOfSelf DEF NoHardLinks
<1> QED
  BY <1>1, <1>2, <1>3, StartsWithSelf, RebaseInjective

\* Every new MOVE_SELF event is about a directory that is not where it was.
LEMMA OthersMoveOthers ==
  ASSUME Sane, TreeNext, NEW path \in Path, Exists(path), tree'[path] = tree[path]
  PROVE  \A event \in ToSet(queue') :
            event \in ToSet(queue) \/ ~Moves(event, tree[path])'
<1> USE DEF Sane, TypeOK, TreeTypeOK
<1> DEFINE Fine(events) ==
      /\ events \in Seq(Events)
      /\ \A event \in ToSet(events) :
            \/ event \in ToSet(queue)
            \/ event.mask # "MOVE_SELF"
            \/ event.wd \in Wd /\ watch[event.wd] # tree[path]
<1>1. \A wd \in Wd : watch'[wd] = tree[path] => watch[wd] = tree[path]
  BY OthersTell DEF NoticeIInv, Live, Exists
<1>2. ASSUME Fine(queue') PROVE \A event \in ToSet(queue') :
                                   event \in ToSet(queue) \/ ~Moves(event, tree[path])'
  BY <1>1, <1>2 DEF Moves
<1>3. ASSUME NEW events, Fine(events), NEW mask \in Masks, NEW wd \in Wd \cup {NoWd},
             NEW name \in {FileName(p) : p \in Path} \cup {NoName},
             mask = "MOVE_SELF" /\ wd # NoWd => watch[wd] # tree[path]
      PROVE  Fine(Notify(events, mask, wd, name))
  <2>1. Notify(events, mask, wd, name) \in Seq(Events)
    BY <1>3, NotifyType
  <2>2. /\ Event(mask, wd, name).mask = mask /\ Event(mask, wd, name).wd = wd
        /\ OverflowEvent.mask # "MOVE_SELF"
    BY DEF Event, OverflowEvent
  <2>3. \A event \in ToSet(Notify(events, mask, wd, name)) :
           \/ event \in ToSet(events)
           \/ event = Event(mask, wd, name) /\ wd # NoWd
           \/ event = OverflowEvent
    BY <1>3, NotifyAdds
  <2> QED
    BY <1>3, <2>1, <2>2, <2>3
<1>4. Fine(queue)
  OBVIOUS
<1>5. \A p \in Path : ParentWd(p) \in Wd \cup {NoWd}
  BY WdOfType DEF ParentWd
<1> HIDE DEF Fine
<1>6. ASSUME NEW inode, NEW events, Fine(events), Unlink(inode, events) \/ Drop(inode, events)
      PROVE  Fine(queue')
  BY <1>3, <1>6, WdOfType DEF Unlink, Drop, Masks
<1>7. ASSUME NEW p \in Path, NEW inode \in Inode, Create(p, inode)
      PROVE  Fine(queue')
  BY <1>3, <1>4, <1>5, <1>7 DEF Create, Masks
<1>8. ASSUME NEW p \in Deletable, Delete(p)
      PROVE  Fine(queue')
  BY <1>4, <1>6, <1>8 DEF Delete
<1>9. ASSUME NEW move \in Renamable, Rename(move[1], move[2])
      PROVE  Fine(queue')
  <2>1. PICK from \in Path, to \in Path : from = move[1] /\ to = move[2]
    BY ChangesAssumption
  <2>2. tree[from] # tree[path]
    <3>1. from # path
      BY <1>9, <2>1, RenamedLeaves DEF Rename
    <3> QED
      BY <3>1 DEF NoHardLinks
  <2>3. WdOf(tree[from]) # NoWd => watch[WdOf(tree[from])] # tree[path]
    BY <2>2, WdOfType
  <2> DEFINE arrived == Notify(queue, "MOVED_TO", ParentWd(to), FileName(to))
             moved == Notify(arrived, "MOVE_SELF", WdOf(tree[from]), NoName)
  <2>4. Fine(arrived)
    BY <1>3, <1>4, <1>5 DEF Masks
  <2>5. Fine(moved)
    <3> HIDE DEF arrived
    <3> QED BY <1>3, <2>3, <2>4, WdOfType DEF Masks
  <2>6. queue' = moved \/ Unlink(tree[to], moved)
    BY <1>9, <2>1 DEF Rename
  <2> HIDE DEF moved
  <2> QED
    BY <1>6, <2>5, <2>6
<1>10. ASSUME NEW inode \in Inode, Release(inode)
       PROVE  Fine(queue')
  BY <1>4, <1>6, <1>10 DEF Release
<1> QED
  BY <1>2, <1>7, <1>8, <1>9, <1>10, ChangesAssumption DEF TreeNext

\* As long as the root stays, others do nothing to it.
LEMMA OthersSpareTheRoot ==
  ASSUME Sane, SurvivalIInv, Others, RootStays
  PROVE  SurvivalIInv'
<1> USE DEF Sane, TypeOK, RegistryTypeOK, TreeTypeOK
<1>1. /\ pc \notin Exited /\ TreeNext
      /\ UNCHANGED <<by_path, pc, batch, stack, watchers>>
      /\ root \in Path /\ Exists(root) /\ Traversable(root)
      /\ tree'[root] = tree[root]
  BY RootAssumption, TraversableFacts DEF Others, SurvivalIInv, registry, walk, drain, RootStays
<1>2. Traversable(root)' /\ EnoughWatches'
  <2>1. Readable(root)' /\ ~Verdict(root)'.skip_descendants
    BY <1>1, TraversableFacts DEF RootStays, Readable, IsDir, HasKind, Exists
  <2>2. FromRoot(root)' = {root}
    BY RootIsFirst DEF FromRoot
  <2> QED
    BY <1>1, <2>1, <2>2 DEF Traversable, SurvivalIInv, EnoughWatches
<1>3. RootIsWatched'
  BY <1>1, SteadyEntryIsKept DEF SurvivalIInv, RootIsWatched, Watched, contains_path
<1>4. OnlyDirsAreWatched'
  BY <1>1, OthersTell DEF SurvivalIInv, OnlyDirsAreWatched, NoticeIInv, Live
<1>5. RootIsUnmoved'
  <2> SUFFICES ASSUME NEW event \in Events, Heard(event)', event.mask = "MOVE_SELF"
               PROVE  watch'[event.wd] # tree[root]
    BY <1>1 DEF RootIsUnmoved, Moves
  <2>1. event.wd \in Wd
    BY DEF Events, OverflowEvent, Event
  <2>2. CASE Heard(event)
    <3>1. watch[event.wd] # tree[root]
      BY <1>1, <2>2 DEF SurvivalIInv, RootIsUnmoved, Moves
    <3>2. watch'[event.wd] \in {watch[event.wd], NoInode}
      BY <1>1, <2>1, OthersTell DEF NoticeIInv, Live
    <3> QED
      BY <1>1, <3>1, <3>2 DEF Exists
  <2>3. CASE event \in ToSet(queue') /\ event \notin ToSet(queue)
    BY <1>1, <2>3, OthersMoveOthers DEF Moves
  <2> QED
    BY <1>1, <2>2, <2>3 DEF Heard, Contains, ToSet
<1>6. RootIsComing'
  BY <1>1 DEF SurvivalIInv, RootIsComing, contains_path
<1> QED
  BY <1>1, <1>2, <1>3, <1>4, <1>5, <1>6 DEF SurvivalIInv, Exited

-----------------------------------------------------------------------------
\* The watcher.

\* It starts with nothing watched and the root on its stack.
LEMMA InitSurvives == Init /\ EnoughWatches /\ Traversable(root) => SurvivalIInv
<1> SUFFICES ASSUME Init, EnoughWatches, Traversable(root) PROVE SurvivalIInv
  OBVIOUS
<1>1. \A wd \in Wd : ~Live(wd)
  BY DEF Init, TreeInit, Live
<1>2. ~contains_path(root)
  BY RootAssumption DEF Init, RegistryInit, contains_path
<1>3. \A event : ~Heard(event)
  BY DEF Init, TreeInit, Heard, Contains
<1>4. pc = "seed"
  BY DEF Init
<1> QED
  BY <1>1, <1>2, <1>3, <1>4
     DEF SurvivalIInv, OnlyDirsAreWatched, RootIsWatched, RootIsUnmoved, RootIsComing

\* Nothing but the loss of the root or a lack of watches ends the watcher with a
\* failure: no path that cannot be read, watched or marked, none that is gone when its
\* turn comes, no event of a watch that is gone, no overflow of the queue.
THEOREM WatcherSurvivesBadPaths ==
    Spec /\ EnoughWatches /\ Traversable(root) /\ [][RootStays]_tree => []SurvivesBadPaths
<1>1. Sane /\ SurvivalIInv /\ [Next]_vars /\ [RootStays]_tree => SurvivalIInv'
  <2> SUFFICES ASSUME Sane, SurvivalIInv, [Next]_vars, [RootStays]_tree
               PROVE  SurvivalIInv'
    OBVIOUS
  <2>1. CASE Program
    BY <2>1, ProgramSurvives
  <2>2. CASE Others
    BY <2>2, OthersSpareTheRoot, StutterIsConsiderate DEF Considerate
  <2>3. CASE Signal \/ Terminated \/ UNCHANGED vars
    <3>1. UNCHANGED <<tree, watch, queue, batch, by_path, stack, watchers, pc>>
      BY <2>3 DEF Signal, Terminated, vars, world, registry, walk, drain
    <3>2. RootIsComing => RootIsComing'
      BY <3>1 DEF RootIsComing, contains_path
    <3>3. CASE pc \notin Exited
      BY <3>1, <3>2, <3>3, SameRoot DEF Heard, SurvivalIInv
    <3>4. CASE pc \in Exited
      BY <3>1, <3>4, TreeDecides DEF SurvivalIInv, EnoughWatches
    <3> QED
      BY <3>3, <3>4
  <2> QED
    BY <2>1, <2>2, <2>3 DEF Next
<1>2. SurvivalIInv => SurvivesBadPaths
  BY DEF SurvivalIInv, SurvivesBadPaths
<1> QED
  BY <1>1, <1>2, InitSurvives, WatcherSane, PTL DEF Spec

-----------------------------------------------------------------------------
\* What keeps its registry right.

\* What others rename, or rename something to, is no directory above the root.
RootIsOnTop ==
    \A move \in Renamable : \A path \in {move[1], move[2]} :
        StartsWith(root, path) => path = root

\* The event has a directory rescanned.
SendsRescan(event) ==
    \/ event.mask = "MOVE_SELF"
    \/ event.mask \in {"CREATE", "MOVED_TO"} /\ IsTrigger(TheRules, event.name)

\* The event will have the program drop its entry for the path.
Clears(event, path) ==
    \/ event = OverflowEvent
    \/ event.mask = "DELETE_SELF" /\ by_path[path] = event.wd
    \/ SendsRescan(event) /\ \E top \in FromRoot(path) : by_path[top] = event.wd

Cleared(path) ==
    \/ needs_rescan
    \/ \E scope \in scopes : StartsWith(path, scope)
    \/ \E event \in Events : Heard(event) /\ Clears(event, path)

\* All of the way to the path is watched, so that whatever happens on it is told.  To be
\* strict about it, a walk gets to the path as well.
Right(strict, path) ==
    /\ \A p \in FromRoot(path) : Exists(p) /\ Watched(p)
    /\ strict => Traversable(path)

EntryIsTrue(strict, path) ==
    contains_path(path) =>
        path \in detached \/ Cleared(path) \/ Right(strict, path) \/ Unlinked(path)

\* The DELETE_SELF of a descriptor is the last of its events.
InOrder(events) ==
    \A i, j \in DOMAIN events :
        i < j /\ events[i].mask = "DELETE_SELF" => events[j].wd # events[i].wd

Tended(strict) ==
    /\ strict => \A path \in ToSet(watchers) : ~Skipped(path)
    /\ \A path \in Path : EntryIsTrue(strict, path)

UpkeepIInv(strict) ==
    /\ pc \notin Exited => InOrder(batch \o queue) /\ Tended(strict)
    /\ pc \in Exited => queue = <<>>

\* For the strict form others leave the tree alone while the program works, and are
\* considerate.
MayBeStrict(strict) == strict => Interference = "between_drains"

-----------------------------------------------------------------------------
\* Events come in order.

\* An event of a live watch comes before the DELETE_SELF of that watch.
LEMMA AppendInOrder ==
  ASSUME NEW events \in Seq(Events), InOrder(events), DeadIn(events),
         NEW event, event.wd \in Wd => Live(event.wd)
  PROVE  InOrder(Append(events, event))
<1> SUFFICES ASSUME NEW i \in 1..Len(events) + 1, NEW j \in 1..Len(events) + 1, i < j,
                    Append(events, event)[i].mask = "DELETE_SELF"
             PROVE  Append(events, event)[j].wd # Append(events, event)[i].wd
  BY DEF InOrder
<1>1. \A n \in DOMAIN events :
         events[n].mask = "DELETE_SELF" => events[n].wd \in Wd /\ ~Live(events[n].wd)
  BY EventHasWd DEF DeadIn, ToSet, Masks
<1>2. i \in DOMAIN events /\ Append(events, event)[i] = events[i]
  OBVIOUS
<1>3. CASE j \in DOMAIN events
  <2>1. Append(events, event)[j] = events[j]
    BY <1>3
  <2> QED
    BY <1>2, <1>3, <2>1 DEF InOrder
<1>4. CASE j = Len(events) + 1
  <2>1. Append(events, event)[j] = event
    BY <1>4
  <2> QED
    BY <1>1, <1>2, <2>1
<1> QED
  BY <1>3, <1>4

\* What is queued for a live watch keeps the order, after what is read.
LEMMA NotifyInOrder ==
  ASSUME batch \in Seq(Events), DeadIn(batch),
         NEW events \in Seq(Events), InOrder(batch \o events), DeadIn(events),
         NEW mask \in Masks, NEW wd \in Wd \cup {NoWd}, wd # NoWd => Live(wd),
         NEW name \in {FileName(path) : path \in Path} \cup {NoName}
  PROVE  InOrder(batch \o Notify(events, mask, wd, name))
<1> DEFINE new == Event(mask, wd, name)
<1>1. new.wd = wd /\ OverflowEvent.wd = NoWd
  BY DEF Event, OverflowEvent
<1>2. batch \o events \in Seq(Events)
  BY ConcatProperties
<1>3. DeadIn(batch \o events)
  <2>1. \A n \in DOMAIN (batch \o events) :
           (batch \o events)[n] \in ToSet(batch) \cup ToSet(events)
    <3>1. \A n \in DOMAIN (batch \o events) :
             \/ n \in DOMAIN batch /\ (batch \o events)[n] = batch[n]
             \/ n - Len(batch) \in DOMAIN events /\ (batch \o events)[n] = events[n - Len(batch)]
      OBVIOUS
    <3> QED
      BY <3>1 DEF ToSet
  <2>2. ToSet(batch \o events) \subseteq ToSet(batch) \cup ToSet(events)
    BY <2>1 DEF ToSet
  <2> QED
    BY <2>2 DEF DeadIn
<1>4. \A event : batch \o Append(events, event) = Append(batch \o events, event)
  <2> SUFFICES ASSUME NEW event
               PROVE  batch \o Append(events, event) = Append(batch \o events, event)
    OBVIOUS
  <2> QED
    BY AppendIsConcat
<1>5. \/ Notify(events, mask, wd, name) = events
      \/ Notify(events, mask, wd, name) = Append(events, new) /\ wd # NoWd
      \/ Notify(events, mask, wd, name) = Append(events, OverflowEvent)
  BY DEF Notify
<1> HIDE DEF new
<1>6. wd # NoWd => InOrder(Append(batch \o events, new))
  BY <1>1, <1>2, <1>3, AppendInOrder
<1>7. InOrder(Append(batch \o events, OverflowEvent))
  BY <1>1, <1>2, <1>3, AppendInOrder, NoWdAssumption
<1> QED
  BY <1>4, <1>5, <1>6, <1>7

\* The watch of an inode or of a directory above an entry is live.
LEMMA WdOfIsLive ==
  ASSUME NEW inode, inode # NoInode
  PROVE  WdOf(inode) # NoWd => Live(WdOf(inode))
  BY WdOfType DEF Live

\* What others do is told in order, after what is read and not yet handled.
LEMMA OthersTellInOrder ==
  ASSUME Sane, TreeNext, InOrder(batch \o queue)
  PROVE  InOrder(batch \o queue')
<1> USE DEF Sane, TypeOK, TreeTypeOK, OrphanIInv, DeletedIsDead
<1> DEFINE Fine(events) == events \in Seq(Events) /\ InOrder(batch \o events) /\ DeadIn(events)
<1>1. Fine(queue)
  OBVIOUS
<1>2. ASSUME NEW events, Fine(events), NEW mask \in Masks, NEW wd \in Wd \cup {NoWd},
             wd # NoWd => Live(wd),
             NEW name \in {FileName(p) : p \in Path} \cup {NoName}
      PROVE  InOrder(batch \o Notify(events, mask, wd, name))
  BY <1>2, NotifyInOrder
<1>3. ASSUME NEW events, Fine(events), NEW mask \in Masks \ {"DELETE_SELF"},
             NEW wd \in Wd \cup {NoWd}, wd # NoWd => Live(wd),
             NEW name \in {FileName(p) : p \in Path} \cup {NoName}
      PROVE  Fine(Notify(events, mask, wd, name))
  BY <1>2, <1>3, NotifyType, NotifyOfOthers
<1>4. ASSUME NEW inode, inode # NoInode, NEW events, Fine(events),
             Unlink(inode, events) \/ Drop(inode, events)
      PROVE  InOrder(batch \o queue')
  <2>1. CASE queue' = events
    BY <1>4, <2>1
  <2>2. CASE Drop(inode, events)
    <3>1. InOrder(batch \o Notify(events, "DELETE_SELF", WdOf(inode), NoName))
      <4> HIDE DEF Fine
      <4> QED
        BY <1>2, <1>4, WdOfType, WdOfIsLive DEF Masks
    <3> QED
      BY <2>2, <3>1 DEF Drop
  <2> QED
    BY <1>4, <2>1, <2>2 DEF Unlink
<1>5. ASSUME NEW p \in Path, HasRoomFor(p)
      PROVE  ParentWd(p) \in Wd \cup {NoWd} /\ (ParentWd(p) # NoWd => Live(ParentWd(p)))
  <2>1. CASE Len(p) > 1
    <3>1. tree[Parent(p)] # NoInode
      BY <1>5, <2>1 DEF HasRoomFor, IsDir, HasKind, Exists
    <3> QED
      BY <3>1, WdOfType, WdOfIsLive DEF ParentWd
  <2>2. CASE ~(Len(p) > 1)
    <3>1. Len(p) = 1
      <4>1. Len(p) \in Nat \ {0}
        BY PathsAreSequences
      <4> QED
        BY ONLY <2>2, <4>1
    <3>2. ParentWd(p) = NoWd
      BY <3>1 DEF ParentWd
    <3> QED
      BY <3>2
  <2> QED
    BY <2>1, <2>2
<1>6. ASSUME NEW p \in Path, NEW inode \in Inode, Create(p, inode)
      PROVE  InOrder(batch \o queue')
  <2>1. queue' = Notify(queue, "CREATE", ParentWd(p), FileName(p)) /\ HasRoomFor(p)
    BY <1>6 DEF Create
  <2> HIDE DEF Fine
  <2> QED
    BY <1>1, <1>2, <1>5, <2>1 DEF Masks
<1>7. ASSUME NEW p \in Deletable, Delete(p)
      PROVE  InOrder(batch \o queue')
  BY <1>1, <1>4, <1>7 DEF Delete, Exists
<1>8. ASSUME NEW move \in Renamable, Rename(move[1], move[2])
      PROVE  InOrder(batch \o queue')
  <2>1. PICK from \in Path, to \in Path : from = move[1] /\ to = move[2]
    BY ChangesAssumption
  <2>2. HasRoomFor(to) /\ tree[from] # NoInode
    BY <1>8, <2>1 DEF Rename, CanRename, Exists
  <2> DEFINE arrived == Notify(queue, "MOVED_TO", ParentWd(to), FileName(to))
             moved == Notify(arrived, "MOVE_SELF", WdOf(tree[from]), NoName)
  <2>3. Fine(arrived)
    <3> HIDE DEF Fine
    <3> QED
      BY <1>1, <1>3, <1>5, <2>2 DEF Masks
  <2>4. Fine(moved)
    <3> HIDE DEF arrived, Fine
    <3> QED
      BY <1>3, <2>2, <2>3, WdOfType, WdOfIsLive DEF Masks
  <2>5. queue' = moved \/ (Exists(to) /\ Unlink(tree[to], moved))
    BY <1>8, <2>1 DEF Rename
  <2> HIDE DEF moved
  <2>6. CASE queue' = moved
    BY <2>4, <2>6
  <2> QED
    BY <1>4, <2>4, <2>5, <2>6 DEF Exists
<1>9. ASSUME NEW inode \in Inode, Release(inode)
      PROVE  InOrder(batch \o queue')
  BY <1>1, <1>4, <1>9, NoInodeAssumption DEF Release
<1> QED
  BY <1>6, <1>7, <1>8, <1>9 DEF TreeNext

-----------------------------------------------------------------------------
\* What others do to a path that is watched is told.

\* The registry names the watch of a directory that is watched.
LEMMA WatchedByItsWd ==
  ASSUME Sane, NEW path \in Path, Watched(path), Exists(path)
  PROVE  by_path[path] \in Wd /\ WdOf(tree[path]) = by_path[path]
<1> USE DEF Sane, TypeOK, RegistryTypeOK
<1>1. by_path[path] \in Wd /\ watch[by_path[path]] = tree[path] /\ Live(by_path[path])
  BY DEF Watched, contains_path, Live, Exists
<1>2. WdOf(tree[path]) \in Wd /\ watch[WdOf(tree[path])] = tree[path]
  BY <1>1, WdOfType, NoWdAssumption DEF WdOf
<1> QED
  BY <1>1, <1>2 DEF NoticeIInv, OneWatchEach

\* A directory without entries is the last on the way.
LEMMA EmptyIsLast ==
  ASSUME NEW path \in Path, StartsWith(path, root), \A p \in FromRoot(path) : Exists(p),
         NEW dir \in FromRoot(path), Children(dir) = {}
  PROVE  dir = path
  BY NextOnWay DEF Children

\* What has no path gets none while it is watched.
LEMMA WatchedStaysGone ==
  ASSUME TreeTypeOK, TreeNext, NEW wd \in Wd, watch[wd] # NoInode,
         \A p \in Path : tree[p] # watch[wd]
  PROVE  \A p \in Path : tree'[p] # watch[wd]
<1> USE DEF TreeTypeOK
<1>1. WdOf(watch[wd]) # NoWd
  BY WdOfType, NoWdAssumption DEF WdOf
<1>2. ASSUME NEW top \in Path, NEW inode \in Inode, Create(top, inode)
      PROVE  \A p \in Path : tree'[p] # watch[wd]
  BY <1>1, <1>2 DEF Create
<1>3. ASSUME NEW dir \in Deletable, Delete(dir)
      PROVE  \A p \in Path : tree'[p] # watch[wd]
  BY <1>3 DEF Delete
<1>4. ASSUME NEW move \in Renamable, Rename(move[1], move[2])
      PROVE  \A p \in Path : tree'[p] # watch[wd]
  BY <1>4 DEF Rename, TreeAfterRename
<1>5. ASSUME NEW inode \in Inode, Release(inode)
      PROVE  \A p \in Path : tree'[p] # watch[wd]
  BY <1>5 DEF Release
<1> QED
  BY <1>2, <1>3, <1>4, <1>5 DEF TreeNext

\* A registered path whose watch is dead is one that an event, or a rescan, will clear.
DeadAreCleared ==
    pc \notin Exited =>
        \A path \in Path : contains_path(path) /\ ~Live(by_path[path]) => Cleared(path)

LEMMA DeadIsCleared == Sane => DeadAreCleared
<1> SUFFICES ASSUME Sane, pc \notin Exited,
                    NEW path \in Path, contains_path(path), ~Live(by_path[path])
             PROVE  Cleared(path)
  BY DEF DeadAreCleared
<1> USE DEF Sane, TypeOK, RegistryTypeOK
<1>1. by_path[path] \in Wd /\ path_for(by_path[path]) = path /\ path # NoPath
  BY NoPathAssumption DEF contains_path, RegistryInverse, path_for
<1>2. ASSUME NEW event \in Events, Heard(event), Clears(event, path) PROVE Cleared(path)
  BY <1>2 DEF Cleared
<1>3. CASE Heard(OverflowEvent)
  BY <1>2, <1>3 DEF Clears, Events
<1>4. CASE Heard(Event("DELETE_SELF", by_path[path], NoName))
  <2> DEFINE event == Event("DELETE_SELF", by_path[path], NoName)
  <2>1. event \in Events /\ event.mask = "DELETE_SELF" /\ event.wd = by_path[path]
    BY <1>1 DEF Event, Events, Masks
  <2> HIDE DEF event
  <2> QED
    BY <1>2, <1>4, <2>1 DEF Clears, event
<1>5. CASE needs_rescan
  BY <1>5 DEF Cleared
<1> QED
  BY <1>1, <1>3, <1>4, <1>5 DEF NoticeIInv, DeadEntryHasNotice, Heard

\* So it is after a step.
LEMMA DeadIsClearedThen == Sane' => DeadAreCleared'
  BY DeadIsCleared, PTL

\* What is removed from a watched path is unlinked, or its watch is dead.
LEMMA RemovedIsCleared ==
  ASSUME Sane, Sane', pc' \notin Exited, UNCHANGED by_path,
         NEW path \in Path, Watched(path), Exists(path),
         NEW events, Unlink(tree[path], events),
         \A p \in Path : tree'[p] # tree[path]
  PROVE  Cleared(path)' \/ Unlinked(path)'
<1> USE DEF Sane, TypeOK, RegistryTypeOK, TreeTypeOK
<1>1. by_path[path] \in Wd /\ watch[by_path[path]] = tree[path] /\ contains_path(path)'
  BY DEF Watched, contains_path
<1>2. CASE UNCHANGED watch
  <2>1. watch'[by_path'[path]] = tree[path] /\ tree[path] \in Inode
    BY <1>1, <1>2 DEF Exists
  <2> QED
    BY <2>1 DEF Unlinked
<1>3. CASE Drop(tree[path], events)
  <2>1. ~Live(by_path[path])'
    BY <1>1, <1>3 DEF Drop, Live
  <2> QED
    BY <1>1, <2>1, DeadIsClearedThen DEF DeadAreCleared
<1> QED
  BY <1>2, <1>3 DEF Unlink

\* If an entry on a way that is all watched goes, or gives way to another, then an event
\* is queued that clears the path, or the directory at the path is unlinked.
LEMMA LeavingIsTold ==
  ASSUME Sane, Sane', RootIsOnTop, TreeNext, pc' \notin Exited, UNCHANGED by_path,
         NEW path \in Path, StartsWith(path, root),
         \A p \in FromRoot(path) : Exists(p) /\ Watched(p),
         NEW gone \in FromRoot(path), tree'[gone] # tree[gone]
  PROVE  Cleared(path)' \/ Unlinked(path)'
<1> USE DEF Sane, TypeOK, RegistryTypeOK, TreeTypeOK
<1>1. \A p \in FromRoot(path) :
         /\ p \in Path /\ StartsWith(p, root) /\ StartsWith(path, p)
         /\ by_path[p] \in Wd /\ WdOf(tree[p]) = by_path[p]
  BY WayFacts, WatchedByItsWd
<1>2. path \in FromRoot(path) /\ Watched(path) /\ Exists(path)
  BY WayFacts
<1>3. ASSUME NEW event \in Events, Contains(queue', event), Clears(event, path)'
      PROVE  Cleared(path)'
  BY <1>3 DEF Cleared, Heard
<1>4. CASE Contains(queue', OverflowEvent)
  BY <1>3, <1>4 DEF Clears, Events
<1>5. ASSUME NEW p \in FromRoot(path), Contains(queue', Event("MOVE_SELF", by_path[p], NoName))
      PROVE  Cleared(path)'
  <2>1. Event("MOVE_SELF", by_path[p], NoName) \in Events
    BY <1>1 DEF Event, Events, Masks
  <2>2. PICK event \in Events : event = Event("MOVE_SELF", by_path[p], NoName)
    BY <2>1
  <2>3. event.mask = "MOVE_SELF" /\ event.wd = by_path'[p] /\ p \in FromRoot(path)'
    BY <2>2 DEF Event, FromRoot
  <2>4. Clears(event, path)'
    BY <2>3 DEF Clears, SendsRescan
  <2> QED
    BY <1>3, <1>5, <2>2, <2>4
<1>6. ASSUME NEW top \in Path, NEW inode \in Inode, Create(top, inode) PROVE FALSE
  BY <1>1, <1>6 DEF Create, Exists
<1>7. ASSUME NEW inode \in Inode, Release(inode) PROVE FALSE
  BY <1>7 DEF Release
<1>8. ASSUME NEW dir \in Deletable, Delete(dir)
      PROVE  Cleared(path)' \/ Unlinked(path)'
  <2>1. gone = dir
    BY <1>1, <1>8 DEF Delete
  <2>2. dir = path
    BY <1>8, <2>1, EmptyIsLast DEF Delete
  <2>3. \A p \in Path : tree'[p] # tree[path]
    BY <1>2, <1>8, <2>2 DEF Delete, NoHardLinks, Exists
  <2> QED
    BY <1>2, <1>8, <2>2, <2>3, RemovedIsCleared DEF Delete
<1>9. ASSUME NEW move \in Renamable, Rename(move[1], move[2])
      PROVE  Cleared(path)' \/ Unlinked(path)'
  <2>1. PICK from \in Path, to \in Path : from = move[1] /\ to = move[2]
    BY ChangesAssumption
  <2>2. CanRename(from, to) /\ tree' = TreeAfterRename(from, to)
    BY <1>9, <2>1 DEF Rename
  <2> DEFINE arrived == Notify(queue, "MOVED_TO", ParentWd(to), FileName(to))
             moved == Notify(arrived, "MOVE_SELF", WdOf(tree[from]), NoName)
  <2>3. arrived \in Seq(Events)
    BY NotifyType, WdOfType DEF ParentWd, Masks
  <2>4. /\ moved \in Seq(Events)
        /\ WdOf(tree[from]) # NoWd => \/ Contains(moved, Event("MOVE_SELF", WdOf(tree[from]), NoName))
                                      \/ Contains(moved, OverflowEvent)
    <3> HIDE DEF arrived
    <3> QED
      BY <2>3, NotifyType, NotifyTells, WdOfType DEF Masks
  <2>5. IF Exists(to) THEN Unlink(tree[to], moved) ELSE queue' = moved
    BY <1>9, <2>1 DEF Rename
  <2> HIDE DEF moved
  <2>6. \A e : Contains(moved, e) => Contains(queue', e)
    <3>1. \/ queue' = moved
          \/ queue' = Notify(moved, "DELETE_SELF", WdOf(tree[to]), NoName)
      BY <2>5 DEF Unlink, Drop
    <3>2. WdOf(tree[to]) \in Wd \cup {NoWd}
      BY WdOfType
    <3>3. \A e : Contains(moved, e) => Contains(Notify(moved, "DELETE_SELF", WdOf(tree[to]), NoName), e)
      BY <2>4, <3>2, NotifyTells DEF Masks
    <3> QED
      BY <3>1, <3>3
  <2>7. gone \in Path /\ StartsWith(path, gone)
    BY <1>1
  <2>8. \A p \in {from, to} : StartsWith(path, p) => p \in FromRoot(path)
    <3> SUFFICES ASSUME NEW p \in {from, to}, StartsWith(path, p) PROVE p \in FromRoot(path)
      OBVIOUS
    <3>1. StartsWith(p, root) \/ StartsWith(root, p)
      BY RootAssumption, TwoStarts
    <3>2. StartsWith(p, root)
      BY <2>1, <3>1, RootAssumption, StartsWithSelf DEF RootIsOnTop
    <3> QED
      BY <3>2, StartIsOnTheWay
  <2>9. StartsWith(gone, from) \/ StartsWith(gone, to)
    BY <2>2, <2>7 DEF TreeAfterRename
  <2>10. CASE StartsWith(gone, from)
    <3>1. from \in FromRoot(path)
      BY <2>7, <2>8, <2>10, StartsTwice
    <3>2. \/ Contains(moved, Event("MOVE_SELF", by_path[from], NoName))
          \/ Contains(moved, OverflowEvent)
      BY <1>1, <2>4, <3>1, NoWdAssumption
    <3> QED
      BY <1>4, <1>5, <2>6, <3>1, <3>2
  <2>11. CASE StartsWith(gone, to)
    <3>1. to \in FromRoot(path)
      BY <2>7, <2>8, <2>11, StartsTwice
    <3>2. Exists(to) /\ Children(to) = {}
      BY <2>2, <3>1 DEF CanRename
    <3>3. to = path
      BY <3>1, <3>2, EmptyIsLast
    <3>4. ASSUME NEW p \in Path PROVE tree'[p] # tree[path]
      <4>1. CASE StartsWith(p, to) /\ Rebase(p, to, from) \in Path
        <5>1. tree'[p] = tree[Rebase(p, to, from)]
          BY <2>2, <4>1 DEF TreeAfterRename
        <5>2. Rebase(p, to, from) # to
          BY <2>2, <4>1, RebaseStartsWith DEF CanRename
        <5> QED
          BY <3>2, <3>3, <4>1, <5>1, <5>2 DEF NoHardLinks, Exists
      <4>2. CASE ~(StartsWith(p, to) /\ Rebase(p, to, from) \in Path)
        <5>1. tree'[p] = NoInode \/ (tree'[p] = tree[p] /\ ~StartsWith(p, to))
          BY <2>2, <4>2 DEF TreeAfterRename
        <5>2. StartsWith(to, to)
          BY StartsWithSelf
        <5> QED
          BY <3>2, <3>3, <5>1, <5>2 DEF NoHardLinks, Exists
      <4> QED
        BY <4>1, <4>2
    <3> QED
      BY <1>2, <2>5, <3>2, <3>3, <3>4, RemovedIsCleared
  <2> QED
    BY <2>9, <2>10, <2>11
<1> QED
  BY <1>6, <1>7, <1>8, <1>9 DEF TreeNext

-----------------------------------------------------------------------------
\* The steps of a walk.

\* All entries are as true as before, if nothing is forgotten that clears one.
LEMMA AllStillTrue ==
  ASSUME NEW strict \in BOOLEAN, Tended(strict),
         UNCHANGED <<tree, watch, by_path, detached>>,
         needs_rescan => needs_rescan', scopes \subseteq scopes',
         \A event \in Events, path \in Path :
            Heard(event) /\ Clears(event, path) /\ contains_path(path)
            => Heard(event)' \/ Cleared(path)'
  PROVE  \A path \in Path : EntryIsTrue(strict, path)'
<1> SUFFICES ASSUME NEW path \in Path PROVE EntryIsTrue(strict, path)'
  OBVIOUS
<1>1. EntryIsTrue(strict, path)
  BY DEF Tended
<1>2. /\ contains_path(path)' = contains_path(path) /\ Unlinked(path)' = Unlinked(path)
      /\ \A p : Watched(p)' = Watched(p) /\ Exists(p)' = Exists(p)
  BY DEF contains_path, Watched, Exists, Unlinked
<1>3. FromRoot(path)' = FromRoot(path) /\ Traversable(path)' = Traversable(path)
  BY TreeDecides DEF FromRoot
<1>4. \A event : Clears(event, path)' = Clears(event, path)
  BY <1>3 DEF Clears, SendsRescan
<1>5. Cleared(path) /\ contains_path(path) => Cleared(path)'
  BY <1>4 DEF Cleared
<1>6. Right(strict, path) => Right(strict, path)'
  BY <1>2, <1>3 DEF Right
<1> QED
  BY <1>1, <1>2, <1>5, <1>6 DEF EntryIsTrue

\* What add_watch does to the registry: it may take the watch of one entry for another,
\* and then what is below the one it took from is detached.
Tied(new) ==
    /\ \A top, p \in Path :
          contains_path(top) /\ ~contains_path(top)' /\ StartsWith(p, top) /\ contains_path(p)'
          => p \in detached'
    /\ \A p \in detached : contains_path(p)' => p \in detached'
    /\ contains_path(new)' /\ ~contains_path(new) =>
          \/ new \in detached' \cup {root}
          \/ Exists(Parent(new)) /\ Watched(Parent(new)) /\ Parent(new) \notin detached

LEMMA AddWatchTies ==
  ASSUME Sane, AddWatch(batch), NEW new \in Path, new = Head(watchers)
  PROVE  Tied(new)
<1> USE DEF Sane, TypeOK, RegistryTypeOK, TreeTypeOK
<1>1. SkipRegistered(new) \/ SkipUnwatchable(new) \/ RegisterAgain(new) \/ RegisterNew(new, batch)
  BY DEF AddWatch
<1>2. CASE SkipRegistered(new) \/ SkipUnwatchable(new)
  BY <1>2 DEF SkipRegistered, SkipUnwatchable, registry, Tied, contains_path
<1>3. ASSUME NEW paths, Adding(new) \subseteq paths, Detach(paths), contains_path(new)', ~contains_path(new)
      PROVE  \/ new \in detached' \cup {root}
             \/ Exists(Parent(new)) /\ Watched(Parent(new)) /\ Parent(new) \notin detached
  BY <1>3 DEF Detach, Adding
<1>4. CASE RegisterAgain(new)
  <2> DEFINE wd == WdOf(tree[new])
             lost == Adding(new) \cup BelowEvicted(wd)
  <2>1. Detach(lost) /\ wd \in Wd
    BY <1>4, WdOfType DEF RegisterAgain
  <2>2. by_path' = [p \in Path |-> IF p = new THEN wd ELSE IF p = path_for(wd) THEN NoWd
                                   ELSE by_path[p]]
    BY <1>4 DEF RegisterAgain, Register, Insert
  <2>3. ASSUME NEW top \in Path, NEW p \in Path, contains_path(top), ~contains_path(top)',
               StartsWith(p, top), contains_path(p)'
        PROVE  p \in detached'
    <3>1. top = path_for(wd)
      <4> HIDE DEF wd
      <4> QED
        BY <2>2, <2>1, <2>3, NoWdAssumption DEF contains_path
    <3>2. p # top
      BY <2>3
    <3>3. /\ Len(top) \in Nat \ {0} /\ Len(p) \in Nat \ {0}
          /\ Len(top) <= Len(p) /\ SubSeq(p, 1, Len(top)) = top
      BY <2>3, PathsAreSequences DEF StartsWith, IsPrefix
    <3>4. Len(top) # Len(p)
      <4>1. p \in Seq(STRING) /\ SubSeq(p, 1, Len(p)) = p
        BY PathsAreSequences
      <4> QED
        BY <3>2, <3>3, <4>1
    <3>5. Len(top) \in 1..Len(p) - 1
      BY <3>3, <3>4
    <3>6. p \in BelowEvicted(wd)
      <4> HIDE DEF wd
      <4> QED
        BY <3>1, <3>3, <3>5 DEF BelowEvicted
    <3> QED
      BY <2>1, <2>3, <3>6 DEF Detach
  <2>4. \A p \in detached : contains_path(p)' => p \in detached'
    BY <2>1 DEF Detach, WalkTypeOK
  <2>5. Adding(new) \subseteq lost
    OBVIOUS
  <2> HIDE DEF lost
  <2> QED
    BY <1>3, <2>1, <2>3, <2>4, <2>5 DEF Tied
<1>5. CASE RegisterNew(new, batch)
  <2> DEFINE wd == NextWd(batch)
  <2>1. /\ Detach(Adding(new)) /\ wd \in Wd /\ path_for(wd) = NoPath
        /\ by_path' = [p \in Path |-> IF p = new THEN wd ELSE IF p = path_for(wd) THEN NoWd
                                      ELSE by_path[p]]
    BY <1>5 DEF RegisterNew, NextWd, Register, Insert, Fresh
  <2> HIDE DEF wd
  <2>2. \A p \in Path : contains_path(p) => contains_path(p)'
    BY <2>1, NoPathAssumption, NoWdAssumption DEF contains_path
  <2>3. \A p \in detached : contains_path(p)' => p \in detached'
    BY <2>1 DEF Detach, WalkTypeOK
  <2> QED
    BY <1>3, <2>1, <2>2, <2>3 DEF Tied
<1> QED
  BY <1>1, <1>2, <1>4, <1>5

\* What a call of add_watch leaves in the registry is as true as before, and what it puts
\* there hangs from an entry that is true, or is detached.
LEMMA AddWatchKeepsTrue ==
  ASSUME Sane, NEW strict \in BOOLEAN, Tended(strict), AddWatch(batch), UNCHANGED drain,
         NEW path \in Path, contains_path(path)', path \notin detached'
  PROVE  Cleared(path)' \/ Right(strict, path)' \/ Unlinked(path)'
<1> USE DEF Sane, TypeOK, RegistryTypeOK, TreeTypeOK
<1>1. UNCHANGED <<tree, queue, batch, scopes, needs_rescan>>
  BY AddWatchAdds DEF drain
<1>2. PICK new \in Path : Added(new) /\ new = Head(watchers) /\ new \in ToSet(watchers)
  BY AddWatchAdds
<1>3. Tied(new)
  BY <1>2, AddWatchTies
<1>4. \A event : Heard(event)' = Heard(event)
  BY <1>1 DEF Heard
<1>5. \A p : /\ FromRoot(p)' = FromRoot(p) /\ Exists(p)' = Exists(p)
             /\ Traversable(p)' = Traversable(p)
  BY <1>1, TreeDecides DEF FromRoot
<1>6. ASSUME NEW dir \in Path, StartsWith(dir, root), StartsWith(path, dir),
             NEW event \in Events, Heard(event), SendsRescan(event),
             NEW top \in FromRoot(dir), by_path[top] = event.wd
      PROVE  Cleared(path)'
  <2>1. top \in Path /\ StartsWith(dir, top) /\ StartsWith(top, root)
    BY <1>6, WayFacts
  <2>2. StartsWith(path, top) /\ top \in FromRoot(path)
    BY <1>6, <2>1, StartsTwice, StartIsOnTheWay
  <2>3. event.wd \in Wd
    BY <1>6 DEF SendsRescan, Events, OverflowEvent, Event
  <2>4. contains_path(top)
    BY <1>6, <2>3, NoWdAssumption DEF contains_path
  <2>5. contains_path(top)'
    BY <1>3, <2>1, <2>2, <2>4 DEF Tied
  <2>6. by_path'[top] = event.wd
    BY <1>2, <1>6, <2>1, <2>4, <2>5 DEF Added
  <2> QED
    BY <1>4, <1>5, <1>6, <2>2, <2>6 DEF Cleared, Clears, SendsRescan
<1>7. ASSUME needs_rescan \/ Heard(OverflowEvent) PROVE Cleared(path)'
  BY <1>1, <1>4, <1>7 DEF Cleared, Clears, Events
<1>8. CASE by_path'[path] = by_path[path] /\ contains_path(path)
  <2>1. path \notin detached /\ StartsWith(path, root) /\ StartsWith(path, path)
    BY <1>3, <1>8, StartsWithSelf DEF Tied, NoticeIInv, BelowRoot
  <2>2. Cleared(path) \/ Right(strict, path) \/ Unlinked(path)
    BY <1>8, <2>1 DEF Tended, EntryIsTrue
  <2>3. CASE Cleared(path)
    <3>1. CASE \E scope \in scopes : StartsWith(path, scope)
      BY <1>1, <3>1 DEF Cleared
    <3>2. CASE \E event \in Events : Heard(event) /\ event.mask = "DELETE_SELF" /\ by_path[path] = event.wd
      BY <1>4, <1>8, <3>2 DEF Cleared, Clears
    <3> QED
      BY <1>6, <1>7, <2>1, <2>3, <3>1, <3>2 DEF Cleared, Clears
  <2>4. CASE Right(strict, path)
    <3>1. \A p \in FromRoot(path) : p \in Path /\ Exists(p) /\ Watched(p)
      BY <2>1, <2>4, WayFacts DEF Right
    <3>2. \A p \in FromRoot(path) : Watched(p)'
      BY <1>2, <3>1 DEF Added
    <3> QED
      BY <1>5, <2>4, <3>1, <3>2 DEF Right
  <2>5. CASE Unlinked(path)
    <3>1. by_path[path] \in Wd
      BY <1>8 DEF contains_path
    <3>2. watch[by_path[path]] # tree[new] /\ watch[by_path[path]] # NoInode
      BY <2>5, NoInodeAssumption DEF Unlinked
    <3>3. watch'[by_path[path]] = watch[by_path[path]]
      <4>1. CASE SkipRegistered(new) \/ SkipUnwatchable(new) \/ RegisterAgain(new)
        BY <4>1 DEF SkipRegistered, SkipUnwatchable, RegisterAgain, kernel
      <4>2. CASE RegisterNew(new, batch)
        <5> DEFINE wd == NextWd(batch)
        <5>1. wd \in Wd /\ ~Live(wd) /\ watch' = [watch EXCEPT ![wd] = tree[new]]
          BY <4>2 DEF RegisterNew, NextWd, AddKernelWatch, Fresh
        <5> HIDE DEF wd
        <5> QED
          BY <3>1, <3>2, <5>1 DEF Live
      <4> QED
        BY <1>2, <4>1, <4>2 DEF AddWatch
    <3> QED
      BY <1>1, <1>8, <2>5, <3>3 DEF Unlinked
  <2> QED
    BY <2>2, <2>3, <2>4, <2>5
<1>9. CASE path = new /\ Readable(new) /\ ~contains_path(new)
  <2>1. Watched(path)' /\ Exists(path) /\ StartsWith(path, root)
    BY <1>2, <1>9 DEF Added, Readable, IsDir, HasKind, NoticeIInv, BelowRoot, Below
  <2>2. strict => ~Verdict(path).skip_descendants
    BY <1>2, <1>9 DEF Tended, Skipped
  <2>3. CASE path = root
    <3>1. FromRoot(path) = {path}
      BY <2>3, RootIsFirst
    <3>2. strict => Traversable(path)
      BY <1>9, <2>1, <2>2, <3>1 DEF Traversable
    <3> QED
      BY <1>5, <2>1, <3>1, <3>2 DEF Right
  <2>4. CASE path # root
    <3> DEFINE dir == Parent(path)
    <3>1. Exists(dir) /\ Watched(dir) /\ dir \notin detached
      BY <1>3, <1>9, <2>4 DEF Tied
    <3>2. /\ dir \in Path /\ StartsWith(dir, root) /\ StartsWith(path, dir)
          /\ FromRoot(path) = FromRoot(dir) \cup {path}
      BY <2>1, <2>4, ParentFacts, ChildStartsWithParent
    <3> HIDE DEF dir
    <3>3. by_path[dir] \in Wd /\ Live(by_path[dir])
      BY <3>1, <3>2 DEF Watched, contains_path, Live, Exists
    <3>4. ~Unlinked(dir)
      BY <3>1, <3>2 DEF Watched, Unlinked
    <3>5. Cleared(dir) \/ Right(strict, dir)
      BY <3>1, <3>2, <3>4 DEF Tended, EntryIsTrue, Watched
    <3>6. CASE Cleared(dir)
      <4>1. CASE \E scope \in scopes : StartsWith(dir, scope)
        BY <1>1, <3>2, <4>1, StartsTwice DEF Cleared
      <4>2. ASSUME NEW event \in Events, Heard(event), event.mask = "DELETE_SELF", by_path[dir] = event.wd
            PROVE  FALSE
        BY <3>3, <4>2 DEF Heard, Contains, ToSet, OrphanIInv, DeletedIsDead, DeadIn
      <4> QED
        BY <1>6, <1>7, <3>2, <3>6, <4>1, <4>2 DEF Cleared, Clears
    <3>7. CASE Right(strict, dir)
      <4>1. \A p \in FromRoot(dir) : p \in Path /\ Exists(p) /\ Watched(p)
        BY <3>2, <3>7, WayFacts DEF Right
      <4>2. \A p \in FromRoot(path) : Exists(p) /\ Watched(p)'
        BY <1>2, <2>1, <3>2, <4>1 DEF Added
      <4>3. strict => Traversable(path)
        BY <1>9, <2>1, <2>2, <3>2, <3>7 DEF Right, Traversable
      <4> QED
        BY <1>5, <4>2, <4>3 DEF Right
    <3> QED
      BY <3>5, <3>6, <3>7
  <2> QED
    BY <2>3, <2>4
<1> QED
  BY <1>2, <1>8, <1>9 DEF Added, contains_path

\* A walk that is to be strict watches nothing that a rule skips.
LEMMA WalkingKeepsTended ==
  ASSUME Sane, NEW strict \in BOOLEAN, Tended(strict), Walking
  PROVE  Tended(strict)'
<1> USE DEF Sane, TypeOK
<1>1. UNCHANGED <<pc, drain>>
  BY DEF Walking
<1>2. ASSUME UNCHANGED tree, ToSet(watchers') \subseteq ToSet(watchers)
      PROVE  strict => \A path \in ToSet(watchers') : ~Skipped(path)'
  BY <1>2, TreeDecides DEF Tended, Skipped
<1>3. CASE discover_watch_targets
  <2>1. UNCHANGED <<tree, watch, queue, by_path, detached>>
    BY <1>3 DEF discover_watch_targets, Visit, world, registry
  <2>2. \A path \in Path : EntryIsTrue(strict, path)'
    BY <1>1, <2>1, AllStillTrue DEF drain, Heard
  <2> DEFINE dir == Last(stack)
  <2>3. ToSet(watchers') \subseteq ToSet(watchers) \cup {dir}
    BY <1>3, VisitLists
  <2>4. watchers' = watchers \/ ~Skipped(dir)
    BY <1>3 DEF discover_watch_targets, Visit
  <2> HIDE DEF dir
  <2>5. strict => \A path \in ToSet(watchers') : ~Skipped(path)'
    BY <2>1, <2>3, <2>4, TreeDecides DEF Tended, Skipped
  <2> QED
    BY <2>2, <2>5 DEF Tended
<1>4. CASE ApplyMatch
  <2>1. UNCHANGED <<tree, watch, queue, by_path, watchers, detached>>
    BY <1>4 DEF ApplyMatch, kernel, registry, history
  <2>2. \A path \in Path : EntryIsTrue(strict, path)'
    BY <1>1, <2>1, AllStillTrue DEF drain, Heard
  <2> QED
    BY <1>2, <2>1, <2>2 DEF Tended
<1>5. CASE AddWatch(batch)
  <2>1. UNCHANGED tree /\ ToSet(watchers') \subseteq ToSet(watchers)
    BY <1>1, <1>5, AddWatchAdds
  <2>2. \A path \in Path : EntryIsTrue(strict, path)'
    BY <1>1, <1>5, AddWatchKeepsTrue DEF EntryIsTrue
  <2> QED
    BY <1>2, <2>1, <2>2 DEF Tended
<1> QED
  BY <1>3, <1>4, <1>5 DEF Walking

-----------------------------------------------------------------------------
\* The other steps of the program.

\* The first of what is read is the first of all that is heard, and the rest comes after.
LEMMA HeadTailOfConcat ==
  ASSUME NEW first \in Seq(Events), NEW second \in Seq(Events), first # <<>>
  PROVE  /\ first \o second \in Seq(Events) /\ first \o second # <<>>
         /\ Head(first \o second) = Head(first) /\ Tail(first \o second) = Tail(first) \o second
<1>1. first \o second \in Seq(Events) /\ Len(first \o second) = Len(first) + Len(second)
  BY ConcatProperties
<1>2. Len(first) >= 1
  OBVIOUS
<1>3. Head(first \o second) = Head(first) /\ first \o second # <<>>
  BY <1>1, <1>2, ConcatProperties
<1>4. Tail(first \o second) = Tail(first) \o second
  <2>1. /\ Tail(first) \in Seq(Events) /\ Len(Tail(first)) = Len(first) - 1
        /\ \A n \in 1..Len(first) - 1 : Tail(first)[n] = first[n + 1]
    BY <1>2
  <2>2. /\ Tail(first) \o second \in Seq(Events) /\ Tail(first \o second) \in Seq(Events)
        /\ Len(Tail(first) \o second) = Len(first) - 1 + Len(second)
        /\ Len(Tail(first \o second)) = Len(first) - 1 + Len(second)
    BY <1>1, <1>2, <1>3, <2>1, ConcatProperties
  <2>3. \A n \in 1..Len(first) - 1 + Len(second) :
           Tail(first \o second)[n] = (Tail(first) \o second)[n]
    OBVIOUS
  <2> QED
    BY <2>2, <2>3
<1> QED
  BY <1>1, <1>3, <1>4

LEMMA HeardInConcat ==
  ASSUME NEW first \in Seq(Events), NEW second \in Seq(Events)
  PROVE  \A event : Contains(first, event) \/ Contains(second, event)
                    => event \in ToSet(first \o second)
<1>1. \A n \in DOMAIN first : n \in DOMAIN (first \o second) /\ (first \o second)[n] = first[n]
  OBVIOUS
<1>2. \A n \in DOMAIN second : /\ Len(first) + n \in DOMAIN (first \o second)
                               /\ (first \o second)[Len(first) + n] = second[n]
  OBVIOUS
<1>3. ASSUME NEW event, Contains(first, event) PROVE event \in ToSet(first \o second)
  <2>1. PICK n \in DOMAIN first : first[n] = event
    BY <1>3 DEF Contains
  <2> QED
    BY <1>1, <2>1 DEF ToSet
<1>4. ASSUME NEW event, Contains(second, event) PROVE event \in ToSet(first \o second)
  <2>1. PICK n \in DOMAIN second : second[n] = event
    BY <1>4 DEF Contains
  <2> QED
    BY <1>2, <2>1 DEF ToSet
<1> QED
  BY <1>3, <1>4

\* What is left of a list of events is in order.
LEMMA TailInOrder ==
  ASSUME NEW events \in Seq(Events), events # <<>>, InOrder(events)
  PROVE  /\ InOrder(Tail(events))
         /\ Head(events).mask = "DELETE_SELF" =>
               \A event \in ToSet(Tail(events)) : event.wd # Head(events).wd
<1>1. \A i \in DOMAIN Tail(events) : /\ i + 1 \in DOMAIN events /\ 1 < i + 1 /\ 1 \in DOMAIN events
                                     /\ Tail(events)[i] = events[i + 1]
  OBVIOUS
<1>2. \A i, j \in DOMAIN Tail(events) : i < j => i + 1 < j + 1
  OBVIOUS
<1>3. InOrder(Tail(events))
  BY <1>1, <1>2 DEF InOrder
<1>4. Head(events) = events[1]
  OBVIOUS
<1>5. Head(events).mask = "DELETE_SELF" =>
         \A i \in DOMAIN Tail(events) : Tail(events)[i].wd # Head(events).wd
  BY <1>1, <1>4 DEF InOrder
<1> QED
  BY <1>3, <1>5 DEF ToSet

\* The path of an event that clears an entry is the directory of that event.
LEMMA ClearedByWd ==
  ASSUME Sane, NEW path \in Path, contains_path(path), NEW top \in FromRoot(path),
         NEW wd \in Wd, by_path[top] = wd
  PROVE  path_for(wd) = top /\ top \in Path /\ StartsWith(path, top)
<1> USE DEF Sane
<1>1. StartsWith(path, root)
  BY DEF NoticeIInv, BelowRoot
<1>2. top \in Path /\ StartsWith(path, top)
  BY <1>1, WayFacts
<1> QED
  BY <1>2 DEF RegistryInverse, path_for

\* An event that is handled leaves the tree and the watches alone, unless it ends the
\* program, and goes from the batch.
LEMMA EventIsTaken ==
  ASSUME Sane, pc' \notin Exited, OnOverflow \/ OnMoveSelf \/ OnDeleteSelf \/ OnCreate
  PROVE  /\ pc = "drain" /\ batch # <<>> /\ batch' = Tail(batch) /\ WalkIsOver
         /\ UNCHANGED <<tree, watch, queue, pc, watchers>>
         /\ needs_rescan => needs_rescan'
         /\ scopes \subseteq scopes'
         /\ \A event : Heard(event) => event = Head(batch) \/ Heard(event)'
<1> USE DEF Sane, TypeOK
<1>1. ASSUME NEW code \in Exited, Exit(code) PROVE FALSE
  BY <1>1 DEF Exit
<1>2. UNCHANGED <<watch, queue, pc>>
  <2>1. CASE OnOverflow \/ OnCreate
    BY <2>1 DEF OnOverflow, OnCreate, world
  <2>2. CASE OnMoveSelf \/ OnDeleteSelf
    BY <1>1, <2>2 DEF OnMoveSelf, OnDeleteSelf, Exited, kernel
  <2> QED
    BY <2>1, <2>2
<1>3. /\ pc = "drain" /\ batch # <<>> /\ batch' = Tail(batch) /\ WalkIsOver
      /\ UNCHANGED <<tree, watchers>>
      /\ needs_rescan => needs_rescan'
  BY DEF OnOverflow, OnMoveSelf, OnDeleteSelf, OnCreate, NextEvent, world, walk
<1>4. scopes \subseteq scopes'
  BY DEF OnOverflow, OnMoveSelf, OnDeleteSelf, OnCreate
<1>5. \A event : Heard(event) => event = Head(batch) \/ Heard(event)'
  BY <1>2, <1>3, HeadOrTail DEF Heard
<1> QED
  BY <1>2, <1>3, <1>4, <1>5

\* A handled event has cleared the entries it clears, or has a rescan clear them.
LEMMA EventKeepsTended ==
  ASSUME Sane, NEW strict \in BOOLEAN, Tended(strict), InOrder(batch \o queue), pc' \notin Exited,
         OnOverflow \/ OnMoveSelf \/ OnDeleteSelf \/ OnCreate
  PROVE  Tended(strict)'
<1> USE DEF Sane, TypeOK
<1>1. /\ pc = "drain" /\ batch # <<>> /\ batch' = Tail(batch)
      /\ UNCHANGED <<tree, watch, queue, pc, watchers>>
      /\ needs_rescan => needs_rescan'
      /\ scopes \subseteq scopes'
  BY EventIsTaken
<1>2. PICK event \in Events : event = Head(batch)
  BY <1>1, HeadOfBatch
<1>3. \A e : Heard(e) => e = event \/ Heard(e)'
  BY <1>2, EventIsTaken
<1>4. strict => \A path \in ToSet(watchers') : ~Skipped(path)'
  BY <1>1, TreeDecides DEF Tended, Skipped
<1>5. ASSUME UNCHANGED <<by_path, detached>>,
             \A path \in Path : contains_path(path) /\ Clears(event, path) => Cleared(path)'
      PROVE  Tended(strict)'
  <2>1. \A path \in Path : EntryIsTrue(strict, path)'
    BY <1>1, <1>3, <1>5, AllStillTrue
  <2> QED
    BY <1>4, <2>1 DEF Tended
<1>6. CASE OnOverflow
  BY <1>5, <1>6 DEF OnOverflow, registry, history, Cleared
<1>7. ASSUME NEW path \in Path, contains_path(path), Clears(event, path), SendsRescan(event),
             event.wd \in Wd, event.mask # "DELETE_SELF", event # OverflowEvent
      PROVE  path_for(event.wd) \in Path /\ StartsWith(path, path_for(event.wd))
  <2>1. PICK top \in FromRoot(path) : by_path[top] = event.wd
    BY <1>7 DEF Clears
  <2> QED
    BY <1>7, <2>1, ClearedByWd
<1>8. CASE OnMoveSelf
  <2>1. event.mask = "MOVE_SELF" /\ event.wd \in Wd
    BY <1>1, <1>2, <1>8, HeadOfBatch DEF OnMoveSelf, NextEvent, Masks
  <2>2. event # OverflowEvent
    BY <2>1 DEF OverflowEvent, Event
  <2>3. path_for(event.wd) \in Path => path_for(event.wd) \in scopes'
    BY <1>1, <1>2, <1>8, NoPathAssumption DEF OnMoveSelf, registry, Exit, Exited
  <2>4. SendsRescan(event) /\ UNCHANGED <<by_path, detached>>
    BY <1>8, <2>1 DEF SendsRescan, OnMoveSelf, registry, history
  <2>5. \A path \in Path : contains_path(path) /\ Clears(event, path) => Cleared(path)'
    BY <1>7, <2>1, <2>2, <2>3, <2>4 DEF Cleared
  <2> QED
    BY <1>5, <2>4, <2>5
<1>9. CASE OnCreate
  <2>1. event.mask \in {"CREATE", "MOVED_TO"} /\ event.wd \in Wd
    BY <1>1, <1>2, <1>9, HeadOfBatch DEF OnCreate, NextEvent, Masks
  <2>2. event # OverflowEvent
    BY <2>1 DEF OverflowEvent, Event
  <2>3. path_for(event.wd) \in Path /\ IsTrigger(TheRules, event.name)
        => path_for(event.wd) \in scopes'
    BY <1>2, <1>9, NoPathAssumption DEF OnCreate, IsTriggerEvent
  <2>4. \A path \in Path : contains_path(path) /\ Clears(event, path) => Cleared(path)'
    BY <1>7, <2>1, <2>2, <2>3 DEF SendsRescan, Cleared, Clears
  <2> QED
    BY <1>5, <1>9, <2>4 DEF OnCreate, registry, history
<1>10. CASE OnDeleteSelf
  <2>1. event.mask = "DELETE_SELF" /\ event.wd \in Wd
    BY <1>1, <1>2, <1>10, HeadOfBatch DEF OnDeleteSelf, NextEvent, Masks
  <2>2. event # OverflowEvent /\ ~SendsRescan(event)
    BY <2>1 DEF OverflowEvent, Event, SendsRescan
  <2>3. by_path' = [p \in Path |-> IF p = path_for(event.wd) THEN NoWd ELSE by_path[p]]
        /\ Detach({})
    BY <1>1, <1>2, <1>10 DEF OnDeleteSelf, RemoveByDescriptor, Exit, Exited
  <2>4. \A p \in Path : p = path_for(event.wd) <=> by_path[p] = event.wd
    BY <2>1 DEF RegistryInverse, path_for
  <2>5. ~Live(event.wd)
    BY <1>1, <1>2, <2>1, TailOfBatch DEF OrphanIInv, DeletedIsDead, DeadIn
  <2>6. \A e : Heard(e)' => e.wd # event.wd
    <3>1. /\ queue \in Seq(Events) /\ Tail(batch) \in Seq(Events)
          /\ batch \o queue # <<>> /\ batch \o queue \in Seq(Events)
          /\ Head(batch \o queue) = event /\ Tail(batch \o queue) = Tail(batch) \o queue
      BY <1>1, <1>2, HeadTailOfConcat DEF TreeTypeOK
    <3>2. \A e \in ToSet(Tail(batch) \o queue) : e.wd # event.wd
      BY <2>1, <3>1, TailInOrder
    <3>3. \A e : Heard(e)' => e \in ToSet(Tail(batch) \o queue)
      BY <1>1, <3>1, HeardInConcat DEF Heard
    <3> QED
      BY <3>2, <3>3
  <2>7. ASSUME NEW path \in Path, contains_path(path)' PROVE EntryIsTrue(strict, path)'
    <3>1. /\ contains_path(path) /\ by_path[path] # event.wd /\ by_path'[path] = by_path[path]
          /\ StartsWith(path, root)
      BY <2>3, <2>4, <2>7 DEF contains_path, NoticeIInv, BelowRoot
    <3>2. \A p \in Path : by_path[p] # event.wd => by_path'[p] = by_path[p]
      BY <2>3, <2>4
    <3>3. \A p \in FromRoot(path) : p \in Path
      BY <3>1, WayFacts
    <3>4. CASE path \in detached
      BY <2>3, <2>7, <3>4 DEF Detach, EntryIsTrue
    <3>5. CASE Cleared(path)
      <4>1. ASSUME NEW e \in Events, Heard(e), Clears(e, path)
            PROVE  Heard(e)' /\ Clears(e, path)'
        <5>1. e # event
          BY <2>1, <2>2, <3>1, <4>1 DEF Clears
        <5>2. Heard(e)' /\ e.wd # event.wd
          BY <1>3, <2>6, <4>1, <5>1
        <5>3. \A top \in FromRoot(path) : by_path[top] = e.wd => by_path'[top] = e.wd
          BY <3>2, <3>3, <5>2
        <5> QED
          BY <3>1, <4>1, <5>2, <5>3 DEF Clears, SendsRescan, FromRoot
      <4>2. Cleared(path)'
        BY <1>1, <3>5, <4>1 DEF Cleared
      <4> QED
        BY <4>2 DEF EntryIsTrue
    <3>6. CASE Right(strict, path)
      <4>1. ASSUME NEW p \in FromRoot(path) PROVE Exists(p)' /\ Watched(p)'
        <5>1. p \in Path /\ Exists(p) /\ Watched(p) /\ Live(by_path[p])
          BY <3>3, <3>6, <4>1 DEF Right, Watched, Live, Exists
        <5>2. by_path'[p] = by_path[p]
          BY <2>5, <3>2, <5>1
        <5> QED
          BY <1>1, <5>1, <5>2 DEF Watched, contains_path, Exists
      <4>2. FromRoot(path)' = FromRoot(path) /\ Traversable(path)' = Traversable(path)
        BY <1>1, TreeDecides DEF FromRoot
      <4> QED
        BY <3>6, <4>1, <4>2 DEF Right, EntryIsTrue
    <3>7. CASE Unlinked(path)
      BY <1>1, <3>1, <3>7 DEF Unlinked, EntryIsTrue
    <3> QED
      BY <3>1, <3>4, <3>5, <3>6, <3>7 DEF Tended, EntryIsTrue
  <2> QED
    BY <1>4, <2>7 DEF EntryIsTrue, Tended
<1> QED
  BY <1>6, <1>8, <1>9, <1>10

\* A rescan clears the entries at and below its scope, and no other rescan's.
LEMMA RescanKeepsTended ==
  ASSUME Sane, NEW strict \in BOOLEAN, Tended(strict), RescanScope \/ RescanRoot
  PROVE  Tended(strict)'
<1> USE DEF Sane, TypeOK, RegistryTypeOK
<1>1. /\ WalkIsOver
      /\ UNCHANGED <<tree, queue, watchers, batch>>
  BY DEF RescanScope, RescanRoot, BatchIsDone, drain
<1>2. PICK scope \in Path :
         /\ Rescan(scope)
         /\ \/ scope = root
            \/ UNCHANGED needs_rescan /\ scopes' = scopes \ {scope}
  BY RootAssumption DEF RescanScope, RescanRoot
<1>3. /\ by_path' = [p \in Path |-> IF p \in DrainedPaths(scope) THEN NoWd ELSE by_path[p]]
      /\ watch' = [wd \in Wd |-> IF wd \in DrainedDescriptors(scope) THEN NoInode ELSE watch[wd]]
      /\ Detach({})
  BY <1>2 DEF Rescan, DrainSubtree, RemoveKernelWatches
<1>4. strict => \A path \in ToSet(watchers') : ~Skipped(path)'
  BY <1>1, TreeDecides DEF Tended, Skipped
<1>5. ASSUME NEW path \in Path, contains_path(path)'
      PROVE  EntryIsTrue(strict, path)'
  <2>1. /\ contains_path(path) /\ by_path'[path] = by_path[path] /\ by_path[path] \in Wd
        /\ ~StartsWith(path, scope) /\ StartsWith(path, root)
    BY <1>3, <1>5 DEF contains_path, DrainedPaths, NoticeIInv, BelowRoot
  <2>2. /\ FromRoot(path)' = FromRoot(path) /\ Traversable(path)' = Traversable(path)
        /\ \A p : Exists(p)' = Exists(p)
    BY <1>1, TreeDecides DEF FromRoot
  <2>3. ASSUME NEW p \in FromRoot(path)
        PROVE  p \in Path /\ ~StartsWith(p, scope) /\ by_path'[p] = by_path[p]
    <3>1. p \in Path /\ StartsWith(path, p)
      BY <2>1, <2>3, WayFacts
    <3>2. ~StartsWith(p, scope)
      BY <2>1, <3>1, StartsTwice
    <3> QED
      BY <1>3, <3>1, <3>2 DEF DrainedPaths
  <2>4. CASE path \in detached
    BY <1>3, <1>5, <2>4 DEF Detach, EntryIsTrue
  <2>5. CASE Cleared(path)
    <3>1. scope # root /\ UNCHANGED needs_rescan /\ scopes' = scopes \ {scope}
      BY <1>2, <2>1
    <3>2. \A event \in Events : Heard(event) /\ Clears(event, path) => Heard(event)' /\ Clears(event, path)'
      BY <1>1, <2>1, <2>2, <2>3 DEF Heard, Clears, SendsRescan
    <3>3. Cleared(path)'
      BY <2>1, <2>5, <3>1, <3>2 DEF Cleared
    <3> QED
      BY <3>3 DEF EntryIsTrue
  <2>6. CASE Right(strict, path)
    <3>1. \A p \in FromRoot(path) : Watched(p)'
      BY <1>1, <1>2, <2>3, <2>6, RescanSpares DEF Right
    <3> QED
      BY <2>2, <2>6, <3>1 DEF Right, EntryIsTrue
  <2>7. CASE Unlinked(path)
    <3>1. by_path[path] \notin DrainedDescriptors(scope)
      BY <2>1 DEF DrainedDescriptors, DrainedPaths, RegistryInverse
    <3>2. watch'[by_path[path]] = watch[by_path[path]]
      BY <1>3, <2>1, <3>1
    <3> QED
      BY <1>1, <2>1, <2>7, <3>2 DEF Unlinked, EntryIsTrue
  <2> QED
    BY <2>1, <2>4, <2>5, <2>6, <2>7 DEF Tended, EntryIsTrue
<1> QED
  BY <1>4, <1>5 DEF EntryIsTrue, Tended

\* What only waits and reads keeps all as it is, and so does a walk that is over.
LEMMA WaitingKeepsTended ==
  ASSUME Sane, NEW strict \in BOOLEAN, Tended(strict), pc' \notin Exited,
         \/ SeedDone \/ CheckShutdown \/ PollReturnsEmpty \/ ReadEvents \/ StartPending
         \/ RebuildDone \/ DrainDone \/ Signal \/ UNCHANGED vars
  PROVE  Tended(strict)'
<1> USE DEF Sane, TypeOK, TreeTypeOK
<1>1. /\ UNCHANGED <<tree, watch, by_path, detached, watchers, scopes, needs_rescan>>
      /\ ReadEvents \/ UNCHANGED <<queue, batch>>
  <2>1. ASSUME NEW code \in Exited, Exit(code) PROVE FALSE
    BY <2>1 DEF Exit
  <2>2. CASE CheckShutdown \/ RebuildDone
    <3>1. UNCHANGED kernel
      BY <2>1, <2>2 DEF CheckShutdown, RebuildDone, Exited
    <3> QED
      BY <2>2, <3>1 DEF CheckShutdown, RebuildDone, kernel, registry, walk, drain, history
  <2> QED
    BY <2>2 DEF SeedDone, PollReturnsEmpty, ReadEvents, StartPending, DrainDone, Signal, vars,
                world, registry, walk, drain, history
<1>2. \A event : Heard(event) => Heard(event)'
  <2>1. CASE ReadEvents
    <3>1. PICK n \in 1..Len(queue) :
             batch' = SubSeq(queue, 1, n) /\ queue' = SubSeq(queue, n + 1, Len(queue))
      BY <2>1 DEF ReadEvents, ReadFirst
    <3>2. ASSUME NEW i \in 1..Len(queue)
          PROVE  Contains(batch', queue[i]) \/ Contains(queue', queue[i])
      <4>1. CASE i <= n
        <5>1. i \in 1..Len(batch') /\ batch'[i] = queue[i]
          BY <3>1, <4>1
        <5> QED
          BY <5>1 DEF Contains
      <4>2. CASE i > n
        <5>1. i - n \in 1..Len(queue') /\ queue'[i - n] = queue[i]
          BY <3>1, <4>2
        <5> QED
          BY <5>1 DEF Contains
      <4> QED
        BY <4>1, <4>2
    <3>3. batch = <<>>
      BY <2>1 DEF ReadEvents, DrainIsOver
    <3> QED
      BY <3>2, <3>3 DEF Heard, Contains
  <2>2. CASE ~ReadEvents
    BY <1>1, <2>2 DEF Heard
  <2> QED
    BY <2>1, <2>2
<1>3. \A path \in Path : EntryIsTrue(strict, path)'
  BY <1>1, <1>2, AllStillTrue
<1>4. strict => \A path \in ToSet(watchers') : ~Skipped(path)'
  BY <1>1, TreeDecides DEF Tended, Skipped
<1> QED
  BY <1>3, <1>4 DEF Tended

\* What is taken from the front of the events, or moved from the queue to the batch, leaves
\* them in order.
LEMMA ProgramKeepsOrder ==
  ASSUME Sane, InOrder(batch \o queue), Program, pc' \notin Exited
  PROVE  InOrder(batch' \o queue')
<1> USE DEF Sane, TypeOK, TreeTypeOK
<1>1. ASSUME NEW code \in Exited, Exit(code) PROVE FALSE
  BY <1>1 DEF Exit
<1>2. CASE UNCHANGED <<batch, queue>>
  BY <1>2
<1>3. CASE OnOverflow \/ OnMoveSelf \/ OnDeleteSelf \/ OnCreate
  <2>1. batch # <<>> /\ batch' = Tail(batch) /\ queue' = queue
    BY <1>3, EventIsTaken
  <2>2. /\ batch \o queue \in Seq(Events) /\ batch \o queue # <<>>
        /\ Tail(batch \o queue) = Tail(batch) \o queue
    BY <2>1, HeadTailOfConcat
  <2> QED
    BY <2>1, <2>2, TailInOrder
<1>4. CASE ReadEvents
  <2>1. PICK n \in 1..Len(queue) :
           batch' = SubSeq(queue, 1, n) /\ queue' = SubSeq(queue, n + 1, Len(queue))
    BY <1>4 DEF ReadEvents, ReadFirst
  <2>2. batch = <<>>
    BY <1>4 DEF ReadEvents, DrainIsOver
  <2>3. batch \o queue = queue
    BY <2>2
  <2>4. batch' \o queue' = queue
    BY <2>1
  <2> QED
    BY <2>3, <2>4
<1>5. CASE Walking
  BY <1>2, <1>5 DEF Walking, discover_watch_targets, Visit, ApplyMatch, AddWatch, SkipRegistered,
                    SkipUnwatchable, RegisterAgain, RegisterNew, world, kernel, drain
<1>6. CASE NoWatchesLeft \/ CheckShutdown \/ RebuildDone
  BY <1>1, <1>2, <1>6 DEF NoWatchesLeft, CheckShutdown, RebuildDone, Exited, kernel, drain
<1>7. CASE SeedDone \/ PollReturnsEmpty \/ StartPending \/ RescanScope \/ RescanRoot \/ DrainDone
  BY <1>2, <1>7 DEF SeedDone, PollReturnsEmpty, StartPending, RescanScope, RescanRoot, DrainDone,
                    world, drain
<1> QED
  BY <1>3, <1>4, <1>5, <1>6, <1>7 DEF Program

-----------------------------------------------------------------------------
\* What others do, and the theorems.

\* What they do to the way to an entry is told on the way, and will clear the entry.
LEMMA OthersKeepTended ==
  ASSUME Sane, Sane', RootIsOnTop, NEW strict \in BOOLEAN, Tended(strict), Others,
         MayBeStrict(strict), strict => Considerate
  PROVE  Tended(strict)'
<1> USE DEF Sane, TypeOK, RegistryTypeOK, TreeTypeOK
<1>1. /\ TreeNext /\ pc \notin Exited /\ pc' \notin Exited
      /\ UNCHANGED <<by_path, pc, batch, watchers, scopes, needs_rescan, detached>>
      /\ strict => watchers = <<>>
  BY DEF Others, MayBeStrict, MayInterfere, WalkIsOver, registry, walk, drain
<1>2. strict => \A path \in ToSet(watchers') : ~Skipped(path)'
  BY <1>1 DEF ToSet
<1>3. \A event : Heard(event) => Heard(event)'
  BY <1>1, OthersTell DEF NoticeIInv, Heard
<1>4. \A path : /\ FromRoot(path)' = FromRoot(path)
                /\ \A event : Clears(event, path)' = Clears(event, path)
  BY <1>1 DEF FromRoot, Clears, SendsRescan
<1>5. ASSUME NEW path \in Path, \E event \in Events : Contains(queue', event) /\ Clears(event, path)
      PROVE  Cleared(path)'
  BY <1>4, <1>5 DEF Cleared, Heard
<1>6. ASSUME NEW path \in Path, contains_path(path), Right(strict, path)
      PROVE  Cleared(path)' \/ Right(strict, path)' \/ Unlinked(path)'
  <2>1. /\ StartsWith(path, root) /\ path \in FromRoot(path)
        /\ \A p \in FromRoot(path) : p \in Path /\ Exists(p) /\ Watched(p)
    BY <1>6, WayFacts DEF Right, NoticeIInv, BelowRoot
  <2>2. CASE \E gone \in FromRoot(path) : tree'[gone] # tree[gone]
    BY <1>1, <2>1, <2>2, LeavingIsTold
  <2>3. CASE \A p \in FromRoot(path) : tree'[p] = tree[p]
    <3>1. \A p \in FromRoot(path) : Exists(p)' /\ Watched(p)'
      BY <2>1, <2>3, SteadyIsKept DEF Exists
    <3>2. CASE ~strict
      BY <1>4, <3>1, <3>2 DEF Right
    <3>3. CASE strict /\ \A p \in FromRoot(path) : Steady(p)
      <4>1. \A p \in FromRoot(path) : Readable(p)' /\ ~Verdict(p)'.skip_descendants
        BY <1>6, <2>1, <3>3 DEF Right, Steady, Traversable, Readable, IsDir, HasKind, Exists
      <4> QED
        BY <1>4, <2>1, <3>1, <4>1 DEF Right, Traversable
    <3>4. ASSUME NEW p \in FromRoot(path), NEW top \in Path,
                 p # root, Parent(top) = Parent(p),
                 top = p \/ IsTrigger(TheRules, FileName(top)),
                 Arrives(top), ArrivalIsTold(top)
          PROVE  Cleared(path)'
      <4>1. IsTrigger(TheRules, FileName(top))
        BY <2>3, <3>4 DEF Arrives
      <4>2. Parent(p) \in FromRoot(path) /\ Parent(p) \in Path
        BY <2>1, <3>4, AboveFacts
      <4>3. by_path[Parent(p)] \in Wd /\ WdOf(tree[Parent(p)]) = by_path[Parent(p)]
        BY <2>1, <4>2, WatchedByItsWd
      <4>4. ParentWd(top) = by_path[Parent(p)]
        <5>1. Len(top) # 1
          <6>1. Len(Parent(top)) \in Nat \ {0} /\ Len(top) \in Nat
            BY <3>4, <4>2, PathsAreSequences
          <6>2. Len(Parent(top)) = Len(top) - 1
            BY <3>4, ParentLength
          <6> QED
            BY ONLY <6>1, <6>2
        <5> QED
          BY <3>4, <4>3, <5>1 DEF ParentWd
      <4>5. CASE Contains(queue', OverflowEvent)
        BY <1>5, <4>5 DEF Clears, Events
      <4>6. CASE ~Contains(queue', OverflowEvent)
        <5>1. PICK mask \in {"CREATE", "MOVED_TO"} :
                 Contains(queue', Event(mask, by_path[Parent(p)], FileName(top)))
          BY <3>4, <4>3, <4>4, <4>6, NoWdAssumption DEF ArrivalIsTold
        <5>2. PICK event : event = Event(mask, by_path[Parent(p)], FileName(top))
          OBVIOUS
        <5>3. event \in Events
          BY <4>3, <5>2 DEF Event, Events, Masks
        <5>4. Clears(event, path)
          BY <4>1, <4>2, <5>2 DEF Event, Clears, SendsRescan
        <5> QED
          BY <1>5, <5>1, <5>2, <5>3, <5>4
      <4> QED
        BY <4>5, <4>6
    <3>5. \A p \in FromRoot(path) : tree'[p] # NoInode
      BY <2>1, <2>3 DEF Exists
    <3> QED
      BY <1>1, <2>1, <3>2, <3>3, <3>4, <3>5, WayAfterChange
  <2> QED
    BY <2>2, <2>3
<1>7. ASSUME NEW path \in Path, contains_path(path), Unlinked(path)
      PROVE  Cleared(path)' \/ Unlinked(path)'
  <2>1. by_path[path] \in Wd /\ by_path'[path] = by_path[path] /\ contains_path(path)'
    BY <1>1, <1>7 DEF contains_path
  <2>2. CASE ~Live(by_path[path])'
    BY <1>1, <2>1, <2>2, DeadIsClearedThen DEF DeadAreCleared
  <2>3. CASE Live(by_path[path])'
    <3>1. watch'[by_path[path]] = watch[by_path[path]]
      BY <1>1, <2>1, <2>3, OthersTell DEF NoticeIInv
    <3>2. \A p \in Path : tree'[p] # watch[by_path[path]]
      <4>1. watch[by_path[path]] # NoInode /\ \A p \in Path : tree[p] # watch[by_path[path]]
        BY <1>7, NoInodeAssumption DEF Unlinked
      <4> QED
        BY <1>1, <2>1, <4>1, WatchedStaysGone DEF NoticeIInv
    <3> QED
      BY <1>7, <2>1, <3>1, <3>2 DEF Unlinked
  <2> QED
    BY <2>2, <2>3
<1>8. ASSUME NEW path \in Path, contains_path(path)' PROVE EntryIsTrue(strict, path)'
  <2>1. contains_path(path)
    BY <1>1, <1>8 DEF contains_path
  <2>2. Cleared(path) => Cleared(path)'
    BY <1>1, <1>3, <1>4 DEF Cleared
  <2> QED
    BY <1>1, <1>6, <1>7, <2>1, <2>2 DEF Tended, EntryIsTrue
<1> QED
  BY <1>2, <1>8 DEF Tended, EntryIsTrue

\* The step leaves an entry that is to be true, and the events in order.
LEMMA UpkeepStep ==
  ASSUME Sane, Sane', RootIsOnTop, NEW strict \in BOOLEAN, UpkeepIInv(strict), [Next]_vars,
         MayBeStrict(strict), strict /\ pc \notin Exited => Considerate
  PROVE  UpkeepIInv(strict)'
<1> USE DEF Sane
<1>1. ASSUME pc' \notin Exited PROVE InOrder(batch' \o queue') /\ Tended(strict)'
  <2>1. pc \notin Exited /\ ~NoWatchesLeft /\ ~Terminated
    BY <1>1 DEF Next, Program, Walking, MayWalk, NoWatchesLeft, SeedDone, CheckShutdown,
                PollReturnsEmpty, ReadEvents, OnOverflow, OnMoveSelf, OnDeleteSelf, OnCreate,
                NextEvent, StartPending, RescanScope, RescanRoot, BatchIsDone, RebuildDone,
                DrainDone, Others, Signal, Terminated, Exit, Exited, vars
  <2>2. InOrder(batch \o queue) /\ Tended(strict)
    BY <2>1 DEF UpkeepIInv
  <2>3. InOrder(batch' \o queue')
    <3>1. CASE Program
      BY <1>1, <2>2, <3>1, ProgramKeepsOrder
    <3>2. CASE Others
      <4>1. TreeNext /\ UNCHANGED batch
        BY <3>2 DEF Others, drain
      <4> QED
        BY <2>2, <4>1, OthersTellInOrder
    <3>3. CASE Signal \/ UNCHANGED vars
      <4>1. UNCHANGED <<batch, queue>>
        BY <3>3 DEF Signal, vars, world, drain
      <4> QED
        BY <2>2, <4>1
    <3> QED
      BY <2>1, <3>1, <3>2, <3>3 DEF Next
  <2>4. CASE Walking
    BY <2>2, <2>3, <2>4, WalkingKeepsTended
  <2>5. CASE OnOverflow \/ OnMoveSelf \/ OnDeleteSelf \/ OnCreate
    BY <1>1, <2>2, <2>3, <2>5, EventKeepsTended
  <2>6. CASE RescanScope \/ RescanRoot
    BY <2>2, <2>3, <2>6, RescanKeepsTended
  <2>7. CASE \/ SeedDone \/ CheckShutdown \/ PollReturnsEmpty \/ ReadEvents \/ StartPending
             \/ RebuildDone \/ DrainDone \/ Signal \/ UNCHANGED vars
    BY <1>1, <2>2, <2>3, <2>7, WaitingKeepsTended
  <2>8. CASE Others
    BY <2>1, <2>2, <2>3, <2>8, OthersKeepTended
  <2> QED
    BY <2>1, <2>4, <2>5, <2>6, <2>7, <2>8 DEF Next, Program
<1>2. ASSUME pc' \in Exited PROVE queue' = <<>>
  <2>1. ASSUME NEW code \in Exited, Exit(code) PROVE queue' = <<>>
    BY <2>1 DEF Exit, CloseKernel
  <2>2. CASE UNCHANGED <<pc, queue>>
    BY <1>2, <2>2 DEF UpkeepIInv
  <2>3. CASE NoWatchesLeft \/ CheckShutdown \/ RebuildDone
    BY <1>2, <2>1, <2>3 DEF NoWatchesLeft, CheckShutdown, RebuildDone, Exited
  <2>4. CASE OnMoveSelf \/ OnDeleteSelf
    <3>1. pc = "drain"
      BY <2>4 DEF OnMoveSelf, OnDeleteSelf, NextEvent
    <3> QED
      BY <1>2, <2>1, <2>4, <3>1 DEF OnMoveSelf, OnDeleteSelf, Exited
  <2>5. CASE Signal \/ Terminated \/ UNCHANGED vars
    BY <2>2, <2>5 DEF Signal, Terminated, vars, world
  <2>6. ~(Walking \/ SeedDone \/ PollReturnsEmpty \/ ReadEvents \/ OnOverflow \/ OnCreate
          \/ StartPending \/ RescanScope \/ RescanRoot \/ DrainDone \/ Others)
    BY <1>2 DEF Walking, MayWalk, SeedDone, PollReturnsEmpty, ReadEvents, OnOverflow, OnCreate,
                NextEvent, StartPending, RescanScope, RescanRoot, BatchIsDone, DrainDone, Others,
                Exited, drain
  <2> QED
    BY <2>3, <2>4, <2>5, <2>6 DEF Next, Program
<1> QED
  BY <1>1, <1>2 DEF UpkeepIInv

\* A start has no entries.
LEMMA InitIsTended == ASSUME NEW strict \in BOOLEAN PROVE Init => UpkeepIInv(strict)
<1> SUFFICES ASSUME Init PROVE UpkeepIInv(strict)
  OBVIOUS
<1>1. InOrder(batch \o queue) /\ watchers = <<>> /\ pc = "seed"
  BY DEF Init, TreeInit, InOrder
<1>2. \A path \in Path : ~contains_path(path)
  BY DEF Init, RegistryInit, contains_path
<1> QED
  BY <1>1, <1>2 DEF UpkeepIInv, Tended, EntryIsTrue, ToSet, Exited

\* At rest nothing is due, so all entries are right but for those that hang from nothing.
LEMMA AtRestAllIsRight ==
  ASSUME TypeOK, NEW strict \in BOOLEAN, UpkeepIInv(strict), AtRest,
         NEW path \in Path, contains_path(path), StartsWith(path, root)
  PROVE  path \in detached \/ Right(strict, path) \/ Unlinked(path)
<1>1. DrainIsOver /\ pc \notin Exited /\ \A event : ~Heard(event)
  BY DEF TypeOK, AtRest, DrainIsOver, Heard, Contains, Exited
<1> QED
  BY <1>1 DEF UpkeepIInv, Tended, EntryIsTrue, Cleared, DrainIsOver

LEMMA RestIsNotStale == Sane /\ UpkeepIInv(FALSE) => StaleIsDetached
<1> SUFFICES ASSUME Sane, UpkeepIInv(FALSE), AtRest, NEW path \in Path, contains_path(path)
             PROVE  Watched(path) \/ path \in detached \/ Unlinked(path)
  BY DEF StaleIsDetached
<1>1. StartsWith(path, root)
  BY DEF Sane, NoticeIInv, BelowRoot
<1>2. path \in FromRoot(path)
  BY <1>1, WayFacts
<1> QED
  BY <1>1, <1>2, AtRestAllIsRight DEF Sane, Right

LEMMA RestIsNotSkipped == Sane /\ UpkeepIInv(TRUE) => SkippedIsDetached
<1> SUFFICES ASSUME Sane, UpkeepIInv(TRUE), AtRest, NEW path \in Path, contains_path(path)
             PROVE  Traversable(path) \/ path \in detached \/ Unlinked(path)
  BY DEF SkippedIsDetached
<1>1. StartsWith(path, root)
  BY DEF Sane, NoticeIInv, BelowRoot
<1> QED
  BY <1>1, AtRestAllIsRight DEF Sane, Right

\* What holds of a watcher through all that others do.
StaleIInv == RootIsOnTop /\ UpkeepIInv(FALSE)

\* And of one whose walks they do not disturb.
SkippedIInv == Interference = "between_drains" /\ RootIsOnTop /\ UpkeepIInv(TRUE)

\* At rest, no registered path names another directory by now, or none, unless its entry
\* hangs from nothing the watcher hears of: whatever others do at whatever moment, between
\* any two steps of a walk, of a drain or of a rescan, through overflows, reads that split a
\* burst and directories that are held open, an event has each entry that goes stale
\* dropped, or its subtree swept.
THEOREM WatcherStaleIsDetached == RootIsOnTop /\ Spec => []StaleIsDetached
<1>1. RootIsOnTop /\ Init => StaleIInv
  BY InitIsTended DEF StaleIInv
<1>2. Sane /\ Sane' /\ StaleIInv /\ [Next]_vars => StaleIInv'
  BY UpkeepStep DEF StaleIInv, MayBeStrict, RootIsOnTop
<1>3. Sane /\ StaleIInv => StaleIsDetached
  BY RestIsNotStale DEF StaleIInv
<1> QED
  BY <1>1, <1>2, <1>3, WatcherSane, PTL DEF Spec

\* And where others leave the tree alone while the program walks it, nothing below what a
\* rule skips is watched, also when the rule began to say so after the subtree was watched:
\* the rescan that the marker brings takes the whole chain of entries away.
THEOREM WatcherSkippedIsDetached ==
    Interference = "between_drains" /\ RootIsOnTop /\ Spec /\ [][Considerate]_tree
    => []SkippedIsDetached
<1>1. Interference = "between_drains" /\ RootIsOnTop /\ Init => SkippedIInv
  BY InitIsTended DEF SkippedIInv
<1>2. Sane /\ Sane' /\ SkippedIInv /\ [Next]_vars /\ [Considerate]_tree => SkippedIInv'
  BY UpkeepStep, StutterIsConsiderate DEF SkippedIInv, MayBeStrict, RootIsOnTop
<1>3. Sane /\ SkippedIInv => SkippedIsDetached
  BY RestIsNotSkipped DEF SkippedIInv
<1> QED
  BY <1>1, <1>2, <1>3, WatcherSane, PTL DEF Spec
=============================================================================
