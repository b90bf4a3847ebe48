----------------------------- MODULE WalkProofs -----------------------------
(***************************************************************************)
(* Lemmas about the world and the walk, for the proofs about watch mode    *)
(* and about the one-shot scan.                                            *)
(***************************************************************************)
EXTENDS Walk, TLAPS, FiniteSetTheorems, SequenceTheorems

-----------------------------------------------------------------------------
\* Type correctness, part by part.

\* Queueing an event keeps a queue a sequence of events.
LEMMA NotifyType ==
  ASSUME NEW events \in Seq(Events), NEW mask \in Masks, NEW wd \in Wd \cup {NoWd},
         NEW name \in {FileName(path) : path \in Path} \cup {NoName}
  PROVE  Notify(events, mask, wd, name) \in Seq(Events)
<1> DEFINE event == Event(mask, wd, name)
<1>1. wd # NoWd => event \in Events
  BY DEF Event, Events
<1>2. OverflowEvent \in Events
  BY DEF Events
<1> HIDE DEF event
<1>3. wd # NoWd => Append(events, event) \in Seq(Events)
  BY <1>1
<1>4. Append(events, OverflowEvent) \in Seq(Events)
  BY <1>2
<1> QED
  BY <1>3, <1>4 DEF Notify, event

\* The live descriptor of an inode, where there is one, watches that inode.
LEMMA WdOfType ==
  ASSUME NEW inode
  PROVE  /\ WdOf(inode) \in Wd \cup {NoWd}
         /\ WdOf(inode) # NoWd => WdOf(inode) \in Wd /\ watch[WdOf(inode)] = inode
<1>1. CASE \E wd \in Wd : watch[wd] = inode
  <2> DEFINE it == CHOOSE wd \in Wd : watch[wd] = inode
  <2>1. it \in Wd /\ watch[it] = inode
    BY <1>1
  <2>2. WdOf(inode) = it
    BY <1>1 DEF WdOf
  <2> QED
    BY <2>1, <2>2
<1>2. CASE ~ \E wd \in Wd : watch[wd] = inode
  BY <1>2 DEF WdOf
<1> QED
  BY <1>1, <1>2

\* Every ordering of some of the paths is a sequence of paths.
LEMMA OrderingsAreOf ==
  ASSUME NEW S \in SUBSET Path, NEW s \in SetToSeqs(S)
  PROVE  s \in Seq(S)
<1>1. Cardinality(S) \in Nat
  BY FinitePathsAssumption, FS_Subset, FS_CardinalityType
<1>2. s \in [1..Cardinality(S) -> S]
  BY DEF SetToSeqs
<1> QED
  BY <1>1, <1>2, IsASeq

\* An order in which entries may be listed is a sequence of those entries.
LEMMA OrderingsType ==
  ASSUME NEW S \in SUBSET Path, NEW s \in SetToSeqs(S)
  PROVE  s \in Seq(Path)
<1>1. Cardinality(S) \in Nat
  BY FinitePathsAssumption, FS_Subset, FS_CardinalityType
<1>2. s \in [1..Cardinality(S) -> S]
  BY DEF SetToSeqs
<1>3. s \in [1..Cardinality(S) -> Path]
  BY <1>2
<1> QED
  BY <1>1, <1>3, IsASeq

\* The world is well formed at the start.
LEMMA TreeInitType ==
  ASSUME TreeInit
  PROVE  TreeTypeOK
<1>1. marked \subseteq Inode
  BY MarksAssumption DEF TreeInit
<1>2. tree \in [Path -> Inode \cup {NoInode}]
  BY TreesAssumption DEF TreeInit
<1> QED
  BY <1>1, <1>2 DEF TreeInit, TreeTypeOK

\* What other processes do to the tree leaves the world well typed.
LEMMA TreeNextType ==
  ASSUME TreeTypeOK, TreeNext
  PROVE  TreeTypeOK'
<1> USE DEF TreeTypeOK
<1>1. \A path \in Path : ParentWd(path) \in Wd \cup {NoWd}
  BY WdOfType DEF ParentWd
<1>2. ASSUME NEW path \in Path, NEW inode \in Inode, Create(path, inode)
      PROVE  TreeTypeOK'
  <2>1. queue' \in Seq(Events)
    BY <1>1, <1>2, NotifyType DEF Create, Masks
  <2>2. tree' \in [Path -> Inode \cup {NoInode}]
    BY <1>2 DEF Create
  <2> QED
    BY <1>2, <2>1, <2>2 DEF Create
<1>3. ASSUME NEW inode, NEW events \in Seq(Events), Drop(inode, events)
      PROVE  /\ marked' \subseteq Inode
             /\ watch' \in [Wd -> Inode \cup {NoInode}]
             /\ queue' \in Seq(Events)
  <2>1. queue' \in Seq(Events)
    BY <1>3, WdOfType, NotifyType DEF Drop, Masks
  <2> QED
    BY <1>3, <2>1 DEF Drop
<1>4. ASSUME NEW inode, NEW events \in Seq(Events), Unlink(inode, events)
      PROVE  /\ marked' \subseteq Inode
             /\ watch' \in [Wd -> Inode \cup {NoInode}]
             /\ queue' \in Seq(Events)
  BY <1>3, <1>4 DEF Unlink
<1>5. ASSUME NEW path \in Deletable, Delete(path)
      PROVE  TreeTypeOK'
  <2>1. tree' \in [Path -> Inode \cup {NoInode}]
    BY <1>5 DEF Delete
  <2> QED
    BY <1>4, <1>5, <2>1 DEF Delete
<1>6. ASSUME NEW move \in Renamable, Rename(move[1], move[2])
      PROVE  TreeTypeOK'
  <2> DEFINE from == move[1]
             to == move[2]
             arrived == Notify(queue, "MOVED_TO", ParentWd(to), FileName(to))
             moved == Notify(arrived, "MOVE_SELF", WdOf(tree[from]), NoName)
  <2>1. to \in Path
    BY ChangesAssumption
  <2>2. TreeAfterRename(from, to) \in [Path -> Inode \cup {NoInode}]
    BY DEF TreeAfterRename
  <2>3. arrived \in Seq(Events)
    BY <1>1, <2>1, NotifyType DEF Masks
  <2>4. moved \in Seq(Events)
    <3> HIDE DEF arrived
    <3> QED BY <2>3, WdOfType, NotifyType DEF Masks
  <2>5. \/ Unlink(tree[to], moved)
        \/ queue' = moved /\ UNCHANGED <<marked, watch>>
    BY <1>6 DEF Rename
  <2>6. tree' = TreeAfterRename(from, to)
    BY <1>6 DEF Rename
  <2> HIDE DEF moved
  <2> QED
    BY <1>4, <2>2, <2>4, <2>5, <2>6
<1>7. ASSUME NEW inode \in Inode, Release(inode)
      PROVE  TreeTypeOK'
  BY <1>3, <1>7 DEF Release
<1> QED
  BY <1>2, <1>5, <1>6, <1>7 DEF TreeNext

\* The parts of the type that a walk touches.
WalkerTypeOK == RegistryTypeOK /\ TreeTypeOK /\ WalkTypeOK

\* A registration leaves the registry well formed.
LEMMA RegisterType ==
  ASSUME RegistryTypeOK, NEW path \in Path, NEW wd \in Wd, Register(path, wd)
  PROVE  RegistryTypeOK'
  BY DEF RegistryTypeOK, Register, Insert

\* A turn of the loop in walk leaves the state well formed.
LEMMA VisitType ==
  ASSUME WalkerTypeOK, NEW collect_watchers \in BOOLEAN, Visit(collect_watchers)
  PROVE  WalkerTypeOK'
<1> USE DEF WalkerTypeOK, WalkTypeOK
<1> DEFINE dir == Last(stack)
           subdirs == {c \in Listing(dir) : IsDir(c)}
<1>1. dir \in Path /\ Front(stack) \in Seq(Path)
  BY DEF Visit, Last, Front
<1>2. Listing(dir) \subseteq Path
  BY DEF Listing, Children
<1>3. PICK dirs \in SetToSeqs(subdirs) : stack' = Front(stack) \o dirs
  BY DEF Visit
<1>4. stack' \in Seq(Path)
  BY <1>1, <1>2, <1>3, OrderingsType, ConcatProperties
<1>5. PICK files \in SetToSeqs(FileMatches(dir)) : matches' = matches \o DirMatch(dir) \o files
  BY DEF Visit
<1>6. matches' \in Seq(Path)
  <2>1. FileMatches(dir) \subseteq Path
    BY <1>2 DEF FileMatches
  <2>2. files \in Seq(Path)
    BY <1>5, <2>1, OrderingsType
  <2>3. DirMatch(dir) \in Seq(Path)
    BY <1>1 DEF DirMatch
  <2> HIDE DEF dir
  <2> QED
    BY <1>5, <2>2, <2>3, ConcatProperties
<1>7. watchers' \in Seq(Path)
  <2>1. watchers' = Append(watchers, dir) \/ UNCHANGED watchers
    BY DEF Visit
  <2>2. watchers \in Seq(Path) /\ dir \in Path
    BY <1>1
  <2> HIDE DEF dir
  <2> QED
    BY ONLY <2>1, <2>2
<1>8. overlooked' \subseteq Inode
  BY DEF Visit
<1>9. UNCHANGED <<world, registry, shielded, detached>>
  BY DEF Visit
<1> QED
  BY <1>4, <1>6, <1>7, <1>8, <1>9 DEF RegistryTypeOK, TreeTypeOK, world, registry

\* A call of apply_dropbox_ignore leaves the state well formed.
LEMMA ApplyMatchType ==
  ASSUME WalkerTypeOK, ApplyMatch
  PROVE  WalkerTypeOK'
<1> USE DEF WalkerTypeOK, WalkTypeOK
<1>1. marked' \subseteq Inode
  <2>1. Head(matches) \in Path
    BY DEF ApplyMatch
  <2> QED
    BY <2>1 DEF ApplyMatch, Markable, Resolves, Exists, TreeTypeOK
<1>2. matches' \in Seq(Path)
  BY DEF ApplyMatch
<1> QED
  BY <1>1, <1>2 DEF ApplyMatch, RegistryTypeOK, TreeTypeOK, kernel, registry, history

\* What detached holds are paths.
LEMMA DetachType ==
  ASSUME detached \subseteq Path, NEW paths \in SUBSET Path, Detach(paths)
  PROVE  detached' \subseteq Path
  BY DEF Detach

\* What an added entry may detach: itself, and what insert leaves without the directory above.
LEMMA DetachedByAdding ==
  ASSUME NEW path \in Path, NEW wd
  PROVE  Adding(path) \subseteq Path /\ Adding(path) \cup BelowEvicted(wd) \subseteq Path
  BY DEF Adding, BelowEvicted

\* A call of add_watch leaves the state well formed.
LEMMA AddWatchType ==
  ASSUME WalkerTypeOK, NEW held \in Seq(Events), AddWatch(held)
  PROVE  WalkerTypeOK'
<1> USE DEF WalkerTypeOK, WalkTypeOK
<1> DEFINE path == Head(watchers)
<1>1. path \in Path /\ watchers' \in Seq(Path)
  BY DEF AddWatch, AddingWatches
<1>2. UNCHANGED <<tree, marked, ops, stack, matches, overlooked>>
  BY DEF AddWatch
<1>3. Readable(path) => tree[path] \in Inode
  BY <1>1 DEF Readable, IsDir, HasKind, Exists, TreeTypeOK
<1> HIDE DEF path
<1> SUFFICES /\ RegistryTypeOK'
             /\ watch' \in [Wd -> Inode \cup {NoInode}]
             /\ queue' \in Seq(Events)
             /\ shielded' \subseteq Inode /\ detached' \subseteq Path
  BY <1>1, <1>2 DEF TreeTypeOK
<1>4. CASE SkipRegistered(path)
  BY <1>3, <1>4 DEF SkipRegistered, RegistryTypeOK, TreeTypeOK, kernel, registry
<1>5. CASE SkipUnwatchable(path)
  BY <1>5 DEF SkipUnwatchable, RegistryTypeOK, TreeTypeOK, kernel, registry
<1>6. CASE RegisterAgain(path)
  <2>1. RegistryTypeOK'
    BY <1>1, <1>6, WdOfType, RegisterType DEF RegisterAgain
  <2>2. detached' \subseteq Path
    BY <1>1, <1>6, DetachType, DetachedByAdding DEF RegisterAgain
  <2> QED
    BY <1>6, <2>1, <2>2 DEF RegisterAgain, TreeTypeOK, kernel
<1>7. CASE RegisterNew(path, held)
  <2>1. NextWd(held) \in Wd
    BY <1>7 DEF RegisterNew, NextWd
  <2>2. RegistryTypeOK'
    BY <1>1, <1>7, <2>1, RegisterType DEF RegisterNew
  <2>3. tree[path] \in Inode
    BY <1>3, <1>7 DEF RegisterNew, NeedsNewWatch
  <2>4. detached' \subseteq Path
    BY <1>1, <1>7, DetachType, DetachedByAdding DEF RegisterNew
  <2> QED
    BY <1>7, <2>1, <2>2, <2>3, <2>4 DEF RegisterNew, AddKernelWatch, TreeTypeOK
<1> QED
  BY <1>4, <1>5, <1>6, <1>7 DEF AddWatch, path

\* The kernel side of a step of the program: unchanged, or closed.
LEMMA CloseKernelType ==
  ASSUME TreeTypeOK, CloseKernel, UNCHANGED <<tree, marked>>
  PROVE  TreeTypeOK'
  BY DEF TreeTypeOK, CloseKernel

-----------------------------------------------------------------------------
\* No inode has two paths, and so a mark goes only with the path that bears it.

NoHardLinks == \A p, q \in Path : tree[p] = tree[q] /\ Exists(p) => p = q

\* A path is a sequence of names, and not an empty one.
LEMMA PathsAreSequences ==
  ASSUME NEW path \in Path
  PROVE  path \in Seq(STRING) /\ Len(path) \in Nat \ {0}
  BY PathAssumption, EmptySeq

\* A path starts with itself, and with what it is rebased to.
LEMMA StartsWithSelf ==
  ASSUME NEW path \in Path
  PROVE  StartsWith(path, path)
<1>1. Len(path) <= Len(path)
  BY PathsAreSequences
<1> QED
  BY <1>1 DEF StartsWith, IsPrefix

\* What has the new name of a renamed directory had the old name.
LEMMA RebaseOfSelf ==
  ASSUME NEW from \in Path, NEW to \in Path
  PROVE  Rebase(to, to, from) = from
<1>1. SubSeq(to, Len(to) + 1, Len(to)) = <<>>
  BY PathsAreSequences, SubSeqEmpty
<1> QED
  BY <1>1, PathsAreSequences, ConcatEmptySeq DEF Rebase

\* A path is what it starts with and the rest.
LEMMA RestOfPath ==
  ASSUME NEW path \in Path, NEW prefix \in Path, StartsWith(path, prefix)
  PROVE  /\ SubSeq(path, Len(prefix) + 1, Len(path)) \in Seq(STRING)
         /\ path = prefix \o SubSeq(path, Len(prefix) + 1, Len(path))
<1>1. Len(prefix) <= Len(path) /\ SubSeq(path, 1, Len(prefix)) = prefix
  BY PathsAreSequences, SubSeqFull DEF StartsWith, IsPrefix
<1>2. SubSeq(path, Len(prefix) + 1, Len(path)) \in Seq(STRING)
  BY <1>1, PathsAreSequences, SubSeqProperties, ElementOfSeq
<1>3. SubSeq(path, 1, Len(prefix)) \o SubSeq(path, Len(prefix) + 1, Len(path))
         = SubSeq(path, 1, Len(path))
  <2>1. /\ path \in Seq(STRING)
        /\ 1 \in 1..Len(path) + 1
        /\ Len(prefix) \in 1 - 1..Len(path)
        /\ Len(path) \in Len(prefix)..Len(path)
    BY <1>1, PathsAreSequences
  <2> QED
    BY ONLY <2>1, ConcatAdjacentSubSeq
<1> QED
  BY <1>1, <1>2, <1>3, PathsAreSequences, SubSeqFull

\* What is below the new name was below the old one.
LEMMA RebaseStartsWith ==
  ASSUME NEW path \in Path, NEW from \in Path, NEW to \in Path, StartsWith(path, to)
  PROVE  StartsWith(Rebase(path, to, from), from)
<1> DEFINE rest == SubSeq(path, Len(to) + 1, Len(path))
<1>1. rest \in Seq(STRING)
  BY RestOfPath
<1> HIDE DEF rest
<1>2. Len(from) <= Len(from \o rest)
  BY <1>1, PathsAreSequences, ConcatProperties
<1>3. SubSeq(from \o rest, 1, Len(from)) = SubSeq(from, 1, Len(from))
  BY <1>1, PathsAreSequences, SubSeqOfConcat1
<1> QED
  BY <1>2, <1>3 DEF Rebase, StartsWith, IsPrefix, rest

\* A rename puts no two entries at one path.
LEMMA RebaseInjective ==
  ASSUME NEW p \in Path, NEW q \in Path, NEW from \in Path, NEW to \in Path,
         StartsWith(p, to), StartsWith(q, to), Rebase(p, to, from) = Rebase(q, to, from)
  PROVE  p = q
<1> DEFINE rest(path) == SubSeq(path, Len(to) + 1, Len(path))
<1>1. /\ rest(p) \in Seq(STRING) /\ p = to \o rest(p)
      /\ rest(q) \in Seq(STRING) /\ q = to \o rest(q)
  BY RestOfPath
<1>2. from \o rest(p) = from \o rest(q)
  BY DEF Rebase
<1> HIDE DEF rest
<1>3. rest(p) = rest(q)
  BY <1>1, <1>2, PathsAreSequences, ConcatSimplifications
<1> QED
  BY <1>1, <1>3

\* A path that gets another prefix becomes another path.
LEMMA RebaseMoves ==
  ASSUME NEW path \in Path, NEW from \in Path, NEW to \in Path, from # to, StartsWith(path, to)
  PROVE  Rebase(path, to, from) # path
<1> SUFFICES ASSUME Rebase(path, to, from) = path PROVE FALSE
  OBVIOUS
<1> DEFINE rest == SubSeq(path, Len(to) + 1, Len(path))
<1>1. rest \in Seq(STRING) /\ path = to \o rest /\ path = from \o rest
  BY RestOfPath DEF Rebase
<1> HIDE DEF rest
<1>2. from \in Seq(STRING) /\ to \in Seq(STRING)
  BY PathsAreSequences
<1>3. from = to
  BY ONLY <1>1, <1>2, ConcatSimplifications
<1> QED
  BY <1>3

\* A rename gives no inode a second path.
LEMMA RenameNoHardLinks ==
  ASSUME TreeTypeOK, NoHardLinks, NEW from \in Path, NEW to \in Path,
         tree' = TreeAfterRename(from, to)
  PROVE  NoHardLinks'
<1> DEFINE Moved(p) == StartsWith(p, to) /\ Rebase(p, to, from) \in Path
           Stays(p) == ~StartsWith(p, to) /\ ~StartsWith(p, from)
<1>1. \A p \in Path : tree'[p] = IF Moved(p) THEN tree[Rebase(p, to, from)]
                                 ELSE IF Stays(p) THEN tree[p] ELSE NoInode
  BY DEF TreeAfterRename
<1>2. \A p \in Path : Moved(p) => StartsWith(Rebase(p, to, from), from)
  BY RebaseStartsWith
<1>3. \A p, q \in Path :
         Moved(p) /\ Moved(q) /\ Rebase(p, to, from) = Rebase(q, to, from) => p = q
  BY RebaseInjective
<1>4. \A p, q \in Path : Moved(p) /\ Stays(q) => Rebase(p, to, from) # q
  BY <1>2
<1>5. \A p \in Path : Moved(p) => Rebase(p, to, from) \in Path
  OBVIOUS
<1> HIDE DEF Moved, Stays
<1> SUFFICES ASSUME NEW p \in Path, NEW q \in Path, tree'[p] = tree'[q], tree'[p] # NoInode
             PROVE  p = q
  BY DEF NoHardLinks, Exists
<1>6. Moved(p) \/ Stays(p)
  BY <1>1
<1>7. Moved(q) \/ Stays(q)
  BY <1>1
<1>8. CASE Moved(p) /\ Moved(q)
  BY <1>1, <1>3, <1>5, <1>8 DEF NoHardLinks, Exists
<1>9. CASE ~Moved(p) /\ ~Moved(q)
  BY <1>1, <1>6, <1>7, <1>9 DEF NoHardLinks, Exists
<1>10. CASE Moved(p) /\ ~Moved(q)
  BY <1>1, <1>4, <1>5, <1>7, <1>10 DEF NoHardLinks, Exists
<1>11. CASE ~Moved(p) /\ Moved(q)
  BY <1>1, <1>4, <1>5, <1>6, <1>11 DEF NoHardLinks, Exists
<1> QED
  BY <1>8, <1>9, <1>10, <1>11

\* No inode has two paths at the start.
LEMMA TreeInitNoHardLinks ==
  ASSUME TreeInit
  PROVE  NoHardLinks
  BY NoHardLinksAssumption DEF TreeInit, NoHardLinks, Exists

\* Nothing that others do gives an inode a second path.
LEMMA TreeNextNoHardLinks ==
  ASSUME TreeTypeOK, NoHardLinks, TreeNext
  PROVE  NoHardLinks'
<1>1. ASSUME NEW path \in Path, NEW inode \in Inode, Create(path, inode)
      PROVE  NoHardLinks'
  <2>1. tree' = [tree EXCEPT ![path] = inode] /\ \A p \in Path : tree[p] # inode
    BY <1>1 DEF Create
  <2> QED
    BY <2>1 DEF NoHardLinks, Exists, TreeTypeOK
<1>2. ASSUME NEW path \in Deletable, Delete(path)
      PROVE  NoHardLinks'
  <2>1. tree' = [tree EXCEPT ![path] = NoInode]
    BY <1>2 DEF Delete
  <2> QED
    BY <2>1 DEF NoHardLinks, Exists, TreeTypeOK
<1>3. ASSUME NEW move \in Renamable, Rename(move[1], move[2])
      PROVE  NoHardLinks'
  <2>1. move[1] \in Path /\ move[2] \in Path
    BY ChangesAssumption
  <2>2. tree' = TreeAfterRename(move[1], move[2])
    BY <1>3 DEF Rename
  <2> QED
    BY <2>1, <2>2, RenameNoHardLinks
<1>4. ASSUME NEW inode \in Inode, Release(inode)
      PROVE  NoHardLinks'
  BY <1>4 DEF Release, NoHardLinks, Exists
<1> QED
  BY <1>1, <1>2, <1>3, <1>4 DEF TreeNext

\* An entry that keeps its path keeps its mark and its watch.
LEMMA SteadyEntryIsKept ==
  ASSUME TreeTypeOK, NoHardLinks, TreeNext, NEW p \in Path, Exists(p),
         tree'[p] = tree[p]
  PROVE  /\ tree[p] \in marked => tree[p] \in marked'
         /\ \A wd \in Wd : watch[wd] = tree[p] => watch'[wd] = tree[p]
<1> DEFINE Kept == /\ tree[p] \in marked => tree[p] \in marked'
                   /\ \A wd \in Wd : watch[wd] = tree[p] => watch'[wd] = tree[p]
<1>1. ASSUME NEW path \in Path, tree[path] = tree[p] PROVE path = p
  BY <1>1 DEF NoHardLinks
<1>2. ASSUME NEW inode, NEW events, inode # tree[p],
             Unlink(inode, events) \/ Drop(inode, events)
      PROVE  Kept
  BY <1>2 DEF Unlink, Drop
<1>3. ASSUME NEW path \in Path, NEW inode \in Inode, Create(path, inode)
      PROVE  Kept
  BY <1>3 DEF Create
<1>4. ASSUME NEW path \in Deletable, Delete(path)
      PROVE  Kept
  <2>1. path \in Path /\ tree'[path] = NoInode /\ Unlink(tree[path], queue)
    BY <1>4, ChangesAssumption DEF Delete, TreeTypeOK
  <2>2. tree[path] # tree[p]
    BY <1>1, <2>1 DEF Exists
  <2> QED
    BY <1>2, <2>1, <2>2
<1>5. ASSUME NEW move \in Renamable, Rename(move[1], move[2])
      PROVE  Kept
  <2> DEFINE from == move[1]
             to == move[2]
  <2>1. from \in Path /\ to \in Path
    BY ChangesAssumption
  <2>2. tree'[to] = tree[from]
    BY <1>5, <2>1, StartsWithSelf, RebaseOfSelf DEF Rename, TreeAfterRename
  <2>3. from # to
    BY <1>5, <2>1, StartsWithSelf DEF Rename, CanRename
  <2>4. Exists(from)
    BY <1>5 DEF Rename, CanRename
  <2>5. tree[to] # tree[p]
    BY <1>1, <2>1, <2>2, <2>3, <2>4 DEF Exists
  <2>6. \/ \E events : Unlink(tree[to], events)
        \/ UNCHANGED <<marked, watch>>
    BY <1>5 DEF Rename
  <2> HIDE DEF from, to
  <2> QED
    BY <1>2, <2>5, <2>6
<1>6. ASSUME NEW inode \in Inode, Release(inode)
      PROVE  Kept
  BY <1>2, <1>6 DEF Release
<1> QED
  BY <1>3, <1>4, <1>5, <1>6, ChangesAssumption DEF TreeNext

-----------------------------------------------------------------------------
\* A walk loses nothing that stays where it is.

\* Every ordering of some of the paths holds each of them.
LEMMA OrderingsAreComplete ==
  ASSUME NEW S \in SUBSET Path, NEW s \in SetToSeqs(S), NEW path \in S
  PROVE  \E n \in DOMAIN s : s[n] = path
<1> DEFINE C == Cardinality(S)
<1>1. IsFiniteSet(S) /\ C \in Nat
  BY FinitePathsAssumption, FS_Subset, FS_CardinalityType
<1>2. s \in [1..C -> S] /\ \A i, j \in 1..C : i # j => s[i] # s[j]
  BY DEF SetToSeqs
<1>3. IsFiniteSet(S \ {path}) /\ Cardinality(S \ {path}) = C - 1
  BY <1>1, FS_RemoveElement
<1>4. IsFiniteSet(1..C) /\ Cardinality(1..C) = C
  BY <1>1, FS_Interval
<1>5. ASSUME s \in [1..C -> S \ {path}] PROVE FALSE
  <2> DEFINE T == S \ {path}
             D == 1..C
  <2>1. IsFiniteSet(D) /\ IsFiniteSet(T) /\ Cardinality(T) < Cardinality(D)
    BY <1>1, <1>3, <1>4
  <2>2. s \in [D -> T]
    BY <1>5
  <2> HIDE DEF C, T, D
  <2>3. \E i, j \in D : i # j /\ s[i] = s[j]
    BY <2>1, <2>2, FS_PigeonHole
  <2> QED
    BY <1>2, <2>3 DEF D
<1> HIDE DEF C
<1> QED
  BY <1>2, <1>5

\* The next directory on the way from the root down to a path.
LEMMA NextOnTheWay ==
  ASSUME NEW path \in Path, NEW n \in Len(root)..Len(path), n # Len(path)
  PROVE  LET here == SubSeq(path, 1, n)
             next == SubSeq(path, 1, n + 1)
         IN  /\ here \in Path /\ next \in Path
             /\ Parent(next) = here
             /\ next \in FromRoot(path)
             /\ here \in FromRoot(Parent(path))
             /\ next = path \/ next \in FromRoot(Parent(path))
<1> DEFINE here == SubSeq(path, 1, n)
           next == SubSeq(path, 1, n + 1)
<1>1. /\ path \in Seq(STRING) /\ Len(path) \in Nat \ {0}
      /\ Len(root) \in Nat \ {0}
      /\ n \in 1..Len(path) - 1 /\ n + 1 \in Len(root)..Len(path)
  BY RootAssumption, PathsAreSequences
<1>2. here \in Path /\ next \in Path
  BY <1>1, PathAssumption
<1>3. \A m \in 1..Len(path) : Len(SubSeq(path, 1, m)) = m
  BY <1>1, SubSeqProperties, ElementOfSeq
<1>4. \A k \in 1..Len(path) : \A m \in 1..k :
         SubSeq(SubSeq(path, 1, k), 1, m) = SubSeq(path, 1, m)
  BY <1>1, SubSeqOfSubSeq
<1>5. Parent(next) = here
  BY <1>1, <1>3, <1>4 DEF Parent, Front
<1>6. next \in FromRoot(path)
  BY <1>1 DEF FromRoot
<1>7. Parent(path) = SubSeq(path, 1, Len(path) - 1) /\ Len(Parent(path)) = Len(path) - 1
  BY <1>1, <1>3 DEF Parent, Front
<1>8. here = SubSeq(Parent(path), 1, n) /\ here \in FromRoot(Parent(path))
  <2>1. here = SubSeq(Parent(path), 1, n)
    BY <1>1, <1>4, <1>7
  <2>2. n \in Len(root)..Len(Parent(path))
    BY <1>1, <1>7
  <2> QED
    BY <2>1, <2>2 DEF FromRoot
<1>9. CASE n + 1 = Len(path)
  <2>1. next = path
    BY <1>1, <1>9, SubSeqFull
  <2> QED
    BY <1>2, <1>5, <1>6, <1>8, <2>1
<1>10. CASE n + 1 # Len(path)
  <2>1. next = SubSeq(Parent(path), 1, n + 1)
    BY <1>1, <1>4, <1>7, <1>10
  <2>2. n + 1 \in Len(root)..Len(Parent(path))
    BY <1>1, <1>7, <1>10
  <2>3. next \in FromRoot(Parent(path))
    BY <2>1, <2>2 DEF FromRoot
  <2> QED
    BY <1>2, <1>5, <1>6, <1>8, <2>3
<1> QED
  BY <1>9, <1>10

\* The walk is on its way to a path: it will visit it or a directory above it.
OnStack(path) == \E n \in DOMAIN stack : stack[n] \in FromRoot(path)

\* The walk has found the path.
AmongMatches(path) == \E n \in DOMAIN matches : matches[n] = path

\* A walk that visits a directory above a match has the next one on its stack then,
\* or the match itself among its matches.
LEMMA VisitFindsMatch ==
  ASSUME WalkerTypeOK, NEW collect_watchers, Visit(collect_watchers), NEW path \in Path,
         IsMatch(path), OnStack(path)
  PROVE  OnStack(path)' \/ AmongMatches(path)'
<1> DEFINE dir == Last(stack)
           subdirs == {c \in Listing(dir) : IsDir(c)}
<1>1. stack \in Seq(Path) /\ matches \in Seq(Path) /\ stack # <<>>
  BY DEF WalkerTypeOK, WalkTypeOK, Visit
<1>2. dir \in Path /\ Front(stack) \in Seq(Path) /\ DirMatch(dir) \in Seq(Path)
  BY <1>1 DEF Last, Front, DirMatch
<1>3. subdirs \subseteq Path /\ FileMatches(dir) \subseteq Path
  BY DEF Listing, Children, FileMatches
<1>4. PICK dirs \in SetToSeqs(subdirs) : stack' = Front(stack) \o dirs
  BY DEF Visit
<1>5. PICK files \in SetToSeqs(FileMatches(dir)) : matches' = matches \o DirMatch(dir) \o files
  BY DEF Visit
<1>6. dirs \in Seq(Path) /\ files \in Seq(Path)
  BY <1>3, <1>4, <1>5, OrderingsType
<1>7. PICK i \in DOMAIN stack : stack[i] \in FromRoot(path)
  BY DEF OnStack
<1>8. CASE i # Len(stack)
  <2>1. i \in 1..Len(Front(stack)) /\ Front(stack)[i] = stack[i]
    BY <1>1, <1>8 DEF Front
  <2>2. i \in DOMAIN stack' /\ stack'[i] = stack[i]
    BY <1>2, <1>4, <1>6, <2>1, ConcatProperties
  <2>3. FromRoot(path)' = FromRoot(path)
    BY DEF FromRoot
  <2> QED
    BY <1>7, <2>2, <2>3 DEF OnStack
<1>9. CASE i = Len(stack)
  <2>1. PICK n \in Len(root)..Len(path) : dir = SubSeq(path, 1, n)
    BY <1>7, <1>9 DEF FromRoot, Last
  <2>2. CASE n = Len(path)
    <3>1. dir = path
      BY <2>1, <2>2, PathsAreSequences, SubSeqFull
    <3>2. DirMatch(dir) = <<path>>
      BY <3>1 DEF DirMatch, IsMatch
    <3>3. matches' = (matches \o <<path>>) \o files
      BY <1>5, <3>2
    <3>4. AmongMatches(path)'
      <4>1. <<path>> \in Seq(Path)
        OBVIOUS
      <4>2. matches \o <<path>> \in Seq(Path) /\ Len(matches \o <<path>>) = Len(matches) + 1
            /\ (matches \o <<path>>)[Len(matches) + 1] = path
        BY <1>1, <4>1, ConcatProperties
      <4>3. Len(matches) + 1 \in DOMAIN matches' /\ matches'[Len(matches) + 1] = path
        BY <1>1, <1>6, <3>3, <4>2, ConcatProperties
      <4> QED
        BY <4>3 DEF AmongMatches
    <3> QED
      BY <3>4
  <2>3. CASE n # Len(path)
    <3> DEFINE next == SubSeq(path, 1, n + 1)
    <3>1. /\ next \in Path /\ Parent(next) = dir
          /\ next \in FromRoot(path)
          /\ dir \in FromRoot(Parent(path))
          /\ next = path \/ next \in FromRoot(Parent(path))
      BY <2>1, <2>3, NextOnTheWay
    <3>2. path # root
      <4>1. Len(root) < Len(path)
        BY <2>3, PathsAreSequences, RootAssumption
      <4> QED
        BY <4>1, PathsAreSequences
    <3> HIDE DEF next, dir
    <3>3. Traversable(Parent(path)) /\ Resolves(path)
      BY <3>2 DEF IsMatch
    <3>4. Listing(dir) = Children(dir)
      BY <3>1, <3>3 DEF Traversable, Listing, Skipped, Readable, Resolves, IsDir, HasKind
    <3>5. next \in Listing(dir)
      BY <3>1, <3>3, <3>4 DEF Children, Traversable, Readable, Resolves, IsDir, HasKind
    <3>6. CASE IsDir(next)
      <4>1. PICK j \in DOMAIN dirs : dirs[j] = next
        <5>1. next \in subdirs
          BY <3>5, <3>6
        <5> HIDE DEF subdirs
        <5> QED
          BY <1>3, <1>4, <5>1, OrderingsAreComplete
      <4>2. /\ Len(Front(stack)) + j \in DOMAIN stack'
            /\ stack'[Len(Front(stack)) + j] = next
        BY <1>2, <1>4, <1>6, <4>1, ConcatProperties
      <4>3. FromRoot(path)' = FromRoot(path)
        BY DEF FromRoot
      <4> QED
        BY <3>1, <4>2, <4>3 DEF OnStack
    <3>7. CASE ~IsDir(next)
      <4>1. next = path
        BY <3>1, <3>3, <3>7 DEF Traversable, Readable
      <4>2. tree[path] \in Inode /\ Kind[tree[path]] \in {"dir", "file", "symlink"}
        BY <3>3, KindAssumption DEF WalkerTypeOK, TreeTypeOK, Resolves, Exists
      <4>3. HasKind(path, "file")
        BY <3>3, <3>7, <4>1, <4>2 DEF Resolves, IsDir, HasKind
      <4>4. path \in FileMatches(dir)
        BY <3>5, <4>1, <4>3 DEF FileMatches, IsMatch
      <4>5. PICK j \in DOMAIN files : files[j] = path
        BY <1>3, <1>5, <4>4, OrderingsAreComplete
      <4>6. AmongMatches(path)'
        <5> DEFINE before == matches \o DirMatch(dir)
        <5>1. before \in Seq(Path) /\ matches' = before \o files
          BY <1>1, <1>2, <1>5, ConcatProperties
        <5> HIDE DEF before
        <5>2. Len(before) + j \in DOMAIN matches' /\ matches'[Len(before) + j] = path
          BY <1>6, <4>5, <5>1, ConcatProperties
        <5> QED
          BY <5>2 DEF AmongMatches
      <4> QED
        BY <4>6
    <3> QED
      BY <3>6, <3>7
  <2> QED
    BY <2>2, <2>3
<1> QED
  BY <1>8, <1>9

\* What the walk has found, it keeps.
LEMMA VisitKeepsMatch ==
  ASSUME WalkerTypeOK, NEW collect_watchers, Visit(collect_watchers), NEW path \in Path,
         AmongMatches(path)
  PROVE  AmongMatches(path)'
<1> DEFINE dir == Last(stack)
<1>1. matches \in Seq(Path) /\ dir \in Path
  BY DEF WalkerTypeOK, WalkTypeOK, Visit, Last
<1>2. DirMatch(dir) \in Seq(Path) /\ FileMatches(dir) \subseteq Path
  BY <1>1 DEF DirMatch, FileMatches, Listing, Children
<1>3. PICK files \in SetToSeqs(FileMatches(dir)) : matches' = matches \o DirMatch(dir) \o files
  BY DEF Visit
<1>4. files \in Seq(Path)
  BY <1>2, <1>3, OrderingsType
<1>5. PICK i \in DOMAIN matches : matches[i] = path
  BY DEF AmongMatches
<1> HIDE DEF dir
<1> DEFINE before == matches \o DirMatch(dir)
<1>6. before \in Seq(Path) /\ i \in DOMAIN before /\ before[i] = path
  BY <1>1, <1>2, <1>5, ConcatProperties
<1>7. matches' = before \o files
  BY <1>3
<1> HIDE DEF before
<1>8. i \in DOMAIN matches' /\ matches'[i] = path
  BY <1>4, <1>6, <1>7, ConcatProperties
<1> QED
  BY <1>8 DEF AmongMatches

-----------------------------------------------------------------------------
\* A walk finds nothing that it should not.

\* A walk from the root gets to this entry.
OnTheWay(path) ==
    /\ StartsWith(path, root)
    /\ path # root => Traversable(Parent(path))

\* What is in an entry at or below the root is below the root.
LEMMA ChildIsBelow ==
  ASSUME NEW dir \in Path, StartsWith(dir, root), NEW path \in Path, Parent(path) = dir
  PROVE  StartsWith(path, root) /\ path # root
<1>1. /\ path \in Seq(STRING) /\ Len(path) \in Nat \ {0}
      /\ dir \in Seq(STRING) /\ Len(dir) \in Nat \ {0}
      /\ root \in Seq(STRING) /\ Len(root) \in Nat \ {0}
  BY PathsAreSequences, RootAssumption
<1>2. dir = SubSeq(path, 1, Len(path) - 1)
  BY DEF Parent, Front
<1>3. Len(path) > 1 /\ Len(dir) = Len(path) - 1
  <2>1. CASE Len(path) = 1
    <3>1. Len(dir) = 0
      BY <1>1, <1>2, <2>1, SubSeqEmpty
    <3> QED
      BY <1>1, <3>1
  <2>2. CASE Len(path) # 1
    BY <1>1, <1>2, <2>2, SubSeqProperties
  <2> QED
    BY <2>1, <2>2
<1>4. Len(root) <= Len(dir) /\ SubSeq(dir, 1, Len(root)) = root
  BY <1>1, SubSeqFull DEF StartsWith, IsPrefix
<1>5. SubSeq(path, 1, Len(root)) = root
  <2>1. SubSeq(dir, 1, Len(root)) = SubSeq(path, 1, Len(root))
    BY <1>1, <1>2, <1>3, <1>4, SubSeqOfSubSeq
  <2> QED
    BY <1>4, <2>1
<1> QED
  BY <1>1, <1>3, <1>4, <1>5, SubSeqFull DEF StartsWith, IsPrefix

\* What is listed below an entry that a walk gets to is what it gets to next.
LEMMA ListingIsOnTheWay ==
  ASSUME NEW dir \in Path, OnTheWay(dir), NEW path \in Listing(dir)
  PROVE  OnTheWay(path) /\ path # root /\ Parent(path) = dir
<1>1. path \in Path /\ Parent(path) = dir /\ Exists(path)
  BY DEF Listing, Children
<1>2. Readable(dir) /\ ~Verdict(dir).skip_descendants
  BY DEF Listing, Skipped
<1>3. StartsWith(path, root) /\ path # root
  BY <1>1, ChildIsBelow DEF OnTheWay
<1>4. Traversable(dir)
  <2>1. ASSUME NEW n \in Len(root)..Len(dir)
        PROVE  LET p == SubSeq(dir, 1, n) IN Readable(p) /\ ~Verdict(p).skip_descendants
    <3>1. CASE n = Len(dir)
      <4>1. SubSeq(dir, 1, n) = dir
        BY <3>1, PathsAreSequences, SubSeqFull
      <4> QED
        BY <1>2, <4>1
    <3>2. CASE n # Len(dir)
      <4>1. dir # root /\ n # 0
        BY <3>2, PathsAreSequences, RootAssumption
      <4>2. Traversable(Parent(dir))
        BY <4>1 DEF OnTheWay
      <4>3. SubSeq(dir, 1, n) \in FromRoot(Parent(dir))
        <5>1. n \in Len(root)..Len(dir) /\ n # Len(dir)
          BY <3>2
        <5> QED
          BY <5>1, NextOnTheWay
      <4> QED
        BY <4>2, <4>3 DEF Traversable
    <3> QED
      BY <3>1, <3>2
  <2> QED
    BY <2>1 DEF Traversable, FromRoot, OnTheWay
<1> QED
  BY <1>1, <1>3, <1>4 DEF OnTheWay

\* A visit puts on the stack what a walk gets to, and among the matches what is one.
LEMMA VisitFindsMatchesOnly ==
  ASSUME WalkerTypeOK, NEW collect_watchers, Visit(collect_watchers),
         \A n \in DOMAIN stack : OnTheWay(stack[n]),
         \A n \in DOMAIN matches : IsMatch(matches[n])
  PROVE  /\ \A n \in DOMAIN stack' : OnTheWay(stack'[n])
         /\ \A n \in DOMAIN matches' : IsMatch(matches'[n])
<1> DEFINE dir == Last(stack)
           subdirs == {c \in Listing(dir) : IsDir(c)}
<1>1. stack \in Seq(Path) /\ matches \in Seq(Path) /\ stack # <<>>
  BY DEF WalkerTypeOK, WalkTypeOK, Visit
<1>2. dir \in Path /\ OnTheWay(dir) /\ Front(stack) \in Seq(Path)
  BY <1>1 DEF Last, Front
<1>3. subdirs \subseteq Path /\ FileMatches(dir) \subseteq Path
  BY DEF Listing, Children, FileMatches
<1>4. PICK dirs \in SetToSeqs(subdirs) : stack' = Front(stack) \o dirs
  BY DEF Visit
<1>5. PICK files \in SetToSeqs(FileMatches(dir)) : matches' = matches \o DirMatch(dir) \o files
  BY DEF Visit
<1>6. dirs \in Seq(subdirs) /\ files \in Seq(FileMatches(dir))
  BY <1>3, <1>4, <1>5, OrderingsAreOf
<1>7. dirs \in Seq(Path) /\ files \in Seq(Path) /\ DirMatch(dir) \in Seq(Path)
  <2>1. DirMatch(dir) \in Seq(Path)
    BY <1>2 DEF DirMatch
  <2> QED
    BY <1>3, <1>4, <1>5, <2>1, OrderingsType
<1>8. \A c \in subdirs : OnTheWay(c)
  BY <1>2, ListingIsOnTheWay
<1>9. \A c \in FileMatches(dir) : IsMatch(c)
  <2> SUFFICES ASSUME NEW c \in FileMatches(dir) PROVE IsMatch(c)
    OBVIOUS
  <2>1. c \in Listing(dir) /\ HasKind(c, "file") /\ Verdict(c).set_dropbox_ignore
    BY DEF FileMatches
  <2>2. OnTheWay(c)
    BY <1>2, <2>1, ListingIsOnTheWay
  <2> QED
    BY <2>1, <2>2 DEF OnTheWay, IsMatch, Resolves, HasKind
<1>10. \A n \in DOMAIN DirMatch(dir) : IsMatch(DirMatch(dir)[n])
  BY <1>2 DEF DirMatch, OnTheWay, IsMatch
<1>11. \A n \in DOMAIN Front(stack) : OnTheWay(Front(stack)[n])
  BY <1>1 DEF Front
<1> HIDE DEF dir, subdirs
<1>12. ASSUME NEW n \in DOMAIN stack' PROVE OnTheWay(stack'[n])
  <2>1. CASE n <= Len(Front(stack))
    BY <1>2, <1>4, <1>7, <1>11, <1>12, <2>1, ConcatProperties
  <2>2. CASE ~(n <= Len(Front(stack)))
    <3>1. n - Len(Front(stack)) \in DOMAIN dirs
          /\ stack'[n] = dirs[n - Len(Front(stack))]
      BY <1>2, <1>4, <1>7, <1>12, <2>2, ConcatProperties
    <3> QED
      BY <1>6, <1>8, <3>1
  <2> QED
    BY <2>1, <2>2
<1>13. ASSUME NEW n \in DOMAIN matches' PROVE IsMatch(matches'[n])
  <2> DEFINE before == matches \o DirMatch(dir)
  <2>1. before \in Seq(Path) /\ \A m \in DOMAIN before : IsMatch(before[m])
    BY <1>1, <1>7, <1>10, ConcatProperties
  <2>2. matches' = before \o files
    BY <1>5
  <2> HIDE DEF before
  <2>3. CASE n <= Len(before)
    BY <1>7, <1>13, <2>1, <2>2, <2>3, ConcatProperties
  <2>4. CASE ~(n <= Len(before))
    <3>1. n - Len(before) \in DOMAIN files /\ matches'[n] = files[n - Len(before)]
      BY <1>7, <1>13, <2>1, <2>2, <2>4, ConcatProperties
    <3> QED
      BY <1>6, <1>9, <3>1
  <2> QED
    BY <2>3, <2>4
<1> QED
  BY <1>12, <1>13

-----------------------------------------------------------------------------
\* Paths and the directories above them.

\* The way to a path is made of paths from the root to it, each with its own way.
LEMMA WayFacts ==
  ASSUME NEW path \in Path, StartsWith(path, root)
  PROVE  /\ path \in FromRoot(path) /\ root \in FromRoot(path)
         /\ \A p \in FromRoot(path) :
               /\ p \in Path /\ StartsWith(p, root) /\ StartsWith(path, p)
               /\ FromRoot(p) \subseteq FromRoot(path)
<1>1. /\ path \in Seq(STRING) /\ Len(path) \in Nat \ {0}
      /\ root \in Seq(STRING) /\ Len(root) \in Nat \ {0}
      /\ Len(root) <= Len(path) /\ SubSeq(path, 1, Len(root)) = root
  BY PathsAreSequences, RootAssumption, SubSeqFull DEF StartsWith, IsPrefix
<1>2. \A n \in 1..Len(path) : Len(SubSeq(path, 1, n)) = n
  BY <1>1, SubSeqProperties, ElementOfSeq
<1>3. \A k \in 1..Len(path) : \A m \in 1..k :
         SubSeq(SubSeq(path, 1, k), 1, m) = SubSeq(path, 1, m)
  BY <1>1, SubSeqOfSubSeq
<1>4. SubSeq(path, 1, Len(path)) = path
  BY <1>1, SubSeqFull
<1>5. path \in FromRoot(path) /\ root \in FromRoot(path)
  <2>1. Len(path) \in Len(root)..Len(path) /\ Len(root) \in Len(root)..Len(path)
    BY <1>1
  <2> QED
    BY <1>1, <1>4, <2>1 DEF FromRoot
<1>6. ASSUME NEW n \in Len(root)..Len(path)
      PROVE  LET p == SubSeq(path, 1, n)
             IN  /\ p \in Path /\ StartsWith(p, root) /\ StartsWith(path, p)
                 /\ FromRoot(p) \subseteq FromRoot(path)
  <2> DEFINE p == SubSeq(path, 1, n)
  <2>1. n \in 1..Len(path) /\ Len(p) = n /\ SubSeq(p, 1, n) = p
    BY <1>1, <1>2, <1>3
  <2>2. p \in Path
    BY <2>1, PathAssumption
  <2>3. SubSeq(p, 1, Len(root)) = SubSeq(root, 1, Len(root))
    BY <1>1, <1>3, <2>1, SubSeqFull
  <2>4. FromRoot(p) \subseteq FromRoot(path)
    <3> SUFFICES ASSUME NEW m \in Len(root)..n
                 PROVE  SubSeq(p, 1, m) \in FromRoot(path)
      BY <2>1 DEF FromRoot
    <3>1. SubSeq(p, 1, m) = SubSeq(path, 1, m) /\ m \in Len(root)..Len(path)
      BY <1>1, <1>3, <2>1
    <3> QED
      BY <3>1 DEF FromRoot
  <2> HIDE DEF p
  <2>5. StartsWith(p, root)
    <3>1. Len(root) <= Len(p)
      BY <2>1
    <3> QED
      BY <2>3, <3>1 DEF StartsWith, IsPrefix
  <2>6. StartsWith(path, p)
    BY <1>1, <2>1 DEF StartsWith, IsPrefix, p
  <2> QED
    BY <2>2, <2>4, <2>5, <2>6 DEF p
<1> QED
  BY <1>5, <1>6 DEF FromRoot

\* What starts with a path that starts with the root has the path on its way.
LEMMA StartIsOnTheWay ==
  ASSUME NEW path \in Path, NEW p \in Path, StartsWith(path, p), StartsWith(p, root)
  PROVE  p \in FromRoot(path) /\ StartsWith(path, root)
<1>1. /\ path \in Seq(STRING) /\ Len(path) \in Nat \ {0}
      /\ p \in Seq(STRING) /\ Len(p) \in Nat \ {0}
      /\ root \in Seq(STRING) /\ Len(root) \in Nat \ {0}
      /\ Len(root) <= Len(p) /\ SubSeq(p, 1, Len(root)) = root
      /\ Len(p) <= Len(path) /\ SubSeq(path, 1, Len(p)) = p
  BY PathsAreSequences, RootAssumption, SubSeqFull DEF StartsWith, IsPrefix
<1>2. SubSeq(p, 1, Len(root)) = SubSeq(path, 1, Len(root))
  BY <1>1, SubSeqOfSubSeq
<1>3. Len(p) \in Len(root)..Len(path) /\ Len(root) <= Len(path)
  BY <1>1
<1>4. p \in FromRoot(path)
  BY <1>1, <1>3 DEF FromRoot
<1>5. SubSeq(root, 1, Len(root)) = SubSeq(path, 1, Len(root))
  BY <1>1, <1>2, SubSeqFull
<1> QED
  BY <1>3, <1>4, <1>5 DEF StartsWith, IsPrefix

\* Of two directories on one way one is on the way to the other.
LEMMA OneWay ==
  ASSUME NEW path \in Path, StartsWith(path, root),
         NEW p \in FromRoot(path), NEW q \in FromRoot(path)
  PROVE  p \in FromRoot(q) \/ q \in FromRoot(p)
<1>1. /\ path \in Seq(STRING) /\ Len(path) \in Nat \ {0} /\ Len(root) \in Nat \ {0}
  BY PathsAreSequences, RootAssumption
<1>2. \A n \in 1..Len(path) : Len(SubSeq(path, 1, n)) = n
  BY <1>1, SubSeqProperties, ElementOfSeq
<1>3. \A k \in 1..Len(path) : \A m \in 1..k :
         SubSeq(SubSeq(path, 1, k), 1, m) = SubSeq(path, 1, m)
  BY <1>1, SubSeqOfSubSeq
<1>4. PICK i \in Len(root)..Len(path) : p = SubSeq(path, 1, i)
  BY DEF FromRoot
<1>5. PICK j \in Len(root)..Len(path) : q = SubSeq(path, 1, j)
  BY DEF FromRoot
<1>6. Len(p) = i /\ Len(q) = j
  BY <1>1, <1>2, <1>4, <1>5
<1>7. CASE i <= j
  <2>1. p = SubSeq(q, 1, i) /\ i \in Len(root)..Len(q)
    BY <1>1, <1>3, <1>4, <1>5, <1>6, <1>7
  <2> QED
    BY <2>1 DEF FromRoot
<1>8. CASE j <= i
  <2>1. q = SubSeq(p, 1, j) /\ j \in Len(root)..Len(p)
    BY <1>1, <1>3, <1>4, <1>5, <1>6, <1>8
  <2> QED
    BY <2>1 DEF FromRoot
<1> QED
  BY <1>7, <1>8

\* The way to a path is the way to its directory, and the path.
LEMMA ParentFacts ==
  ASSUME NEW path \in Path, StartsWith(path, root), path # root
  PROVE  /\ Parent(path) \in Path /\ StartsWith(Parent(path), root)
         /\ FromRoot(path) = FromRoot(Parent(path)) \cup {path}
         /\ \A p \in FromRoot(Parent(path)) : p # path /\ Len(p) < Len(path)
         /\ Len(Parent(path)) < Len(path)
<1> DEFINE dir == Parent(path)
           L == Len(path)
<1>1. /\ path \in Seq(STRING) /\ L \in Nat \ {0}
      /\ root \in Seq(STRING) /\ Len(root) \in Nat \ {0}
      /\ Len(root) <= L /\ SubSeq(path, 1, Len(root)) = root
      /\ SubSeq(path, 1, L) = path
  BY PathsAreSequences, RootAssumption, SubSeqFull DEF StartsWith, IsPrefix
<1>2. Len(root) \in Nat \ {0} /\ L \in Nat \ {0} /\ Len(root) < L
  <2>1. Len(root) \in Nat \ {0} /\ L \in Nat \ {0}
    BY <1>1
  <2>2. Len(root) <= L /\ Len(root) # L
    BY <1>1
  <2> QED
    BY ONLY <2>1, <2>2
<1>3. \A n \in 1..L : Len(SubSeq(path, 1, n)) = n
  BY <1>1, SubSeqProperties, ElementOfSeq
<1>4. \A k \in 1..L : \A m \in 1..k :
         SubSeq(SubSeq(path, 1, k), 1, m) = SubSeq(path, 1, m)
  BY <1>1, SubSeqOfSubSeq
<1>5. dir = SubSeq(path, 1, L - 1) /\ Len(dir) = L - 1 /\ L - 1 \in Len(root)..L
  <2>1. L - 1 \in 1..L /\ L - 1 \in Len(root)..L
    <3> HIDE DEF L
    <3> QED
      BY <1>2
  <2>2. dir = SubSeq(path, 1, L - 1)
    BY DEF Parent, Front
  <2> QED
    BY <1>3, <2>1, <2>2
<1> HIDE DEF dir, L
<1>6. dir \in FromRoot(path)
  BY <1>5 DEF FromRoot, L
<1>7. dir \in Path /\ StartsWith(dir, root)
  BY <1>6, WayFacts
<1>8. FromRoot(dir) = {SubSeq(path, 1, n) : n \in Len(root)..L - 1}
  BY <1>1, <1>4, <1>5 DEF FromRoot
<1>9. Len(root)..L = (Len(root)..L - 1) \cup {L}
  BY <1>1, <1>5
<1>10. FromRoot(path) = FromRoot(dir) \cup {path}
  BY <1>1, <1>8, <1>9 DEF FromRoot, L
<1>11. \A p \in FromRoot(dir) : Len(p) < L
  BY <1>1, <1>3, <1>5, <1>8
<1>12. Len(dir) < L
  BY <1>1, <1>5
<1>13. \A p \in FromRoot(dir) : p # path
  BY <1>11 DEF L
<1> QED
  BY <1>7, <1>10, <1>11, <1>12, <1>13 DEF dir, L

\* Below a directory on the way comes the next one.
LEMMA NextOnWay ==
  ASSUME NEW path \in Path, StartsWith(path, root), NEW p \in FromRoot(path), p # path
  PROVE  /\ p \in FromRoot(Parent(path))
         /\ \E next \in FromRoot(path) : next \in Path /\ next # root /\ Parent(next) = p
<1>1. PICK n \in Len(root)..Len(path) : p = SubSeq(path, 1, n)
  BY DEF FromRoot
<1>2. n # Len(path)
  BY <1>1, PathsAreSequences, SubSeqFull
<1> DEFINE next == SubSeq(path, 1, n + 1)
<1>3. /\ p \in Path /\ next \in Path /\ Parent(next) = p /\ next \in FromRoot(path)
      /\ p \in FromRoot(Parent(path))
  BY <1>1, <1>2, NextOnTheWay
<1> HIDE DEF next
<1>4. StartsWith(p, root)
  BY WayFacts
<1>5. next # root
  BY <1>3, <1>4, ChildIsBelow
<1> QED
  BY <1>3, <1>5

\* The directory of a path has one name less.
LEMMA ParentLength ==
  ASSUME NEW path \in Path
  PROVE  Parent(path) = SubSeq(path, 1, Len(path) - 1) /\ Len(Parent(path)) = Len(path) - 1
<1>1. path \in Seq(STRING) /\ Len(path) \in Nat \ {0}
  BY PathsAreSequences
<1>2. \A n \in 1..Len(path) - 1 : path[n] \in STRING
  BY <1>1, ElementOfSeq
<1>3. Len(SubSeq(path, 1, Len(path) - 1)) = IF 1 <= Len(path) - 1 THEN Len(path) - 1 - 1 + 1 ELSE 0
  <2>1. Len(path) - 1 \in Int
    BY <1>1
  <2> QED
    BY <1>2, <2>1, SubSeqProperties
<1>4. Len(path) \in Nat \ {0}
  BY <1>1
<1>5. Len(SubSeq(path, 1, Len(path) - 1)) = Len(path) - 1
  <2>1. ASSUME NEW n \in Nat \ {0} PROVE (IF 1 <= n - 1 THEN n - 1 - 1 + 1 ELSE 0) = n - 1
    BY <2>1
  <2> QED
    BY <1>3, <1>4, <2>1
<1> QED
  BY <1>5 DEF Parent, Front

\* Siblings are as deep as each other, and what starts with a path no less deep.
LEMMA DepthFacts ==
  ASSUME NEW p \in Path, NEW q \in Path
  PROVE  /\ Parent(p) = Parent(q) => Len(p) = Len(q)
         /\ StartsWith(p, q) => Len(q) <= Len(p)
         /\ StartsWith(p, q) /\ StartsWith(q, p) => p = q
         /\ StartsWith(p, q) /\ p # q => StartsWith(Parent(p), q)
<1>1. /\ p \in Seq(STRING) /\ q \in Seq(STRING)
      /\ Len(p) \in Nat \ {0} /\ Len(q) \in Nat \ {0}
  BY PathsAreSequences
<1>2. \A path \in Path : Len(Parent(path)) = Len(path) - 1
  BY ParentLength
<1>3. StartsWith(p, q) => Len(q) <= Len(p) /\ q = SubSeq(p, 1, Len(q))
  BY <1>1, SubSeqFull DEF StartsWith, IsPrefix
<1>4. ASSUME StartsWith(p, q), StartsWith(q, p) PROVE p = q
  <2>1. Len(p) = Len(q)
    BY <1>1, <1>4 DEF StartsWith, IsPrefix
  <2> QED
    BY <1>1, <1>3, <1>4, <2>1, SubSeqFull
<1>5. ASSUME StartsWith(p, q), p # q PROVE StartsWith(Parent(p), q)
  <2>1. Len(q) # Len(p)
    BY <1>1, <1>3, <1>5, SubSeqFull
  <2>2. Len(q) <= Len(p) - 1
    <3>1. Len(q) \in Nat /\ Len(p) \in Nat /\ Len(q) <= Len(p)
      BY <1>1, <1>3, <1>5
    <3> QED
      BY ONLY <2>1, <3>1
  <2>3. SubSeq(Parent(p), 1, Len(q)) = SubSeq(p, 1, Len(q))
    <3>1. Parent(p) = SubSeq(p, 1, Len(p) - 1)
      BY DEF Parent, Front
    <3> QED
      BY <1>1, <2>2, <3>1, SubSeqOfSubSeq
  <2>4. SubSeq(q, 1, Len(q)) = q
    BY <1>1, SubSeqFull
  <2> QED
    BY <1>2, <1>3, <1>5, <2>2, <2>3, <2>4 DEF StartsWith, IsPrefix
<1>6. Parent(p) = Parent(q) => Len(p) = Len(q)
  BY <1>1, <1>2
<1> QED
  BY <1>3, <1>4, <1>5, <1>6

\* Being below is transitive.
LEMMA StartsTwice ==
  ASSUME NEW p \in Path, NEW q \in Path, NEW r \in Path, StartsWith(p, q), StartsWith(q, r)
  PROVE  StartsWith(p, r)
<1>1. /\ p \in Seq(STRING) /\ q \in Seq(STRING) /\ r \in Seq(STRING)
      /\ Len(p) \in Nat \ {0} /\ Len(q) \in Nat \ {0} /\ Len(r) \in Nat \ {0}
  BY PathsAreSequences
<1>2. /\ Len(r) <= Len(q) /\ SubSeq(q, 1, Len(r)) = SubSeq(r, 1, Len(r))
      /\ Len(q) <= Len(p) /\ q = SubSeq(p, 1, Len(q))
  BY <1>1, SubSeqFull DEF StartsWith, IsPrefix
<1>3. SubSeq(q, 1, Len(r)) = SubSeq(p, 1, Len(r))
  BY <1>1, <1>2, SubSeqOfSubSeq
<1>4. Len(r) <= Len(p)
  BY <1>1, <1>2
<1> QED
  BY <1>2, <1>3, <1>4 DEF StartsWith, IsPrefix

\* Of two paths that a third is below, one is below the other.
LEMMA TwoStarts ==
  ASSUME NEW p \in Path, NEW q \in Path, NEW r \in Path, StartsWith(p, q), StartsWith(p, r)
  PROVE  StartsWith(q, r) \/ StartsWith(r, q)
<1>1. /\ p \in Seq(STRING) /\ q \in Seq(STRING) /\ r \in Seq(STRING)
      /\ Len(p) \in Nat \ {0} /\ Len(q) \in Nat \ {0} /\ Len(r) \in Nat \ {0}
  BY PathsAreSequences
<1>2. /\ Len(q) <= Len(p) /\ q = SubSeq(p, 1, Len(q))
      /\ Len(r) <= Len(p) /\ r = SubSeq(p, 1, Len(r))
  BY <1>1, SubSeqFull DEF StartsWith, IsPrefix
<1>3. \A k \in 1..Len(p) : \A m \in 1..k :
         SubSeq(SubSeq(p, 1, k), 1, m) = SubSeq(p, 1, m)
  BY <1>1, SubSeqOfSubSeq
<1>4. SubSeq(q, 1, Len(q)) = q /\ SubSeq(r, 1, Len(r)) = r
  BY <1>1, SubSeqFull
<1>5. CASE Len(r) <= Len(q)
  <2>1. SubSeq(q, 1, Len(r)) = r
    BY <1>1, <1>2, <1>3, <1>5
  <2> QED
    BY <1>4, <1>5, <2>1 DEF StartsWith, IsPrefix
<1>6. CASE Len(q) <= Len(r)
  <2>1. SubSeq(r, 1, Len(q)) = q
    BY <1>1, <1>2, <1>3, <1>6
  <2> QED
    BY <1>4, <1>6, <2>1 DEF StartsWith, IsPrefix
<1> QED
  BY <1>1, <1>5, <1>6

\* An entry is below its directory.
LEMMA ChildStartsWithParent ==
  ASSUME NEW p \in Path, Parent(p) \in Path
  PROVE  StartsWith(p, Parent(p))
<1>1. p \in Seq(STRING) /\ Len(p) \in Nat \ {0}
  BY PathsAreSequences
<1>2. Parent(p) = SubSeq(p, 1, Len(p) - 1) /\ Len(Parent(p)) = Len(p) - 1
  BY ParentLength
<1>3. SubSeq(Parent(p), 1, Len(Parent(p))) = Parent(p)
  BY PathsAreSequences, SubSeqFull
<1>4. Len(Parent(p)) <= Len(p)
  BY <1>1, <1>2
<1> QED
  BY <1>2, <1>3, <1>4 DEF StartsWith, IsPrefix

\* What is strictly above a directory on the way to a path is strictly above the path.
LEMMA AboveFacts ==
  ASSUME NEW path \in Path, StartsWith(path, root), NEW p \in FromRoot(path)
  PROVE  /\ p \in Path /\ StartsWith(p, root) /\ p \in FromRoot(p)
         /\ FromRoot(p) \subseteq FromRoot(path)
         /\ \A q \in FromRoot(p) \ {p} : q \in FromRoot(path) \ {path}
         /\ p # root => FromRoot(Parent(p)) = FromRoot(p) \ {p} /\ Parent(p) \in FromRoot(p) \ {p}
<1>1. p \in Path /\ StartsWith(p, root) /\ StartsWith(path, p) /\ FromRoot(p) \subseteq FromRoot(path)
  BY WayFacts
<1>2. \A q \in FromRoot(p) : q \in Path /\ StartsWith(p, q)
  BY <1>1, WayFacts
<1>3. ASSUME NEW q \in FromRoot(p) \ {p}, q = path PROVE FALSE
  BY <1>1, <1>2, <1>3, DepthFacts
<1>4. ASSUME p # root
      PROVE  FromRoot(Parent(p)) = FromRoot(p) \ {p} /\ Parent(p) \in FromRoot(p) \ {p}
  <2>1. /\ Parent(p) \in Path /\ StartsWith(Parent(p), root)
        /\ FromRoot(p) = FromRoot(Parent(p)) \cup {p}
        /\ \A q \in FromRoot(Parent(p)) : q # p
    BY <1>1, <1>4, ParentFacts
  <2>2. Parent(p) \in FromRoot(Parent(p))
    BY <2>1, WayFacts
  <2> QED
    BY <2>1, <2>2
<1>5. p \in FromRoot(p)
  BY <1>1, WayFacts
<1> QED
  BY <1>1, <1>3, <1>4, <1>5

\* Nothing is above the root.
LEMMA RootIsFirst == FromRoot(root) = {root}
<1>1. root \in Path /\ root \in FromRoot(root)
  BY RootAssumption, StartsWithSelf, WayFacts
<1>2. ASSUME NEW p \in FromRoot(root) PROVE p = root
  BY <1>1, <1>2, RootAssumption, StartsWithSelf, WayFacts, DepthFacts
<1> QED
  BY <1>1, <1>2

\* A path is what its directory and its name make it.
LEMMA PathOfParts ==
  ASSUME NEW path \in Path
  PROVE  Append(Parent(path), FileName(path)) = path
<1>1. path \in Seq(STRING) /\ Len(path) \in Nat \ {0}
  BY PathsAreSequences
<1>2. Parent(path) = SubSeq(path, 1, Len(path) - 1) /\ Len(Parent(path)) = Len(path) - 1
      /\ FileName(path) = path[Len(path)]
  BY ParentLength DEF FileName, Last
<1>3. Parent(path) \in Seq(STRING) /\ \A i \in 1..Len(path) - 1 : Parent(path)[i] = path[i]
  BY <1>1, <1>2
<1>4. /\ Append(Parent(path), FileName(path)) \in Seq(STRING)
      /\ Len(Append(Parent(path), FileName(path))) = Len(path)
      /\ \A i \in 1..Len(path) : Append(Parent(path), FileName(path))[i] = path[i]
  BY <1>1, <1>2, <1>3
<1> QED
  BY <1>1, <1>4, SeqEqual
=============================================================================
