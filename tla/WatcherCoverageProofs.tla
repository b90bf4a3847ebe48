----------------------- MODULE WatcherCoverageProofs -----------------------
(***************************************************************************)
(* Proofs that the watcher loses no directory and no match but for the two *)
(* gaps that the history variables record: at rest, what a fresh walk      *)
(* would watch is watched, and what it would mark is marked.               *)
(*                                                                         *)
(* The invariant, NothingIsLost, says of every path that a walk would get  *)
(* to, at any moment: everything is to be rescanned; or the path or a      *)
(* directory above it is on a list of the program or announced by an event *)
(* on its way, and all above that is watched or about to be; or all of the *)
(* way is watched or about to be, and a match is marked or about to be.    *)
(* At rest there are no lists and no events, so only the last is left.     *)
(***************************************************************************)
EXTENDS WatcherProofs

-----------------------------------------------------------------------------
\* What is assumed of the others.

\* The root stays where it is, and so does what the rules say of it.  (A watcher
\* whose root goes is to end; LostRootEndsProgram is about that.)
RootStays == tree'[root] = tree[root] /\ Verdict(root)' = Verdict(root)

\* No marker is taken from beside an entry that stays: the program does not undo
\* what a marker made it do.
MarkersStay ==
    \A path, marker \in Path :
        /\ Exists(path) /\ tree'[path] = tree[path]
        /\ Parent(marker) = Parent(path) /\ IsTrigger(TheRules, FileName(marker))
        /\ Resolves(marker)
        => Resolves(marker)'

Considerate == RootStays /\ MarkersStay

-----------------------------------------------------------------------------
\* What others can do to the way to a path.

\* Only a marker that comes changes what the rules say of an entry that stays.
LEMMA VerdictSteady ==
  ASSUME MarkersStay, NEW path \in Path, Exists(path), tree'[path] = tree[path],
         \A marker \in Path :
            Parent(marker) = Parent(path) /\ IsTrigger(TheRules, FileName(marker))
            => tree'[marker] \in {tree[marker], NoInode}
  PROVE  Verdict(path)' = Verdict(path)
<1> DEFINE old == Candidate(path)
           new == Candidate(path)'
           Beside(marker) == Parent(marker) = Parent(path)
<1>1. new.name = old.name /\ new.is_dir = old.is_dir
  BY DEF Candidate, IsDir, HasKind, Exists
<1>2. old.siblings = {FileName(p) : p \in {q \in Path : Beside(q) /\ Resolves(q)}}
  BY DEF Candidate
<1>3. new.siblings = {FileName(p) : p \in {q \in Path : Beside(q) /\ Resolves(q)'}}
  BY DEF Candidate
<1>4. ASSUME NEW p \in Path, Beside(p), IsTrigger(TheRules, FileName(p))
      PROVE  Resolves(p)' <=> Resolves(p)
  <2>1. Resolves(p) => Resolves(p)'
    BY <1>4 DEF MarkersStay
  <2>2. Resolves(p)' => Resolves(p)
    BY <1>4 DEF Resolves, HasKind, Exists
  <2> QED
    BY <2>1, <2>2
<1> HIDE DEF old, new, Beside
<1>5. \A name : IsTrigger(TheRules, name) => (name \in new.siblings <=> name \in old.siblings)
  BY <1>2, <1>3, <1>4
<1>6. \A i \in DOMAIN TheRules : Matches(TheRules[i], new) <=> Matches(TheRules[i], old)
  <2> SUFFICES ASSUME NEW i \in DOMAIN TheRules
               PROVE  Matches(TheRules[i], new) <=> Matches(TheRules[i], old)
    OBVIOUS
  <2>1. TheRules[i].kind = "marked_build_dir" =>
           \A marker \in TheRules[i].markers : IsTrigger(TheRules, marker)
    BY DEF IsTrigger, TriggersOf
  <2> QED
    BY <1>1, <1>5, <2>1 DEF Matches
<1>7. Hits(TheRules, new) = Hits(TheRules, old)
  BY <1>6 DEF Hits
<1>8. Evaluate(TheRules, new) = Evaluate(TheRules, old)
  BY <1>7 DEF Evaluate
<1> QED
  BY <1>8 DEF Verdict, old, new

\* There is another entry at the path than before.
Arrives(path) == tree'[path] \notin {NoInode, tree[path]}

\* The queue tells of a new entry, if its directory is watched.
ArrivalIsTold(path) ==
    ParentWd(path) # NoWd =>
        \/ \E mask \in {"CREATE", "MOVED_TO"} :
              Contains(queue', Event(mask, ParentWd(path), FileName(path)))
        \/ Contains(queue', OverflowEvent)

\* A change brings at most one entry with what is below it, and the queue tells.
LEMMA OneArrives ==
  ASSUME TypeOK, NoHardLinks, TreeNext, NEW path \in Path, Arrives(path)
  PROVE  \E top \in Path :
            /\ Arrives(top) /\ ArrivalIsTold(top)
            /\ \A p \in Path : Arrives(p) => StartsWith(p, top)
            /\ \A p, q \in Path :
                  /\ Arrives(p) /\ StartsWith(p, q) /\ StartsWith(q, top)
                  /\ tree'[q] # NoInode
                  => Arrives(q)
<1> USE DEF TypeOK, TreeTypeOK
<1>1. \A p \in Path : ParentWd(p) \in Wd \cup {NoWd}
  BY WdOfType DEF ParentWd
<1>2. ASSUME NEW top \in Path, NEW inode \in Inode, Create(top, inode)
      PROVE  /\ Arrives(top) /\ ArrivalIsTold(top)
             /\ \A p \in Path : Arrives(p) => p = top
  <2>1. tree' = [tree EXCEPT ![top] = inode] /\ tree[top] = NoInode
    BY <1>2 DEF Create, Exists
  <2>2. ArrivalIsTold(top)
    <3>1. queue' = Notify(queue, "CREATE", ParentWd(top), FileName(top))
      BY <1>2 DEF Create
    <3> QED
      BY <1>1, <3>1, NotifyTells DEF ArrivalIsTold, Masks
  <2> QED
    BY <2>1, <2>2, NoInodeAssumption DEF Arrives
<1>3. ASSUME NEW p \in Deletable, Delete(p) PROVE FALSE
  BY <1>3 DEF Delete, Arrives
<1>4. ASSUME NEW inode \in Inode, Release(inode) PROVE FALSE
  BY <1>4 DEF Release, Arrives
<1>5. ASSUME NEW move \in Renamable, Rename(move[1], move[2])
      PROVE  LET top == move[2]
             IN  /\ top \in Path /\ Arrives(top) /\ ArrivalIsTold(top)
                 /\ \A p \in Path : Arrives(p) => StartsWith(p, top)
                 /\ \A p \in Path : StartsWith(p, top) /\ tree'[p] # NoInode => Arrives(p)
  <2> DEFINE from == move[1]
             to == move[2]
             arrived == Notify(queue, "MOVED_TO", ParentWd(to), FileName(to))
             moved == Notify(arrived, "MOVE_SELF", WdOf(tree[from]), NoName)
  <2>1. from \in Path /\ to \in Path /\ from # to /\ ~StartsWith(to, from)
    BY <1>5, ChangesAssumption, StartsWithSelf DEF Rename, CanRename
  <2>2. \A p \in Path :
           tree'[p] = IF StartsWith(p, to) /\ Rebase(p, to, from) \in Path
                      THEN tree[Rebase(p, to, from)]
                      ELSE IF StartsWith(p, to) \/ StartsWith(p, from) THEN NoInode
                      ELSE tree[p]
    BY <1>5 DEF Rename, TreeAfterRename
  <2>3. tree'[to] = tree[from] /\ tree[from] # NoInode
    BY <1>5, <2>1, <2>2, StartsWithSelf, RebaseOfSelf DEF Rename, CanRename, Exists
  <2>4. ArrivalIsTold(to)
    <3>1. arrived \in Seq(Events) /\
          (ParentWd(to) # NoWd => \/ Contains(arrived, Event("MOVED_TO", ParentWd(to), FileName(to)))
                                  \/ Contains(arrived, OverflowEvent))
      BY <1>1, <2>1, NotifyType, NotifyTells DEF Masks
    <3>2. moved \in Seq(Events) /\ \A e : Contains(arrived, e) => Contains(moved, e)
      <4> HIDE DEF arrived
      <4> QED
        BY <3>1, WdOfType, NotifyType, NotifyTells DEF Masks
    <3>3. \/ queue' = moved
          \/ queue' = Notify(moved, "DELETE_SELF", WdOf(tree[to]), NoName)
      BY <1>5 DEF Rename, Unlink, Drop
    <3> HIDE DEF arrived, moved
    <3>4. \A e : Contains(moved, e) => Contains(queue', e)
      BY <3>2, <3>3, WdOfType, NotifyTells DEF Masks
    <3> QED
      BY <3>1, <3>2, <3>4 DEF ArrivalIsTold
  <2>5. ASSUME NEW p \in Path, StartsWith(p, to), tree'[p] # NoInode
        PROVE  Arrives(p)
    <3>1. tree'[p] = tree[Rebase(p, to, from)] /\ Rebase(p, to, from) \in Path
      BY <2>2, <2>5
    <3>2. Rebase(p, to, from) # p
      BY <2>1, <2>5, RebaseMoves
    <3>3. tree'[p] # tree[p]
      BY <2>5, <3>1, <3>2 DEF NoHardLinks, Exists
    <3> QED
      BY <2>5, <3>3 DEF Arrives
  <2>6. \A p \in Path : Arrives(p) => StartsWith(p, to)
    BY <2>2 DEF Arrives
  <2>7. Arrives(to)
    BY <2>1, <2>3, <2>5, StartsWithSelf
  <2> QED
    BY <2>1, <2>4, <2>5, <2>6, <2>7
<1>6. CASE \E top \in Path, inode \in Inode : Create(top, inode)
  <2>1. PICK top \in Path : /\ Arrives(top) /\ ArrivalIsTold(top)
                            /\ \A p \in Path : Arrives(p) => p = top
    BY <1>2, <1>6
  <2> QED
    BY <2>1, StartsWithSelf, DepthFacts
<1>7. CASE \E move \in Renamable : Rename(move[1], move[2])
  BY <1>5, <1>7
<1> QED
  BY <1>3, <1>4, <1>6, <1>7 DEF TreeNext

\* The entry stays, and the rules say the same of it.
Steady(path) == Exists(path) /\ tree'[path] = tree[path] /\ Verdict(path)' = Verdict(path)

\* If a path can be reached after a change, then its way was not touched, or an entry
\* came below a part of it that was not touched: the next directory, or a marker beside
\* it.
LEMMA WayAfterChange ==
  ASSUME TypeOK, NoHardLinks, TreeNext, Considerate,
         NEW path \in Path, StartsWith(path, root), \A p \in FromRoot(path) : tree'[p] # NoInode
  PROVE  \/ \A p \in FromRoot(path) : Steady(p)
         \/ \E p \in FromRoot(path), top \in Path :
               /\ p # root /\ \A q \in FromRoot(Parent(p)) : Steady(q)
               /\ Parent(top) = Parent(p)
               /\ top = p \/ IsTrigger(TheRules, FileName(top))
               /\ Arrives(top) /\ ArrivalIsTold(top)
<1> DEFINE Markers(p) == {m \in Path : /\ Parent(m) = Parent(p)
                                       /\ IsTrigger(TheRules, FileName(m))}
<1>1. \A p \in FromRoot(path) : p \in Path /\ StartsWith(p, root) /\ StartsWith(path, p)
                                /\ FromRoot(p) \subseteq FromRoot(path)
  BY WayFacts
<1>2. ASSUME NEW p \in FromRoot(path), ~Arrives(p), p # root => \A m \in Markers(p) : ~Arrives(m)
      PROVE  Steady(p)
  <2>1. tree'[p] = tree[p] /\ Exists(p)
    BY <1>2 DEF Arrives, Exists
  <2>2. CASE p = root
    BY <2>1, <2>2 DEF Considerate, RootStays, Steady
  <2>3. CASE p # root
    <3>1. Verdict(p)' = Verdict(p)
      BY <1>1, <1>2, <2>1, <2>3, VerdictSteady DEF Considerate, Arrives
    <3> QED
      BY <2>1, <3>1 DEF Steady
  <2> QED
    BY <2>2, <2>3
<1>3. ~Arrives(root)
  BY DEF Considerate, RootStays, Arrives
<1>4. CASE \A p \in FromRoot(path) : ~Arrives(p) /\ (p # root => \A m \in Markers(p) : ~Arrives(m))
  BY <1>2, <1>4
<1>5. ASSUME NEW p \in FromRoot(path), NEW x \in Path, p # root, Arrives(x),
             x = p \/ (x \in Markers(p) /\ \A q \in FromRoot(path) : ~Arrives(q))
      PROVE  \E q \in FromRoot(path), top \in Path :
                /\ q # root /\ \A r \in FromRoot(Parent(q)) : Steady(r)
                /\ Parent(top) = Parent(q)
                /\ top = q \/ IsTrigger(TheRules, FileName(top))
                /\ Arrives(top) /\ ArrivalIsTold(top)
  <2>1. PICK top \in Path :
           /\ Arrives(top) /\ ArrivalIsTold(top)
           /\ \A y \in Path : Arrives(y) => StartsWith(y, top)
           /\ \A y, z \in Path :
                 /\ Arrives(y) /\ StartsWith(y, z) /\ StartsWith(z, top)
                 /\ tree'[z] # NoInode
                 => Arrives(z)
    BY <1>5, OneArrives
  <2>2. ASSUME NEW q \in FromRoot(path), Len(q) < Len(top) PROVE Steady(q)
    <3>1. \A y \in Path : Len(y) = Len(q) => ~Arrives(y)
      <4> SUFFICES ASSUME NEW y \in Path, Len(y) = Len(q), Arrives(y) PROVE FALSE
        OBVIOUS
      <4>1. Len(top) <= Len(y)
        BY <2>1, DepthFacts
      <4>2. Len(top) \in Nat /\ Len(y) \in Nat
        BY PathsAreSequences
      <4> QED
        BY <2>2, <4>1, <4>2
    <3>2. \A m \in Markers(q) : m \in Path /\ Len(m) = Len(q)
      BY <1>1, DepthFacts
    <3> HIDE DEF Markers
    <3> QED
      BY <1>1, <1>2, <3>1, <3>2
  <2>3. p \in Path /\ StartsWith(p, root) /\ Parent(p) \in FromRoot(path)
        /\ Parent(p) \in Path /\ StartsWith(Parent(p), root)
    BY <1>1, <1>5, ParentFacts, WayFacts
  <2>4. CASE x = p
    <3>1. StartsWith(p, top)
      BY <1>5, <2>1, <2>4
    <3>2. ~StartsWith(root, top)
      <4>1. StartsWith(root, top) => Arrives(root)
        BY <1>5, <2>1, <2>3, <2>4, RootAssumption, WayFacts
      <4> QED
        BY <1>3, <4>1
    <3>3. StartsWith(top, root) /\ top \in FromRoot(path) /\ top # root
      <4>1. StartsWith(top, root) \/ StartsWith(root, top)
        BY <2>3, <3>1, RootAssumption, TwoStarts
      <4>2. StartsWith(path, top)
        BY <1>1, <3>1, StartsTwice
      <4> QED
        BY <3>2, <4>1, <4>2, StartIsOnTheWay, StartsWithSelf
    <3>4. \A r \in FromRoot(Parent(top)) : r \in FromRoot(path) /\ Len(r) < Len(top)
      BY <1>1, <3>3, ParentFacts
    <3> QED
      BY <2>1, <2>2, <3>3, <3>4
  <2>5. CASE x \in Markers(p) /\ \A q \in FromRoot(path) : ~Arrives(q)
    <3>1. StartsWith(x, top)
      BY <1>5, <2>1
    <3>2. x = top
      <4> SUFFICES ASSUME x # top PROVE FALSE
        OBVIOUS
      <4>1. StartsWith(Parent(x), top) /\ Parent(x) = Parent(p)
        BY <2>5, <3>1, DepthFacts
      <4>2. StartsWith(x, Parent(p))
        BY <2>3, <4>1, ChildStartsWithParent
      <4>3. Arrives(Parent(p))
        BY <1>5, <2>1, <2>3, <4>1, <4>2
      <4> QED
        BY <2>3, <2>5, <4>3
    <3>3. \A r \in FromRoot(Parent(p)) : r \in FromRoot(path) /\ Len(r) < Len(top)
      <4>1. Len(p) = Len(top)
        BY <2>3, <2>5, <3>2, DepthFacts
      <4> QED
        BY <1>1, <1>5, <2>3, <4>1, ParentFacts
    <3> QED
      BY <1>5, <2>1, <2>2, <2>3, <2>5, <3>2, <3>3
  <2> QED
    BY <1>5, <2>4, <2>5
<1>6. CASE \E p \in FromRoot(path) : Arrives(p)
  BY <1>1, <1>3, <1>5, <1>6
<1>7. CASE /\ \A p \in FromRoot(path) : ~Arrives(p)
           /\ \E p \in FromRoot(path) : p # root /\ \E m \in Markers(p) : Arrives(m)
  BY <1>5, <1>7
<1> QED
  BY <1>4, <1>6, <1>7

-----------------------------------------------------------------------------
\* What the program knows of a path.

\* The event is queued, or read and not yet handled.
Heard(event) == Contains(queue, event) \/ Contains(batch, event)

\* Everything is to be rescanned, now or when the overflow is handled.
AllIsDue == needs_rescan \/ Heard(OverflowEvent)

\* The event will have the program look at the path: it names it, or a marker that is
\* beside it.
Announces(event, path) ==
    /\ event.mask \in {"CREATE", "MOVED_TO"}
    /\ event.wd \in Wd /\ watch[event.wd] = tree[Parent(path)]
    /\ event.name = FileName(path) \/ IsTrigger(TheRules, event.name)

Told(path) == path # root /\ \E event \in Events : Heard(event) /\ Announces(event, path)

\* A list of the program holds the path, or an event announces it.
Due(path) == path \in ToSet(stack) \cup ToSet(pending) \cup scopes \/ Told(path)

\* The directory is watched or about to be.
Linked(path) == Watched(path) \/ path \in ToSet(watchers)

LinkedTo(path) == \A p \in FromRoot(path) : Linked(p)

\* The program will come by: a directory on the way is due, and all above it are linked,
\* so that what announces it is understood.
Coming(path) ==
    \/ AllIsDue
    \/ \E p \in FromRoot(path) : Due(p) /\ \A q \in FromRoot(p) \ {p} : Linked(q)

\* OutOfSight, at any moment: what add_watch skipped counts when it is not to be added again.
Hidden(path) ==
    \/ \E p \in FromRoot(path) \ {path} : tree[p] \in overlooked
    \/ \E p \in FromRoot(path) : tree[p] \in shielded /\ p \notin ToSet(watchers)

\* What the program is to do about a path, and that it is done or on its lists.
MustMark(path) == MustBeMarked(path) /\ ~DryRun
Wanted(path) == Traversable(path) \/ MustMark(path)

Got(path) ==
    /\ Traversable(path) => LinkedTo(path)
    /\ MustMark(path) => path \in ToSet(matches) \/ tree[path] \in marked

Kept(path) == Wanted(path) => Hidden(path) \/ Coming(path) \/ Got(path)

NothingIsLost == pc \notin Exited => \A path \in Path : Kept(path)

-----------------------------------------------------------------------------

\* What is wanted exists, and a walk gets through everything above it.
LEMMA WantedFacts ==
  ASSUME NEW path \in Path, Wanted(path)
  PROVE  /\ StartsWith(path, root) /\ Exists(path)
         /\ \A p \in FromRoot(path) \ {path} : Traversable(p)
         /\ \A p \in FromRoot(path) : p \in Path /\ Exists(p)
<1>1. StartsWith(path, root) /\ Exists(path)
  <2>1. Traversable(path) => StartsWith(path, root) /\ Exists(path)
    <3>1. Traversable(path) => path \in FromRoot(path)
      BY WayFacts DEF Traversable
    <3> QED
      BY <3>1 DEF Traversable, Readable, IsDir, HasKind
  <2> QED
    BY <2>1 DEF Wanted, MustMark, MustBeMarked, IsMatch, Resolves
<1>2. ASSUME NEW p \in FromRoot(path) \ {path} PROVE Traversable(p)
  <2>1. p \in FromRoot(Parent(path)) /\ path # root
    <3>1. path # root
      <4>1. StartsWith(p, root) /\ StartsWith(path, p) /\ p \in Path
        BY <1>1, <1>2, WayFacts
      <4> QED
        BY <1>2, <4>1, RootAssumption, DepthFacts
    <3> QED
      BY <1>1, <1>2, <3>1, ParentFacts
  <2>2. \A q \in FromRoot(p) : Readable(q) /\ ~Verdict(q).skip_descendants
    <3>1. CASE Traversable(path)
      <4>1. FromRoot(p) \subseteq FromRoot(path)
        BY <1>1, <1>2, WayFacts
      <4> QED
        BY <3>1, <4>1 DEF Traversable
    <3>2. CASE MustMark(path)
      <4>1. Traversable(Parent(path))
        BY <2>1, <3>2 DEF MustMark, MustBeMarked, IsMatch
      <4>2. FromRoot(p) \subseteq FromRoot(Parent(path))
        BY <1>1, <2>1, ParentFacts, WayFacts
      <4> QED
        BY <4>1, <4>2 DEF Traversable
    <3> QED
      BY <3>1, <3>2 DEF Wanted
  <2> QED
    BY <1>1, <1>2, <2>2, WayFacts DEF Traversable
<1>3. ASSUME NEW p \in FromRoot(path) PROVE p \in Path /\ Exists(p)
  <2>1. p \in Path /\ StartsWith(p, root)
    BY <1>1, WayFacts
  <2>2. CASE p = path
    BY <1>1, <2>2
  <2>3. CASE p # path
    <3>1. Traversable(p) /\ p \in FromRoot(p)
      BY <1>2, <2>1, <2>3, WayFacts
    <3> QED
      BY <2>1, <3>1 DEF Traversable, Readable, IsDir, HasKind
  <2> QED
    BY <2>2, <2>3
<1> QED
  BY <1>1, <1>2, <1>3

\* What a walk gets to is a directory, and the walk gets to all of the way there.
LEMMA TraversableFacts ==
  ASSUME NEW path \in Path, Traversable(path)
  PROVE  /\ StartsWith(path, root) /\ Readable(path) /\ IsDir(path) /\ Exists(path)
         /\ Resolves(path) /\ ~Verdict(path).skip_descendants
         /\ \A p \in FromRoot(path) : Traversable(p)
<1>1. StartsWith(path, root) /\ path \in FromRoot(path)
  BY WayFacts DEF Traversable
<1>2. Readable(path) /\ ~Verdict(path).skip_descendants
  BY <1>1 DEF Traversable
<1>3. \A p \in FromRoot(path) : Traversable(p)
  <2> SUFFICES ASSUME NEW p \in FromRoot(path) PROVE Traversable(p)
    OBVIOUS
  <2>1. StartsWith(p, root) /\ FromRoot(p) \subseteq FromRoot(path)
    BY <1>1, WayFacts
  <2> QED
    BY <2>1 DEF Traversable
<1> QED
  BY <1>1, <1>2, <1>3 DEF Readable, IsDir, Resolves, HasKind

\* What a walk would do depends on the tree only.
LEMMA TreeDecides ==
  ASSUME UNCHANGED tree, NEW path
  PROVE  /\ Verdict(path)' = Verdict(path) /\ Readable(path)' = Readable(path)
         /\ Resolves(path)' = Resolves(path) /\ Exists(path)' = Exists(path)
         /\ Traversable(path)' = Traversable(path) /\ MustMark(path)' = MustMark(path)
         /\ Wanted(path)' = Wanted(path)
<1>1. \A p : /\ Verdict(p)' = Verdict(p) /\ Readable(p)' = Readable(p)
             /\ Resolves(p)' = Resolves(p) /\ Exists(p)' = Exists(p)
  BY DEF Verdict, Candidate, Readable, Resolves, IsDir, HasKind, Exists
<1>2. \A p : Traversable(p)' = Traversable(p)
  BY <1>1 DEF Traversable, FromRoot
<1>3. MustMark(path)' = MustMark(path)
  BY <1>1, <1>2 DEF MustMark, MustBeMarked, IsMatch
<1> QED
  BY <1>1, <1>2, <1>3 DEF Wanted

\* A step that leaves the tree alone keeps a path if it keeps what it is due to.
LEMMA StillKept ==
  ASSUME UNCHANGED tree, NEW path \in Path, Kept(path),
         AllIsDue => AllIsDue',
         Wanted(path) => \A p \in FromRoot(path) :
            tree[p] \in overlooked /\ p # path => tree[p] \in overlooked',
         Wanted(path) => \A p \in FromRoot(path) :
            tree[p] \in shielded /\ p \notin ToSet(watchers)
            => tree[p] \in shielded' /\ p \notin ToSet(watchers'),
         Wanted(path) => \A p \in FromRoot(path) : 
            Traversable(p) /\ Linked(p) => Linked(p)' \/ Hidden(path)',
         Wanted(path) => \A p \in FromRoot(path) :
            Due(p) /\ (\A q \in FromRoot(p) \ {p} : Traversable(q) /\ Linked(q))
            => Due(p)' \/ Coming(path)' \/ Got(path)',
         MustMark(path) /\ path \in ToSet(matches)
            => path \in ToSet(matches') \/ tree[path] \in marked',
         tree[path] \in marked => tree[path] \in marked'
  PROVE  Kept(path)'
<1> SUFFICES ASSUME Wanted(path) PROVE Hidden(path)' \/ Coming(path)' \/ Got(path)'
  BY TreeDecides DEF Kept
<1>1. /\ \A p : FromRoot(p)' = FromRoot(p)
      /\ StartsWith(path, root)
      /\ \A p \in FromRoot(path) \ {path} : Traversable(p)
  BY WantedFacts DEF FromRoot
<1>2. CASE Hidden(path)
  BY <1>1, <1>2 DEF Hidden
<1>3. CASE AllIsDue
  BY <1>3 DEF Coming
<1>4. ASSUME NEW p \in FromRoot(path), Due(p), \A q \in FromRoot(p) \ {p} : Linked(q)
      PROVE  Hidden(path)' \/ Coming(path)' \/ Got(path)'
  <2>1. \A q \in FromRoot(p) \ {p} : q \in FromRoot(path) \ {path}
    BY <1>1, AboveFacts
  <2>2. \A q \in FromRoot(p) \ {p} : Traversable(q) /\ Linked(q)
    BY <1>1, <1>4, <2>1
  <2>3. Hidden(path)' \/ \A q \in FromRoot(p) \ {p} : Linked(q)'
    BY <2>1, <2>2
  <2>4. Due(p)' \/ Coming(path)' \/ Got(path)'
    BY <1>4, <2>2
  <2>5. Due(p)' /\ (\A q \in FromRoot(p) \ {p} : Linked(q)') => Coming(path)'
    BY <1>1 DEF Coming
  <2> QED
    BY <2>3, <2>4, <2>5
<1>5. CASE Got(path)
  <2>1. Traversable(path) => Hidden(path)' \/ LinkedTo(path)'
    BY <1>1, <1>5, TraversableFacts DEF Got, LinkedTo
  <2>2. MustMark(path) => path \in ToSet(matches') \/ tree[path] \in marked'
    BY <1>5 DEF Got
  <2> QED
    BY <2>1, <2>2, TreeDecides DEF Got
<1> QED
  BY <1>2, <1>3, <1>4, <1>5 DEF Kept, Coming

-----------------------------------------------------------------------------
\* The steps of the program.

\* What is proved of every state already.
Sane == TypeOK /\ NoHardLinks /\ RegistryInverse /\ NoticeIInv /\ OrphanIInv

\* Where neither tree nor watches change, watched paths stay watched, and what was
\* announced is so until the event is handled.
LEMMA SameWatches ==
  ASSUME UNCHANGED <<tree, watch, by_path>>, NEW path \in Path
  PROVE  /\ Watched(path)' = Watched(path)
         /\ \A event : Announces(event, path)' = Announces(event, path)
         /\ (\A event \in Events : Heard(event) => Heard(event)') /\ Told(path) => Told(path)'
         /\ (\A event : Heard(event)' = Heard(event)) => Told(path)' = Told(path)
<1>1. Watched(path)' = Watched(path)
  BY DEF Watched, contains_path
<1>2. \A event : Announces(event, path)' = Announces(event, path)
  BY DEF Announces
<1> QED
  BY <1>1, <1>2 DEF Told

\* A step that leaves the tree, the watches and the lists of the walk alone, and that
\* forgets nothing of what is due: an event that it handles announced no entry.
LEMMA NothingForgotten ==
  ASSUME UNCHANGED <<tree, marked, watch, by_path, matches, watchers, history>>,
         ToSet(stack) \cup ToSet(pending) \cup scopes
            \subseteq ToSet(stack') \cup ToSet(pending') \cup scopes',
         needs_rescan => needs_rescan',
         \A event : Heard(event) =>
            \/ Heard(event)'
            \/ /\ event.mask \notin {"CREATE", "MOVED_TO"}
               /\ event = OverflowEvent => needs_rescan',
         NEW path \in Path, Kept(path)
  PROVE  Kept(path)'
<1> USE DEF history
<1>1. AllIsDue => AllIsDue'
  BY DEF AllIsDue
<1>2. \A p \in Path : Watched(p)' = Watched(p) /\ \A event : Announces(event, p)' = Announces(event, p)
  BY SameWatches
<1>3. \A p \in Path : Told(p) => Told(p)'
  BY <1>2 DEF Told, Announces
<1>4. \A p \in Path : Linked(p)' = Linked(p) /\ (Due(p) => Due(p)')
  BY <1>2, <1>3 DEF Linked, Due
<1>5. Wanted(path) => \A p \in FromRoot(path) : p \in Path
  BY WantedFacts
<1> QED
  BY <1>1, <1>4, <1>5, StillKept

\* What a visit adds to the lists of the walk.
LEMMA VisitLists ==
  ASSUME TypeOK, discover_watch_targets
  PROVE  LET dir == Last(stack)
         IN  /\ dir \in Path
             /\ \A p \in ToSet(stack) : p = dir \/ p \in ToSet(stack')
             /\ \A p \in Listing(dir) : IsDir(p) => p \in ToSet(stack')
             /\ ToSet(matches) \subseteq ToSet(matches')
             /\ ToSet(DirMatch(dir)) \subseteq ToSet(matches')
             /\ FileMatches(dir) \subseteq ToSet(matches')
             /\ ToSet(watchers) \subseteq ToSet(watchers')
             /\ ToSet(watchers') \subseteq ToSet(watchers) \cup {dir}
             /\ ~Skipped(dir) => dir \in ToSet(watchers')
             /\ overlooked \ {tree[dir]} \subseteq overlooked'
<1> DEFINE dir == Last(stack)
           subdirs == {c \in Listing(dir) : IsDir(c)}
           found == FileMatches(dir)
<1>1. stack \in Seq(Path) /\ matches \in Seq(Path) /\ watchers \in Seq(Path) /\ stack # <<>>
  BY DEF TypeOK, WalkTypeOK, discover_watch_targets, Visit
<1>2. dir \in Path /\ Front(stack) \in Seq(Path) /\ DirMatch(dir) \in Seq(Path)
      /\ \A p \in ToSet(stack) : p = dir \/ p \in ToSet(Front(stack))
  <2>1. dir \in Path /\ Front(stack) \in Seq(Path) /\ DirMatch(dir) \in Seq(Path)
    BY <1>1 DEF Last, Front, DirMatch
  <2>2. ASSUME NEW n \in DOMAIN stack PROVE stack[n] = dir \/ stack[n] \in ToSet(Front(stack))
    <3>1. CASE n = Len(stack)
      BY <3>1 DEF Last
    <3>2. CASE n # Len(stack)
      <4>1. n \in DOMAIN Front(stack) /\ Front(stack)[n] = stack[n]
        BY <1>1, <3>2 DEF Front
      <4> QED
        BY <4>1 DEF ToSet
    <3> QED
      BY <3>1, <3>2
  <2> QED
    BY <2>1, <2>2 DEF ToSet
<1>3. subdirs \in SUBSET Path /\ found \in SUBSET Path
  BY DEF Listing, Children, FileMatches
<1>4. PICK dirs \in SetToSeqs(subdirs) : stack' = Front(stack) \o dirs
  BY DEF discover_watch_targets, Visit
<1>5. PICK files \in SetToSeqs(found) : matches' = matches \o DirMatch(dir) \o files
  BY DEF discover_watch_targets, Visit
<1>6. IF ~Skipped(dir)
      THEN watchers' = Append(watchers, dir) /\ overlooked' = overlooked \ {tree[dir]}
      ELSE UNCHANGED <<watchers, overlooked>>
  BY DEF discover_watch_targets, Visit
<1> DEFINE listed == \A p \in Listing(dir) : IsDir(p) => p \in ToSet(stack')
<1> HIDE DEF dir, found, listed
<1>7. \A s, t \in Seq(Path) : ToSet(s) \subseteq ToSet(s \o t) /\ ToSet(t) \subseteq ToSet(s \o t)
  <2> SUFFICES ASSUME NEW s \in Seq(Path), NEW t \in Seq(Path)
               PROVE  /\ \A n \in DOMAIN s : s[n] \in ToSet(s \o t)
                      /\ \A n \in DOMAIN t : t[n] \in ToSet(s \o t)
    BY DEF ToSet
  <2>1. ASSUME NEW n \in DOMAIN s PROVE s[n] \in ToSet(s \o t)
    <3>1. n \in DOMAIN (s \o t) /\ (s \o t)[n] = s[n]
      BY ConcatProperties
    <3> QED
      BY <3>1 DEF ToSet
  <2>2. ASSUME NEW n \in DOMAIN t PROVE t[n] \in ToSet(s \o t)
    <3>1. Len(s) + n \in DOMAIN (s \o t) /\ (s \o t)[Len(s) + n] = t[n]
      BY ConcatProperties
    <3> QED
      BY <3>1 DEF ToSet
  <2> QED
    BY <2>1, <2>2
<1>8. dirs \in Seq(Path) /\ files \in Seq(Path)
  <2> HIDE DEF subdirs
  <2> QED BY <1>3, <1>4, <1>5, OrderingsType
<1>9. listed
  <2>1. ASSUME NEW p \in subdirs PROVE p \in ToSet(dirs)
    <3> HIDE DEF subdirs
    <3>1. \E n \in DOMAIN dirs : dirs[n] = p
      BY <1>3, <1>4, <2>1, OrderingsAreComplete
    <3> QED
      BY <3>1 DEF ToSet
  <2> QED
    BY <1>2, <1>4, <1>7, <1>8, <2>1 DEF listed
<1>10. ToSet(matches) \subseteq ToSet(matches') /\ ToSet(DirMatch(dir)) \subseteq ToSet(matches')
  <2>1. matches \o DirMatch(dir) \in Seq(Path)
    BY <1>1, <1>2, ConcatProperties
  <2> QED
    BY <1>1, <1>2, <1>5, <1>7, <1>8, <2>1
<1>11. found \subseteq ToSet(matches')
  <2>1. matches \o DirMatch(dir) \in Seq(Path)
    BY <1>1, <1>2, ConcatProperties
  <2>2. ASSUME NEW p \in found PROVE p \in ToSet(files)
    <3>1. \E n \in DOMAIN files : files[n] = p
      BY <1>3, <1>5, <2>2, OrderingsAreComplete
    <3> QED
      BY <3>1 DEF ToSet
  <2> QED
    BY <1>5, <1>7, <1>8, <2>1, <2>2
<1>12. \A p \in ToSet(stack) : p = dir \/ p \in ToSet(stack')
  BY <1>2, <1>4, <1>7, <1>8
<1>13. /\ ToSet(watchers) \subseteq ToSet(watchers')
       /\ ToSet(watchers') \subseteq ToSet(watchers) \cup {dir}
       /\ ~Skipped(dir) => dir \in ToSet(watchers')
  <2>1. /\ ToSet(watchers) \subseteq ToSet(Append(watchers, dir))
        /\ ToSet(Append(watchers, dir)) \subseteq ToSet(watchers) \cup {dir}
        /\ dir \in ToSet(Append(watchers, dir))
    <3>1. /\ \A n \in DOMAIN watchers : n \in DOMAIN Append(watchers, dir)
                                        /\ Append(watchers, dir)[n] = watchers[n]
          /\ \A n \in DOMAIN Append(watchers, dir) :
                Append(watchers, dir)[n] = dir \/ n \in DOMAIN watchers
          /\ Len(watchers) + 1 \in DOMAIN Append(watchers, dir)
          /\ Append(watchers, dir)[Len(watchers) + 1] = dir
      BY <1>1, <1>2
    <3> QED
      BY <3>1 DEF ToSet
  <2> QED
    BY <1>6, <2>1
<1>14. overlooked \ {tree[dir]} \subseteq overlooked'
  BY <1>6
<1> QED
  BY <1>2, <1>9, <1>10, <1>11, <1>12, <1>13, <1>14 DEF dir, found, listed

\* A visit takes a directory from the stack, and puts what comes next on the way to
\* a path there, or the path among the matches or the watchers.
LEMMA VisitKeeps ==
  ASSUME Sane, \A p \in Path : Kept(p), discover_watch_targets, UNCHANGED drain,
         NEW path \in Path
  PROVE  Kept(path)'
<1>1. UNCHANGED <<tree, marked, watch, queue, by_path, shielded, batch, pending, scopes, needs_rescan>>
  BY DEF discover_watch_targets, Visit, world, registry, drain
<1>2. PICK dir \in Path :
      /\ \A p \in ToSet(stack) : p = dir \/ p \in ToSet(stack')
      /\ \A p \in Listing(dir) : IsDir(p) => p \in ToSet(stack')
      /\ ToSet(matches) \subseteq ToSet(matches')
      /\ ToSet(DirMatch(dir)) \subseteq ToSet(matches')
      /\ FileMatches(dir) \subseteq ToSet(matches')
      /\ ToSet(watchers) \subseteq ToSet(watchers')
      /\ ToSet(watchers') \subseteq ToSet(watchers) \cup {dir}
      /\ ~Skipped(dir) => dir \in ToSet(watchers')
      /\ overlooked \ {tree[dir]} \subseteq overlooked'
  BY VisitLists DEF Sane
<1>3. AllIsDue' = AllIsDue /\ \A event : Heard(event)' = Heard(event)
  BY <1>1 DEF AllIsDue, Heard
<1>4. \A p \in Path : /\ Linked(p) => Linked(p)'
                      /\ Due(p) /\ p # dir => Due(p)'
  <2>1. \A p \in Path : Watched(p)' = Watched(p) /\ Told(p)' = Told(p)
    BY <1>1, <1>3, SameWatches
  <2> QED
    BY <1>1, <1>2, <2>1 DEF Linked, Due
<1>5. \A p \in Path : /\ p # dir /\ tree[p] \in overlooked => tree[p] \in overlooked'
                      /\ p # dir /\ p \notin ToSet(watchers) => p \notin ToSet(watchers')
  <2>1. \A p \in Path : tree[p] \in overlooked => Exists(p)
    BY NoInodeAssumption DEF Sane, TypeOK, WalkTypeOK, Exists
  <2> QED
    BY <1>2, <2>1 DEF Sane, NoHardLinks
<1> SUFFICES ASSUME Wanted(path) PROVE Kept(path)'
  BY <1>1, TreeDecides DEF Kept
<1>6. /\ StartsWith(path, root) /\ Exists(path)
      /\ \A p \in FromRoot(path) \ {path} : Traversable(p)
      /\ \A p \in FromRoot(path) : p \in Path /\ Exists(p)
  BY WantedFacts
<1>7. CASE dir \notin FromRoot(path)
  <2>1. \A p \in FromRoot(path) : p \in Path /\ p # dir
    BY <1>6, <1>7
  <2> QED
    BY <1>1, <1>2, <1>3, <1>4, <1>5, <2>1, StillKept
<1>8. CASE dir \in FromRoot(path)
  <2>1. /\ StartsWith(dir, root) /\ FromRoot(dir) \subseteq FromRoot(path)
        /\ \A q \in FromRoot(dir) \ {dir} : q \in FromRoot(path) \ {path}
        /\ dir # root => /\ FromRoot(Parent(dir)) = FromRoot(dir) \ {dir}
                         /\ Parent(dir) \in FromRoot(dir) \ {dir}
    BY <1>6, <1>8, AboveFacts
  <2>2. /\ \A p : FromRoot(p)' = FromRoot(p)
        /\ Traversable(path)' = Traversable(path) /\ MustMark(path)' = MustMark(path)
    BY <1>1, TreeDecides DEF FromRoot
  <2>3. \/ Hidden(path)' \/ Coming(path)'
        \/ \A q \in FromRoot(dir) \ {dir} : Linked(q)'
    <3>1. CASE dir = root
      BY <3>1, RootIsFirst
    <3>2. CASE dir # root
      <4> DEFINE above == Parent(dir)
      <4>1. /\ FromRoot(above) = FromRoot(dir) \ {dir}
            /\ above \in Path /\ Traversable(above)
            /\ \A p \in FromRoot(above) : p \in Path /\ p # dir /\ p \in FromRoot(path) \ {path}
        BY <1>6, <2>1, <3>2
      <4> HIDE DEF above
      <4>2. Hidden(above) \/ Coming(above) \/ Got(above)
        BY <4>1 DEF Kept, Wanted
      <4>3. CASE Hidden(above)
        <5>1. \E p \in FromRoot(above) :
                 tree[p] \in overlooked \/ (tree[p] \in shielded /\ p \notin ToSet(watchers))
          BY <4>3 DEF Hidden
        <5>2. \E p \in FromRoot(above) :
                 tree'[p] \in overlooked' \/ (tree'[p] \in shielded' /\ p \notin ToSet(watchers'))
          BY <1>1, <1>5, <4>1, <5>1
        <5> QED
          BY <2>2, <4>1, <5>2 DEF Hidden
      <4>4. CASE Coming(above)
        <5>1. CASE AllIsDue
          BY <1>3, <5>1 DEF Coming
        <5>2. CASE ~AllIsDue
          <6>1. PICK p \in FromRoot(above) : Due(p) /\ \A q \in FromRoot(p) \ {p} : Linked(q)
            BY <4>4, <5>2 DEF Coming
          <6>2. Due(p)'
            BY <1>4, <4>1, <6>1
          <6>3. p \in FromRoot(path)
            BY <4>1
          <6>4. \A q \in FromRoot(p) \ {p} : Linked(q)'
            BY <1>4, <1>6, <6>1, <6>3, AboveFacts
          <6> QED
            BY <2>2, <6>2, <6>3, <6>4 DEF Coming
        <5> QED
          BY <5>1, <5>2
      <4>5. CASE Got(above)
        BY <1>4, <4>1, <4>5 DEF Got, LinkedTo
      <4> QED
        BY <4>2, <4>3, <4>4, <4>5
    <3> QED
      BY <3>1, <3>2
  <2>4. ASSUME \A q \in FromRoot(dir) \ {dir} : Linked(q)', dir = path
        PROVE  Got(path)'
    <3>1. ASSUME Traversable(path) PROVE LinkedTo(path)'
      <4>1. dir \in ToSet(watchers')
        BY <1>2, <2>4, <3>1, TraversableFacts DEF Skipped
      <4>2. Linked(dir)'
        BY <4>1 DEF Linked
      <4> QED
        BY <2>2, <2>4, <4>2 DEF LinkedTo
    <3>2. ASSUME MustMark(path) PROVE path \in ToSet(matches')
      <4>1. DirMatch(dir) = <<path>>
        BY <2>4, <3>2 DEF DirMatch, MustMark, MustBeMarked, IsMatch
      <4>2. path \in ToSet(<<path>>)
        <5>1. 1 \in DOMAIN <<path>> /\ <<path>>[1] = path
          OBVIOUS
        <5> QED
          BY <5>1 DEF ToSet
      <4> QED
        BY <1>2, <4>1, <4>2
    <3> QED
      BY <2>2, <3>1, <3>2 DEF Got
  <2>5. ASSUME \A q \in FromRoot(dir) \ {dir} : Linked(q)', dir # path
        PROVE  Coming(path)' \/ Got(path)'
    <3>1. /\ Readable(dir) /\ ~Skipped(dir) /\ Listing(dir) = Children(dir)
      <4>1. Traversable(dir)
        BY <1>6, <1>8, <2>5
      <4> QED
        BY <1>2, <4>1, TraversableFacts DEF Skipped, Listing
    <3>2. PICK next \in FromRoot(path) : next \in Path /\ next # root /\ Parent(next) = dir
      BY <1>6, <1>8, <2>5, NextOnWay
    <3>3. next \in Listing(dir)
      BY <1>6, <3>1, <3>2 DEF Children
    <3>4. CASE IsDir(next)
      <4>1. Due(next)'
        BY <1>2, <3>3, <3>4 DEF Due
      <4>2. Linked(dir)'
        BY <1>2, <3>1 DEF Linked
      <4>3. FromRoot(next) \ {next} = FromRoot(dir)
        BY <1>6, <3>2, AboveFacts
      <4>4. \A q \in FromRoot(next) \ {next} : Linked(q)'
        BY <2>5, <4>2, <4>3
      <4> QED
        BY <2>2, <4>1, <4>4 DEF Coming
    <3>5. CASE ~IsDir(next)
      <4>1. next = path /\ ~Traversable(path) /\ MustMark(path)
        BY <1>6, <3>2, <3>5, TraversableFacts DEF Wanted
      <4>2. Resolves(path) /\ Verdict(path).set_dropbox_ignore
        BY <4>1 DEF MustMark, MustBeMarked, IsMatch
      <4>3. HasKind(path, "file")
        BY <3>5, <4>1, <4>2, KindAssumption
           DEF Sane, TypeOK, TreeTypeOK, Resolves, HasKind, IsDir, Exists
      <4>4. path \in ToSet(matches')
        BY <1>2, <3>3, <4>1, <4>2, <4>3 DEF FileMatches
      <4> QED
        BY <2>2, <4>1, <4>4 DEF Got
    <3> QED
      BY <3>4, <3>5
  <2> QED
    BY <2>3, <2>4, <2>5 DEF Kept
<1> QED
  BY <1>7, <1>8

\* The head of a list is what it holds beside its tail.
LEMMA HeadOrTail ==
  ASSUME NEW S, NEW s \in Seq(S), s # <<>>
  PROVE  /\ Head(s) \in S /\ Tail(s) \in Seq(S)
         /\ ToSet(s) = ToSet(Tail(s)) \cup {Head(s)}
         /\ \A e : Contains(s, e) => e = Head(s) \/ Contains(Tail(s), e)
<1>1. \A i \in DOMAIN s : s[i] = Head(s) \/ \E j \in DOMAIN Tail(s) : Tail(s)[j] = s[i]
  <2> SUFFICES ASSUME NEW i \in DOMAIN s
               PROVE  s[i] = Head(s) \/ \E j \in DOMAIN Tail(s) : Tail(s)[j] = s[i]
    OBVIOUS
  <2>1. CASE i = 1
    BY <2>1
  <2>2. CASE i # 1
    <3>1. i - 1 \in 1..Len(Tail(s)) /\ Tail(s)[i - 1] = s[i]
      BY <2>2
    <3> QED
      BY <3>1
  <2> QED
    BY <2>1, <2>2
<1>2. Head(s) \in S /\ Tail(s) \in Seq(S)
  OBVIOUS
<1>3. Head(s) \in ToSet(s) /\ ToSet(Tail(s)) \subseteq ToSet(s)
  BY PartsOf
<1>4. ToSet(s) = ToSet(Tail(s)) \cup {Head(s)}
  BY <1>1, <1>3 DEF ToSet
<1>5. \A e : Contains(s, e) => e = Head(s) \/ Contains(Tail(s), e)
  <2> SUFFICES ASSUME NEW i \in DOMAIN s PROVE s[i] = Head(s) \/ Contains(Tail(s), s[i])
    BY DEF Contains
  <2>1. DOMAIN Tail(s) = 1..Len(Tail(s))
    BY <1>2
  <2> QED
    BY <1>1, <2>1 DEF Contains
<1> QED
  BY <1>2, <1>4, <1>5

\* What is taken from the matches is marked, unless it cannot be.
LEMMA ApplyMatchKeeps ==
  ASSUME Sane, ApplyMatch, UNCHANGED drain, NEW path \in Path, Kept(path)
  PROVE  Kept(path)'
<1>1. UNCHANGED <<tree, watch, queue, by_path, stack, watchers, overlooked, shielded, batch,
                  pending, scopes, needs_rescan>>
  BY DEF ApplyMatch, kernel, registry, history, drain
<1>2. /\ matches # <<>> /\ matches \in Seq(Path) /\ matches' = Tail(matches)
      /\ marked' = IF Markable(Head(matches)) /\ ~DryRun THEN marked \cup {tree[Head(matches)]}
                   ELSE marked
  BY DEF ApplyMatch, Sane, TypeOK, WalkTypeOK
<1>3. AllIsDue' = AllIsDue /\ \A event : Heard(event)' = Heard(event)
  BY <1>1 DEF AllIsDue, Heard
<1>4. \A p \in Path : Linked(p)' = Linked(p) /\ Due(p)' = Due(p)
  <2>1. \A p \in Path : Watched(p)' = Watched(p) /\ Told(p)' = Told(p)
    BY <1>1, <1>3, SameWatches
  <2> QED
    BY <1>1, <2>1 DEF Linked, Due
<1>5. MustMark(path) /\ path \in ToSet(matches) => path \in ToSet(matches') \/ tree[path] \in marked'
  <2>1. path \in ToSet(matches) => path = Head(matches) \/ path \in ToSet(matches')
    BY <1>2, HeadOrTail
  <2>2. MustMark(path) => Markable(path) /\ ~DryRun
    BY DEF MustMark, MustBeMarked, IsMatch, Markable
  <2> QED
    BY <1>2, <2>1, <2>2
<1>6. Wanted(path) => \A p \in FromRoot(path) : p \in Path
  BY WantedFacts
<1> QED
  BY <1>1, <1>2, <1>3, <1>4, <1>5, <1>6, StillKept

\* What a call of add_watch does for its path, and that it does not to other paths what
\* they or the events on their way depend on.
Added(new) ==
    /\ Readable(new) => Watched(new)' \/ (contains_path(new) /\ tree[new] \in shielded')
    /\ \A p \in Path : Watched(p) /\ Exists(p) => Watched(p)'
    /\ \A p \in Path : contains_path(p)' =>
          by_path'[p] = by_path[p] \/ (p = new /\ Readable(new) /\ ~contains_path(new))
    /\ \A p \in Path : Exists(p) /\ p # new /\ tree[p] \in shielded => tree[p] \in shielded'
    /\ \A wd \in Wd : watch'[wd] # watch[wd] => watch'[wd] = tree[new] /\ Readable(new)
    /\ \A e \in Events : Heard(e) /\ e.wd \in Wd => watch'[e.wd] = watch[e.wd]

\* One watch more: no other path loses its watch to it, and no event is about it.
LEMMA AddWatchAdds ==
  ASSUME Sane, AddWatch(batch), UNCHANGED drain
  PROVE  /\ UNCHANGED <<tree, marked, queue, stack, matches, overlooked, drain>>
         /\ \E new \in Path : /\ Added(new) /\ new = Head(watchers)
                              /\ ToSet(watchers) = ToSet(watchers') \cup {new}
<1> USE DEF Sane, TypeOK, RegistryTypeOK, TreeTypeOK
<1>1. UNCHANGED <<tree, marked, queue, stack, matches, overlooked>>
      /\ watchers \in Seq(Path) /\ watchers # <<>>
  BY DEF AddWatch, AddingWatches, SkipRegistered, SkipUnwatchable, RegisterAgain, RegisterNew,
         kernel, WalkTypeOK
<1>2. PICK new \in Path : new = Head(watchers) /\ watchers' = Tail(watchers)
  BY <1>1, HeadOrTail DEF AddWatch
<1>3. ToSet(watchers) = ToSet(watchers') \cup {new}
  BY <1>1, <1>2, HeadOrTail
<1>4. SkipRegistered(new) \/ SkipUnwatchable(new) \/ RegisterAgain(new) \/ RegisterNew(new, batch)
  BY <1>2 DEF AddWatch
<1>5. ASSUME SkipRegistered(new) \/ SkipUnwatchable(new) PROVE Added(new)
  <2>1. UNCHANGED <<watch, by_path>> /\ shielded \subseteq shielded'
    BY <1>5 DEF SkipRegistered, SkipUnwatchable, kernel, registry
  <2>2. \A p \in Path : Watched(p)' = Watched(p)
    BY <1>1, <2>1, SameWatches
  <2>3. Readable(new) => Watched(new) \/ (contains_path(new) /\ tree[new] \in shielded')
    BY <1>5 DEF SkipRegistered, SkipUnwatchable, Watched
  <2> QED
    BY <2>1, <2>2, <2>3 DEF Added, contains_path
<1>6. ASSUME RegisterAgain(new) PROVE Added(new)
  <2> DEFINE wd == WdOf(tree[new])
  <2>1. /\ Readable(new) /\ wd # NoWd /\ ~contains_path(new)
        /\ by_path' = [p \in Path |-> IF p = new THEN wd ELSE IF p = path_for(wd) THEN NoWd
                                      ELSE by_path[p]]
        /\ shielded' = shielded \ {tree[new]} /\ UNCHANGED <<watch, queue>>
    BY <1>6 DEF RegisterAgain, Register, Insert, kernel
  <2>2. wd \in Wd /\ watch[wd] = tree[new]
    BY <2>1, WdOfType
  <2> HIDE DEF wd
  <2>3. Exists(new)
    BY <2>1 DEF Readable, IsDir, HasKind
  <2>4. Watched(new)'
    BY <1>1, <2>1, <2>2, NoWdAssumption DEF Watched, contains_path
  <2>5. ASSUME NEW p \in Path, Watched(p), Exists(p) PROVE Watched(p)'
    <3>1. p # new /\ by_path[p] \in Wd
      BY <2>1, <2>5 DEF Watched, contains_path
    <3>2. p # path_for(wd)
      <4>1. ASSUME p = path_for(wd) PROVE p = new
        <5>1. by_path[p] = wd
          BY <2>2, <4>1 DEF RegistryInverse, path_for
        <5>2. tree[p] = tree[new]
          BY <2>2, <2>5, <5>1 DEF Watched
        <5> QED
          BY <2>5, <5>2 DEF NoHardLinks
      <4> QED
        BY <3>1, <4>1
    <3>3. by_path'[p] = by_path[p]
      BY <2>1, <3>1, <3>2
    <3> QED
      BY <1>1, <2>1, <2>5, <3>3 DEF Watched, contains_path
  <2>6. \A p \in Path : contains_path(p)' => by_path'[p] = by_path[p] \/ p = new
    BY <2>1 DEF contains_path
  <2>7. \A p \in Path : Exists(p) /\ p # new => tree[p] # tree[new]
    BY DEF NoHardLinks
  <2> QED
    BY <2>1, <2>4, <2>5, <2>6, <2>7 DEF Added
<1>7. ASSUME RegisterNew(new, batch) PROVE Added(new)
  <2> DEFINE wd == NextWd(batch)
  <2>1. /\ wd \in Wd /\ Fresh(wd, batch) /\ Readable(new) /\ ~contains_path(new)
        /\ watch' = [watch EXCEPT ![wd] = tree[new]]
        /\ by_path' = [p \in Path |-> IF p = new THEN wd ELSE IF p = path_for(wd) THEN NoWd
                                      ELSE by_path[p]]
        /\ shielded' = shielded \ {tree[new]} /\ UNCHANGED queue
    BY <1>7 DEF RegisterNew, NeedsNewWatch, AddKernelWatch, Register, Insert, NextWd
  <2> HIDE DEF wd
  <2>2. Exists(new) /\ path_for(wd) = NoPath
    BY <2>1 DEF Readable, IsDir, HasKind, Fresh
  <2>3. \A p \in Path : by_path[p] # wd /\ p # path_for(wd)
    BY <2>1, <2>2, NoPathAssumption DEF RegistryInverse, path_for
  <2>4. Watched(new)'
    BY <1>1, <2>1, NoWdAssumption DEF Watched, contains_path
  <2>5. ASSUME NEW p \in Path, Watched(p), Exists(p) PROVE Watched(p)'
    <3>1. p # new /\ by_path[p] \in Wd /\ by_path[p] # wd
      BY <2>1, <2>3, <2>5 DEF Watched, contains_path
    <3>2. by_path'[p] = by_path[p] /\ watch'[by_path[p]] = watch[by_path[p]]
      BY <2>1, <2>3, <3>1
    <3> QED
      BY <1>1, <2>5, <3>2 DEF Watched, contains_path
  <2>6. ASSUME NEW e \in Events, Heard(e), e.wd \in Wd PROVE watch'[e.wd] = watch[e.wd]
    <3>1. e.wd # wd
      BY <2>1, <2>6 DEF Heard, Contains, Fresh
    <3> QED
      BY <2>1, <2>6, <3>1
  <2>7. \A p \in Path : Exists(p) /\ p # new => tree[p] # tree[new]
    BY DEF NoHardLinks
  <2>8. \A p \in Path : contains_path(p)' => by_path'[p] = by_path[p] \/ p = new
    BY <2>1 DEF contains_path
  <2>9. \A v \in Wd : watch'[v] # watch[v] => watch'[v] = tree[new]
    BY <2>1
  <2> QED
    BY <2>1, <2>4, <2>5, <2>6, <2>7, <2>8, <2>9 DEF Added
<1> QED
  BY <1>1, <1>2, <1>3, <1>4, <1>5, <1>6, <1>7

\* What is added is watched or hidden, and all else is kept.
LEMMA AddWatchKeeps ==
  ASSUME Sane, AddWatch(batch), UNCHANGED drain, NEW path \in Path, Kept(path)
  PROVE  Kept(path)'
<1> USE DEF Sane, TypeOK, RegistryTypeOK, TreeTypeOK
<1>1. UNCHANGED <<tree, marked, queue, stack, matches, overlooked, batch, pending, scopes,
                  needs_rescan>>
  BY AddWatchAdds DEF drain
<1>2. PICK new \in Path : Added(new) /\ ToSet(watchers) = ToSet(watchers') \cup {new}
  BY AddWatchAdds
<1>3. AllIsDue' = AllIsDue /\ \A event : Heard(event)' = Heard(event)
  BY <1>1 DEF AllIsDue, Heard
<1>4. /\ \A p \in Path : Watched(p) /\ Exists(p) => Watched(p)'
      /\ \A p \in Path, e \in Events : Heard(e) /\ Announces(e, p) => Announces(e, p)'
  BY <1>1, <1>2 DEF Added, Announces
<1>5. Wanted(path) => \A p \in FromRoot(path) : p \in Path /\ Exists(p)
  BY WantedFacts
<1>6. \A p \in Path : tree[p] \in shielded => Exists(p)
  BY NoInodeAssumption DEF WalkTypeOK, Exists
<1>7. \A p \in Path : tree[p] \in shielded /\ p \notin ToSet(watchers)
                       => tree[p] \in shielded' /\ p \notin ToSet(watchers')
  BY <1>2, <1>4, <1>6 DEF Added
<1>8. \A p \in Path : Due(p) => Due(p)'
  BY <1>1, <1>3, <1>4 DEF Due, Told
<1>9. ASSUME Wanted(path), NEW p \in FromRoot(path), Traversable(p), Linked(p)
       PROVE  Linked(p)' \/ Hidden(path)'
  <2>1. p \in Path /\ Exists(p) /\ Readable(p)
    BY <1>5, <1>9, TraversableFacts
  <2>2. Watched(p) => Linked(p)'
    BY <1>4, <2>1 DEF Linked
  <2>3. p \in ToSet(watchers') => Linked(p)'
    BY DEF Linked
  <2>4. p = new /\ p \notin ToSet(watchers') => Linked(p)' \/ Hidden(path)'
    <3>1. FromRoot(path)' = FromRoot(path)
      BY DEF FromRoot
    <3> QED
      BY <1>1, <1>2, <1>4, <1>9, <2>1, <3>1 DEF Added, Linked, Hidden
  <2> QED
    BY <1>2, <1>9, <2>2, <2>3, <2>4 DEF Linked
<1>10. UNCHANGED <<tree, marked, matches, overlooked>>
  BY <1>1
<1>11. Wanted(path) => \A p \in FromRoot(path) :
          /\ Traversable(p) /\ Linked(p) => Linked(p)' \/ Hidden(path)'
          /\ Due(p) => Due(p)'
  BY <1>5, <1>8, <1>9
<1>12. Wanted(path) => \A p \in FromRoot(path) :
          tree[p] \in shielded /\ p \notin ToSet(watchers)
          => tree[p] \in shielded' /\ p \notin ToSet(watchers')
  BY <1>5, <1>7
<1> QED
  BY ONLY <1>3, <1>10, <1>11, <1>12, StillKept, Kept(path), path \in Path

\* What is read from the queue is in the batch.
LEMMA ReadKeeps ==
  ASSUME Sane, ReadEvents, NEW path \in Path, Kept(path)
  PROVE  Kept(path)'
<1>1. PICK n \in 1..Len(queue) :
         batch' = SubSeq(queue, 1, n) /\ queue' = SubSeq(queue, n + 1, Len(queue))
  BY DEF ReadEvents, ReadFirst
<1>2. /\ batch = <<>> /\ queue \in Seq(Events)
      /\ UNCHANGED <<tree, marked, watch, by_path, walk, pending, scopes, needs_rescan, history>>
  BY DEF ReadEvents, Sane, TypeOK, TreeTypeOK, DrainIsOver, registry
<1>3. ASSUME NEW i \in 1..Len(queue)
      PROVE  Contains(batch', queue[i]) \/ Contains(queue', queue[i])
  <2>1. CASE i <= n
    <3>1. i \in 1..Len(batch') /\ batch'[i] = queue[i]
      BY <1>1, <1>2, <2>1
    <3> QED
      BY <3>1 DEF Contains
  <2>2. CASE i > n
    <3>1. i - n \in 1..Len(queue') /\ queue'[i - n] = queue[i]
      BY <1>1, <1>2, <2>2
    <3> QED
      BY <3>1 DEF Contains
  <2> QED
    BY <2>1, <2>2
<1>4. \A event : Heard(event) => Heard(event)'
  BY <1>2, <1>3 DEF Heard, Contains
<1> QED
  BY <1>2, <1>4, NothingForgotten DEF walk

\* The event that is handled is no longer heard, and no other is lost.
LEMMA EventHandled ==
  ASSUME Sane, NEW mask, NextEvent(mask), UNCHANGED queue
  PROVE  /\ batch # <<>> /\ Head(batch).mask = mask /\ WalkIsOver
         /\ \A event : Heard(event) => event = Head(batch) \/ Heard(event)'
<1>1. batch # <<>> /\ batch \in Seq(Events) /\ batch' = Tail(batch)
  BY DEF NextEvent, Sane, TypeOK
<1>2. \A event : Contains(batch, event) => event = Head(batch) \/ Contains(batch', event)
  BY <1>1, HeadOrTail
<1> QED
  BY <1>1, <1>2 DEF NextEvent, Heard

\* An overflow that is handled leaves everything due.
LEMMA OnOverflowKeeps ==
  ASSUME Sane, OnOverflow, NEW path \in Path, Kept(path)
  PROVE  Kept(path)'
<1>1. /\ NextEvent("Q_OVERFLOW") /\ needs_rescan'
      /\ UNCHANGED <<tree, marked, watch, queue, by_path, walk, pending, scopes, history>>
  BY DEF OnOverflow, world, registry
<1>2. \A event : Heard(event) => event.mask = "Q_OVERFLOW" \/ Heard(event)'
  BY <1>1, EventHandled
<1> QED
  BY <1>1, <1>2, NothingForgotten DEF walk

\* A MOVE_SELF event announced no entry, so none is lost with it.
LEMMA OnMoveSelfKeeps ==
  ASSUME Sane, OnMoveSelf, UNCHANGED kernel, NEW path \in Path, Kept(path)
  PROVE  Kept(path)'
<1>1. /\ NextEvent("MOVE_SELF") /\ scopes \subseteq scopes'
      /\ UNCHANGED <<tree, marked, watch, queue, by_path, walk, pending, needs_rescan, history>>
  BY DEF OnMoveSelf, kernel, registry
<1>2. \A event : Heard(event) => event.mask = "MOVE_SELF" \/ Heard(event)'
  BY <1>1, EventHandled
<1>3. OverflowEvent.mask # "MOVE_SELF"
  BY DEF OverflowEvent, Event
<1> QED
  BY <1>1, <1>2, <1>3, NothingForgotten DEF walk

\* The registration that goes is of a watch that is dead.
LEMMA OnDeleteSelfKeeps ==
  ASSUME Sane, OnDeleteSelf, RemoveByDescriptor(Head(batch).wd), UNCHANGED kernel,
         NEW path \in Path, Kept(path)
  PROVE  Kept(path)'
<1> USE DEF Sane, TypeOK, RegistryTypeOK, TreeTypeOK
<1>1. /\ NextEvent("DELETE_SELF")
      /\ UNCHANGED <<tree, marked, watch, queue, walk, pending, scopes, needs_rescan,
                     overlooked, shielded>>
  BY DEF OnDeleteSelf, kernel
<1>2. PICK wd \in Wd : /\ wd = Head(batch).wd /\ ~Live(wd)
                       /\ by_path' = [p \in Path |-> IF p = path_for(wd) THEN NoWd ELSE by_path[p]]
  <2>1. batch # <<>> /\ Head(batch).mask = "DELETE_SELF"
    BY <1>1, EventHandled
  <2>2. Head(batch).wd \in Wd /\ ~Live(Head(batch).wd)
    BY <2>1, HeadOfBatch, TailOfBatch DEF Masks, OrphanIInv, DeletedIsDead, DeadIn
  <2> QED
    BY <2>2 DEF RemoveByDescriptor
<1>3. \A event : Heard(event) => event.mask = "DELETE_SELF" \/ Heard(event)'
  BY <1>1, EventHandled
<1>4. OverflowEvent.mask # "DELETE_SELF"
  BY DEF OverflowEvent, Event
<1>5. ASSUME NEW p \in Path, Watched(p), Exists(p) PROVE Watched(p)'
  <2>1. by_path[p] \in Wd /\ Live(by_path[p])
    BY <1>5 DEF Watched, contains_path, Live, Exists
  <2>2. p # path_for(wd)
    BY <1>2, <2>1 DEF RegistryInverse, path_for
  <2>3. by_path'[p] = by_path[p]
    BY <1>2, <2>2
  <2> QED
    BY <1>1, <1>5, <2>3 DEF Watched, contains_path
<1>6. \A p \in Path : Told(p) => Told(p)'
  BY <1>1, <1>3 DEF Told, Announces
<1>7. \A p \in Path : /\ Due(p) => Due(p)'
                      /\ Exists(p) /\ Linked(p) => Linked(p)'
  BY <1>1, <1>5, <1>6 DEF Due, Linked, walk
<1>8. Wanted(path) => \A p \in FromRoot(path) : p \in Path /\ Exists(p)
  BY WantedFacts
<1>9. AllIsDue => AllIsDue'
  BY <1>1, <1>3, <1>4 DEF AllIsDue
<1>10. UNCHANGED <<tree, marked, matches, watchers, overlooked, shielded>>
  BY <1>1 DEF walk, history
<1> QED
  BY ONLY <1>7, <1>8, <1>9, <1>10, StillKept, Kept(path), path \in Path

\* A directory that is linked when no walk is under way is the one that the registry
\* names for the descriptor of its events.
LEMMA LinkedIsKnown ==
  ASSUME Sane, WalkIsOver, NEW dir \in Path, Linked(dir), Exists(dir), NEW wd \in Wd,
         watch[wd] = tree[dir]
  PROVE  Watched(dir) /\ by_path[dir] = wd /\ path_for(wd) = dir
<1> USE DEF Sane, TypeOK, RegistryTypeOK
<1>1. Watched(dir)
  BY DEF Linked, WalkIsOver, ToSet
<1>2. by_path[dir] \in Wd /\ watch[by_path[dir]] = watch[wd] /\ Live(wd)
  BY <1>1 DEF Watched, contains_path, Live, Exists
<1>3. by_path[dir] = wd
  BY <1>2 DEF NoticeIInv, OneWatchEach, Live
<1> QED
  BY <1>1, <1>3 DEF RegistryInverse, path_for

\* The event of an entry has the program look at that entry, and the event of a marker
\* at everything beside it.
LEMMA OnCreateKeeps ==
  ASSUME Sane, OnCreate, NEW path \in Path, Kept(path)
  PROVE  Kept(path)'
<1> USE DEF Sane
<1>1. UNCHANGED <<tree, marked, watch, queue, by_path, stack, watchers, needs_rescan,
                  overlooked, shielded>>
  BY DEF OnCreate, world, registry, history
<1>2. PICK event : event = Head(batch)
  OBVIOUS
<1>3. /\ WalkIsOver /\ event.mask \in {"CREATE", "MOVED_TO"} /\ event.wd \in Wd
      /\ \A e : Heard(e) => e = event \/ Heard(e)'
  <2>1. NextEvent("CREATE") \/ NextEvent("MOVED_TO")
    BY DEF OnCreate
  <2>2. batch # <<>> /\ WalkIsOver /\ event.mask \in {"CREATE", "MOVED_TO"}
        /\ \A e : Heard(e) => e = event \/ Heard(e)'
    BY <1>1, <1>2, <2>1, EventHandled
  <2> QED
    BY <1>2, <2>2, HeadOfBatch DEF Masks
<1>4. PICK dir : dir = path_for(event.wd)
  OBVIOUS
<1>5. PICK entry : entry = Append(dir, event.name)
  OBVIOUS
<1>6. /\ scopes' = IF dir # NoPath /\ IsTrigger(TheRules, event.name)
                   THEN scopes \cup {dir} ELSE scopes
      /\ matches' = IF dir # NoPath /\ entry \in Path /\ plan_entry(entry).apply_ignore
                    THEN <<entry>> ELSE <<>>
      /\ pending' = IF dir # NoPath /\ entry \in Path /\ plan_entry(entry).watch_dir
                    THEN Append(pending, entry) ELSE pending
  BY <1>2, <1>4, <1>5 DEF OnCreate, IsTriggerEvent
<1>7. ToSet(pending) \subseteq ToSet(pending')
      /\ (dir # NoPath /\ entry \in Path /\ plan_entry(entry).watch_dir => entry \in ToSet(pending'))
  <2>1. /\ ToSet(pending) \subseteq ToSet(Append(pending, entry))
        /\ entry \in ToSet(Append(pending, entry))
    <3>1. /\ \A n \in DOMAIN pending : n \in DOMAIN Append(pending, entry)
                                       /\ Append(pending, entry)[n] = pending[n]
          /\ Len(pending) + 1 \in DOMAIN Append(pending, entry)
          /\ Append(pending, entry)[Len(pending) + 1] = entry
      BY DEF TypeOK
    <3> QED
      BY <3>1 DEF ToSet
  <2> QED
    BY <1>6, <2>1
<1>8. AllIsDue => AllIsDue'
  <2>1. OverflowEvent # event
    BY <1>3 DEF OverflowEvent, Event
  <2> QED
    BY <1>1, <1>3, <2>1 DEF AllIsDue
<1>9. \A p \in Path : Linked(p)' = Linked(p)
  BY <1>1, SameWatches DEF Linked
<1>10. \A p \in Path : p \in ToSet(stack) \cup ToSet(pending) \cup scopes => Due(p)'
  BY <1>1, <1>6, <1>7 DEF Due
<1> SUFFICES ASSUME Wanted(path) PROVE Kept(path)'
  BY <1>1, TreeDecides DEF Kept
<1>11. /\ StartsWith(path, root)
       /\ \A p \in FromRoot(path) \ {path} : Traversable(p)
       /\ \A p \in FromRoot(path) : p \in Path /\ Exists(p)
  BY WantedFacts
<1>12. ASSUME NEW p \in FromRoot(path), Due(p),
              \A q \in FromRoot(p) \ {p} : Traversable(q) /\ Linked(q)
       PROVE  Due(p)' \/ Coming(path)' \/ Got(path)'
  <2>1. p \in Path
    BY <1>11
  <2>2. CASE ~Told(p)
    BY <1>10, <1>12, <2>1, <2>2 DEF Due
  <2>3. ASSUME NEW e \in Events, Heard(e)', Announces(e, p), p # root PROVE Due(p)'
    BY <1>1, <2>3 DEF Due, Told, Announces
  <2>4. ASSUME Announces(event, p), p # root PROVE Due(p)' \/ Coming(path)' \/ Got(path)'
    <3> DEFINE parent == Parent(p)
    <3>1. /\ parent \in FromRoot(p) \ {p} /\ FromRoot(parent) = FromRoot(p) \ {p}
          /\ parent \in Path /\ parent \in FromRoot(path)
      BY <1>11, <2>4, AboveFacts
    <3>2. dir = parent
      <4>1. Linked(parent) /\ Exists(parent) /\ watch[event.wd] = tree[parent]
        BY <1>12, <2>4, <3>1, TraversableFacts DEF Announces
      <4> QED
        BY <1>3, <1>4, <3>1, <4>1, LinkedIsKnown
    <3> HIDE DEF parent
    <3>3. dir # NoPath
      BY <3>1, <3>2, NoPathAssumption
    <3>4. CASE IsTrigger(TheRules, event.name)
      <4>1. Due(parent)'
        BY <1>6, <3>2, <3>3, <3>4 DEF Due
      <4>2. \A q \in FromRoot(parent) \ {parent} : Linked(q)'
        BY <1>9, <1>11, <1>12, <3>1, AboveFacts
      <4>3. \A q : FromRoot(q)' = FromRoot(q)
        BY DEF FromRoot
      <4> QED
        BY <3>1, <4>1, <4>2, <4>3 DEF Coming
    <3>5. CASE event.name = FileName(p)
      <4>1. entry = p
        BY <1>5, <2>1, <3>2, <3>5, PathOfParts DEF parent
      <4>2. CASE Traversable(p)
        <5>1. plan_entry(p).watch_dir
          BY <2>1, <4>2, TraversableFacts DEF plan_entry
        <5> QED
          BY <1>7, <2>1, <3>3, <4>1, <5>1 DEF Due
      <4>3. CASE ~Traversable(p)
        <5>1. p = path /\ MustMark(path)
          BY <1>11, <4>3 DEF Wanted
        <5>2. plan_entry(path).apply_ignore
          BY <5>1 DEF plan_entry, MustMark, MustBeMarked, IsMatch
        <5>3. matches' = <<path>>
          BY <1>6, <3>3, <4>1, <5>1, <5>2
        <5>4. path \in ToSet(matches')
          <6>1. 1 \in DOMAIN <<path>> /\ <<path>>[1] = path
            OBVIOUS
          <6> QED
            BY <5>3, <6>1 DEF ToSet
        <5> QED
          BY <1>1, <4>3, <5>1, <5>4, TreeDecides DEF Got
      <4> QED
        BY <4>2, <4>3
    <3> QED
      BY <2>4, <3>4, <3>5 DEF Announces
  <2> QED
    BY <1>3, <1>12, <2>2, <2>3, <2>4 DEF Due, Told
<1>13. path \notin ToSet(matches)
  BY <1>3 DEF WalkIsOver, ToSet
<1> QED
  BY <1>1, <1>8, <1>9, <1>11, <1>12, <1>13, StillKept

\* What waits for its walk is on the stack of the next one.
LEMMA StartPendingKeeps ==
  ASSUME Sane, StartPending, NEW path \in Path, Kept(path)
  PROVE  Kept(path)'
<1>1. /\ stack = <<>> /\ pending # <<>> /\ pending \in Seq(Path)
      /\ stack' = <<Head(pending)>> /\ pending' = Tail(pending)
      /\ UNCHANGED <<tree, marked, watch, queue, by_path, matches, watchers, batch, scopes,
                     needs_rescan, history>>
  BY DEF StartPending, BatchIsDone, WalkIsOver, Sane, TypeOK, world, registry
<1>2. ToSet(pending) = ToSet(pending') \cup {Head(pending)}
  BY <1>1, HeadOrTail
<1>3. Head(pending) \in ToSet(stack')
  <2>1. 1 \in DOMAIN stack' /\ stack'[1] = Head(pending)
    BY <1>1
  <2> QED
    BY <2>1 DEF ToSet
<1>4. ToSet(stack) = {}
  BY <1>1 DEF ToSet
<1>5. \A event : Heard(event)' = Heard(event)
  BY <1>1 DEF Heard
<1> QED
  BY <1>1, <1>2, <1>3, <1>4, <1>5, NothingForgotten

\* A rescan takes no watch from a directory outside its scope, and leaves the events of
\* such a directory in force.
LEMMA RescanSpares ==
  ASSUME Sane, WalkIsOver, NEW scope \in Path, Rescan(scope), UNCHANGED <<tree, queue, batch>>,
         NEW dir \in Path, ~StartsWith(dir, scope), Watched(dir), Exists(dir)
  PROVE  /\ Watched(dir)'
         /\ \A wd \in Wd : watch[wd] = tree[dir] => watch'[wd] = tree[dir]
<1> USE DEF Sane, TypeOK, RegistryTypeOK, TreeTypeOK
<1>1. /\ by_path' = [p \in Path |-> IF p \in DrainedPaths(scope) THEN NoWd ELSE by_path[p]]
      /\ watch' = [wd \in Wd |-> IF wd \in DrainedDescriptors(scope) THEN NoInode ELSE watch[wd]]
  BY DEF Rescan, DrainSubtree, RemoveKernelWatches
<1>2. by_path'[dir] = by_path[dir] /\ by_path[dir] \in Wd
  BY <1>1 DEF DrainedPaths, Watched, contains_path
<1>3. \A p \in Path : by_path[p] = by_path[dir] => p = dir
  BY <1>2 DEF RegistryInverse
<1>4. by_path[dir] \notin DrainedDescriptors(scope)
  BY <1>3 DEF DrainedDescriptors, DrainedPaths
<1>5. watch'[by_path[dir]] = watch[by_path[dir]]
  BY <1>1, <1>2, <1>4
<1>6. Watched(dir)'
  BY <1>2, <1>5 DEF Watched, contains_path
<1>7. \A wd \in Wd : watch[wd] = tree[dir] => wd = by_path[dir]
  BY LinkedIsKnown DEF Linked
<1> QED
  BY <1>2, <1>5, <1>6, <1>7 DEF Watched

\* A rescan forgets the watches at and below its scope, and has the scope on its stack.
LEMMA RescanScopeKeeps ==
  ASSUME Sane, \A p \in Path : Kept(p), RescanScope, NEW path \in Path
  PROVE  Kept(path)'
<1>1. PICK scope \in scopes : Rescan(scope) /\ scopes' = scopes \ {scope}
  BY DEF RescanScope
<1>2. /\ WalkIsOver /\ pending = <<>> /\ scope \in Path /\ StartsWith(scope, root)
      /\ UNCHANGED <<tree, marked, queue, matches, watchers, batch, pending, needs_rescan,
                     overlooked, shielded>>
  BY DEF RescanScope, BatchIsDone, history, Sane, TypeOK, NoticeIInv, BelowRoot, Below
<1>3. scope \in ToSet(stack') /\ ToSet(stack) = {} /\ ToSet(watchers) = {} /\ ToSet(pending) = {}
  <2>1. stack' = <<scope>> /\ stack = <<>> /\ watchers = <<>> /\ pending = <<>>
    BY <1>1, <1>2 DEF Rescan, WalkIsOver
  <2>2. 1 \in DOMAIN stack' /\ stack'[1] = scope
    BY <2>1
  <2> QED
    BY <2>1, <2>2 DEF ToSet
<1>4. AllIsDue' = AllIsDue /\ \A event : Heard(event)' = Heard(event)
  BY <1>2 DEF AllIsDue, Heard
<1>5. ASSUME NEW p \in Path, ~StartsWith(p, scope), Exists(p), Linked(p)
      PROVE  Linked(p)' /\ \A wd \in Wd : watch[wd] = tree[p] => watch'[wd] = tree[p]
  <2>1. Watched(p)
    BY <1>3, <1>5 DEF Linked
  <2> QED
    BY <1>1, <1>2, <1>5, <2>1, RescanSpares DEF Linked
<1>6. ASSUME NEW p \in Path, StartsWith(p, root), Due(p), ~StartsWith(p, scope),
             \A q \in FromRoot(p) \ {p} : Traversable(q) /\ Linked(q)
      PROVE  Due(p)'
  <2>1. p # scope
    BY <1>2, <1>6, StartsWithSelf
  <2>2. CASE p \in scopes
    BY <1>1, <2>1, <2>2 DEF Due
  <2>3. CASE Told(p)
    <3>1. PICK event \in Events : Heard(event) /\ Announces(event, p)
      BY <2>3 DEF Told
    <3>2. /\ p # root /\ Parent(p) \in Path /\ Parent(p) \in FromRoot(p) \ {p}
          /\ StartsWith(p, Parent(p))
      BY <1>6, <2>3, ParentFacts, AboveFacts, WayFacts, ChildStartsWithParent DEF Told
    <3>3. ~StartsWith(Parent(p), scope)
      BY <1>2, <1>6, <3>2, StartsTwice
    <3>4. watch'[event.wd] = tree[Parent(p)]
      BY <1>5, <1>6, <3>1, <3>2, <3>3, TraversableFacts DEF Announces
    <3>5. Announces(event, p)' /\ Heard(event)'
      BY <1>2, <1>4, <3>1, <3>4 DEF Announces
    <3> QED
      BY <3>2, <3>5 DEF Due, Told
  <2> QED
    BY <1>3, <1>6, <2>2, <2>3 DEF Due
<1> SUFFICES ASSUME Wanted(path) PROVE Kept(path)'
  BY <1>2, TreeDecides DEF Kept
<1>7. /\ StartsWith(path, root)
      /\ \A p \in FromRoot(path) \ {path} : Traversable(p)
      /\ \A p \in FromRoot(path) : p \in Path /\ Exists(p) /\ StartsWith(p, root) /\ StartsWith(path, p)
  BY WantedFacts, WayFacts
<1>8. CASE ~StartsWith(path, scope)
  <2>1. \A p \in FromRoot(path) : ~StartsWith(p, scope)
    BY <1>2, <1>7, <1>8, StartsTwice
  <2>2. \A p \in FromRoot(path) : Linked(p) => Linked(p)'
    BY <1>5, <1>7, <2>1
  <2>3. \A p \in FromRoot(path) :
           Due(p) /\ (\A q \in FromRoot(p) \ {p} : Traversable(q) /\ Linked(q)) => Due(p)'
    BY <1>6, <1>7, <2>1
  <2> QED
    BY <1>2, <1>4, <2>2, <2>3, StillKept
<1>9. CASE StartsWith(path, scope)
  <2>1. scope \in FromRoot(path)
    BY <1>2, <1>9, StartIsOnTheWay
  <2>2. /\ \A q \in FromRoot(scope) \ {scope} : q \in FromRoot(path) \ {path}
        /\ scope # root => /\ FromRoot(Parent(scope)) = FromRoot(scope) \ {scope}
                           /\ Parent(scope) \in FromRoot(scope) \ {scope}
    BY <1>7, <2>1, AboveFacts
  <2>3. \A p : FromRoot(p)' = FromRoot(p)
    BY DEF FromRoot
  <2>4. \A q \in FromRoot(scope) \ {scope} :
           q \in Path /\ ~StartsWith(q, scope) /\ Exists(q) /\ Traversable(q) /\ StartsWith(q, root)
    BY <1>2, <1>7, <2>2, WayFacts, DepthFacts
  <2>5. \/ Hidden(path)' \/ Coming(path)'
        \/ \A q \in FromRoot(scope) \ {scope} : Linked(q)'
    <3>1. CASE scope = root
      BY <3>1, RootIsFirst
    <3>2. CASE scope # root
      <4> DEFINE above == Parent(scope)
      <4>1. /\ FromRoot(above) = FromRoot(scope) \ {scope}
            /\ above \in Path /\ Traversable(above)
        BY <2>2, <2>4, <3>2
      <4> HIDE DEF above
      <4>2. Hidden(above) \/ Coming(above) \/ Got(above)
        BY <4>1 DEF Kept, Wanted
      <4>3. CASE Hidden(above)
        BY <1>2, <2>2, <2>3, <4>1, <4>3 DEF Hidden
      <4>4. CASE Coming(above)
        <5>1. CASE AllIsDue
          BY <1>4, <5>1 DEF Coming
        <5>2. CASE ~AllIsDue
          <6>1. PICK p \in FromRoot(above) : Due(p) /\ \A q \in FromRoot(p) \ {p} : Linked(q)
            BY <4>4, <5>2 DEF Coming
          <6>2. p \in FromRoot(path) /\ \A q \in FromRoot(p) \ {p} : q \in FromRoot(above)
            BY <2>2, <4>1, <6>1, AboveFacts, TraversableFacts
          <6>3. Due(p)'
            BY <1>6, <2>4, <4>1, <6>1, <6>2
          <6>4. \A q \in FromRoot(p) \ {p} : Linked(q)'
            BY <1>5, <2>4, <4>1, <6>1, <6>2
          <6> QED
            BY <2>3, <6>2, <6>3, <6>4 DEF Coming
        <5> QED
          BY <5>1, <5>2
      <4>5. CASE Got(above)
        BY <1>5, <2>4, <4>1, <4>5 DEF Got, LinkedTo
      <4> QED
        BY <4>2, <4>3, <4>4, <4>5
    <3> QED
      BY <3>1, <3>2
  <2>6. Due(scope)'
    BY <1>3 DEF Due
  <2> QED
    BY <2>1, <2>3, <2>5, <2>6 DEF Kept, Coming
<1> QED
  BY <1>8, <1>9

\* After an overflow the root is on the stack, from where everything is found.
LEMMA RescanRootKeeps ==
  ASSUME RescanRoot, NEW path \in Path
  PROVE  Kept(path)'
<1>1. stack' = <<root>> /\ UNCHANGED tree
  BY DEF RescanRoot, Rescan
<1>2. root \in ToSet(stack')
  <2>1. 1 \in DOMAIN stack' /\ stack'[1] = root
    BY <1>1
  <2> QED
    BY <2>1 DEF ToSet
<1> SUFFICES ASSUME Wanted(path) PROVE Kept(path)'
  BY <1>1, TreeDecides DEF Kept
<1>3. root \in FromRoot(path)
  BY WantedFacts, WayFacts
<1>4. Due(root)'
  BY <1>2 DEF Due
<1>5. FromRoot(root)' = {root} /\ FromRoot(path)' = FromRoot(path)
  BY RootIsFirst DEF FromRoot
<1>6. Coming(path)'
  BY <1>3, <1>4, <1>5 DEF Coming
<1> QED
  BY <1>6 DEF Kept

-----------------------------------------------------------------------------
\* What others do.

\* Along a way that they leave alone, nothing is lost.
LEMMA SteadyIsKept ==
  ASSUME Sane, Others, NEW path \in Path, Exists(path), tree'[path] = tree[path]
  PROVE  /\ Watched(path) => Watched(path)'
         /\ Linked(path) => Linked(path)'
         /\ \A event \in Events, p \in Path :
               Announces(event, p) /\ Parent(p) = path => Announces(event, p)'
         /\ tree[path] \in marked => tree'[path] \in marked'
<1> USE DEF Sane, TypeOK, RegistryTypeOK
<1>1. TreeNext /\ UNCHANGED <<by_path, watchers>>
  BY DEF Others, registry, walk
<1>2. /\ tree[path] \in marked => tree[path] \in marked'
      /\ \A wd \in Wd : watch[wd] = tree[path] => watch'[wd] = tree[path]
  BY <1>1, SteadyEntryIsKept
<1>3. Watched(path) => Watched(path)'
  BY <1>1, <1>2 DEF Watched, contains_path
<1>4. \A event \in Events, p \in Path :
         Announces(event, p) /\ Parent(p) = path => Announces(event, p)'
  BY <1>2 DEF Announces
<1> QED
  BY <1>1, <1>2, <1>3, <1>4 DEF Linked

\* WantedFacts, before and after a step.
WayIsThere ==
    \A path \in Path : Wanted(path) =>
        /\ StartsWith(path, root)
        /\ \A p \in FromRoot(path) : Exists(p)
        /\ \A p \in FromRoot(path) \ {path} : Readable(p) /\ ~Verdict(p).skip_descendants

\* It holds in every state.
LEMMA WayIsThereNow == WayIsThere
<1> SUFFICES ASSUME NEW path \in Path, Wanted(path)
             PROVE  /\ StartsWith(path, root)
                    /\ \A p \in FromRoot(path) : Exists(p)
                    /\ \A p \in FromRoot(path) \ {path} :
                          Readable(p) /\ ~Verdict(p).skip_descendants
  BY DEF WayIsThere
<1> QED
  BY WantedFacts, TraversableFacts

\* So it does after a step.
LEMMA WayIsThereThen == WayIsThere'
  BY WayIsThereNow, PTL

\* What others do takes nothing away that is not announced: the way to a path was not
\* touched, or an event tells where it was, or the directory that got an entry is
\* overlooked.
LEMMA OthersKeep ==
  ASSUME Sane, pc \notin Exited, \A p \in Path : Kept(p), Others, Considerate, NEW path \in Path
  PROVE  Kept(path)'
<1> USE DEF Sane
<1>1. TreeNext /\ UNCHANGED <<by_path, stack, matches, watchers, batch, pending, scopes,
                              needs_rescan, shielded>>
      /\ overlooked' = overlooked \cup {tree'[dir] : dir \in {d \in ToSet(watchers) : Overlooks(d)}}
  BY DEF Others, registry, walk, drain
<1>2. \A event : Heard(event) => Heard(event)'
  BY <1>1, OthersTell DEF NoticeIInv, Heard
<1>3. AllIsDue => AllIsDue'
  BY <1>1, <1>2 DEF AllIsDue
<1>4. \A p : FromRoot(p)' = FromRoot(p)
  BY DEF FromRoot
<1> SUFFICES ASSUME Wanted(path)' PROVE Hidden(path)' \/ Coming(path)' \/ Got(path)'
  BY DEF Kept
<1>5. /\ StartsWith(path, root)
      /\ \A p \in FromRoot(path) : tree'[p] # NoInode
      /\ \A p \in FromRoot(path) : p \in Path
  <2>1. StartsWith(path, root) /\ \A p \in FromRoot(path) : tree'[p] # NoInode
    BY <1>4, WayIsThereThen DEF WayIsThere, Exists
  <2> QED
    BY <2>1, WayFacts
<1>6. ASSUME NEW top \in FromRoot(path), \A p \in FromRoot(top) : Steady(p), Kept(top), Wanted(top)
      PROVE  Hidden(path)' \/ Coming(path)' \/ Got(top)
  <2>1. FromRoot(top) \subseteq FromRoot(path) /\ \A q \in FromRoot(top) \ {top} : q \in FromRoot(path) \ {path}
    BY <1>5, AboveFacts
  <2>2. CASE Hidden(top)
    <3>1. \A p \in FromRoot(top) : tree'[p] = tree[p]
      BY <1>6 DEF Steady
    <3> QED
      BY <1>1, <1>4, <2>1, <2>2, <3>1 DEF Hidden
  <2>3. CASE Coming(top) /\ ~AllIsDue
    <3>1. PICK p \in FromRoot(top) : Due(p) /\ \A q \in FromRoot(p) \ {p} : Linked(q)
      BY <2>3 DEF Coming
    <3>2. p \in FromRoot(path) /\ p \in Path /\ StartsWith(p, root)
          /\ \A q \in FromRoot(p) : q \in Path /\ q \in FromRoot(top)
      BY <1>5, <2>1, <3>1, AboveFacts, WayFacts
    <3>3. \A q \in FromRoot(p) \ {p} : Linked(q)'
      BY <1>6, <3>1, <3>2, SteadyIsKept DEF Steady
    <3>4. Told(p) => Told(p)'
      <4> SUFFICES ASSUME Told(p) PROVE Told(p)'
        OBVIOUS
      <4>1. PICK event \in Events : Heard(event) /\ Announces(event, p)
        BY DEF Told
      <4>2. p # root /\ Parent(p) \in FromRoot(p)
        BY <1>5, <3>2, AboveFacts DEF Told
      <4>3. Announces(event, p)'
        BY <1>6, <3>2, <4>1, <4>2, SteadyIsKept DEF Steady
      <4> QED
        BY <1>2, <4>1, <4>2, <4>3 DEF Told
    <3>5. Due(p)'
      BY <1>1, <3>1, <3>4 DEF Due
    <3> QED
      BY <1>4, <3>2, <3>3, <3>5 DEF Coming
  <2>4. CASE AllIsDue
    BY <1>3, <2>4 DEF Coming
  <2> QED
    BY <1>6, <2>2, <2>3, <2>4 DEF Kept
<1>7. CASE \A p \in FromRoot(path) : Steady(p)
  <2>1. /\ \A p \in FromRoot(path) : Readable(p)' = Readable(p)
        /\ \A p \in FromRoot(path) : Verdict(p)' = Verdict(p)
        /\ path \in FromRoot(path)
        /\ path # root => \A p \in FromRoot(Parent(path)) : p \in FromRoot(path)
    BY <1>5, <1>7, WayFacts, ParentFacts DEF Steady, Readable, IsDir, HasKind, Exists
  <2>2. Traversable(path)' = Traversable(path)
    BY <1>4, <2>1 DEF Traversable
  <2>3. path # root => Traversable(Parent(path))' = Traversable(Parent(path))
    BY <1>4, <2>1 DEF Traversable
  <2>4. MustMark(path)' = MustMark(path)
    BY <1>7, <2>1, <2>3
       DEF MustMark, MustBeMarked, IsMatch, Steady, Resolves, HasKind, Exists
  <2>5. Wanted(path)
    BY <2>2, <2>4 DEF Wanted
  <2>6. Got(path) => Got(path)'
    <3>1. LinkedTo(path) => LinkedTo(path)'
      BY <1>4, <1>5, <1>7, SteadyIsKept DEF LinkedTo, Steady
    <3>2. tree[path] \in marked => tree'[path] \in marked'
      BY <1>7, <2>1, SteadyIsKept DEF Steady
    <3> QED
      BY <1>1, <2>2, <2>4, <3>1, <3>2 DEF Got
  <2> QED
    BY <1>6, <1>7, <2>1, <2>5, <2>6
<1>8. ASSUME NEW p \in FromRoot(path), NEW top \in Path,
             p # root, \A q \in FromRoot(Parent(p)) : Steady(q),
             Parent(top) = Parent(p), top = p \/ IsTrigger(TheRules, FileName(top)),
             Arrives(top), ArrivalIsTold(top)
      PROVE  Hidden(path)' \/ Coming(path)'
  <2>1. PICK dir \in Path : dir = Parent(p) /\ StartsWith(dir, root)
    BY <1>5, <1>8, ParentFacts, WayFacts
  <2>2. /\ FromRoot(dir) = FromRoot(p) \ {p} /\ dir \in FromRoot(dir)
        /\ \A q \in FromRoot(dir) : q \in FromRoot(path) \ {path} /\ q \in Path
    BY <1>5, <1>8, <2>1, AboveFacts, WayFacts
  <2>3. Traversable(dir)
    <3>1. \A q \in FromRoot(dir) : Readable(q)' /\ ~(Verdict(q)').skip_descendants
      BY <1>4, <2>2, WayIsThereThen DEF WayIsThere
    <3>2. \A q \in FromRoot(dir) : Readable(q) /\ ~Verdict(q).skip_descendants
      BY <1>8, <2>1, <2>2, <3>1 DEF Steady, Readable, IsDir, HasKind, Exists
    <3> QED
      BY <2>1, <3>2 DEF Traversable
  <2>4. Hidden(path)' \/ Coming(path)' \/ Got(dir)
    BY <1>6, <1>8, <2>1, <2>2, <2>3 DEF Wanted
  <2>5. ASSUME Got(dir), WdOf(tree[dir]) = NoWd PROVE Hidden(path)'
    <3>1. ~Watched(dir)
      <4>1. ASSUME Watched(dir) PROVE FALSE
        <5>1. by_path[dir] \in Wd /\ watch[by_path[dir]] = tree[dir]
          BY <4>1 DEF Watched, contains_path, TypeOK, RegistryTypeOK
        <5>2. WdOf(tree[dir]) \in Wd
          BY <5>1 DEF WdOf
        <5> QED
          BY <2>5, <5>2, NoWdAssumption
      <4> QED
        BY <4>1
    <3>2. dir \in ToSet(watchers)
      BY <2>2, <2>3, <2>5, <3>1 DEF Got, LinkedTo, Linked
    <3>3. Overlooks(dir)
      <4>1. tree'[dir] = tree[dir] /\ IsDir(dir)
        BY <1>8, <2>1, <2>2, <2>3, TraversableFacts DEF Steady
      <4>2. IsDir(dir)'
        BY <4>1 DEF IsDir, HasKind, Exists
      <4>3. Parent(top) = dir /\ tree'[top] \notin {NoInode, tree[top]}
        BY <1>8, <2>1 DEF Arrives
      <4> QED
        BY <2>5, <4>1, <4>2, <4>3 DEF Overlooks
    <3>4. tree'[dir] \in overlooked'
      BY <1>1, <3>2, <3>3
    <3> QED
      BY <1>4, <2>2, <3>4 DEF Hidden
  <2>6. ASSUME Got(dir), WdOf(tree[dir]) # NoWd PROVE Coming(path)'
    <3>1. PICK wd \in Wd : wd = WdOf(tree[dir]) /\ watch[wd] = tree[dir] /\ wd = ParentWd(top)
      <4>1. Len(top) # 1
        BY <1>5, <1>8, <2>1, ParentLength, PathsAreSequences
      <4> QED
        BY <1>8, <2>1, <2>6, <4>1, WdOfType DEF ParentWd
    <3>2. CASE Contains(queue', OverflowEvent)
      BY <3>2 DEF Coming, AllIsDue, Heard
    <3>3. CASE ~Contains(queue', OverflowEvent)
      <4>1. PICK mask \in {"CREATE", "MOVED_TO"} : Contains(queue', Event(mask, wd, FileName(top)))
        BY <1>8, <3>1, <3>3, NoWdAssumption DEF ArrivalIsTold
      <4>2. PICK event : event = Event(mask, wd, FileName(top))
        OBVIOUS
      <4>3. event \in Events
        BY <4>2 DEF Event, Events, Masks
      <4>4. Heard(event)'
        BY <4>1, <4>2 DEF Heard
      <4>5. watch'[wd] = tree'[dir]
        BY <1>1, <1>8, <2>1, <2>2, <3>1, SteadyEntryIsKept DEF Steady, TypeOK
      <4>6. Announces(event, p)'
        BY <1>8, <2>1, <4>2, <4>5 DEF Announces, Event
      <4>7. Due(p)'
        BY <1>8, <4>3, <4>4, <4>6 DEF Due, Told
      <4>8. \A q \in FromRoot(p) \ {p} : Linked(q)'
        BY <1>8, <2>1, <2>2, <2>3, <2>6, SteadyIsKept DEF Got, LinkedTo, Steady
      <4> QED
        BY <1>4, <4>7, <4>8 DEF Coming
    <3> QED
      BY <3>2, <3>3
  <2> QED
    BY <2>4, <2>5, <2>6
<1> QED
  BY <1>1, <1>5, <1>7, <1>8, WayAfterChange

-----------------------------------------------------------------------------
\* The watcher, whatever considerate others do.

\* Nothing is lost while the root itself is due: above it there is nothing.
LEMMA RootDueLosesNothing == root \in ToSet(stack) => NothingIsLost
<1> SUFFICES ASSUME root \in ToSet(stack), NEW path \in Path, Wanted(path) PROVE Coming(path)
  BY DEF NothingIsLost, Kept
<1>1. root \in FromRoot(path)
  BY WantedFacts, WayFacts
<1>2. Due(root) /\ FromRoot(root) = {root}
  BY RootIsFirst DEF Due
<1> QED
  BY <1>1, <1>2 DEF Coming

\* A start is to walk from the root.
LEMMA InitKeeps == Init => NothingIsLost
  BY RootDueLosesNothing DEF Init, ToSet

\* No step of the program loses a path.
LEMMA ProgramKeeps ==
  ASSUME Sane, NothingIsLost, Program
  PROVE  NothingIsLost'
<1> SUFFICES ASSUME pc' \notin Exited, NEW path \in Path PROVE Kept(path)'
  BY DEF NothingIsLost
<1>1. pc \notin Exited /\ ~ \E code \in Exited : Exit(code)
  BY DEF Program, Walking, MayWalk, NoWatchesLeft, SeedDone, CheckShutdown, PollReturnsEmpty,
         ReadEvents, OnOverflow, OnMoveSelf, OnDeleteSelf, OnCreate, NextEvent, StartPending,
         RescanScope, RescanRoot, BatchIsDone, RebuildDone, DrainDone, Exited, Exit
<1>2. \A p \in Path : Kept(p)
  BY <1>1 DEF NothingIsLost
<1>3. CASE Walking
  BY <1>2, <1>3, VisitKeeps, ApplyMatchKeeps, AddWatchKeeps DEF Walking
<1>4. CASE OnMoveSelf
  <2>1. UNCHANGED kernel
    BY <1>1, <1>4 DEF OnMoveSelf, Exited
  <2> QED
    BY <1>2, <1>4, <2>1, OnMoveSelfKeeps
<1>5. CASE OnDeleteSelf
  <2>1. RemoveByDescriptor(Head(batch).wd) /\ UNCHANGED kernel
    BY <1>1, <1>5 DEF OnDeleteSelf, Exited
  <2> QED
    BY <1>2, <1>5, <2>1, OnDeleteSelfKeeps
<1>6. CASE SeedDone \/ CheckShutdown \/ PollReturnsEmpty \/ RebuildDone \/ DrainDone
  <2>1. UNCHANGED <<tree, marked, watch, queue, by_path, walk, drain, history>>
    BY <1>1, <1>6
       DEF SeedDone, CheckShutdown, PollReturnsEmpty, RebuildDone, DrainDone, world, kernel,
           registry, Exited
  <2>2. \A event : Heard(event)' = Heard(event)
    BY <2>1 DEF Heard, drain
  <2> QED
    BY <1>2, <2>1, <2>2, NothingForgotten DEF walk, drain
<1>7. CASE ReadEvents \/ OnOverflow \/ OnCreate \/ StartPending \/ RescanScope \/ RescanRoot
  BY <1>2, <1>7, ReadKeeps, OnOverflowKeeps, OnCreateKeeps, StartPendingKeeps, RescanScopeKeeps,
     RescanRootKeeps
<1>8. ~NoWatchesLeft
  BY <1>1 DEF NoWatchesLeft, Exited
<1> QED
  BY <1>3, <1>4, <1>5, <1>6, <1>7, <1>8 DEF Program

\* Who leaves the tree alone is considerate.
LEMMA StutterIsConsiderate ==
  ASSUME UNCHANGED tree
  PROVE  Considerate
  BY TreeDecides DEF Considerate, RootStays, MarkersStay

\* Only others change the tree.
LEMMA TreeOrProgram ==
  ASSUME [Next]_vars
  PROVE  TreeNext \/ UNCHANGED tree
  BY DEF Next, Program, Walking, discover_watch_targets, Visit, ApplyMatch, AddWatch,
         NoWatchesLeft, SeedDone, CheckShutdown, PollReturnsEmpty, ReadEvents, OnOverflow,
         OnMoveSelf, OnDeleteSelf, OnCreate, StartPending, RescanScope, RescanRoot,
         RebuildDone, DrainDone, Others, Signal, Terminated, vars, world

\* What the other proofs establish.
LEMMA WatcherSane == Spec => []Sane
<1>1. Init => NoHardLinks
  BY TreeInitNoHardLinks DEF Init
<1>2. TypeOK /\ NoHardLinks /\ [Next]_vars => NoHardLinks'
  BY TreeOrProgram, TreeNextNoHardLinks DEF TypeOK, NoHardLinks, Exists
<1> QED
  BY <1>1, <1>2, WatcherTypeCorrect, WatcherRegistryInverse, WatcherNoticeIInv,
     WatcherOrphanIInv, PTL DEF Spec, Sane

\* No step of a watcher with considerate others loses a path.
LEMMA WatcherStepLosesNothing ==
  ASSUME Sane, NothingIsLost, [Next]_vars, pc \notin Exited => Considerate
  PROVE  NothingIsLost'
<1>1. CASE Program
  BY <1>1, ProgramKeeps
<1>2. CASE Others
  <2>1. pc \notin Exited /\ UNCHANGED pc /\ Considerate
    BY <1>2 DEF Others
  <2> QED
    BY <1>2, <2>1, OthersKeep DEF NothingIsLost
<1>3. CASE Signal \/ Terminated \/ UNCHANGED vars
  <2>1. UNCHANGED <<tree, marked, watch, queue, by_path, walk, drain, history, pc>>
    BY <1>3 DEF Signal, Terminated, vars, world, registry
  <2>2. \A event : Heard(event)' = Heard(event)
    BY <2>1 DEF Heard, drain
  <2> QED
    BY <2>1, <2>2, NothingForgotten DEF NothingIsLost, walk, drain
<1> QED
  BY <1>1, <1>2, <1>3 DEF Next

\* The invariant holds as long as the others are considerate.
LEMMA WatcherLosesNothing == Spec /\ [][Considerate]_tree => []NothingIsLost
<1>1. Sane /\ NothingIsLost /\ [Next]_vars /\ [Considerate]_tree => NothingIsLost'
  BY StutterIsConsiderate, WatcherStepLosesNothing
<1> QED
  BY <1>1, InitKeeps, WatcherSane, PTL DEF Spec

\* When the program waits for events and none is queued, nothing is due.
LEMMA AtRestNothingIsDue ==
  ASSUME TypeOK, NothingIsLost, AtRest, NEW path \in Path, Wanted(path), ~OutOfSight(path)
  PROVE  /\ Traversable(path) => Watched(path)
         /\ MustMark(path) => tree[path] \in marked
<1>1. /\ WalkIsOver /\ DrainIsOver /\ queue = <<>> /\ pc \notin Exited
  BY DEF TypeOK, AtRest, Exited
<1>2. /\ ToSet(stack) = {} /\ ToSet(pending) = {} /\ ToSet(watchers) = {} /\ ToSet(matches) = {}
      /\ \A event : ~Heard(event)
  BY <1>1 DEF WalkIsOver, DrainIsOver, ToSet, Heard, Contains
<1>3. ~Coming(path)
  BY <1>1, <1>2 DEF Coming, AllIsDue, Due, Told, DrainIsOver
<1>4. ~Hidden(path)
  BY DEF Hidden, OutOfSight
<1>5. Got(path)
  BY <1>1, <1>3, <1>4 DEF NothingIsLost, Kept
<1>6. path \in FromRoot(path)
  BY WantedFacts, WayFacts
<1> QED
  BY <1>2, <1>5, <1>6 DEF Got, LinkedTo, Linked

\* At rest every directory that a fresh walk would watch is watched, by its own path
\* and with its own inode: whatever the others create, rename and delete, whenever they
\* do it, whatever the queue loses, as long as the root stays and no marker is
\* taken away; but for the two gaps of OutOfSight.
THEOREM WatcherCoversTree == Spec /\ [][Considerate]_tree => []WatchesCoverTree
<1>1. TypeOK /\ NothingIsLost => WatchesCoverTree
  BY AtRestNothingIsDue DEF WatchesCoverTree, Wanted
<1> QED
  BY <1>1, WatcherTypeCorrect, WatcherLosesNothing, PTL

\* At rest every entry that a fresh walk would mark is marked, in whatever order it, its
\* marker and its directories came, under the same conditions.
THEOREM WatcherMarksComplete == Spec /\ [][Considerate]_tree => []MarksComplete
<1>1. TypeOK /\ NothingIsLost => MarksComplete
  BY AtRestNothingIsDue DEF MarksComplete, Wanted, MustMark
<1> QED
  BY <1>1, WatcherTypeCorrect, WatcherLosesNothing, PTL
=============================================================================
