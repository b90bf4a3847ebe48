--------------------------- MODULE ScanOnceProofs ---------------------------
(***************************************************************************)
(* Proofs about the one-shot scan, for every tree, every set of rules and  *)
(* every change that others make while it runs.                            *)
(***************************************************************************)
EXTENDS ScanOnce, WalkProofs

-----------------------------------------------------------------------------
\* Type correctness.

\* The state is well formed at the start.
LEMMA ScanInitType == Init => TypeOK
<1> SUFFICES ASSUME Init PROVE TypeOK
  OBVIOUS
<1>1. RegistryTypeOK
  BY DEF Init, RegistryInit, RegistryTypeOK
<1>2. TreeTypeOK
  BY TreeInitType DEF Init
<1>3. WalkTypeOK
  BY DEF Init, WalkTypeOK
<1>4. marked_before \subseteq Inode
  BY <1>2 DEF Init, TreeTypeOK
<1> QED
  BY <1>1, <1>2, <1>3, <1>4 DEF Init, TypeOK

\* A step of the scan leaves the state well formed.
LEMMA ScanProgramType ==
  ASSUME TypeOK, Program
  PROVE  TypeOK'
<1> USE DEF TypeOK, Exited, scan
<1>1. CASE Start
  <2>1. stack' \in Seq(Path)
    <3>1. stack \in Seq(Path) /\ <<root>> \in Seq(Path)
      BY RootAssumption DEF WalkTypeOK
    <3> QED
      BY <1>1, <3>1 DEF Start
  <2> QED
    BY <1>1, <2>1 DEF Start, RegistryTypeOK, TreeTypeOK, WalkTypeOK, world, registry, history
<1>2. CASE Discover
  <2>1. WalkerTypeOK'
    BY <1>2, VisitType DEF Discover, discover_matches, WalkerTypeOK
  <2> QED
    BY <1>2, <2>1 DEF Discover, WalkerTypeOK
<1>3. CASE Discovered \/ Finish
  BY <1>3 DEF Discovered, Finish, RegistryTypeOK, TreeTypeOK, WalkTypeOK, world, registry,
              walk, history
<1>4. CASE ReadMark
  <2>1. matches' \in Seq(Path) /\ (pc' = "write_mark" => matches' # <<>>)
    BY <1>4 DEF ReadMark, WalkTypeOK
  <2>2. pc' \in {"read_mark", "write_mark"} /\ stack = <<>>
    BY <1>4 DEF ReadMark
  <2>3. UNCHANGED <<world, registry, stack, watchers, history, failures, marked_before,
                    steady>>
    BY <1>4 DEF ReadMark
  <2> QED
    BY <2>1, <2>2, <2>3 DEF RegistryTypeOK, TreeTypeOK, WalkTypeOK, world, registry, history
<1>5. CASE WriteMark
  <2>1. Head(matches) \in Path
    BY <1>5 DEF WriteMark, WalkTypeOK
  <2>2. marked' \subseteq Inode
    BY <1>5, <2>1 DEF WriteMark, Markable, Resolves, Exists, TreeTypeOK
  <2> QED
    BY <1>5, <2>2 DEF WriteMark, RegistryTypeOK, TreeTypeOK, WalkTypeOK, kernel, registry,
                      history
<1> QED
  BY <1>1, <1>2, <1>3, <1>4, <1>5 DEF Program

\* What others do leaves the state well formed.
LEMMA ScanOthersType ==
  ASSUME TypeOK, Others
  PROVE  TypeOK'
<1>1. TreeTypeOK'
  BY TreeNextType DEF TypeOK, Others
<1> QED
  BY <1>1 DEF TypeOK, Others, RegistryTypeOK, WalkTypeOK, registry, walk, history, scan

\* Every step leaves the state well formed.
LEMMA ScanStepType == TypeOK /\ [Next]_vars => TypeOK'
<1> SUFFICES ASSUME TypeOK, [Next]_vars PROVE TypeOK'
  OBVIOUS
<1>1. CASE UNCHANGED vars
  BY <1>1 DEF TypeOK, vars, RegistryTypeOK, TreeTypeOK, WalkTypeOK, world, registry, walk,
              history, scan
<1> QED
  BY <1>1, ScanProgramType, ScanOthersType DEF Next, Terminated

\* The state of the one-shot scan is well formed.
THEOREM ScanTypeCorrect == Spec => []TypeOK
<1>1. Init => TypeOK
  BY ScanInitType
<1>2. TypeOK /\ [Next]_vars => TypeOK'
  BY ScanStepType
<1> QED
  BY <1>1, <1>2, PTL DEF Spec

-----------------------------------------------------------------------------
\* Exit status 0 means that every steady match is marked.

\* What has become of a match so far: the scan has not begun or has found no root,
\* is on its way to it, or has it among its matches; it is marked, or could not be
\* and is counted as a failure; or nothing is to be marked.
Accounted(path) ==
    \/ pc = "start"
    \/ pc = "failed" /\ ~IsDir(root)
    \/ pc = "walk" /\ OnStack(path)
    \/ AmongMatches(path)
    \/ tree[path] \in marked
    \/ tree[path] \in Unmarkable /\ failures > 0
    \/ DryRun

\* SteadyMatchesAreMarked is about the end only.  What holds at every step is that
\* the scan has lost sight of no match.
ScanIInv ==
    /\ NoHardLinks
    /\ \A path \in steady : IsMatch(path) /\ Accounted(path)
    /\ pc = "ok" => failures = 0
    /\ pc \in {"start"} \cup Exited => matches = <<>>

\* The invariant of the scan holds at the start.
LEMMA ScanInitIInv == Init => ScanIInv
<1> SUFFICES ASSUME Init PROVE ScanIInv
  OBVIOUS
<1>1. NoHardLinks
  BY TreeInitNoHardLinks DEF Init
<1> QED
  BY <1>1 DEF Init, ScanIInv, Accounted

\* Whether a path is a match depends on the tree alone.
LEMMA SameTreeSameMatches ==
  ASSUME UNCHANGED tree
  PROVE  /\ NoHardLinks <=> NoHardLinks'
         /\ \A path \in Path : IsMatch(path) <=> IsMatch(path)'
         /\ \A path \in Path : OnTheWay(path) <=> OnTheWay(path)'
  BY DEF NoHardLinks, IsMatch, OnTheWay, Traversable, FromRoot, Readable, IsDir, HasKind, Resolves,
         Exists, Verdict, Candidate

\* A step of the scan that removes its next match from the list.
LEMMA NextMatchLeaves ==
  ASSUME matches \in Seq(Path), matches # <<>>, matches' = Tail(matches), NEW path \in Path,
         AmongMatches(path), path # Head(matches)
  PROVE  AmongMatches(path)'
<1>1. PICK i \in DOMAIN matches : matches[i] = path
  BY DEF AmongMatches
<1>2. i # 1
  BY <1>1
<1>3. i - 1 \in DOMAIN matches' /\ matches'[i - 1] = path
  BY <1>1, <1>2
<1> QED
  BY <1>3 DEF AmongMatches

\* Each step of the scan keeps it.
LEMMA ScanProgramIInv ==
  ASSUME TypeOK, ScanIInv, Program
  PROVE  ScanIInv'
<1>1. UNCHANGED <<tree, steady>> /\ steady \subseteq Path
  BY DEF Program, Start, Discover, discover_matches, Visit, Discovered, ReadMark, WriteMark,
         Finish, TypeOK, world
<1>2. NoHardLinks' /\ \A path \in steady' : path \in Path /\ IsMatch(path)'
  BY <1>1, SameTreeSameMatches DEF ScanIInv
<1>3. matches \in Seq(Path) /\ failures \in Nat
  BY DEF TypeOK, WalkTypeOK
<1>4. ASSUME NEW path \in steady
      PROVE  Accounted(path)'
  <2> USE <1>3
  <2>0. path \in Path /\ IsMatch(path) /\ Accounted(path)
    BY <1>1 DEF ScanIInv
  <2>1. CASE Start
    <3>1. CASE IsDir(root)
      <4>1. stack' = <<root>> /\ pc' = "walk"
        BY <2>1, <3>1 DEF Start
      <4>2. root \in FromRoot(path)
        <5>1. Len(root) \in Len(root)..Len(path) /\ SubSeq(path, 1, Len(root)) = root
          BY <2>0, RootAssumption, PathsAreSequences, SubSeqFull
             DEF IsMatch, StartsWith, IsPrefix
        <5> QED
          BY <5>1 DEF FromRoot
      <4>3. FromRoot(path)' = FromRoot(path)
        BY DEF FromRoot
      <4>4. 1 \in DOMAIN stack' /\ stack'[1] = root
        BY <4>1
      <4>5. OnStack(path)'
        BY <4>2, <4>3, <4>4 DEF OnStack
      <4> QED
        BY <4>1, <4>5 DEF Accounted
    <3>2. CASE ~IsDir(root)
      BY <2>1, <3>2 DEF Start, Accounted, IsDir, HasKind, Exists, world
    <3> QED
      BY <3>1, <3>2
  <2>2. CASE Discover
    <3>1. Visit(FALSE) /\ pc = "walk" /\ pc' = "walk" /\ UNCHANGED <<failures, marked>>
      BY <2>2 DEF Discover, discover_matches, Visit, scan, world
    <3>2. WalkerTypeOK
      BY DEF TypeOK, WalkerTypeOK
    <3>3. CASE OnStack(path)
      BY <2>0, <3>1, <3>2, <3>3, VisitFindsMatch DEF Accounted
    <3>4. CASE AmongMatches(path)
      BY <2>0, <3>1, <3>2, <3>4, VisitKeepsMatch DEF Accounted
    <3>5. CASE \/ tree[path] \in marked
               \/ tree[path] \in Unmarkable /\ failures > 0
               \/ DryRun
      BY <1>1, <3>1, <3>5 DEF Accounted
    <3> QED
      BY <2>0, <3>1, <3>3, <3>4, <3>5 DEF Accounted
  <2>3. CASE Discovered
    <3>1. pc = "walk" /\ stack = <<>> /\ UNCHANGED <<matches, marked, failures>>
      BY <2>3 DEF Discovered, walk, world
    <3>2. ~OnStack(path)
      BY <3>1 DEF OnStack
    <3> QED
      BY <1>1, <2>0, <3>1, <3>2 DEF Accounted, AmongMatches
  <2>4. CASE ReadMark
    <3>1. pc = "read_mark" /\ matches # <<>> /\ UNCHANGED <<marked, failures>>
      BY <2>4 DEF ReadMark, world
    <3>2. CASE UNCHANGED matches
      BY <1>1, <2>0, <3>1, <3>2 DEF Accounted, AmongMatches
    <3>3. CASE matches' = Tail(matches) /\ path = Head(matches)
      <4>1. is_already_ignored(path) \/ DryRun \/ UNCHANGED matches
        BY <2>4, <3>3 DEF ReadMark
      <4> QED
        BY <1>1, <3>1, <3>2, <4>1 DEF is_already_ignored, Accounted
    <3>4. CASE matches' = Tail(matches) /\ path # Head(matches)
      BY <1>1, <2>0, <3>1, <3>4, NextMatchLeaves DEF Accounted
    <3> QED
      BY <2>4, <3>2, <3>3, <3>4 DEF ReadMark
  <2>5. CASE WriteMark
    <3>1. pc = "write_mark" /\ matches # <<>> /\ matches' = Tail(matches)
      BY <2>5 DEF WriteMark, TypeOK
    <3>2. marked \subseteq marked' /\ failures' >= failures
      BY <2>5 DEF WriteMark
    <3>3. CASE path = Head(matches)
      <4>1. tree[path] \in marked' \/ (tree[path] \in Unmarkable /\ failures' > 0)
        BY <2>0, <2>5, <3>3 DEF WriteMark, Markable, IsMatch
      <4> QED
        BY <1>1, <4>1 DEF Accounted
    <3>4. CASE path # Head(matches) /\ AmongMatches(path)
      BY <2>0, <3>1, <3>4, NextMatchLeaves DEF Accounted
    <3>5. CASE tree[path] \in marked \/ DryRun
      BY <1>1, <3>2, <3>5 DEF Accounted
    <3>6. CASE tree[path] \in Unmarkable /\ failures > 0
      <4>1. failures' \in Nat
        BY <2>5 DEF WriteMark
      <4>2. failures' > 0
        BY <3>2, <3>6, <4>1
      <4> QED
        BY <1>1, <3>6, <4>2 DEF Accounted
    <3> QED
      BY <2>0, <3>1, <3>3, <3>4, <3>5, <3>6 DEF Accounted
  <2>6. CASE Finish
    BY <1>1, <2>0, <2>6 DEF Finish, Accounted, AmongMatches, walk, world
  <2> QED
    BY <2>1, <2>2, <2>3, <2>4, <2>5, <2>6 DEF Program
<1>5. /\ pc' = "ok" => failures' = 0
      /\ pc' \in {"start"} \cup Exited => matches' = <<>>
  BY <1>3 DEF ScanIInv, Program, Start, Discover, Discovered, ReadMark, WriteMark, Finish,
              Exited, scan, walk
<1> QED
  BY <1>1, <1>2, <1>4, <1>5 DEF ScanIInv

\* What others do keeps it.
LEMMA ScanOthersIInv ==
  ASSUME TypeOK, ScanIInv, Others
  PROVE  ScanIInv'
<1>1. TreeNext /\ TreeTypeOK /\ UNCHANGED <<stack, matches, pc, failures>>
  BY DEF Others, TypeOK, walk, scan
<1>2. NoHardLinks'
  BY <1>1, TreeNextNoHardLinks DEF ScanIInv
<1>3. ASSUME NEW path \in steady'
      PROVE  IsMatch(path)' /\ Accounted(path)'
  <2>1. path \in steady /\ path \in Path /\ IsMatch(path)' /\ tree'[path] = tree[path]
    BY DEF Others, TypeOK
  <2>2. Accounted(path) /\ IsMatch(path)
    BY <2>1 DEF ScanIInv
  <2>3. tree[path] \in marked => tree'[path] \in marked'
    BY <1>1, <2>1, <2>2, SteadyEntryIsKept DEF ScanIInv, IsMatch, Resolves
  <2>4. OnStack(path) => OnStack(path)'
    BY <1>1 DEF OnStack, FromRoot
  <2>5. pc # "failed"
    BY DEF Others, Exited
  <2> QED
    BY <1>1, <2>1, <2>2, <2>3, <2>4, <2>5 DEF Accounted, AmongMatches
<1>4. /\ pc' = "ok" => failures' = 0
      /\ pc' \in {"start"} \cup Exited => matches' = <<>>
  BY <1>1 DEF ScanIInv
<1> QED
  BY <1>2, <1>3, <1>4 DEF ScanIInv

\* Every step keeps it.
LEMMA ScanStepIInv == TypeOK /\ ScanIInv /\ [Next]_vars => ScanIInv'
<1> SUFFICES ASSUME TypeOK, ScanIInv, [Next]_vars PROVE ScanIInv'
  OBVIOUS
<1>1. CASE UNCHANGED vars
  <2>1. UNCHANGED <<tree, marked, stack, matches, pc, failures, steady>> /\ steady \subseteq Path
    BY <1>1 DEF vars, world, walk, scan, TypeOK
  <2>2. NoHardLinks' /\ \A path \in steady' : IsMatch(path)'
    BY <2>1, SameTreeSameMatches DEF ScanIInv
  <2>3. \A path \in steady' : Accounted(path)'
    BY <2>1 DEF ScanIInv, Accounted, OnStack, AmongMatches, FromRoot, IsDir, HasKind, Exists
  <2> QED
    BY <2>1, <2>2, <2>3 DEF ScanIInv
<1> QED
  BY <1>1, ScanProgramIInv, ScanOthersIInv DEF Next, Terminated

\* A scan that exits with status 0 leaves no match unmarked that others left alone.
THEOREM SteadyAlwaysMarked == Spec => []SteadyMatchesAreMarked
<1>1. Init => TypeOK /\ ScanIInv
  BY ScanInitType, ScanInitIInv
<1>2. (TypeOK /\ ScanIInv) /\ [Next]_vars => (TypeOK /\ ScanIInv)'
  BY ScanStepType, ScanStepIInv
<1>3. TypeOK /\ ScanIInv => SteadyMatchesAreMarked
  BY DEF ScanIInv, SteadyMatchesAreMarked, Accounted, AmongMatches, Exited
<1> QED
  BY <1>1, <1>2, <1>3, PTL DEF Spec

-----------------------------------------------------------------------------
\* A scan of a tree that nobody changes is exact.

\* What a walk gets to, and what it is to find.
OnTheWayPaths == {path \in Path : OnTheWay(path)}
MatchPaths == {path \in Path : IsMatch(path)}

\* ScanIInv says that no match is lost.  The rest is that nothing but a match is
\* found, marked or counted as a failure.
Exact ==
    /\ watch = [wd \in Wd |-> NoInode]
    /\ steady = MatchPaths
    /\ \A n \in DOMAIN stack : stack[n] \in OnTheWayPaths
    /\ \A n \in DOMAIN matches : matches[n] \in MatchPaths
    /\ marked_before \subseteq marked
    /\ \A inode \in marked \ marked_before :
          pc # "start" /\ ~DryRun /\ IsDir(root) /\ inode \in Found \ Unmarkable
    /\ IsDir(root) \/ pc \in {"start", "failed"}
    /\ pc = "start" => failures = 0
    /\ pc = "failed" => failures > 0 \/ ~IsDir(root)
    /\ failures > 0 => /\ ~DryRun
                       /\ \E path \in MatchPaths : tree[path] \in Unmarkable \ marked_before
    /\ pc = "write_mark" => ~DryRun /\ ~is_already_ignored(Head(matches))

QuietIInv ==
    /\ ops \in Nat
    /\ ops = 0 => Exact

\* What is to be found depends on the tree only.
LEMMA SameTreeSameFound ==
  ASSUME UNCHANGED tree
  PROVE  UNCHANGED <<MatchPaths, OnTheWayPaths, Found>> /\ (IsDir(root) <=> IsDir(root)')
<1>1. UNCHANGED <<MatchPaths, OnTheWayPaths>>
  BY SameTreeSameMatches DEF MatchPaths, OnTheWayPaths
<1>2. Found = {tree[path] : path \in MatchPaths}
  BY DEF Found, MatchPaths
<1>3. Found' = {tree'[path] : path \in MatchPaths'}
  BY DEF Found, MatchPaths
<1>4. UNCHANGED Found
  BY <1>1, <1>2, <1>3
<1> QED
  BY <1>1, <1>4 DEF IsDir, HasKind, Exists

\* The invariant of the undisturbed scan holds at the start.
LEMMA QuietInit == Init => QuietIInv
<1> SUFFICES ASSUME Init PROVE QuietIInv
  OBVIOUS
<1>1. /\ ops = 0 /\ watch = [wd \in Wd |-> NoInode]
      /\ stack = <<>> /\ matches = <<>> /\ pc = "start" /\ failures = 0
      /\ marked_before = marked /\ steady = MatchPaths
  BY DEF Init, TreeInit, MatchPaths
<1> QED
  BY <1>1 DEF QuietIInv, Exact

\* Each step of the scan keeps it.
LEMMA QuietProgram ==
  ASSUME TypeOK, ScanIInv, QuietIInv, Program
  PROVE  QuietIInv'
<1>1. UNCHANGED <<tree, watch, ops, steady, marked_before>>
  BY DEF Program, Start, Discover, discover_matches, Visit, Discovered, ReadMark, WriteMark,
         Finish, world, kernel
<1>2. UNCHANGED <<MatchPaths, OnTheWayPaths, Found>> /\ (IsDir(root) <=> IsDir(root)')
  BY <1>1, SameTreeSameFound
<1>3. /\ stack \in Seq(Path) /\ matches \in Seq(Path) /\ failures \in Nat
      /\ WalkerTypeOK
  BY DEF TypeOK, WalkTypeOK, WalkerTypeOK
<1> SUFFICES ASSUME ops = 0, Exact PROVE Exact'
  BY <1>1 DEF QuietIInv
<1>4. /\ (watch = [wd \in Wd |-> NoInode])'
      /\ (steady = MatchPaths)'
  BY <1>1, <1>2 DEF Exact
<1>5. CASE Start
  <2>1. UNCHANGED <<marked, matches, failures>> /\ pc = "start" /\ failures = 0
    BY <1>5 DEF Start, world, Exact
  <2>2. marked = marked_before
    BY <2>1 DEF Exact
  <2>3. \A n \in DOMAIN stack' : stack'[n] \in OnTheWayPaths
    <3>1. CASE IsDir(root)
      <4>1. stack' = <<root>>
        BY <1>5, <3>1 DEF Start
      <4>2. root \in OnTheWayPaths
        BY RootAssumption, StartsWithSelf DEF OnTheWay, OnTheWayPaths
      <4> QED
        BY <4>1, <4>2
    <3>2. CASE ~IsDir(root)
      BY <1>5, <3>2 DEF Start, Exact
    <3> QED
      BY <3>1, <3>2
  <2>4. \/ pc' = "walk" /\ IsDir(root)
        \/ pc' = "failed" /\ ~IsDir(root)
    BY <1>5 DEF Start
  <2> QED
    BY <1>1, <1>2, <1>3, <1>4, <2>1, <2>2, <2>3, <2>4 DEF Exact
<1>6. CASE Discover
  <2>1. Visit(FALSE) /\ pc = "walk" /\ UNCHANGED <<pc, marked, failures>>
    BY <1>6 DEF Discover, discover_matches, Visit, scan, world
  <2>2. /\ \A n \in DOMAIN stack : OnTheWay(stack[n])
        /\ \A n \in DOMAIN matches : IsMatch(matches[n])
    BY DEF Exact, OnTheWayPaths, MatchPaths
  <2>3. /\ \A n \in DOMAIN stack' : OnTheWay(stack'[n])
        /\ \A n \in DOMAIN matches' : IsMatch(matches'[n])
    BY <1>3, <2>1, <2>2, VisitFindsMatchesOnly
  <2>4. stack' \in Seq(Path) /\ matches' \in Seq(Path)
    BY <1>3, <2>1, VisitType DEF WalkerTypeOK, WalkTypeOK
  <2>5. /\ \A n \in DOMAIN stack' : stack'[n] \in OnTheWayPaths
        /\ \A n \in DOMAIN matches' : matches'[n] \in MatchPaths
    BY <2>3, <2>4 DEF OnTheWayPaths, MatchPaths
  <2> QED
    BY <1>1, <1>2, <1>4, <2>1, <2>5 DEF Exact
<1>7. CASE Discovered
  <2>1. /\ UNCHANGED <<stack, matches, marked, failures>>
        /\ pc = "walk" /\ pc' = "read_mark"
    BY <1>7 DEF Discovered, walk, world
  <2> QED
    BY <1>1, <1>2, <1>3, <1>4, <2>1 DEF Exact
<1>8. CASE ReadMark
  <2>1. /\ UNCHANGED <<stack, marked, failures>>
        /\ pc = "read_mark" /\ matches # <<>>
        /\ \/ matches' = Tail(matches) /\ UNCHANGED pc
           \/ /\ pc' = "write_mark" /\ UNCHANGED matches
              /\ ~is_already_ignored(Head(matches)) /\ ~DryRun
    BY <1>8 DEF ReadMark, world
  <2>2. \A n \in DOMAIN matches' : matches'[n] \in MatchPaths
    BY <1>3, <2>1 DEF Exact
  <2>3. is_already_ignored(Head(matches))' => pc' # "write_mark"
    BY <1>1, <2>1 DEF is_already_ignored, Resolves, HasKind, Exists
  <2> QED
    BY <1>1, <1>2, <1>3, <1>4, <2>1, <2>2, <2>3 DEF Exact
<1>9. CASE WriteMark
  <2> DEFINE path == Head(matches)
  <2>1. /\ pc = "write_mark" /\ pc' = "read_mark" /\ matches # <<>>
        /\ matches' = Tail(matches) /\ UNCHANGED stack
    BY <1>9 DEF WriteMark, TypeOK
  <2>2. path \in MatchPaths /\ path \in Path /\ Resolves(path)
    BY <1>3, <2>1 DEF Exact, MatchPaths, IsMatch
  <2>3. ~DryRun /\ tree[path] \notin marked /\ IsDir(root)
    BY <2>1, <2>2 DEF Exact, is_already_ignored
  <2>4. \A n \in DOMAIN matches' : matches'[n] \in MatchPaths
    BY <1>3, <2>1 DEF Exact
  <2>5. tree[path] \in Found
    BY <2>2 DEF Found, MatchPaths
  <2> HIDE DEF path
  <2>6. CASE tree[path] \in Unmarkable
    <3>1. UNCHANGED marked
      BY <1>9, <2>6 DEF WriteMark, Markable, path
    <3>2. path \in MatchPaths' /\ tree'[path] \in Unmarkable \ marked_before'
      BY <1>1, <1>2, <2>2, <2>3, <2>6 DEF Exact
    <3> QED
      BY <1>1, <1>2, <1>3, <1>4, <2>1, <2>2, <2>3, <2>4, <3>1, <3>2 DEF Exact
  <2>7. CASE tree[path] \notin Unmarkable
    <3>1. marked' = marked \cup {tree[path]} /\ UNCHANGED failures
      BY <1>9, <2>2, <2>7 DEF WriteMark, Markable, path
    <3>2. \A inode \in marked' \ marked_before' : inode \in Found' \ Unmarkable
      BY <1>1, <1>2, <2>5, <2>7, <3>1 DEF Exact
    <3> QED
      BY <1>1, <1>2, <1>3, <1>4, <2>1, <2>3, <2>4, <3>1, <3>2 DEF Exact
  <2> QED
    BY <2>6, <2>7
<1>10. CASE Finish
  <2>1. /\ UNCHANGED <<stack, matches, marked, failures>> /\ pc = "read_mark"
        /\ \/ pc' = "failed" /\ failures > 0
           \/ pc' = "ok"
    BY <1>10 DEF Finish, walk, world
  <2> QED
    BY <1>1, <1>2, <1>3, <1>4, <2>1 DEF Exact
<1> QED
  BY <1>5, <1>6, <1>7, <1>8, <1>9, <1>10 DEF Program

\* Whatever others do to a tree without watches counts as a change.
LEMMA QuietOthers ==
  ASSUME TypeOK, QuietIInv, Others
  PROVE  QuietIInv'
<1>1. TreeNext /\ ops \in Nat
  BY DEF Others, QuietIInv
<1>2. CASE ops' = ops + 1
  BY <1>1, <1>2 DEF QuietIInv
<1>3. CASE (\E inode \in Inode : Release(inode)) /\ UNCHANGED ops
  <2>1. PICK inode \in Inode : WdOf(inode) # NoWd
    BY <1>3 DEF Release
  <2>2. ops # 0
    BY <2>1, WdOfType, NoInodeAssumption DEF QuietIInv, Exact
  <2> QED
    BY <1>1, <1>3, <2>2 DEF QuietIInv
<1> QED
  BY <1>1, <1>2, <1>3 DEF TreeNext

\* So does every step, for others do nothing then.
LEMMA QuietStep == TypeOK /\ ScanIInv /\ QuietIInv /\ [Next]_vars => QuietIInv'
<1> SUFFICES ASSUME TypeOK, ScanIInv, QuietIInv, [Next]_vars PROVE QuietIInv'
  OBVIOUS
<1>1. CASE UNCHANGED vars
  <2>1. UNCHANGED <<tree, marked, watch, ops, stack, matches, pc, failures, marked_before,
                    steady>>
    BY <1>1 DEF vars, world, walk, scan
  <2>2. UNCHANGED <<MatchPaths, OnTheWayPaths, Found>>
    BY <2>1, SameTreeSameFound
  <2> QED
    BY <2>1, <2>2
       DEF QuietIInv, Exact, is_already_ignored, IsDir, Resolves, HasKind, Exists
<1> QED
  BY <1>1, QuietProgram, QuietOthers DEF Next, Terminated

\* At the end it says that exactly the matches are marked.
LEMMA QuietImpliesExact == TypeOK /\ ScanIInv /\ QuietIInv => QuietScanIsExact
<1> SUFFICES ASSUME TypeOK, ScanIInv, QuietIInv, ops = 0, pc \in Exited
             PROVE  LET found == IF IsDir(root) THEN Found ELSE {}
                        to_mark == IF DryRun THEN {} ELSE found \ marked_before
                    IN  /\ marked = marked_before \cup (to_mark \ Unmarkable)
                        /\ pc = "failed" <=> ~IsDir(root) \/ to_mark \cap Unmarkable # {}
  BY DEF QuietScanIsExact
<1> DEFINE found == IF IsDir(root) THEN Found ELSE {}
           to_mark == IF DryRun THEN {} ELSE found \ marked_before
<1>1. Exact /\ matches = <<>> /\ (pc = "ok" => failures = 0) /\ failures \in Nat
  BY DEF QuietIInv, ScanIInv, TypeOK
<1>2. CASE ~IsDir(root)
  BY <1>1, <1>2 DEF Exact, Exited
<1>3. CASE IsDir(root)
  <2>1. ASSUME NEW inode \in Found
        PROVE  inode \in marked \/ (inode \in Unmarkable /\ failures > 0) \/ DryRun
    <3>1. PICK path \in steady : inode = tree[path]
      BY <1>1 DEF Exact, Found, MatchPaths
    <3>2. Accounted(path) /\ ~AmongMatches(path)
      BY <1>1 DEF ScanIInv, AmongMatches
    <3> QED
      BY <1>3, <3>1, <3>2 DEF Accounted, Exited
  <2>2. ASSUME failures > 0
        PROVE  ~DryRun /\ \E inode \in Found : inode \in Unmarkable \ marked_before
    BY <1>1, <2>2 DEF Exact, Found, MatchPaths
  <2>3. marked = marked_before \cup (to_mark \ Unmarkable)
    BY <1>1, <1>3, <2>1 DEF Exact
  <2>4. pc = "failed" => to_mark \cap Unmarkable # {}
    BY <1>1, <1>3, <2>2 DEF Exact
  <2>5. ASSUME NEW inode \in to_mark \cap Unmarkable PROVE pc = "failed"
    <3>1. inode \in Found \ marked_before /\ inode \in Unmarkable /\ ~DryRun
      BY <1>3
    <3>2. inode \notin marked
      BY <1>1, <3>1 DEF Exact
    <3>3. failures > 0
      BY <2>1, <3>1, <3>2
    <3> QED
      BY <1>1, <3>3 DEF Exited
  <2> QED
    BY <1>3, <2>3, <2>4, <2>5
<1> QED
  BY <1>2, <1>3

\* When nobody changes the tree, the scan marks exactly the matches that it can, and
\* its exit status says whether these are all.
THEOREM QuietAlwaysExact == Spec => []QuietScanIsExact
<1>1. Init => TypeOK /\ ScanIInv /\ QuietIInv
  BY ScanInitType, ScanInitIInv, QuietInit
<1>2. (TypeOK /\ ScanIInv /\ QuietIInv) /\ [Next]_vars => (TypeOK /\ ScanIInv /\ QuietIInv)'
  BY ScanStepType, ScanStepIInv, QuietStep
<1> QED
  BY <1>1, <1>2, QuietImpliesExact, PTL DEF Spec
=============================================================================
