-------------------------------- MODULE Walk --------------------------------
(***************************************************************************)
(* The walk of discovery.rs, and what apply_discovered_paths does with it: *)
(* mark every match, then watch every directory.                           *)
(*                                                                         *)
(* A walk is not atomic.  Others change the tree between any two of its    *)
(* steps, and a step is what it does up to its next look at the world: one *)
(* directory visited, one setxattr, one inotify_add_watch.  It works       *)
(* through its stack of directories, then applies its matches, then adds   *)
(* its watches.  The three lists are empty when no walk is under way, and  *)
(* they are all the control a walk needs.                                  *)
(***************************************************************************)
EXTENDS Rules, FileTree, WatchRegistry

CONSTANTS
    root,               \* the canonicalized root
    TheRules,           \* the rules of the engine, in priority order
    DryRun,             \* --dry-run
    Unreadable,         \* directories that refuse read_dir and inotify_add_watch
    Unmarkable,         \* inodes that refuse setxattr
    MaxWatches          \* fs.inotify.max_user_watches

ASSUME RootAssumption == root \in Path

VARIABLES
    stack,          \* the directories to visit
    matches,        \* discovered.matches not yet applied
    watchers,       \* discovered.watchers not yet added
    overlooked,     \* history: directories that got an entry after they were
                    \* listed and before they were watched
    shielded,       \* history: directories that add_watch skipped because their
                    \* path was registered for another directory
    detached        \* history: registered paths that no chain of entries ties to the
                    \* root's: the directory above was not watched when one was added,
                    \* or was detached itself, or add_watch has since given the watch
                    \* of a directory above to another path

walk == <<stack, matches, watchers>>
history == <<overlooked, shielded, detached>>

\* What a rule sees of the entry at a path.
Candidate(path) ==
    [name |-> FileName(path), is_dir |-> IsDir(path),
     siblings |-> {FileName(p) : p \in {q \in Path : Parent(q) = Parent(path) /\ Resolves(q)}}]

Verdict(path) == Evaluate(TheRules, Candidate(path))

-----------------------------------------------------------------------------
\* discovery.rs: the walk.

WalkIsOver == stack = <<>> /\ matches = <<>> /\ watchers = <<>>

\* The directory at a path can be listed and watched.
Readable(path) == IsDir(path) /\ tree[path] \notin Unreadable

\* What the walk gets no further than: gone, or a rule says to skip it.
Skipped(dir) == ~Resolves(dir) \/ Verdict(dir).skip_descendants

Listing(dir) == IF Skipped(dir) \/ ~Readable(dir) THEN {} ELSE Children(dir)

\* The visited directory, if a rule marks it.
DirMatch(dir) ==
    IF Resolves(dir) /\ Verdict(dir).set_dropbox_ignore THEN <<dir>> ELSE <<>>

\* The files in it that a rule marks; they are evaluated as they are listed.
FileMatches(dir) ==
    {c \in Listing(dir) : HasKind(c, "file") /\ Verdict(c).set_dropbox_ignore}

\* One turn of the loop in walk: fs::metadata, the rules, read_dir.  Entries come
\* in any order; directories are pushed, symbolic links are left out.  What is no
\* longer a directory is kept as a watcher, for add_watch to refuse.
Visit(collect_watchers) ==
    /\ stack # <<>>
    /\ LET dir == Last(stack)
       IN  /\ \E dirs \in SetToSeqs({c \in Listing(dir) : IsDir(c)}) :
                 stack' = Front(stack) \o dirs
           /\ \E files \in SetToSeqs(FileMatches(dir)) :
                 matches' = matches \o DirMatch(dir) \o files
           /\ IF collect_watchers /\ ~Skipped(dir)
              THEN /\ watchers' = Append(watchers, dir)
                   /\ overlooked' = overlooked \ {tree[dir]}
              ELSE UNCHANGED <<watchers, overlooked>>
    /\ UNCHANGED <<world, registry, shielded, detached>>

\* The two walks: watch mode also collects what to watch.
discover_watch_targets == Visit(TRUE)
discover_matches == Visit(FALSE)

\* setxattr succeeds on it, or would.
Markable(path) == Resolves(path) /\ tree[path] \notin Unmarkable

\* Mutant of ApplyMatch: the first failure gives up on the other matches.
ApplyMatchOrStop ==
    /\ stack = <<>> /\ matches # <<>>
    /\ LET path == Head(matches)
       IN  /\ marked' = IF Markable(path) /\ ~DryRun THEN marked \cup {tree[path]} ELSE marked
           /\ matches' = IF Markable(path) THEN Tail(matches) ELSE <<>>
    /\ UNCHANGED <<tree, kernel, ops, registry, stack, watchers, history>>

\* dropbox.rs: apply_dropbox_ignore for the next match.  A failure is logged and
\* forgotten.  In a drain this is also the mark of a single created entry.
ApplyMatch ==
    /\ stack = <<>> /\ matches # <<>>
    /\ LET path == Head(matches)
       IN  marked' = IF Markable(path) /\ ~DryRun THEN marked \cup {tree[path]} ELSE marked
    /\ matches' = Tail(matches)
    /\ UNCHANGED <<tree, kernel, ops, registry, stack, watchers, history>>

-----------------------------------------------------------------------------
\* watch.rs: add_watch.

\* A descriptor number that neither the kernel, nor the registry, nor an event
\* refers to, be it queued or among those the program holds.
Fresh(wd, held) ==
    /\ ~Live(wd)
    /\ path_for(wd) = NoPath
    /\ \A events \in {queue, held} : \A i \in DOMAIN events : events[i].wd # wd

\* The number the kernel hands out.  Which of the fresh ones makes no difference,
\* for descriptors are only compared.
NextWd(held) == CHOOSE wd \in Wd : Fresh(wd, held)

\* The path is watched, and it is the inode at the path that is.
Watched(path) == contains_path(path) /\ watch[by_path[path]] = tree[path]

\* The paths strictly below one that insert evicts.
BelowEvicted(wd) ==
    {path \in Path : \E n \in 1..Len(path) - 1 : SubSeq(path, 1, n) = path_for(wd)}

\* What detached gains when an entry is added: the path, unless the directory above is
\* there, watched and not detached.
Adding(path) ==
    LET dir == Parent(path)
    IN  IF path = root \/ (Exists(dir) /\ Watched(dir) /\ dir \notin detached)
        THEN {} ELSE {path}

Detach(paths) == detached' = {path \in detached \cup paths : contains_path(path)'}

WatchLimitReached == Cardinality({wd \in Wd : Live(wd)}) >= MaxWatches

NeedsNewWatch(path) ==
    ~contains_path(path) /\ Readable(path) /\ WdOf(tree[path]) = NoWd

\* add_watch looks at the registry, not at the tree: a registered path is skipped,
\* also when another directory has it by now.
SkipRegistered(path) ==
    /\ contains_path(path)
    /\ shielded' = IF Readable(path) /\ watch[by_path[path]] # tree[path]
                   THEN shielded \cup {tree[path]} ELSE shielded
    /\ UNCHANGED <<kernel, registry, detached>>

\* ENOENT, ENOTDIR, EACCES: the path is logged and skipped.
SkipUnwatchable(path) ==
    /\ ~contains_path(path) /\ ~Readable(path)
    /\ UNCHANGED <<kernel, registry, shielded, detached>>

\* The inode is watched already, under another path: the kernel returns the
\* descriptor it has.
RegisterAgain(path) ==
    /\ Readable(path) /\ WdOf(tree[path]) # NoWd
    /\ Register(path, WdOf(tree[path]))
    /\ shielded' = shielded \ {tree[path]}
    /\ Detach(Adding(path) \cup BelowEvicted(WdOf(tree[path])))
    /\ UNCHANGED kernel

RegisterNew(path, held) ==
    /\ NeedsNewWatch(path) /\ ~WatchLimitReached
    /\ \E wd \in Wd : Fresh(wd, held)
    /\ AddKernelWatch(NextWd(held), tree[path])
    /\ Register(path, NextWd(held))
    /\ shielded' = shielded \ {tree[path]}
    /\ Detach(Adding(path))
    /\ UNCHANGED queue

AddingWatches == stack = <<>> /\ matches = <<>> /\ watchers # <<>>

\* add_watch for the next watcher, when it returns Ok.
AddWatch(held) ==
    /\ AddingWatches
    /\ LET path == Head(watchers)
       IN  \/ SkipRegistered(path)
           \/ SkipUnwatchable(path)
           \/ RegisterAgain(path)
           \/ RegisterNew(path, held)
    /\ watchers' = Tail(watchers)
    /\ UNCHANGED <<tree, marked, ops, stack, matches, overlooked>>

\* Mutant of AddWatchFails: a directory that cannot be watched is an error, too.
AddWatchFailsOnBadPath ==
    /\ AddingWatches /\ ~contains_path(Head(watchers))
    /\ ~Readable(Head(watchers)) \/ WatchLimitReached

\* ENOSPC is the only error it returns.
AddWatchFails == AddingWatches /\ NeedsNewWatch(Head(watchers)) /\ WatchLimitReached

-----------------------------------------------------------------------------
\* What a walk is to find in the tree as it is now, without walking.

\* The prefixes of a path from the root on.
FromRoot(path) == {SubSeq(path, 1, n) : n \in Len(root)..Len(path)}

\* A walk from the root gets to this path and past its verdict.
Traversable(path) ==
    /\ StartsWith(path, root)
    /\ \A p \in FromRoot(path) : Readable(p) /\ ~Verdict(p).skip_descendants

\* A walk from the root gets to this entry, and a rule marks it.
IsMatch(path) ==
    /\ StartsWith(path, root) /\ Resolves(path)
    /\ path # root => Traversable(Parent(path))
    /\ Verdict(path).set_dropbox_ignore

-----------------------------------------------------------------------------
\* The lists of a walk hold paths, and the history variables hold inodes, or paths.
WalkTypeOK ==
    /\ stack \in Seq(Path) /\ matches \in Seq(Path) /\ watchers \in Seq(Path)
    /\ overlooked \subseteq Inode /\ shielded \subseteq Inode
    /\ detached \subseteq Path
=============================================================================
