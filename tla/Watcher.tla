------------------------------ MODULE Watcher ------------------------------
(***************************************************************************)
(* Watch mode of dropignore: the initial seeding of run, the event loop,   *)
(* drain_events and the rescans of app.rs, over the walks of Walk.         *)
(*                                                                         *)
(* The program has one thread.  What interleaves with it is the rest of    *)
(* the world: between any two of its system calls, other processes change  *)
(* the tree.  So a step here is what the program does up to its next look  *)
(* at the world: one step of a walk, one read, one event.                  *)
(***************************************************************************)
EXTENDS Walk

CONSTANTS
    SplitReads,         \* may a read return before a burst of events is complete?
    Interference,       \* when others may change the tree: "anytime", only
                        \* "after_seeding", or only "between_drains"
    Signals             \* may a signal ask the program to stop?

VARIABLES
    pc,             \* where the program is
    batch,          \* drain_events: the events read and not yet handled
    pending,        \* drain_events: pending_directories
    scopes,         \* drain_events: rescan_scopes
    needs_rescan,   \* drain_events: needs_rescan
    shutdown        \* the flag of the signal handler

drain == <<batch, pending, scopes, needs_rescan>>
vars == <<world, registry, pc, walk, drain, shutdown, history>>

Exited == {"ok", "failed"}

Init ==
    /\ TreeInit /\ IsDir(root)
    /\ RegistryInit
    /\ pc = "seed"
    /\ stack = <<root>> /\ matches = <<>> /\ watchers = <<>>
    /\ batch = <<>> /\ pending = <<>> /\ scopes = {} /\ needs_rescan = FALSE
    /\ shutdown = FALSE
    /\ overlooked = {} /\ shielded = {} /\ detached = {}

\* The process ends and the kernel closes its inotify instance.
Exit(code) ==
    /\ pc' = code
    /\ CloseKernel

-----------------------------------------------------------------------------
\* A walk is under way: in the seeding, in a drain, in the rescan after an overflow.
MayWalk == pc \in {"seed", "drain", "rebuild"}

Walking ==
    /\ MayWalk
    /\ discover_watch_targets \/ ApplyMatch \/ AddWatch(batch)
    /\ UNCHANGED <<pc, drain, shutdown>>

\* Mutant of NoWatchesLeft: ENOSPC is skipped like the other errors.
SkipTheRest ==
    /\ MayWalk /\ AddWatchFails
    /\ watchers' = Tail(watchers)
    /\ UNCHANGED <<world, registry, pc, stack, matches, drain, shutdown, history>>

\* The error of add_watch goes all the way up and ends the program.
NoWatchesLeft ==
    /\ MayWalk /\ AddWatchFails
    /\ Exit("failed")
    /\ UNCHANGED <<tree, marked, ops, registry, walk, drain, shutdown, history>>

\* run: the initial seeding is done.
SeedDone ==
    /\ pc = "seed" /\ WalkIsOver
    /\ pc' = "check"
    /\ UNCHANGED <<world, registry, walk, drain, shutdown, history>>

-----------------------------------------------------------------------------
\* app.rs: event_loop.

Signal ==
    /\ Signals /\ ~shutdown /\ pc \notin Exited
    /\ shutdown' = TRUE
    /\ UNCHANGED <<world, registry, pc, walk, drain, history>>

\* The flag is read at the top of each turn of the loop, and nowhere else.
CheckShutdown ==
    /\ pc = "check"
    /\ IF shutdown THEN Exit("ok") ELSE pc' = "poll" /\ UNCHANGED kernel
    /\ UNCHANGED <<tree, marked, ops, registry, walk, drain, shutdown, history>>

\* Mutant of PollReturnsEmpty: a wait that only an event ends.
PollWithoutTimeout == pc = "poll" /\ queue = <<>> /\ UNCHANGED vars

\* poll_inotify times out, or a signal interrupts it.
PollReturnsEmpty ==
    /\ pc = "poll" /\ queue = <<>>
    /\ pc' = "check"
    /\ UNCHANGED <<world, registry, walk, drain, shutdown, history>>

\* drain_events: one read.  The reader can wake up in the middle of a burst, so
\* any number of the queued events may be in the batch.
ReadEvents ==
    /\ pc = "poll" /\ queue # <<>>
    /\ \E n \in 1..Len(queue) :
          /\ ~SplitReads => n = Len(queue)
          /\ batch' = SubSeq(queue, 1, n)
          /\ ReadFirst(n)
    /\ pc' = "drain"
    /\ UNCHANGED <<tree, marked, watch, ops, registry, walk, pending, scopes, needs_rescan,
                   shutdown, history>>

-----------------------------------------------------------------------------
\* app.rs: drain_events, the loop over the batch.

\* The next event, once what an earlier one had to mark is marked.
NextEvent(mask) ==
    /\ pc = "drain" /\ WalkIsOver /\ batch # <<>>
    /\ Head(batch).mask = mask
    /\ batch' = Tail(batch)

\* Mutant of OnOverflow: an overflow is logged only.
OverflowIsLogged ==
    /\ NextEvent("Q_OVERFLOW")
    /\ UNCHANGED <<world, registry, pc, walk, pending, scopes, needs_rescan, shutdown,
                   history>>

OnOverflow ==
    /\ NextEvent("Q_OVERFLOW")
    /\ needs_rescan' = TRUE
    /\ UNCHANGED <<world, registry, pc, walk, pending, scopes, shutdown, history>>

\* The path of the descriptor is the old one.  An unknown descriptor was drained
\* by an earlier rescan.
OnMoveSelf ==
    /\ NextEvent("MOVE_SELF")
    /\ LET path == path_for(Head(batch).wd)
       IN  \/ path = NoPath /\ UNCHANGED <<kernel, pc, scopes>>
           \/ path = root /\ Exit("failed") /\ UNCHANGED scopes
           \/ /\ path \notin {NoPath, root}
              /\ scopes' = scopes \cup {path}
              /\ UNCHANGED <<kernel, pc>>
    /\ UNCHANGED <<tree, marked, ops, registry, walk, pending, needs_rescan, shutdown,
                   history>>

OnDeleteSelf ==
    /\ NextEvent("DELETE_SELF")
    /\ LET wd == Head(batch).wd
       IN  IF path_for(wd) = root
           THEN Exit("failed") /\ UNCHANGED registry
           ELSE RemoveByDescriptor(wd) /\ UNCHANGED <<kernel, pc>>
    /\ Detach({})
    /\ UNCHANGED <<tree, marked, ops, walk, pending, scopes, needs_rescan, shutdown,
                   overlooked, shielded>>

\* Mutant of IsTriggerEvent: a marker counts only when it is moved in.
MovedInTrigger(event) == event.mask = "MOVED_TO" /\ IsTrigger(TheRules, event.name)

IsTriggerEvent(event) == IsTrigger(TheRules, event.name)

\* Mutant of plan_entry: new directories are marked but never watched.
PlanMarkOnly(path) ==
    [apply_ignore |-> Resolves(path) /\ Verdict(path).set_dropbox_ignore,
     watch_dir |-> FALSE]

\* symlink_metadata and plan_entry: what to do about the entry that has the path
\* now, which need not be the one the event was about.
plan_entry(path) ==
    [apply_ignore |-> Resolves(path) /\ Verdict(path).set_dropbox_ignore,
     watch_dir |-> IsDir(path) /\ ~Verdict(path).skip_descendants]

\* CREATE and MOVED_TO.  A trigger schedules a rescan of its directory before the
\* entry is looked at.  An event of an unknown descriptor is dropped.
OnCreate ==
    /\ NextEvent("CREATE") \/ NextEvent("MOVED_TO")
    /\ LET event == Head(batch)
           parent_dir == path_for(event.wd)
           full_path == Append(parent_dir, event.name)
           known == parent_dir # NoPath
           found == known /\ full_path \in Path
       IN  /\ scopes' = IF known /\ IsTriggerEvent(event)
                        THEN scopes \cup {parent_dir} ELSE scopes
           /\ matches' = IF found /\ plan_entry(full_path).apply_ignore
                         THEN <<full_path>> ELSE <<>>
           /\ pending' = IF found /\ plan_entry(full_path).watch_dir
                         THEN Append(pending, full_path) ELSE pending
    /\ UNCHANGED <<world, registry, pc, stack, watchers, needs_rescan, shutdown, history>>

-----------------------------------------------------------------------------
\* app.rs: drain_events, after the loop over the batch.

BatchIsDone == pc = "drain" /\ WalkIsOver /\ batch = <<>>

\* Mutant of StartPending: only one new directory of a batch is walked.
StartOnePending ==
    /\ BatchIsDone /\ pending # <<>>
    /\ stack' = <<Head(pending)>>
    /\ pending' = <<>>
    /\ UNCHANGED <<world, registry, pc, matches, watchers, batch, scopes, needs_rescan,
                   shutdown, history>>

\* The next of the directories that events announced is walked.
StartPending ==
    /\ BatchIsDone /\ pending # <<>>
    /\ stack' = <<Head(pending)>>
    /\ pending' = Tail(pending)
    /\ UNCHANGED <<world, registry, pc, matches, watchers, batch, scopes, needs_rescan,
                   shutdown, history>>

\* Mutant of Rescan: the kernel keeps the watches the registry forgets.
RescanKeepingWatches(scope) ==
    /\ DrainSubtree(scope)
    /\ UNCHANGED watch
    /\ Detach({})
    /\ stack' = <<scope>>

\* rescan_subtree up to its walk: the registry forgets everything at or below the
\* scope, and so does the kernel.
Rescan(scope) ==
    /\ DrainSubtree(scope)
    /\ RemoveKernelWatches(DrainedDescriptors(scope))
    /\ Detach({})
    /\ stack' = <<scope>>

\* After an overflow the whole tree is rescanned, and the scopes are dropped.
RescanRoot ==
    /\ BatchIsDone /\ pending = <<>> /\ needs_rescan
    /\ Rescan(root)
    /\ pc' = "rebuild"
    /\ needs_rescan' = FALSE
    /\ scopes' = {}
    /\ UNCHANGED <<tree, marked, queue, ops, matches, watchers, batch, pending, shutdown,
                   overlooked, shielded>>

\* Mutant of RebuildDone: the rescan after an overflow need not find the root.
RebuildWithoutRoot ==
    /\ pc = "rebuild" /\ WalkIsOver
    /\ pc' = "check"
    /\ UNCHANGED <<world, registry, walk, drain, shutdown, history>>

\* The rescan after an overflow must have found the root again.
RebuildDone ==
    /\ pc = "rebuild" /\ WalkIsOver
    /\ IF contains_path(root) THEN pc' = "check" /\ UNCHANGED kernel ELSE Exit("failed")
    /\ UNCHANGED <<tree, marked, ops, registry, walk, drain, shutdown, history>>

\* Mutant of RescanScope: the scope stays in the set.
RescanScopeAgain ==
    /\ BatchIsDone /\ pending = <<>> /\ ~needs_rescan
    /\ \E scope \in scopes : Rescan(scope)
    /\ UNCHANGED <<tree, marked, queue, ops, pc, matches, watchers, drain, shutdown,
                   overlooked, shielded>>

\* Otherwise the scopes are rescanned one by one, in the order of a HashSet.
RescanScope ==
    /\ BatchIsDone /\ pending = <<>> /\ ~needs_rescan
    /\ \E scope \in scopes :
          /\ Rescan(scope)
          /\ scopes' = scopes \ {scope}
    /\ UNCHANGED <<tree, marked, queue, ops, pc, matches, watchers, batch, pending,
                   needs_rescan, shutdown, overlooked, shielded>>

\* Mutant of DrainDone: the scopes are left for the next drain.
DrainDoneEarly ==
    /\ BatchIsDone /\ pending = <<>> /\ ~needs_rescan
    /\ pc' = "check"
    /\ UNCHANGED <<world, registry, walk, drain, shutdown, history>>

DrainIsOver == batch = <<>> /\ pending = <<>> /\ scopes = {} /\ ~needs_rescan

DrainDone ==
    /\ pc = "drain" /\ WalkIsOver /\ DrainIsOver
    /\ pc' = "check"
    /\ UNCHANGED <<world, registry, walk, drain, shutdown, history>>

-----------------------------------------------------------------------------
Program ==
    \/ Walking \/ NoWatchesLeft \/ SeedDone
    \/ CheckShutdown \/ PollReturnsEmpty \/ ReadEvents
    \/ OnOverflow \/ OnMoveSelf \/ OnDeleteSelf \/ OnCreate
    \/ StartPending \/ RescanScope \/ RescanRoot \/ RebuildDone \/ DrainDone

\* A listed directory that is not watched yet gets an entry.  So does a root that is
\* replaced by a directory with entries, of which no event above it tells.
Overlooks(dir) ==
    /\ IsDir(dir)' /\ WdOf(tree'[dir]) = NoWd
    /\ tree'[dir] = tree[dir] \/ dir = root
    /\ \E p \in Path : Parent(p) = dir /\ tree'[p] \notin {NoInode, tree[p]}

MayInterfere ==
    \/ Interference = "anytime"
    \/ Interference = "after_seeding" /\ pc # "seed"
    \/ Interference = "between_drains" /\ pc \in {"check", "poll"}

Others ==
    /\ pc \notin Exited
    /\ MayInterfere
    /\ TreeNext
    /\ overlooked' = overlooked \cup {tree'[dir] : dir \in {d \in ToSet(watchers) : Overlooks(d)}}
    /\ UNCHANGED <<registry, pc, walk, drain, shutdown, shielded, detached>>

Terminated == pc \in Exited /\ UNCHANGED vars

Next == Program \/ Others \/ Signal \/ Terminated

\* The program has one thread and no step of it waits for anything but time.
Spec == Init /\ [][Next]_vars /\ WF_vars(Program)

-----------------------------------------------------------------------------
\* The state is well formed, and nothing a drain or a walk has collected is left
\* over when the program waits for events.
TypeOK ==
    /\ RegistryTypeOK /\ TreeTypeOK /\ WalkTypeOK
    /\ pc \in {"seed", "check", "poll", "drain", "rebuild"} \cup Exited
    /\ batch \in Seq(Events)
    /\ pending \in Seq(Path)
    /\ scopes \subseteq Path
    /\ needs_rescan \in BOOLEAN /\ shutdown \in BOOLEAN
    /\ pc \in {"check", "poll"} => WalkIsOver
    /\ pc \in {"seed", "check", "poll", "rebuild"} => DrainIsOver

\* Every live kernel watch is in the registry, so that its events find their path
\* and a rescan can remove it.  rescan_subtree, insert and the kernel's habit of
\* returning an old descriptor for a renamed directory must work together here.
NoOrphanWatch == \A wd \in Wd : Live(wd) => path_for(wd) # NoPath

\* A registered descriptor whose watch is dead is about to be cleaned up: its
\* DELETE_SELF is queued or read, or an overflow will have everything rescanned.
\* Otherwise contains_path would make add_watch skip that path for ever.
DeadEntryHasNotice ==
    \A wd \in Wd :
        path_for(wd) # NoPath /\ ~Live(wd) /\ pc \notin Exited =>
            \/ \E events \in {queue, batch} :
                  \/ Contains(events, Event("DELETE_SELF", wd, NoName))
                  \/ Contains(events, OverflowEvent)
            \/ needs_rescan

\* Nothing has happened that the program has not dealt with.
AtRest == pc \in {"check", "poll"} /\ queue = <<>>

\* A fresh walk would mark this entry.  The root itself is only looked at once.
MustBeMarked(path) == path # root /\ IsMatch(path) /\ tree[path] \notin Unmarkable

\* The two ways in which the code does lose sight of a path: a directory above it
\* got an entry between its listing and its watch; a directory on the way to it
\* was not watched because a stale entry held its path.
OutOfSight(path) ==
    \/ \E p \in FromRoot(path) \ {path} : tree[p] \in overlooked
    \/ \E p \in FromRoot(path) : tree[p] \in shielded

\* At rest, every directory that a fresh walk would watch is watched, by its own
\* path and with its own inode: drain_events, its pending directories and its
\* rescans follow whatever order of creations, renames and deletions.
WatchesCoverTree ==
    AtRest => \A path \in Path : Traversable(path) /\ ~OutOfSight(path) => Watched(path)

\* What the comment on deletions in drain_events says: dropping one entry leaves
\* nothing stale behind, so at rest every directory a walk would watch is watched.
EveryDirectoryIsWatched == AtRest => \A path \in Path : Traversable(path) => Watched(path)

\* At rest, no registered path names another directory by now, or none: after a
\* rename the rescan of the old path leaves nothing stale.
NoStaleWatch == AtRest => \A path \in Path : contains_path(path) => Watched(path)

\* What the README says of ignored subtrees: they are not watched, so at rest every
\* registered path is one that a walk from the root would get to.
SkippedIsUnwatched == AtRest => \A path \in Path : contains_path(path) => Traversable(path)

\* The watch of an entry is on a removed directory that somebody still holds open: its
\* DELETE_SELF is yet to come.
Unlinked(path) == watch[by_path[path]] \in Inode \ {tree[p] : p \in Path}

\* At rest, no registered path names another directory by now, or none, unless the
\* entry was added where the watcher could not hear of the directories above it, or
\* they lost their watch to another path: whatever else was renamed, moved out or
\* deleted, one after the other or within one batch, at any step of the program, an
\* event has had the entry dropped or its subtree swept.
StaleIsDetached ==
    AtRest => \A path \in Path :
        contains_path(path) => Watched(path) \/ path \in detached \/ Unlinked(path)

\* At rest, with the same exceptions, nothing inside a subtree that a rule says to skip
\* is watched, also when the rule began to say so after the subtree was watched: the
\* rescan that the marker brings takes the whole chain of entries away.  Only for
\* others that leave the tree alone while the program walks it.
SkippedIsDetached ==
    AtRest => \A path \in Path :
        contains_path(path) => Traversable(path) \/ path \in detached \/ Unlinked(path)

\* At rest, every entry that a fresh walk would mark is marked: whatever order
\* the entry, its marker files and its directories came in.
MarksComplete ==
    AtRest /\ ~DryRun =>
        \A path \in Path : MustBeMarked(path) /\ ~OutOfSight(path) => tree[path] \in marked

\* What the README says of create and move-in events: new paths are processed, so
\* at rest no entry that a rule matches is unmarked.
EveryMatchIsMarked ==
    AtRest /\ ~DryRun => \A path \in Path : MustBeMarked(path) => tree[path] \in marked

\* Paths that cannot be read, watched or marked do not end the program.
SurvivesBadPaths == pc # "failed"

\* The program comes to rest, or ends, once the others leave the tree alone: the
\* rescans a drain schedules do not feed on themselves.
ComesToRest == <>[](AtRest \/ pc \in Exited)

\* A request to stop is granted, whenever it comes: the flag is polled at least
\* once per POLL_TIMEOUT_MS and per drain.
ShutdownIsGranted == shutdown ~> pc \in Exited

\* A root that is no longer what the program watches ends it, for the supervisor
\* to restart it, unless a rescan finds a new root.
LostRootEndsProgram == (pc # "seed" /\ ~Watched(root)) ~> (pc \in Exited \/ Watched(root))
=============================================================================
