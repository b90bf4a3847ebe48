# A verification of dropignore

dropignore walks a Dropbox folder, marks build artifacts with an extended
attribute that makes Dropbox ignore them, and keeps watching the folder with
inotify so that new artifacts are marked as they appear; or it does so once and
reports. This directory holds a TLA+ model of the program in both modes and of the
service that restarts it, the repository's tests as scripts that the model has to
pass, the TLC configurations that check it on small file trees, and theorems about
it that TLAPS checks for all of them.

Source paths below are relative to the repository (`app.rs` is `src/app.rs` of
the crate). `PROJECT.json` maps every definition to the lines it models.

## 1. The system

| Part | State | Operations | Talks to |
|---|---|---|---|
| Rule engine (`rules.rs`) | none; an ordered list of rules, a set of trigger names | `evaluate`, `is_trigger` | looks at the entry and its siblings in the file system |
| Discovery walk (`discovery.rs`) | a stack of directories, the matches, the directories to watch | `discover_watch_targets`, `discover_matches` | rules, file system |
| Watch registry (`watch.rs`) | two maps, descriptor to path and path to descriptor | `insert`, `remove_by_descriptor`, `drain_subtree`, `path_for`, `contains_path` | |
| `add_watch` (`watch.rs`) | | skip, watch, or fail | registry, kernel |
| Event loop (`app.rs`) | the shutdown flag; per drain: the batch, `pending_directories`, `rescan_scopes`, `needs_rescan` | seeding, `event_loop`, `drain_events`, `rescan_subtree`, `apply_discovered_paths` | all of the above |
| Dropbox attribute (`dropbox.rs`) | the attribute, on disk | `apply_dropbox_ignore` | file system |
| One-shot scan (`app.rs`, `scan_once`) | a failure count | mark every match once, report | walk, attribute |
| Command line, start-up (`cli.rs`, `main.rs`) | none | the checks of the root | |
| File system and inotify (external) | the tree, the watches, a bounded event queue | other processes' changes; `read`, `inotify_add_watch`, `inotify_rm_watch` | |
| systemd unit (`contrib/`) | | restarts the program after a failure | |

The program has a single thread. What is hard about it is everything that
happens between two of its system calls:

* **Other processes** create, rename and delete files and directories at any
  time: between the listing of a directory and the watch on it, between an event
  and its handling, between two of the rescans of one drain.
* **Events are late and refer to descriptors.** A descriptor stays with its
  inode through a rename, is returned again when the inode is watched under
  another path, and dies with the inode. The registry has to follow, event by
  event.
* **Events are lost** when the queue overflows, and are cut into batches where
  a read happens to end.
* **Rules depend on siblings**: a `target` is marked only if a `Cargo.toml` is
  beside it, in whichever order the two appear.
* **Calls fail**: a directory that cannot be read or watched, an entry that
  cannot be marked, no more watches to be had.
* **The root** may go away, and the program must not idle without it.
* **The program may be killed** at any moment. Nothing but the attribute on the
  disk survives, and the next start must make good whatever happened meanwhile.

What makes the parts correct:

* *registry*: the two maps are each other's inverse;
* *registry and kernel*: no live watch is without an entry, and an entry without
  a live watch is about to be removed;
* *event loop*: once all events are handled, exactly the directories a fresh walk
  would watch are watched, by the right path, and every entry it would mark is
  marked;
* *rules and event loop*: evaluating an entry when it appears and again on
  triggers is enough;
* *progress*: the program settles, stops when it is asked to, and ends with an
  error when it has lost its root, so that the service starts it again;
* *one-shot scan*: exit status 0 means that no match was left unmarked, whatever
  others did to the rest of the tree.

`PROJECT.json` lists the hazards one by one, each at its line and with the
properties aimed at it.

## 2. The modules

    Names ── WatchRegistry ──┐          ┌── ScanOnce ── MCScanOnce
      └───── FileTree ───────┼── Walk ──┤
    Rules ───────────────────┘          └── Watcher ─┬─ MCWatcher ──┐
      │                                              ├─ Supervisor ─┴─ MCSupervisor
      │                                 TestCases ───┴─ TestRun ── MCTestRun
      └── TriggerRescan (abstract rules and loop)
    WatchSet (abstract registry, implemented by WatchRegistry)

* **Names**: paths as sequences of components, descriptors, `StartsWith`.
* **WatchSet**: what the registry promises, as one map.
  **WatchRegistry**: the two maps of `watch.rs` and the operations on them. It
  implements WatchSet with `watched <- by_path`.
* **Rules**: the three kinds of rule, first match wins, triggers, and all 18
  production rules in their order. A rule sees a candidate: its name, whether it
  is a directory, and the names beside it. The names that end in `.egg-info` are
  a constant.
* **TriggerRescan**: an abstract view of one watched directory in which an entry
  is handled in the step that creates it. It isolates the contract between
  `Rule::triggers` and `drain_events`.
* **FileTree** (external): the tree as a map from paths to inodes, the kernel's
  watches as a map from descriptors to inodes, the event queue with its limit,
  merging and overflow, and what others do: create, delete, rename (also onto
  something), and the last close of a removed file.
* **Walk**: `discovery.rs`, `apply_discovered_paths` and `add_watch`. One step is
  one directory visited (`fs::metadata`, the rules, `read_dir`), one `setxattr`,
  or one `inotify_add_watch`. The lists of the walk are its control: it visits
  while `stack` is not empty, then applies `matches`, then adds `watchers`. Three history
  variables, `overlooked`, `shielded` and `detached`, record where the code loses sight of
  something (section 3).
* **Watcher**: `run` and the event loop. `pc` says where the program is:

  | `pc` | in the code |
  |---|---|
  | `seed` | `run`, before the event loop |
  | `check` | the top of `event_loop`, the test of the flag |
  | `poll` | `poll_inotify`, then the read |
  | `drain` | `drain_events` |
  | `rebuild` | `drain_events`, in the rescan of the root after an overflow |
  | `ok`, `failed` | `run` has returned |

  One action handles one event, and each of the three loops after the batch has
  an action per turn (`StartPending`, `RescanScope`, `RescanRoot`). `Others` lets
  the rest of the world take a step between any two of them.
* **ScanOnce**: `run --scan-once`. `pc` is `start` (the checks of the root), `walk`
  (`discover_matches`), `read_mark` and `write_mark` (the two system calls of
  `apply_dropbox_ignore` for the next match), `ok` or `failed`. Others change the tree
  between any two of these steps. Two history variables say what the scan owes:
  `marked_before`, and `steady`, the matches that others have left alone so far.
* **Supervisor**: the unit in `contrib/` around Watcher. The program is killed at any
  step (`Crash`), the tree changes while it is down, and `Restart` runs it from its
  first line. The marks are all that is left of the earlier run.
* **TestCases, TestRun**: the repository's tests of the event loop, the rescans, the
  walk and the rules under their own names, each as a tree and a script of changes,
  calls and assertions, run against Watcher. The source of the model is the
  code; the tests are an independent witness that it was read right. `PROJECT.json` maps
  each script to its test, so these entries of the map stand for test code, not for
  code of the program.
* **MCTriggerRescan, MCWatcher, MCScanOnce, MCSupervisor,
  MCTestRun**: the small instances. In a configuration a constant is given a bare name
  (`Path <- MCPath` with `MCPath == Paths`) because TLC evaluates a definition once
  but what replaces a constant at every use.
* **WatchRegistryProofs, TriggerRescanProofs, WalkProofs, ScanOnceProofs,
  WatcherProofs, WatcherCoverageProofs, WatcherUpkeepProofs, SupervisorProofs**: the
  theorems and the lemmas they rest on. Those about the watcher build on each other:
  WatcherProofs (types, registry, watches), WatcherCoverageProofs (nothing is lost),
  WatcherUpkeepProofs (it goes on, and its registry is right), SupervisorProofs (all of it
  through restarts).

Definitions whose comment begins with "Mutant of" are not part of the model. Each
is a plausible mistake in the definition after it, and replacing the one by the
other breaks a property: this is how we know that the property says something.

### Abstractions

* The paths of a world are few and short; the model and the proofs have no limit on
  them.
* File contents, link targets and log messages are left out; all symbolic links
  dangle, which is the case in which `exists()` and the listing disagree. The links of
  the repository's tests are live ones, so their scripts in TestCases show less than the
  tests: a walk that followed links would go nowhere here.
* `--dry-run` is a constant of the model, `DryRun`, which switches the marks off. All runs
  have it FALSE: without marks, what is left of their properties is the coverage, which
  the marks do not enter. The theorems hold for both values.
* The order of a listing is arbitrary; the order in which scopes are rescanned
  (a `HashSet`) is, too.
* The descriptor numbers are interchangeable, so a new watch takes any number
  that nothing refers to. The kernel hands them out in ascending order and does
  not reuse one until it wraps around at 2^31.
* One visited directory is one step: its `stat`, its rules and its `read_dir`. So
  are the `stat`, the rules and the bookkeeping for one event, the mark of a
  created entry being a step of its own. Changes that fall inside such a step are
  not explored.
* The read of the attribute before it is written is a step of its own in ScanOnce. In
  Watcher both are one step: nobody else writes the attribute there, and a second
  write of the same value changes nothing, so only the one that writes matters.
* Errors of `poll` and `read` on a valid descriptor are left out of Watcher. They end
  the program, and a `Crash` of Supervisor does so at any point.
* In TestRun every test has the production rules where the test brings the one or two
  it needs, and what it asserts about the value that `discover_watch_targets` or
  `plan_entry` returns is asserted about what gets watched and marked. A test calls
  `drain_events` where it likes; here the program reads its events at any time
  between two steps of the test, which is every split of them. Tests of `apply_all`,
  `ensure_directory` and `scan_once`, of `dropbox.rs` and of the registry alone are not
  replayed: ScanOnce and WatchRegistry cover what they call. Those of the command line
  and of `poll_inotify`'s time-out are about the library.

## 3. What is checked

Each run has a world of its own: which paths there are, what others may do to
them, and how often (`MaxOps`). In a world most names are there because a rule or
a race needs them.

| Run | What it shows | Bounds |
|---|---|---|
| `trigger_rescan` | `Reconciled`: with the production rules no match is ever left unmarked. | 7 names in which two rules compete for one directory, any initial listing |
| `projects` | A project is renamed, moved out and in, deleted, made anew and given a marker, at any moment. The two maps stay inverse and implement WatchSet (`RegistryInverse`, `ImplementsWatchSet`); no watch is unknown, no dead entry forgotten, no stale entry left but detached ones (`NoOrphanWatch`, `DeadEntryHasNotice`, `StaleIsDetached`); `WatchesCoverTree`, `MarksComplete`. | 4 changes, reads of any length, a queue of 3 events so that overflows are frequent, a directory held open when it is removed |
| `growth` | A project appears piece by piece, its marker first as a dangling link, next to a directory that cannot be read and an artifact that cannot be marked; a signal may end the program at any moment. `WatchesCoverTree`, `MarksComplete`, `SurvivesBadPaths`. | 5 changes, from the seeding on |
| `quiet` | One project lies in the build directory of another, each may get its marker at any time, and others change both between drains. Nothing in a skipped subtree stays watched but detached entries (`SkippedIsDetached`), and coverage and marks have no gaps (`EveryDirectoryIsWatched`, `EveryMatchIsMarked`), in whatever order nested scopes are rescanned: a shortage of watches ends the program rather than leaving part of the tree unwatched. | 6 changes to a chain of four directories; 5 watches, fewer than the fullest tree asks for; whole bursts |
| `supervisor` | Killed at any step and restarted after any failure, the program ends up with the tree covered and marked (`WatchesCoverTree`, `MarksComplete`), comes to rest, grants a shutdown at any moment (`ComesToRest`, `ShutdownIsGranted`), and watches whatever root there is in the end (`RootIsWatchedAgain`). | one kill besides the failures the program brings upon itself; a root that is moved, moved back, deleted and made anew, and a project made in it, in 4 changes; a queue of 1, so that the notice of a lost root is lost itself and a new root comes after that |
| `scan_once` | `SteadyMatchesAreMarked`: status 0 means that every match others left alone is marked. `QuietScanIsExact`: without changes, the marks and the status are exactly those that a definition without a walk gives. | all trees that can be made of 7 entries, each there or not and some locked or a link; 2 changes between any two system calls; nothing or everything marked before |
| `tests` | `EveryTestPasses`: the model does what the tests say the code does. | the trees of the tests; every split of their events, a queue of 3 |
| `listing_gap`, `late_delete`, `late_move`, `root_trigger`, `nested_markers` | Five places where the code does not do what its comments or README say, see below. | the smallest world that shows each; that of `quiet` for the last |

`MCTriggerRescan` reaches every state of its module. The
bounds of the watcher are set by what a race takes. Every race known to us is
over after three changes (make something, change it before the program looks, and
change it again before the event is read), so four to six leave room for two that
interact. In `supervisor` others leave the
tree alone while the program seeds, which the known gap `listing_gap` is about; they do
as they like while it drains, waits or is down. Two changes are enough for
`scan_once`: an entry that is lost has to leave the way of the scan and come
back.

Inodes that others create are interchangeable, which the safety runs of the watcher
use as a symmetry. The runs with temporal properties do not.

### Fairness

`WF_vars(Program)`: as long as the program can take a step it takes one in the
end. This is the operating system's scheduling of one runnable thread.
`PollReturnsEmpty` is part of `Program` because `poll_inotify` returns after
`POLL_TIMEOUT_MS` with or without events. Nothing is assumed of other processes
or of signals, and only `MaxOps` makes others stop; `ComesToRest` says nothing
about a tree that never stops changing. `TypeOK` and the safety runs need no
fairness.

`WF_supervised(Restart)`: systemd starts a failed unit again after `RestartSec`. Its 5
seconds keep the limit of five starts in ten seconds out of reach, so systemd never
gives up. `Restart` is not enabled while the unit is being stopped (`shutdown`),
nor after status 0. A start without a root fails at once and changes nothing, so
`Restart` asks for a root. Nothing forces a `Crash`.

`WF_testing(TestStep)`: a test goes on to its end. Its assertions wait until the
program has nothing left to do.

### What the code does not do

Three history variables record where the code loses sight of something. They
guard nothing; the properties use them to say "but for this".

* `overlooked`: a directory got an entry after it was listed and before it was
  watched. **Run `listing_gap`**: `apply_discovered_paths` marks every match before
  it adds the first watch, and the entry is in no list and in no event. It stays
  unmarked and, if it is a directory, unwatched.
* `shielded`: `add_watch` skipped a directory because its path was registered for
  another inode. **Run `late_delete`**: a deleted directory that somebody still
  holds open sends its `DELETE_SELF` late; the directory made anew at its path is
  skipped, and then the late event removes the entry. It is never watched.
* `detached`: an entry was added where nothing above it was watched, or what was above it
  gave its watch to another path. What others do further up sends no event for it, so
  it may stay when its path is gone or is to be skipped. Two runs lead there.

* **Run `late_move`** (`NoStaleWatch`): when a read ends between the `MOVED_TO` and the
  `MOVE_SELF` of one rename, the descriptor has been re-registered under the new
  path by the time `MOVE_SELF` asks for the old one. What lies below the old path
  and is skipped under the new one keeps its entry and its watch, and is detached from
  then on: the directories above it gave their watches to other paths.
* **Run `nested_markers`** (`SkippedIsUnwatched`): when a marker comes beside a watched
  build directory and, in the same batch, another one deeper inside that directory, both
  parents are scopes. `rescan_subtree` evaluates the rules from its scope down and looks at
  none above, so when the outer scope happens to come first the inner one is watched again,
  below a directory that is marked, skipped and not watched by now. Up to then the program
  only watches more than it needs to, which the repository's `README.md:8` says it avoids.
  If the build directory is then moved out of the root, nobody tells the program, and the
  entry is stale as well; once the marker of the outer project is gone, too, and both
  directories are made anew, the stale entry has `add_watch` skip the new one, a second
  way to become `shielded`. A walk of `pending_directories` that starts below something
  that is skipped or cannot be read by then has the same effect.

`quiet` has the world of `nested_markers`: what it shows is that nothing but such entries is
watched where it should not be. Others do not take a marker away in it.

One more needs no history variable.

* **Run `root_trigger`**: a marker file in the root has the root rescanned as a
  scope. Moved at that moment, the root is never found missing, for only the
  rescan after an overflow checks. `RootIsWatchedAgain` is therefore checked in a
  world that has no marker file in the root.

The positive runs are what makes these five interesting: apart from them, in all
the interleavings of the worlds, the properties hold.

## 4. What is proved

The theorems hold for any finite set of paths, any set of inodes and descriptors,
any rules, limits, unreadable or unmarkable entries, and any changes by others.
Assumed are `NoPathAssumption`, `NoWdAssumption`, `NoInodeAssumption` (the "none"
values are not among the values), `PathAssumption` (a path is a non-empty sequence
of names, and what it is in is a path, too), `FinitePathsAssumption` (a listing is
finite), `KindAssumption`, `TreesAssumption`, `MarksAssumption`, `ChangesAssumption`
and `RootAssumption` (types of the parameters), `NoHardLinksAssumption` (no inode is
at two paths of an initial tree), and for TriggerRescan `RulesAssumption` (the rules
are a sequence, and the one kind that looks beside the entry always marks, which is
how `MarkedBuildDirRule` is written). TLC evaluates all of them.

**WatchRegistryProofs.** `RegistryAlwaysInverse`, by
induction, where the interesting step is `Insert`: the eviction of the former
path and the `contains_path` test of `add_watch` are both needed, and the mutants
of `projects` show what either omission breaks; `RegistryRefinesWatchSet`, every step
maps to a `Claim`, `Forget` or `Sweep`, using the inverse to see that `path_for(wd)` is the
one path that has `wd`.

**TriggerRescanProofs.** `AlwaysReconciled`, for every
rule list that satisfies `RulesAssumption`. The argument: a verdict depends on
siblings through the marker rules only; a name that is no trigger is no marker,
so the hits of the other entries do not change with it; and a deletion takes
away hits of marker rules only. When that uncovers a later rule that marks, the
entry was marked before, because marker rules mark.

**WatcherProofs.** `WatcherTypeCorrect`: the type, and that nothing is left over
from a drain while the program waits. `WatcherRefinesRegistry`: the watcher is an
implementation of `RegistrySpec`, so what is proved about the registry alone
holds in the composition, `WatcherRegistryInverse` first of all.
`WatcherNoOrphanWatch`: every live kernel watch has an entry. This is not
inductive by itself, because `OnDeleteSelf` removes the entry of the
descriptor it is told about. The inductive invariant adds `DeletedIsDead`: a
`DELETE_SELF` in the queue or in the batch is about a watch that is gone. That one
in turn needs the descriptor of a new watch to be one that no event waits for.
With it, the four sources of trouble are all covered: `Drop` announces what it
removes, `RegisterAgain` moves an entry but does not lose it, `Rescan` takes
the same descriptors from the kernel as from the registry, and `OnDeleteSelf`
touches dead watches only.

`WatcherDeadEntryHasNotice`: an entry whose watch is gone is about to be cleaned up.
Two facts make it inductive. `OneWatchEach`: an inode has one live watch, so the one
event of its deletion is about the entry in question. `BelowRoot`: whatever the
program has registered, collected or scheduled is at or below the root, so that the
rescan of the root, which settles the debt of an overflow, reaches every entry; the
inverse of the maps is needed to see that an entry it reaches is also gone from the
other map. `OthersTell` says that the queue loses no notice: it grows, or it
overflows, and an overflow is a notice for all.

**WalkProofs.** What a walk owes, for every tree and every rule list. `OnStack(path)`
says that a directory on the way from the root to `path` is still to be visited.
`VisitFindsMatch`: a visit that takes that directory off the stack puts the
next one on the way on it, or `path` among the matches; `VisitKeepsMatch`: what has been
found stays found; `VisitFindsMatchesOnly`: nothing else is found. They rest on
`OrderingsAreComplete` (whatever order a listing comes in, all of it is in it) and
`NextOnTheWay` (the way down has no holes).
`TreeNextNoHardLinks`: others' changes never put an inode at two paths.

**ScanOnceProofs.** `ScanTypeCorrect`, `SteadyAlwaysMarked` and `QuietAlwaysExact`.
Exit status 0 means that every match that others left alone is marked. The property is about the end only;
the inductive invariant `ScanIInv` says at every step what has become of each
steady match: the scan has not begun, is on the match's way, or has it in its list;
or it is marked, or unmarkable and counted as a failure. A walk that drops an entry, a
look-up that is skipped, or a failure that is not counted would leave it in none of
these. `NoHardLinks` is part of the invariant because others may delete an entry
elsewhere, and the mark that goes with its inode must not be that of a steady match.

For `QuietAlwaysExact` the other half is needed as well, that nothing but matches is
found, marked or counted. `Exact` says so for as long as nobody has changed the tree;
`VisitFindsMatchesOnly` is the lemma about the walk, whose stack holds only what a walk
from the root gets to.

**WatcherCoverageProofs.** `WatcherCoversTree` and `WatcherMarksComplete`: at rest every
directory that a fresh walk would watch is watched, and every entry that it would mark is
marked, but for the two gaps above. Neither `WatchesCoverTree` nor `MarksComplete` says
anything of a program that is busy, so the inductive invariant has to say what the program
still owes at any other moment. `NothingIsLost` says of every path that a walk from the
root would watch or mark, and that is not hidden by one of the gaps, that one of these
holds:

* everything is to be rescanned: an overflow is queued, read or noted (`AllIsDue`);
* the path, or a directory above it, is due: it is on `stack`, in `pending` or `scopes`, or
  an event that is queued or read names it or a marker beside it (`Told`); and everything
  above that one is watched or in `watchers` (`Linked`). The second half matters: a walk
  that comes by below a directory that nobody watches would leave a hole;
* all of the way is `Linked`, and what is to be marked is marked or in `matches`.

Each step has a lemma. A visit takes a directory from the stack and puts the next one on
the way there, or the path among the matches or the watchers (`VisitKeeps`). A call of
`add_watch` has its path watched or hidden, and takes no other path's watch
(`AddWatchAdds`): for `RegisterAgain` this needs the inverse of the maps and that an inode
has one path. An event is understood because the directory it is about is watched by its
own path (`LinkedIsKnown`), and after it its entry, or everything beside its marker, is on
a list (`OnCreateKeeps`). A rescan forgets the watches at and below its scope only
(`RescanSpares`) and has the scope on its stack (`RescanScopeKeeps`).

The steps of others are the heart of it. `OneArrives`: a change brings at most one entry
with what is below it, and the queue tells where. `WayAfterChange`: if a path can be
reached after a change, then its way was not touched, or an entry came below a part of it
that was not touched, on the way or as a marker beside it. In the first case all that was
due still is; in the second the directory the entry came to is watched, and the event is
queued; or it is about to be, and is `overlooked` from now on (`OthersKeep`).

The theorems are about behaviours in which others are `Considerate`, at each change of the
tree. `RootStays`: the root keeps its inode and its verdict. `MarkersStay`: no marker is
taken from beside an entry that stays. Both are needed. A root that goes is to end the
program, and `root_trigger` shows that it may idle instead; and nothing in the code
reacts to the loss of a marker, which makes directories reachable that nobody watches. The
worlds `projects`, `growth` and `quiet` are of that kind: their roots stay, and
markers leave only with the project they are in. Nothing else is restricted: neither the
order and the number of changes, nor when they fall, nor how reads split them, nor how
often the queue overflows.

**WatcherUpkeepProofs.** `WatcherSurvivesBadPaths`: the watcher does not fail as long as
the root stays, a walk may enter it, and `MaxWatches` allows a watch for every directory
there is (`EnoughWatches`). So nothing else ends it: no path that cannot be read, watched
or marked or is gone when its turn comes, no late event and no overflow. All four exits
of the code turn on the root or on the number of watches. `AddWatchSucceeds` counts: only
directories are watched, one watch each, so while one is not watched there are fewer
watches than directories. For the root the invariant says that its entry is never stale
(`RootIsWatched`), that no event on its way says it moved (`RootIsUnmoved`, with
`OthersMoveOthers`: a rename under which the root stays is one of another inode), and that
the rescan after an overflow has it on a list until it is registered again
(`RootIsComing`). `growth` has as many watches as it has directories and a root that stays.

`WatcherStaleIsDetached`: at rest no registered path names another directory, or none, but
for entries that are detached and removed directories that somebody still holds open.
Nothing is assumed of the interleaving: others act between any two steps, reads split their
bursts, the queue overflows, and the root and the markers may come and go. The one
assumption is about the parameters, `RootIsOnTop`: nobody renames a directory above the
root, of which no event tells (section 5). `WatcherSkippedIsDetached`: with the same
exceptions nothing inside a skipped subtree is watched at rest. There others act between
the drains only (`Interference = "between_drains"`), because a marker that comes between
the visit of a directory and its watch finds the subtree in the walk's lists, and they are
`Considerate`, because a root or a neighbour that goes changes verdicts without a word.

Both come from one inductive invariant, `UpkeepIInv(strict)`, which follows each entry:

* it is `detached`, or its directory is `Unlinked`;
* or it is `Cleared`: a scope at or above it is left, a rescan after an overflow is noted,
  or an event that is queued or read will drop it: an overflow, the `DELETE_SELF` of its own
  descriptor, or a move or a marker that has a directory on its way rescanned;
* or it is `Right`: every directory on the way to it from the root is watched under its own
  path, and, in the strict form, a walk gets to it.

"This path is watched rightly" alone is not inductive: what happens to a directory further
up sends no event to an entry below it. With all of the way watched, whatever takes the
entry from its path is told on the way: of a rename the directory that moved tells, of a
marker the directory it came to, and a deletion starts with the last directory of a
chain (`OthersKeepTended`). An entry leaves these four cases only in the
code's own hands, when a walk adds it below something unwatched or `insert` takes a watch
from above it, and that is what `detached` records at this very step (`WalkingKeepsTended`).
For the rest, an event that is handled must leave what it would have cleared to a scope or
clear it at once (`EventKeepsTended`), and a rescan must take all entries below its scope
(`RescanKeepsTended`): were `drain_subtree` to forget the prefix match, the proof fails
where the mutant of `StaleIsDetached` does. `InOrder` is part of the invariant: the
`DELETE_SELF` of a descriptor is the last of its events, so that a rescan which an event
promises still finds its path. The strict form adds that what is
on the list of `watchers` is not skipped.

**SupervisorProofs.** `SupervisedTypeCorrect` and `SupervisedNoOrphanWatch`: the
invariant of the watcher holds across kills and restarts. A kill breaks nothing because
the kernel drops the watches with the descriptor it closes, and the restart
re-establishes the invariant from nothing rather than from what was left.
`SupervisedDeadEntryHasNotice` is the same for entries whose watch is gone: the
kill takes the notices with the queue, so a start that took over an old entry would
keep it for ever. `SupervisedCoversTree` and `SupervisedMarksComplete`: however often the
program is killed, at whatever step, and whatever becomes of the tree while it is down, the
root and the markers included, the next start makes it good. Others need be considerate
only while the program runs. It is enough that the root is on the stack
(`RootDueLosesNothing`), and no mark of an earlier run counts for anything.
`SupervisedStaleIsDetached` and `SupervisedSkippedIsDetached`: the registry is right at rest
through kills and restarts, too. A restart has no entries, and what others did while the
program was down is not in its queue (`NobodyHears`).

**Only model-checked.** Liveness, which the prover does not do, and with it
`EveryTestPasses`; and that coverage and marks have no gaps at all in `quiet`
(`EveryDirectoryIsWatched`, `EveryMatchIsMarked`): what is proved of them, for every
interleaving, has the exceptions of `OutOfSight`.

## 5. What is not modelled

* Argument parsing, the logger, and the wording of errors: no state.
* Unmounts and `IN_IGNORED`, hard links, a rename of a directory above the root,
  attribute changes by others: outside of what `src/` handles. The first and the
  third leave the program idle with dead or misnamed watches; they are listed as
  hazards.
* Errors of single directory entries during `read_dir`, which the walk logs and
  passes over like an entry that is not there.
* Links that have a target: a rule that looks for a marker follows them, and the
  target may come and go outside of the root, where there are no watches.
* A root that is moved or deleted while the program seeds, before its watch is added:
  no run checks what becomes of it. The root is skipped like any path that vanished,
  and the loop starts without watches and waits for events that cannot come. The
  actions of `Watcher` allow it (`Interference = "anytime"`, as in `growth`, which
  has a root that stays), and `LostRootEndsProgram` fails with it; `supervisor` lets
  others change the tree after the seeding only. It is listed as a hazard.
* Un-marking: the program never removes the attribute, so the worlds of the watcher
  keep a marker file once it is there, and a directory that loses its reason to be
  marked is not an error.
* Scripts, hooks and design documents: no part of the program.

## 6. Plan

Done, in this order: registry and its abstract specification; rules and triggers;
the file tree; walk and watcher and their first proofs; the one-shot scan with its
exit status and the two system calls on the attribute; the supervised
program; the tests as scripts; the proofs about the walk, the scan and the
restart; the coverage of the tree and its marks, alone and supervised; the survival
of the watcher; what its registry has at rest, alone and supervised.

Left:

1. **Proofs**: which worlds have no detached entries, and that the shortest fix of
   `rescan_scopes`, to drop a scope that is below another one, leaves only
   `pending_directories` to make them.
2. A world of the watcher in which a rule skips the root.
3. Worlds with links that have a target.
