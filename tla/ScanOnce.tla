------------------------------ MODULE ScanOnce ------------------------------
(***************************************************************************)
(* The one-shot scan, --scan-once: run's checks of the root, the walk      *)
(* without watchers, and apply_all over the matches.  Others change the    *)
(* tree between any two of its system calls; in particular between the two *)
(* of apply_dropbox_ignore, each of which looks the path up again.         *)
(***************************************************************************)
EXTENDS Walk

VARIABLES
    pc,             \* where the program is
    failures,       \* scan_once: failures
    marked_before,  \* history: the inodes that bore the attribute at the start
    steady          \* history: the matches that have not been disturbed since the
                    \* start: same inode, same verdict, same way down to them

scan == <<pc, failures>>
vars == <<world, registry, walk, history, scan, marked_before, steady>>

Exited == {"ok", "failed"}

Init ==
    /\ TreeInit
    /\ RegistryInit
    /\ stack = <<>> /\ matches = <<>> /\ watchers = <<>>
    /\ overlooked = {} /\ shielded = {} /\ detached = {}
    /\ pc = "start" /\ failures = 0
    /\ marked_before = marked
    /\ steady = {path \in Path : IsMatch(path)}

\* run: canonicalize fails for a root that is not there, ensure_directory for one
\* that is no directory.
Start ==
    /\ pc = "start"
    /\ IF IsDir(root) THEN pc' = "walk" /\ stack' = <<root>>
                      ELSE pc' = "failed" /\ UNCHANGED stack
    /\ UNCHANGED <<world, registry, matches, watchers, history, failures, marked_before,
                   steady>>

\* scan_once: its call of discover_matches.
Discover ==
    /\ pc = "walk"
    /\ discover_matches
    /\ UNCHANGED <<scan, marked_before, steady>>

\* Mutant of Discovered: the walk ends with the first directory it has listed.
DiscoveredEarly ==
    /\ pc = "walk"
    /\ pc' = "read_mark"
    /\ UNCHANGED <<world, registry, walk, history, failures, marked_before, steady>>

Discovered ==
    /\ pc = "walk" /\ stack = <<>>
    /\ pc' = "read_mark"
    /\ UNCHANGED <<world, registry, walk, history, failures, marked_before, steady>>

-----------------------------------------------------------------------------
\* apply_all over apply_dropbox_ignore: getxattr and, unless that finds the mark,
\* setxattr.

\* Any value but "1", and any failure to read one, counts as no mark.
is_already_ignored(path) == Resolves(path) /\ tree[path] \in marked

\* Mutant of ReadMark: every match is written, marked or not.
ReadMarkIsSkipped ==
    /\ pc = "read_mark" /\ matches # <<>>
    /\ IF DryRun THEN matches' = Tail(matches) /\ UNCHANGED pc
                 ELSE pc' = "write_mark" /\ UNCHANGED matches
    /\ UNCHANGED <<world, registry, stack, watchers, history, failures, marked_before,
                   steady>>

\* Nothing is left to do for the next match: it is marked, or this is a dry run.
ReadMark ==
    /\ pc = "read_mark" /\ matches # <<>>
    /\ IF is_already_ignored(Head(matches)) \/ DryRun
       THEN matches' = Tail(matches) /\ UNCHANGED pc
       ELSE pc' = "write_mark" /\ UNCHANGED matches
    /\ UNCHANGED <<world, registry, stack, watchers, history, failures, marked_before,
                   steady>>

\* Mutant of WriteMark: a failure is logged only.
WriteMarkUncounted ==
    /\ pc = "write_mark"
    /\ marked' = IF Markable(Head(matches)) THEN marked \cup {tree[Head(matches)]} ELSE marked
    /\ matches' = Tail(matches)
    /\ pc' = "read_mark"
    /\ UNCHANGED <<tree, kernel, ops, registry, stack, watchers, history, failures,
                   marked_before, steady>>

\* A failure is counted, whatever its cause, and the next match is tried.
WriteMark ==
    /\ pc = "write_mark"
    /\ IF Markable(Head(matches))
       THEN marked' = marked \cup {tree[Head(matches)]} /\ UNCHANGED failures
       ELSE failures' = failures + 1 /\ UNCHANGED marked
    /\ matches' = Tail(matches)
    /\ pc' = "read_mark"
    /\ UNCHANGED <<tree, kernel, ops, registry, stack, watchers, history, marked_before,
                   steady>>

\* The exit status tells cron or systemd whether any match could not be marked.
Finish ==
    /\ pc = "read_mark" /\ matches = <<>>
    /\ pc' = IF failures > 0 THEN "failed" ELSE "ok"
    /\ UNCHANGED <<world, registry, walk, history, failures, marked_before, steady>>

-----------------------------------------------------------------------------
Program == Start \/ Discover \/ Discovered \/ ReadMark \/ WriteMark \/ Finish

Others ==
    /\ pc \notin Exited
    /\ TreeNext
    /\ steady' = {path \in steady : IsMatch(path)' /\ tree'[path] = tree[path]}
    /\ UNCHANGED <<registry, walk, history, scan, marked_before>>

Terminated == pc \in Exited /\ UNCHANGED vars

Next == Program \/ Others \/ Terminated

Spec == Init /\ [][Next]_vars

-----------------------------------------------------------------------------
\* The state is well formed, and there is a next match whenever one is written.
TypeOK ==
    /\ RegistryTypeOK /\ TreeTypeOK /\ WalkTypeOK
    /\ pc \in {"start", "walk", "read_mark", "write_mark"} \cup Exited
    /\ failures \in Nat
    /\ marked_before \subseteq Inode /\ steady \subseteq Path
    /\ pc \notin {"walk"} => stack = <<>>
    /\ pc = "write_mark" => matches # <<>>

\* Exit status 0 means that every match is marked: all those that others left
\* alone, that is, while they changed whatever else they liked.  The walk, the two
\* look-ups of every path and the count of failures must work together here.
SteadyMatchesAreMarked ==
    pc = "ok" /\ ~DryRun => \A path \in steady : tree[path] \in marked

\* The matches in a tree, by definition.
Found == {tree[path] : path \in {p \in Path : IsMatch(p)}}

\* When nobody changes the tree, the scan marks all the matches in it that it can
\* and nothing else, and fails if and only if there is no root or a match that
\* cannot be marked and was not marked before.  A directory that cannot be read
\* is no failure.
QuietScanIsExact ==
    ops = 0 /\ pc \in Exited =>
        LET found == IF IsDir(root) THEN Found ELSE {}
            to_mark == IF DryRun THEN {} ELSE found \ marked_before
        IN  /\ marked = marked_before \cup (to_mark \ Unmarkable)
            /\ pc = "failed" <=> ~IsDir(root) \/ to_mark \cap Unmarkable # {}
=============================================================================
