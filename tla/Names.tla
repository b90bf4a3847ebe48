------------------------------- MODULE Names -------------------------------
(***************************************************************************)
(* The names the kernel and the program exchange: absolute paths, as       *)
(* sequences of component names, and inotify watch descriptors.            *)
(***************************************************************************)
EXTENDS Naturals, Sequences, FiniteSets, SequencesExt

CONSTANTS
    Path,           \* absolute paths, and with each the directories above it
    Wd,             \* inotify watch descriptors
    NoPath,         \* "no path"
    NoWd            \* "no descriptor"

ASSUME FinitePathsAssumption == IsFiniteSet(Path)
ASSUME PathAssumption ==
    \A path \in Path : /\ path \in Seq(STRING) /\ path # <<>>
                       /\ \A n \in 1..Len(path) : SubSeq(path, 1, n) \in Path
ASSUME NoPathAssumption == NoPath \notin Path
ASSUME NoWdAssumption == NoWd \notin Wd

Parent(path) == Front(path)
FileName(path) == Last(path)

\* Path::starts_with compares whole components, and every path starts with
\* itself.
StartsWith(path, prefix) == IsPrefix(prefix, path)

\* The path that a path below "from" has once "from" is called "to".
Rebase(path, from, to) == to \o SubSeq(path, Len(from) + 1, Len(path))
=============================================================================
