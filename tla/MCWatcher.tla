----------------------------- MODULE MCWatcher -----------------------------
(***************************************************************************)
(* Small worlds for the watcher.  Each world has its own paths, initial    *)
(* tree and set of changes; the inodes the tree starts with are named by   *)
(* strings, those that others create later are interchangeable.            *)
(***************************************************************************)
EXTENDS Watcher

CONSTANTS
    FixedDirs,                          \* the inodes of the initial tree, all directories
    SpareDirs, SpareFiles, SpareLinks   \* what others may create

Inodes == FixedDirs \cup SpareDirs \cup SpareFiles \cup SpareLinks
Kinds == [i \in Inodes |-> IF i \in SpareFiles THEN "file"
                           ELSE IF i \in SpareLinks THEN "symlink" ELSE "dir"]

\* TLC evaluates a definition once, but what a configuration puts in the place of a
\* constant at every use; so a configuration gets nothing but other names.
MCInode == Inodes
MCKind == Kinds
MCRules == DefaultRules

Interchangeable == Permutations(SpareDirs) \cup Permutations(SpareFiles)

TreeOf(paths, names) ==
    [p \in paths |-> IF p \in DOMAIN names THEN names[p] ELSE NoInode]

r == <<"r">>
o == <<"o">>

-----------------------------------------------------------------------------
\* Projects: a project a with a build directory that others rename to c and back,
\* move out of the root and in again, delete, create anew and give a marker.
a == <<"r", "a">>
c == <<"r", "c">>
m == <<"o", "m">>
target == <<"r", "a", "target">>

InProject(path) == {path, Append(path, "target"), Append(path, "Cargo.toml")}

ProjectPaths == {r, o} \cup InProject(a) \cup InProject(c) \cup InProject(m)
ProjectsTrees ==
    {TreeOf(ProjectPaths, r :> "root" @@ a :> "a" @@ target :> "b" @@ o :> "outside")}
ProjectsPath == ProjectPaths
ProjectsCreatable ==
    {<<a, "dir">>, <<target, "dir">>, <<Append(a, "Cargo.toml"), "file">>,
     <<Append(c, "Cargo.toml"), "file">>}
ProjectsDeletable == {a, target, Append(c, "target")}
ProjectsRenamable == {<<a, c>>, <<c, a>>, <<a, m>>, <<m, a>>}

-----------------------------------------------------------------------------
\* Nested: the same project with another one, x, in its build directory, with a
\* marker and a build directory of its own, so that markers, deletions and moves meet
\* at three depths.  Others rename the outer project to c and back, and move its build
\* directory to m and in again.
x == <<"r", "a", "target", "x">>

InBuild(path) ==
    {path} \cup {path \o below : below \in {<<"x">>, <<"x", "target">>, <<"x", "Cargo.toml">>}}
InNestedProject(path) == {path, Append(path, "Cargo.toml")} \cup InBuild(Append(path, "target"))

NestedPaths == {r, o} \cup InNestedProject(a) \cup InNestedProject(c) \cup InBuild(m)
NestedTrees ==
    {TreeOf(NestedPaths,
            r :> "root" @@ a :> "a" @@ target :> "b" @@ x :> "x" @@ o :> "outside")}
NestedPath == NestedPaths
NestedCreatable ==
    {<<a, "dir">>, <<target, "dir">>, <<Append(a, "Cargo.toml"), "file">>,
     <<x, "dir">>, <<Append(x, "target"), "dir">>, <<Append(x, "Cargo.toml"), "file">>}
NestedDeletable == {target, x, Append(x, "target"), c \o <<"target", "x">>}
NestedRenamable == {<<a, c>>, <<c, a>>, <<target, m>>, <<m, target>>}

-----------------------------------------------------------------------------
\* Growth: a project p with a build directory and its marker, an *.egg-info name
\* and a nested directory, which others create and delete piece by piece.  The
\* marker may be a dangling link at first.  Once it is there it stays: the program
\* does not undo marks.  Beside the project lie a directory that cannot be read
\* and an artifact that cannot be marked.
p == <<"r", "p">>
build == <<"r", "p", "target">>
marker == <<"r", "p", "Cargo.toml">>
inner == <<"r", "p", "target", "d">>
egg == <<"r", "p", "x.egg-info">>
locked == <<"r", "locked">>
artifact == <<"r", "node_modules">>

GrowthPaths == {r, p, build, marker, inner, egg, locked, artifact}
BadNeighbours == r :> "root" @@ locked :> "locked" @@ artifact :> "artifact"
GrowthTrees ==
    {TreeOf(GrowthPaths, BadNeighbours),
     TreeOf(GrowthPaths, BadNeighbours @@ p :> "a" @@ build :> "b")}
GrowthPath == GrowthPaths
GrowthCreatable ==
    {<<p, "dir">>, <<build, "dir">>, <<marker, "file">>, <<marker, "symlink">>,
     <<inner, "dir">>, <<egg, "file">>}
GrowthDeletable == {p, build, inner, egg}

-----------------------------------------------------------------------------
\* A root that others move away and back, and in which a trigger may appear: the
\* root is a project itself.
away == <<"o", "m">>

TriggerRootPaths == {r, Append(r, "Cargo.toml"), o, away, Append(away, "Cargo.toml")}
TriggerRootTrees == {TreeOf(TriggerRootPaths, r :> "root" @@ o :> "outside")}
TriggerRootPath == TriggerRootPaths
TriggerRootCreatable == {<<Append(r, "Cargo.toml"), "file">>}
TriggerRootRenamable == {<<r, away>>}
=============================================================================
