---------------------------- MODULE MCScanOnce ----------------------------
(***************************************************************************)
(* A scan of every tree that can be made of a few entries: a root that may *)
(* be a build directory itself, an *.egg-info name, and a project with a   *)
(* marker and a build directory that has a match in it.  An inode is the   *)
(* path it was made at, what it is, and whether it is locked: a locked     *)
(* directory cannot be read, and nothing locked can be marked.             *)
(***************************************************************************)
EXTENDS ScanOnce

top == <<"w">>
top_marker == <<"w", "Cargo.toml">>
r == <<"w", "target">>
egg == <<"w", "target", "x.egg-info">>
p == <<"w", "target", "p">>
build == <<"w", "target", "p", "target">>
marker == <<"w", "target", "p", "Cargo.toml">>
inner == <<"w", "target", "p", "target", "x.egg-info">>
away == <<"w", "away">>
away_inner == <<"w", "away", "x.egg-info">>

Paths == {top, top_marker, r, egg, p, build, marker, inner, away, away_inner}

None == <<>>
Dir == <<"dir", "open">>
File == <<"file", "open">>
Link == <<"symlink", "open">>
LockedDir == <<"dir", "locked">>
LockedFile == <<"file", "locked">>

\* What may be at each path; away stands for the rest of the disk.
Entries ==
    top :> {Dir} @@ top_marker :> {None, File} @@ r :> {None, Dir, File} @@
    egg :> {None, File, Link, LockedFile} @@ p :> {None, Dir, LockedDir} @@
    build :> {None, Dir, LockedDir} @@ marker :> {None, File} @@
    inner :> {None, File} @@ away :> {None} @@ away_inner :> {None}

Inodes == UNION {{path} \X (Entries[path] \ {None}) : path \in Paths}
Kinds == [i \in Inodes |-> i[2][1]]
Locked == {i \in Inodes : i[2][2] = "locked"}

\* A tree: entries[n] is at the n-th path.
PathSeq == <<top, top_marker, r, egg, p, build, marker, inner, away, away_inner>>
TreeOf(entries) ==
    [path \in Paths |->
        LET entry == entries[CHOOSE n \in DOMAIN PathSeq : PathSeq[n] = path]
        IN  IF entry = None THEN NoInode ELSE <<path, entry>>]

IsTree(t) ==
    \A path \in Paths :
        Len(path) > 1 /\ t[path] # NoInode =>
            t[Parent(path)] # NoInode /\ Kinds[t[Parent(path)]] = "dir"

MCTrees ==
    {t \in {TreeOf(<<Dir, c, d, e, f, g, h, i, None, None>>) :
              c \in Entries[top_marker], d \in Entries[r], e \in Entries[egg],
              f \in Entries[p], g \in Entries[build], h \in Entries[marker],
              i \in Entries[inner]} : IsTree(t)}

\* Nothing is marked yet, or an earlier run has marked whatever is here.
MCMarks == {{}, Inodes}

MCCreatable ==
    {<<top_marker, "file">>, <<marker, "file">>, <<egg, "file">>,
     <<p, "dir">>, <<build, "dir">>, <<inner, "file">>}
MCDeletable == Paths \ {top}
MCRenamable == {<<build, away>>, <<away, build>>}

\* TLC evaluates a definition once, but what a configuration puts in the place of a
\* constant at every use; so a configuration gets nothing but other names.
MCPath == Paths
MCInode == Inodes
MCKind == Kinds
MCRules == DefaultRules
MCLocked == Locked
=============================================================================
