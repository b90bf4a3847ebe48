----------------------------- MODULE MCTestRun -----------------------------
(***************************************************************************)
(* The paths and inodes that the repository's tests need, and no others.   *)
(***************************************************************************)
EXTENDS TestRun

r == <<"tmp", "root">>
At(path) == IF path # <<>> /\ Head(path) = ".." THEN <<"tmp">> \o Tail(path) ELSE r \o path

Cases == PlanEntryTests \cup RescanTests \cup DrainTests \cup DiscoveryTests \cup RuleTests
Steps == UNION {ToSet(test.script) : test \in Cases}
Created == {step \in Steps : step.op = "create"}
Moves == {<<At(step.path), At(step.to)>> : step \in {s \in Steps : s.op = "rename"}}
Entries == Fixture \cup UNION {test.tree : test \in Cases} \cup Created

Named ==
    {At(entry.path) : entry \in Entries} \cup {move[2] : move \in Moves}
    \cup {At(<<"ghost">>), At(<<"b", "x">>), At(<<"..", "outside", "a", "x">>)}
Paths == UNION {{SubSeq(path, 1, n) : n \in 1..Len(path)} : path \in Named}

Inodes == {<<At(entry.path), entry.kind>> : entry \in Entries}
Kinds == [inode \in Inodes |-> inode[2]]

TreeOf(test) ==
    [path \in Paths |->
        IF \E e \in Fixture \cup test.tree : At(e.path) = path
        THEN LET entry == CHOOSE e \in Fixture \cup test.tree : At(e.path) = path
             IN  <<path, entry.kind>>
        ELSE NoInode]

New == {<<At(entry.path), entry.kind>> : entry \in Created}
Gone == {At(step.path) : step \in {s \in Steps : s.op = "remove"}}

\* TLC evaluates a definition once, but what a configuration puts in the place of a
\* constant at every use; so a configuration gets nothing but other names.
MCPath == Paths
MCInode == Inodes
MCKind == Kinds
MCRules == DefaultRules
MCTrees == {TreeOf(test) : test \in Cases}
MCCreatable == New
MCDeletable == Gone
MCRenamable == Moves
MCLocked == {<<At(<<"locked">>), "dir">>}

\* default_rules_has_expected_count.
ASSUME RuleCount == Len(DefaultRules) = 18
=============================================================================
