------------------------------ MODULE TestRun ------------------------------
(***************************************************************************)
(* The repository's tests, run against Watcher instead of the program: the *)
(* model is to do what the tests say the code does.  What a test does, it  *)
(* does at any time between two drains, so that a case is every order in   *)
(* which the program can read its events, and every split of them.         *)
(***************************************************************************)
EXTENDS Watcher, TestCases

VARIABLES
    case,       \* the test that is run
    script      \* what is left of its script

testing == <<vars, case, script>>

\* The path that is named from the root.
join(path) ==
    IF path # <<>> /\ Head(path) = ".." THEN Front(root) \o Tail(path) ELSE root \o path

\* In a test, an inode is called by the path it was made at and what it is.
InodeAt(entry) == <<join(entry.path), entry.kind>>

\* Every test has a temporary directory for its root, and one outside the root.
Fixture == {Dir(<<"..">>), Dir(<<"..", "outside">>), Dir(<<>>)}

TreeOfTest(test) ==
    LET entries == Fixture \cup test.tree
    IN  [path \in Path |->
            IF \E entry \in entries : join(entry.path) = path
            THEN InodeAt(CHOOSE entry \in entries : join(entry.path) = path)
            ELSE NoInode]

TestInit ==
    /\ case \in PlanEntryTests \cup RescanTests \cup DrainTests \cup DiscoveryTests \cup RuleTests
    /\ script = case.script
    /\ tree = TreeOfTest(case)
    /\ Init

-----------------------------------------------------------------------------
NextStep(op) ==
    /\ script # <<>> /\ Head(script).op = op
    /\ script' = Tail(script)
    /\ UNCHANGED case

BetweenDrains == pc \in {"check", "poll"}

\* The test changes the tree.
TestChangesTree ==
    /\ BetweenDrains
    /\ LET step == Head(script)
       IN  \/ NextStep("create") /\ Create(join(step.path), InodeAt(step))
           \/ NextStep("remove") /\ Delete(join(step.path))
           \/ NextStep("rename") /\ Rename(join(step.path), join(step.to))
    /\ UNCHANGED <<ops, registry, pc, walk, drain, shutdown, history>>

\* The test calls rescan_subtree.
TestRescans ==
    /\ BetweenDrains /\ NextStep("rescan")
    /\ pc' = "drain" /\ scopes' = {join(Head(script).path)}
    /\ UNCHANGED <<world, registry, walk, batch, pending, needs_rescan, shutdown, history>>

\* The test calls discover_watch_targets and apply_discovered_paths.
TestDiscovers ==
    /\ BetweenDrains /\ NextStep("discover")
    /\ pc' = "drain" /\ stack' = <<root>>
    /\ UNCHANGED <<world, registry, matches, watchers, drain, shutdown, history>>

\* The test watches a directory and registers another path for it.
TestInserts ==
    /\ BetweenDrains /\ NextStep("insert")
    /\ AddKernelWatch(NextWd(batch), tree[join(Head(script).of)])
    /\ Insert(join(Head(script).path), NextWd(batch))
    /\ UNCHANGED <<tree, marked, queue, ops, pc, walk, drain, shutdown, history>>

TestShutsDown ==
    /\ BetweenDrains /\ NextStep("shutdown")
    /\ shutdown' = TRUE
    /\ UNCHANGED <<world, registry, pc, walk, drain, history>>

\* An assertion that does not hold stops the test for good.
TestAsserts ==
    /\ AtRest \/ pc \in Exited
    /\ LET step == Head(script)
       IN  \/ NextStep("watched") /\ contains_path(join(step.path))
           \/ NextStep("unwatched") /\ ~contains_path(join(step.path))
           \/ NextStep("marked") /\ tree[join(step.path)] \in marked
           \/ NextStep("unmarked") /\ tree[join(step.path)] \notin marked
           \/ NextStep("count") /\ Cardinality({wd \in Wd : path_for(wd) # NoPath}) = step.n
           \/ NextStep("fresh") /\ \A path \in Path : contains_path(path) <=> Traversable(path)
           \/ NextStep("exits") /\ pc = step.code
    /\ UNCHANGED vars

TestStep ==
    \/ TestChangesTree \/ TestRescans \/ TestDiscovers \/ TestInserts \/ TestShutsDown
    \/ TestAsserts

TestTerminated == (script = <<>> \/ pc \in Exited) /\ UNCHANGED testing

TestNext == TestStep \/ (Program /\ UNCHANGED <<case, script>>) \/ TestTerminated

TestSpec ==
    /\ TestInit /\ [][TestNext]_testing
    /\ WF_testing(Program /\ UNCHANGED <<case, script>>) /\ WF_testing(TestStep)

-----------------------------------------------------------------------------
\* Every test of the repository passes, however the program's reads fall between the
\* steps of the test: it gets to the end of its script, past all its assertions.
EveryTestPasses == <>(script = <<>>)
=============================================================================
