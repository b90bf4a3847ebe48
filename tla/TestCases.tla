----------------------------- MODULE TestCases -----------------------------
(***************************************************************************)
(* The repository's own tests of what the program does to a tree, under    *)
(* their own names.  A case is the tree a test starts from and a script:   *)
(* what the test does, and what it asserts in between.  Paths are relative *)
(* to the root, ".." is the directory it is in.                            *)
(*                                                                         *)
(* Each test brings the one or two rules it needs.  Here all of them have  *)
(* the production rules, which make no difference to their trees, and an   *)
(* assertion about what discovery or plan_entry returns is one about what  *)
(* gets marked and watched.                                                *)
(***************************************************************************)
EXTENDS Naturals, Sequences

\* The entries of a tree.
Dir(path) == [path |-> path, kind |-> "dir"]
File(path) == [path |-> path, kind |-> "file"]
Link(path) == [path |-> path, kind |-> "symlink"]

\* What a test does.
mkdir(path) == [op |-> "create", path |-> path, kind |-> "dir"]
write(path) == [op |-> "create", path |-> path, kind |-> "file"]
symlink(path) == [op |-> "create", path |-> path, kind |-> "symlink"]
remove(path) == [op |-> "remove", path |-> path]
rename(from, to) == [op |-> "rename", path |-> from, to |-> to]
discover_and_apply == [op |-> "discover", path |-> <<>>]
rescan_subtree(scope) == [op |-> "rescan", path |-> scope]
insert(path, watched) == [op |-> "insert", path |-> path, of |-> watched]
set_shutdown == [op |-> "shutdown"]

\* What a test asserts, once the program has nothing left to do.
watched(path) == [op |-> "watched", path |-> path]
unwatched(path) == [op |-> "unwatched", path |-> path]
marked_entry(path) == [op |-> "marked", path |-> path]
unmarked_entry(path) == [op |-> "unmarked", path |-> path]
watched_count(n) == [op |-> "count", n |-> n]
as_fresh_discovery == [op |-> "fresh"]
exits(code) == [op |-> "exits", code |-> code]

Test(entries, steps) == [tree |-> entries, script |-> steps]

\* An entry of the root that must be marked and left unwatched, or neither.
Ignored(entry, markers) ==
    Test({entry} \cup {File(<<m>>) : m \in markers},
         <<marked_entry(entry.path), unwatched(entry.path)>>)
NotIgnored(entry, markers) ==
    Test({entry} \cup {File(<<m>>) : m \in markers},
         <<unmarked_entry(entry.path)>> \o
         (IF entry.kind = "dir" THEN <<watched(entry.path)>> ELSE <<unwatched(entry.path)>>))

-----------------------------------------------------------------------------
\* app.rs: plan_entry, for an entry that appears while the program runs.

plan_entry_skips_symlink_to_directory ==
    {Test({Dir(<<"real">>)},
          <<symlink(<<"link">>), unmarked_entry(<<"link">>), unwatched(<<"link">>)>>)}

plan_entry_watches_plain_directory ==
    {Test({}, <<mkdir(<<"plain">>), unmarked_entry(<<"plain">>), watched(<<"plain">>)>>)}

plan_entry_applies_and_skips_matched_directory ==
    {Test({}, <<mkdir(<<"node_modules">>), marked_entry(<<"node_modules">>),
                unwatched(<<"node_modules">>)>>)}

plan_entry_applies_matched_non_directory_without_watching ==
    {Test({}, <<write(<<"pkg.egg-info">>), marked_entry(<<"pkg.egg-info">>),
                unwatched(<<"pkg.egg-info">>)>>)}

plan_entry_never_marks_symlink_matching_rule_name ==
    {Test({Dir(<<"real">>)},
          <<symlink(<<"pkg.egg-info">>), unmarked_entry(<<"pkg.egg-info">>),
            unwatched(<<"pkg.egg-info">>)>>)}

PlanEntryTests ==
    plan_entry_skips_symlink_to_directory \cup plan_entry_watches_plain_directory \cup
    plan_entry_applies_and_skips_matched_directory \cup
    plan_entry_applies_matched_non_directory_without_watching \cup
    plan_entry_never_marks_symlink_matching_rule_name

-----------------------------------------------------------------------------
\* app.rs: rescans.

rescan_is_idempotent ==
    {Test({Dir(<<"a">>), Dir(<<"a", "b">>), Dir(<<"node_modules">>)},
          <<watched_count(3), discover_and_apply, watched_count(3)>>)}

rebuild_watches_reconciles_stale_entries ==
    {Test({Dir(<<"a">>), Dir(<<"a", "b">>)},
          <<insert(<<"ghost">>, <<"..", "outside">>), watched(<<"ghost">>),
            rescan_subtree(<<>>),
            unwatched(<<"ghost">>), watched(<<>>), watched(<<"a">>), watched(<<"a", "b">>),
            as_fresh_discovery>>)}

rescan_subtree_reconciles_newly_matched_sibling ==
    {Test({Dir(<<"proj">>), Dir(<<"proj", "target">>), Dir(<<"proj", "target", "debug">>),
           Dir(<<"proj", "src">>)},
          <<watched(<<"proj", "target">>), watched(<<"proj", "target", "debug">>),
            write(<<"proj", "Cargo.toml">>), rescan_subtree(<<"proj">>),
            unwatched(<<"proj", "target">>), unwatched(<<"proj", "target", "debug">>),
            watched(<<"proj">>), watched(<<"proj", "src">>)>>)}

rescan_subtree_reconciles_gradle_build_after_marker ==
    {Test({Dir(<<"proj">>), Dir(<<"proj", "build">>), Dir(<<"proj", "build", "classes">>)},
          <<watched(<<"proj", "build">>),
            write(<<"proj", "build.gradle.kts">>), rescan_subtree(<<"proj">>),
            unwatched(<<"proj", "build">>), unwatched(<<"proj", "build", "classes">>),
            watched(<<"proj">>)>>)}

rescan_subtree_leaves_out_of_scope_watches_intact ==
    {Test({Dir(<<"a">>), Dir(<<"a", "inner">>), Dir(<<"b">>), Dir(<<"b", "inner">>)},
          <<watched(<<"b", "inner">>), rescan_subtree(<<"a">>),
            watched(<<"a", "inner">>), watched(<<"b">>), watched(<<"b", "inner">>)>>)}

RescanTests ==
    rescan_is_idempotent \cup rebuild_watches_reconciles_stale_entries \cup
    rescan_subtree_reconciles_newly_matched_sibling \cup
    rescan_subtree_reconciles_gradle_build_after_marker \cup
    rescan_subtree_leaves_out_of_scope_watches_intact

-----------------------------------------------------------------------------
\* app.rs: drain_events and event_loop.

drain_events_registers_new_dir_and_skips_ignored ==
    {Test({}, <<watched(<<>>), mkdir(<<"node_modules">>), mkdir(<<"plain">>),
                watched(<<"plain">>), unwatched(<<"node_modules">>)>>)}

drain_events_prunes_subtree_moved_out_of_tree ==
    {Test({Dir(<<"a">>), Dir(<<"a", "x">>)},
          <<watched(<<"a", "x">>), rename(<<"a">>, <<"..", "outside", "a">>),
            unwatched(<<"a">>), unwatched(<<"a", "x">>), as_fresh_discovery>>)}

drain_events_reconciles_in_tree_rename ==
    {Test({Dir(<<"a">>), Dir(<<"a", "x">>)},
          <<watched(<<"a", "x">>), rename(<<"a">>, <<"b">>),
            watched(<<"b">>), watched(<<"b", "x">>), unwatched(<<"a">>),
            unwatched(<<"a", "x">>), as_fresh_discovery>>)}

drain_events_errors_when_root_is_moved ==
    {Test({}, <<rename(<<>>, <<"..", "elsewhere">>), exits("failed")>>)}

drain_events_errors_when_root_is_deleted ==
    {Test({}, <<remove(<<>>), exits("failed")>>)}

event_loop_stops_when_shutdown_flag_is_set ==
    {Test({}, <<set_shutdown, exits("ok"), watched(<<>>)>>)}

drain_events_removes_registry_entry_for_deleted_subdir ==
    {Test({Dir(<<"a">>)},
          <<watched(<<"a">>), remove(<<"a">>), unwatched(<<"a">>), watched(<<>>)>>)}

drain_events_rescans_when_trigger_file_appears ==
    {Test({Dir(<<"proj">>), Dir(<<"proj", "target">>)},
          <<watched(<<"proj", "target">>), write(<<"proj", "Cargo.toml">>),
            unwatched(<<"proj", "target">>), watched(<<"proj">>), watched(<<>>)>>)}

event_loop_processes_events_before_shutdown ==
    {Test({}, <<mkdir(<<"newdir">>), watched(<<"newdir">>), set_shutdown, exits("ok"),
                watched(<<"newdir">>)>>)}

\* More files than the queue takes, before the program gets to read any.
Overflowing == <<write(<<"f0">>), write(<<"f1">>), write(<<"f2">>), write(<<"f3">>)>>

drain_events_recovers_from_queue_overflow ==
    {Test({}, Overflowing \o <<mkdir(<<"late_dir">>), mkdir(<<"node_modules">>),
                               watched(<<"late_dir">>), unwatched(<<"node_modules">>),
                               as_fresh_discovery>>)}

drain_events_errors_when_root_vanishes_during_overflow ==
    {Test({}, Overflowing \o
              <<remove(<<"f0">>), remove(<<"f1">>), remove(<<"f2">>), remove(<<"f3">>),
                remove(<<>>), exits("failed")>>)}

drain_events_skips_new_vcs_dir ==
    {Test({}, <<watched(<<>>), mkdir(<<".git">>), mkdir(<<"plain">>),
                watched(<<"plain">>), unwatched(<<".git">>)>>)}

DrainTests ==
    drain_events_registers_new_dir_and_skips_ignored \cup
    drain_events_prunes_subtree_moved_out_of_tree \cup
    drain_events_reconciles_in_tree_rename \cup
    drain_events_errors_when_root_is_moved \cup drain_events_errors_when_root_is_deleted \cup
    event_loop_stops_when_shutdown_flag_is_set \cup
    drain_events_removes_registry_entry_for_deleted_subdir \cup
    drain_events_rescans_when_trigger_file_appears \cup
    event_loop_processes_events_before_shutdown \cup
    drain_events_recovers_from_queue_overflow \cup
    drain_events_errors_when_root_vanishes_during_overflow \cup
    drain_events_skips_new_vcs_dir

-----------------------------------------------------------------------------
\* discovery.rs: what the seeding finds.

discover_watch_targets_skips_ignored_subtrees ==
    {Test({Dir(<<"keep">>), Dir(<<"node_modules">>), Dir(<<"node_modules", "deep">>)},
          <<watched(<<>>), watched(<<"keep">>), unwatched(<<"node_modules">>),
            unwatched(<<"node_modules", "deep">>), marked_entry(<<"node_modules">>)>>)}

discover_watch_targets_handles_cargo_target ==
    {Test({File(<<"Cargo.toml">>), Dir(<<"target">>), Dir(<<"target", "debug">>)},
          <<marked_entry(<<"target">>), unwatched(<<"target">>),
            unwatched(<<"target", "debug">>)>>)}

discover_watch_targets_skips_python_envs == {Ignored(Dir(<<".venv">>), {})}

discover_watch_targets_marks_egg_info_files ==
    {Test({File(<<"pkg.egg-info">>), Dir(<<"sub">>), File(<<"sub", "inner.egg-info">>)},
          <<marked_entry(<<"pkg.egg-info">>), marked_entry(<<"sub", "inner.egg-info">>)>>)}

discover_watch_targets_skips_pycache_subtree ==
    {Test({Dir(<<"__pycache__">>), Dir(<<"__pycache__", "sub">>)},
          <<marked_entry(<<"__pycache__">>), unwatched(<<"__pycache__">>),
            unwatched(<<"__pycache__", "sub">>)>>)}

discover_watch_targets_skips_vcs_dirs_without_marking ==
    {Test({Dir(<<".git">>), Dir(<<".git", "objects">>), Dir(<<".git", "node_modules">>),
           Dir(<<"keep">>)},
          <<watched(<<"keep">>), unwatched(<<".git">>), unwatched(<<".git", "objects">>),
            unmarked_entry(<<".git">>), unmarked_entry(<<".git", "node_modules">>)>>)}

walk_skips_symlinks_without_evaluating_them ==
    {Test({Dir(<<"real">>), Link(<<"node_modules">>)},
          <<unmarked_entry(<<"node_modules">>), unwatched(<<"node_modules">>),
            watched(<<"real">>)>>)}

\* "locked" is unreadable: the walk goes on past it, and add_watch has to skip it.
unreadable_directory_is_skipped_and_walk_continues ==
    {Test({Dir(<<"locked">>), Dir(<<"open">>)}, <<watched(<<"open">>)>>)}

DiscoveryTests ==
    discover_watch_targets_skips_ignored_subtrees \cup
    discover_watch_targets_handles_cargo_target \cup
    discover_watch_targets_skips_python_envs \cup
    discover_watch_targets_marks_egg_info_files \cup
    discover_watch_targets_skips_pycache_subtree \cup
    discover_watch_targets_skips_vcs_dirs_without_marking \cup
    walk_skips_symlinks_without_evaluating_them \cup
    unreadable_directory_is_skipped_and_walk_continues

-----------------------------------------------------------------------------
\* rules.rs: one rule, one entry.

node_modules_rule_matches_directory_name == {Ignored(Dir(<<"node_modules">>), {})}

pnpm_store_rule_matches_directory_name == {Ignored(Dir(<<".pnpm-store">>), {})}

cargo_target_rule_requires_cargo_toml_in_parent ==
    {Ignored(Dir(<<"target">>), {"Cargo.toml"})}

cargo_target_rule_ignores_target_without_cargo_toml == {NotIgnored(Dir(<<"target">>), {})}

python_artifact_rule_matches_env_and_metadata ==
    {Ignored(Dir(<<".venv">>), {}), Ignored(Dir(<<"package.egg-info">>), {})}

maven_target_rule_requires_pom_xml_in_parent == {Ignored(Dir(<<"target">>), {"pom.xml"})}

maven_target_rule_ignores_target_without_pom_xml == {NotIgnored(Dir(<<"target">>), {})}

python_artifact_rule_matches_tool_caches ==
    {Ignored(Dir(<<name>>), {}) : name \in
        {"__pycache__", ".pytest_cache", ".mypy_cache", ".ruff_cache", ".tox"}}

python_artifact_rule_ignores_ordinary_directory == {NotIgnored(Dir(<<"src">>), {})}

js_build_artifacts_rule_matches_framework_dirs ==
    {Ignored(Dir(<<name>>), {}) : name \in
        {".next", ".nuxt", ".turbo", ".parcel-cache", ".svelte-kit", ".astro", ".angular",
         ".vite"}}

artifact_dirs_rule_instances_match_their_directories ==
    {Ignored(Dir(<<name>>), {}) : name \in
        {"node_modules", ".pnpm-store", "__pycache__", ".next", ".gradle", ".terraform",
         ".direnv"}}

artifact_dirs_rule_ignores_file_named_like_dir == {NotIgnored(File(<<"node_modules">>), {})}

egg_info_rule_matches_file_and_directory ==
    {Ignored(File(<<"pkg.egg-info">>), {}), Ignored(Dir(<<"other.egg-info">>), {})}

gradle_build_rule_matches_with_each_marker ==
    {Ignored(Dir(<<"build">>), {marker}) : marker \in
        {"build.gradle", "build.gradle.kts", "settings.gradle", "settings.gradle.kts"}}

gradle_build_rule_ignores_build_without_marker == {NotIgnored(Dir(<<"build">>), {})}

iac_and_env_rules_match_all_listed_dirs ==
    {Ignored(Dir(<<name>>), {}) : name \in {".terragrunt-cache", ".devenv"}}

vcs_dirs_rule_skips_all_vcs_dirs_without_marking ==
    {Test({Dir(<<name>>)}, <<unmarked_entry(<<name>>), unwatched(<<name>>)>>) :
        name \in {".git", ".hg", ".svn", ".jj", ".bzr"}}

vcs_dirs_rule_ignores_git_file == {NotIgnored(File(<<".git">>), {})}

marked_build_dir_expansion_rules_require_their_markers ==
    UNION {{NotIgnored(Dir(<<c[1]>>), {}), Ignored(Dir(<<c[1]>>), {c[2]})} : c \in
        {<<"vendor", "composer.json">>, <<"_build", "mix.exs">>, <<"deps", "mix.exs">>,
         <<"zig-out", "build.zig">>}}

zig_and_dart_cache_rules_match_their_directories ==
    {Ignored(Dir(<<name>>), {}) : name \in {".zig-cache", ".dart_tool"}}

default_rules_engine_matches_representative_fixtures ==
    {Ignored(Dir(<<"node_modules">>), {}), Ignored(Dir(<<"target">>), {"Cargo.toml"}),
     NotIgnored(Dir(<<"target">>), {}), Ignored(Dir(<<".venv">>), {}),
     Ignored(File(<<"pkg.egg-info">>), {}), NotIgnored(Dir(<<"src">>), {}),
     Test({Dir(<<".git">>)}, <<unmarked_entry(<<".git">>), unwatched(<<".git">>)>>)}

\* rules.rs: is_trigger.  A trigger that appears has the directory rescanned, and the
\* build directory beside it, watched until then, matches.
Triggered(dir, trigger) ==
    Test({Dir(<<dir>>)},
         <<watched(<<dir>>), write(<<trigger>>), marked_entry(<<dir>>), unwatched(<<dir>>)>>)

rule_engine_recognizes_cargo_toml_trigger == {Triggered("target", "Cargo.toml")}

rule_engine_recognizes_pom_xml_trigger == {Triggered("target", "pom.xml")}

rule_engine_recognizes_gradle_triggers ==
    {Triggered("build", trigger) : trigger \in
        {"build.gradle", "build.gradle.kts", "settings.gradle", "settings.gradle.kts"}}

rule_engine_recognizes_expansion_triggers ==
    {Triggered("vendor", "composer.json"), Triggered("_build", "mix.exs"),
     Triggered("deps", "mix.exs"), Triggered("zig-out", "build.zig")}

RuleTests ==
    node_modules_rule_matches_directory_name \cup pnpm_store_rule_matches_directory_name \cup
    cargo_target_rule_requires_cargo_toml_in_parent \cup
    cargo_target_rule_ignores_target_without_cargo_toml \cup
    python_artifact_rule_matches_env_and_metadata \cup
    maven_target_rule_requires_pom_xml_in_parent \cup
    maven_target_rule_ignores_target_without_pom_xml \cup
    python_artifact_rule_matches_tool_caches \cup
    python_artifact_rule_ignores_ordinary_directory \cup
    js_build_artifacts_rule_matches_framework_dirs \cup
    artifact_dirs_rule_instances_match_their_directories \cup
    artifact_dirs_rule_ignores_file_named_like_dir \cup
    egg_info_rule_matches_file_and_directory \cup
    gradle_build_rule_matches_with_each_marker \cup
    gradle_build_rule_ignores_build_without_marker \cup
    iac_and_env_rules_match_all_listed_dirs \cup
    vcs_dirs_rule_skips_all_vcs_dirs_without_marking \cup vcs_dirs_rule_ignores_git_file \cup
    marked_build_dir_expansion_rules_require_their_markers \cup
    zig_and_dart_cache_rules_match_their_directories \cup
    default_rules_engine_matches_representative_fixtures \cup
    rule_engine_recognizes_cargo_toml_trigger \cup rule_engine_recognizes_pom_xml_trigger \cup
    rule_engine_recognizes_gradle_triggers \cup rule_engine_recognizes_expansion_triggers
=============================================================================
