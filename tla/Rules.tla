------------------------------- MODULE Rules -------------------------------
(***************************************************************************)
(* The rule engine of src/rules.rs as pure operators.                      *)
(*                                                                         *)
(* A rule is a record: what kind of Rule it is, the directory names it     *)
(* lists, its marker files and its action.  A candidate is what the rules  *)
(* look at: the entry's name, whether it is a directory, and the names     *)
(* that exist beside it (what parent.join(marker).exists() can find).      *)
(***************************************************************************)
EXTENDS Naturals, Sequences, FiniteSetsExt

CONSTANT EggInfoNames   \* the entry names that end in ".egg-info"

IGNORE_AND_SKIP == [set_dropbox_ignore |-> TRUE, skip_descendants |-> TRUE]
SKIP_ONLY == [set_dropbox_ignore |-> FALSE, skip_descendants |-> TRUE]

\* What the callers of evaluate do when it returns None.
NO_MATCH == [set_dropbox_ignore |-> FALSE, skip_descendants |-> FALSE]

ArtifactDirsRule(dirs, action) ==
    [kind |-> "artifact_dirs", dirs |-> dirs, markers |-> {}, action |-> action]

MarkedBuildDirRule(dir, markers) ==
    [kind |-> "marked_build_dir", dirs |-> {dir}, markers |-> markers,
     action |-> IGNORE_AND_SKIP]

EggInfoRule ==
    [kind |-> "egg_info", dirs |-> {}, markers |-> {}, action |-> IGNORE_AND_SKIP]

\* Rule::matches of the three kinds of rule.  Only EggInfoRule matches files.
Matches(rule, candidate) ==
    \/ /\ rule.kind = "artifact_dirs"
       /\ candidate.is_dir
       /\ candidate.name \in rule.dirs
    \/ /\ rule.kind = "marked_build_dir"
       /\ candidate.is_dir
       /\ candidate.name \in rule.dirs
       /\ \E marker \in rule.markers : marker \in candidate.siblings
    \/ /\ rule.kind = "egg_info"
       /\ candidate.name \in EggInfoNames

\* The indices of the rules that match a candidate.
Hits(rules, candidate) == {i \in DOMAIN rules : Matches(rules[i], candidate)}

\* RuleEngine::evaluate: the action of the first rule that matches.
Evaluate(rules, candidate) ==
    IF Hits(rules, candidate) = {} THEN NO_MATCH
    ELSE rules[Min(Hits(rules, candidate))].action

\* Rule::triggers: a marker rule's markers are its triggers, the other rules
\* have none.
TriggersOf(rule) == IF rule.kind = "marked_build_dir" THEN rule.markers ELSE {}

\* RuleEngine::new and is_trigger.
IsTrigger(rules, name) == \E i \in DOMAIN rules : name \in TriggersOf(rules[i])

-----------------------------------------------------------------------------
\* The production rules.

VCS_DIRS == ArtifactDirsRule({".git", ".hg", ".svn", ".jj", ".bzr"}, SKIP_ONLY)
NODE_MODULES == ArtifactDirsRule({"node_modules"}, IGNORE_AND_SKIP)
PNPM_STORE == ArtifactDirsRule({".pnpm-store"}, IGNORE_AND_SKIP)
CARGO_TARGET == MarkedBuildDirRule("target", {"Cargo.toml"})
MAVEN_TARGET == MarkedBuildDirRule("target", {"pom.xml"})
GRADLE_BUILD ==
    MarkedBuildDirRule("build", {"build.gradle", "build.gradle.kts",
                                 "settings.gradle", "settings.gradle.kts"})
PYTHON_CACHES ==
    ArtifactDirsRule({".venv", "venv", "__pycache__", ".pytest_cache", ".mypy_cache",
                      ".ruff_cache", ".tox"}, IGNORE_AND_SKIP)
JS_BUILD ==
    ArtifactDirsRule({".next", ".nuxt", ".turbo", ".parcel-cache", ".svelte-kit",
                      ".astro", ".angular", ".vite"}, IGNORE_AND_SKIP)
JVM_CACHES == ArtifactDirsRule({".gradle"}, IGNORE_AND_SKIP)
IAC_CACHES == ArtifactDirsRule({".terraform", ".terragrunt-cache"}, IGNORE_AND_SKIP)
DEV_ENV_DIRS == ArtifactDirsRule({".direnv", ".devenv"}, IGNORE_AND_SKIP)
COMPOSER_VENDOR == MarkedBuildDirRule("vendor", {"composer.json"})
MIX_BUILD == MarkedBuildDirRule("_build", {"mix.exs"})
MIX_DEPS == MarkedBuildDirRule("deps", {"mix.exs"})
ZIG_OUT == MarkedBuildDirRule("zig-out", {"build.zig"})
ZIG_CACHES == ArtifactDirsRule({".zig-cache"}, IGNORE_AND_SKIP)
DART_CACHES == ArtifactDirsRule({".dart_tool"}, IGNORE_AND_SKIP)

\* default_rules, in priority order.
DefaultRules ==
    << VCS_DIRS, NODE_MODULES, PNPM_STORE, CARGO_TARGET, MAVEN_TARGET, GRADLE_BUILD,
       PYTHON_CACHES, EggInfoRule, JS_BUILD, JVM_CACHES, IAC_CACHES, DEV_ENV_DIRS,
       COMPOSER_VENDOR, MIX_BUILD, MIX_DEPS, ZIG_OUT, ZIG_CACHES, DART_CACHES >>
=============================================================================
