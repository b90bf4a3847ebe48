-------------------------- MODULE MCTriggerRescan --------------------------
(***************************************************************************)
(* The production rules over the names that can interact: two build        *)
(* directories, one of them with the markers of two rules, a directory     *)
(* that is always ignored, one that is skipped without a mark, and an      *)
(* *.egg-info name, each of which may be a file or a directory.            *)
(***************************************************************************)
EXTENDS TriggerRescan

MCName == {"target", "Cargo.toml", "pom.xml", "deps", "mix.exs", ".git", "x.egg-info"}
=============================================================================
