------------------------------ MODULE WatchSet ------------------------------
(***************************************************************************)
(* What the watch registry promises, with one map instead of two: a        *)
(* partial, one-to-one assignment of watch descriptors to watched paths.   *)
(* WatchRegistry keeps this assignment in both directions and implements   *)
(* this module with watched <- by_path.                                    *)
(***************************************************************************)
EXTENDS Sequences, SequencesExt

CONSTANTS
    Path,           \* the paths that may be watched
    Wd,             \* the watch descriptors
    NoWd            \* "this path is not watched"

VARIABLE watched    \* the descriptor of each watched path

Init == watched = [p \in Path |-> NoWd]

\* A path that is not watched takes a descriptor, from its former path if the
\* descriptor had one.
Claim(path, wd) ==
    /\ watched[path] = NoWd
    /\ watched' = [p \in Path |-> IF p = path THEN wd
                                  ELSE IF watched[p] = wd THEN NoWd
                                  ELSE watched[p]]

\* The path of a descriptor, if it has one, is no longer watched.
Forget(wd) ==
    watched' = [p \in Path |-> IF watched[p] = wd THEN NoWd ELSE watched[p]]

\* Nothing at or below prefix is watched any more.
Sweep(prefix) ==
    watched' = [p \in Path |-> IF IsPrefix(prefix, p) THEN NoWd ELSE watched[p]]

Next ==
    \/ \E path \in Path, wd \in Wd : Claim(path, wd)
    \/ \E wd \in Wd : Forget(wd)
    \/ \E prefix \in Path : Sweep(prefix)

Spec == Init /\ [][Next]_watched
=============================================================================
