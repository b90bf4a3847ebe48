--------------------------- MODULE WatchRegistry ---------------------------
(***************************************************************************)
(* The bookkeeping of src/watch.rs: two maps, from descriptor to path and  *)
(* from path to descriptor, that insert, remove_by_descriptor and          *)
(* drain_subtree keep in step.  A HashMap is a total function here, with   *)
(* NoPath or NoWd where the map has no entry.                              *)
(*                                                                         *)
(* The descriptor a registration gets is the kernel's choice.  It is any   *)
(* descriptor at all in this module: inotify returns the descriptor a      *)
(* watched inode already has, whatever path it is registered under.        *)
(***************************************************************************)
EXTENDS Names

VARIABLES by_descriptor, by_path

registry == <<by_descriptor, by_path>>

path_for(wd) == by_descriptor[wd]

contains_path(path) == by_path[path] # NoWd

RegistryInit ==
    /\ by_descriptor = [wd \in Wd |-> NoPath]
    /\ by_path = [path \in Path |-> NoWd]

\* Mutant of Insert: the path a reused descriptor had keeps its entry.
InsertWithoutEviction(path, wd) ==
    /\ by_path' = [by_path EXCEPT ![path] = wd]
    /\ by_descriptor' = [by_descriptor EXCEPT ![wd] = path]

\* WatchRegistry::insert.  The path the descriptor was registered under until
\* now, if it is another one, loses its entry.
Insert(path, wd) ==
    /\ by_path' = [p \in Path |-> IF p = path THEN wd
                                  ELSE IF p = path_for(wd) THEN NoWd
                                  ELSE by_path[p]]
    /\ by_descriptor' = [by_descriptor EXCEPT ![wd] = path]

\* Mutant of Register: add_watch without its test for a registered path.
RegisterUnchecked(path, wd) == Insert(path, wd)

\* add_watch, once the kernel has returned a descriptor.  A path that is
\* registered already is left alone: the kernel is not even asked.
Register(path, wd) ==
    /\ ~contains_path(path)
    /\ Insert(path, wd)

\* WatchRegistry::remove_by_descriptor.
RemoveByDescriptor(wd) ==
    /\ by_descriptor' = [by_descriptor EXCEPT ![wd] = NoPath]
    /\ by_path' = [p \in Path |-> IF p = path_for(wd) THEN NoWd ELSE by_path[p]]

\* Mutant of DrainedPaths: the prefix itself only.
DrainedPathItself(prefix) == {p \in Path : contains_path(p) /\ p = prefix}

\* The registered paths drain_subtree removes.
DrainedPaths(prefix) == {p \in Path : contains_path(p) /\ StartsWith(p, prefix)}

\* The descriptors drain_subtree returns, for its caller to remove from the
\* kernel.
DrainedDescriptors(prefix) == {by_path[p] : p \in DrainedPaths(prefix)}

\* WatchRegistry::drain_subtree.
DrainSubtree(prefix) ==
    /\ by_path' = [p \in Path |-> IF p \in DrainedPaths(prefix) THEN NoWd
                                  ELSE by_path[p]]
    /\ by_descriptor' = [wd \in Wd |-> IF wd \in DrainedDescriptors(prefix) THEN NoPath
                                       ELSE by_descriptor[wd]]

RegistryNext ==
    \/ \E path \in Path, wd \in Wd : Register(path, wd)
    \/ \E wd \in Wd : RemoveByDescriptor(wd)
    \/ \E prefix \in Path : DrainSubtree(prefix)

RegistrySpec == RegistryInit /\ [][RegistryNext]_registry

-----------------------------------------------------------------------------
\* The registry maps descriptors to paths and paths to descriptors.
RegistryTypeOK ==
    /\ by_descriptor \in [Wd -> Path \cup {NoPath}]
    /\ by_path \in [Path -> Wd \cup {NoWd}]

\* The two maps of WatchRegistry are each other's inverse.  insert keeps them
\* so only because it drops the stale path of a reused descriptor and because
\* add_watch never calls it for a path that has an entry; an orphan in by_path
\* would make add_watch skip its path for ever.
RegistryInverse ==
    \A wd \in Wd, path \in Path : by_descriptor[wd] = path <=> by_path[path] = wd

\* The registry implements the one-map assignment of WatchSet: no step changes
\* one direction without the other, and every step claims one path, forgets one
\* descriptor or sweeps one whole subtree.
WatchedPaths == INSTANCE WatchSet WITH watched <- by_path
ImplementsWatchSet == WatchedPaths!Spec
=============================================================================
