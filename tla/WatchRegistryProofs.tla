------------------------ MODULE WatchRegistryProofs ------------------------
(***************************************************************************)
(* Proofs about the watch registry for any sets of paths and descriptors.  *)
(***************************************************************************)
EXTENDS WatchRegistry, TLAPS

\* Every operation of the registry keeps both maps well typed.
THEOREM RegistryTypeCorrect == RegistrySpec => []RegistryTypeOK
<1>1. RegistryInit => RegistryTypeOK
  BY DEF RegistryInit, RegistryTypeOK
<1>2. RegistryTypeOK /\ [RegistryNext]_registry => RegistryTypeOK'
  <2> SUFFICES ASSUME RegistryTypeOK, [RegistryNext]_registry
               PROVE  RegistryTypeOK'
    OBVIOUS
  <2> USE DEF RegistryTypeOK
  <2>1. CASE UNCHANGED registry
    BY <2>1 DEF registry
  <2>2. ASSUME NEW path \in Path, NEW wd \in Wd, Register(path, wd)
        PROVE  RegistryTypeOK'
    BY <2>2 DEF Register, Insert
  <2>3. ASSUME NEW wd \in Wd, RemoveByDescriptor(wd)
        PROVE  RegistryTypeOK'
    BY <2>3 DEF RemoveByDescriptor
  <2>4. ASSUME NEW prefix \in Path, DrainSubtree(prefix)
        PROVE  RegistryTypeOK'
    BY <2>4 DEF DrainSubtree
  <2> QED
    BY <2>1, <2>2, <2>3, <2>4 DEF RegistryNext
<1> QED
  BY <1>1, <1>2, PTL DEF RegistrySpec

\* What is true of the registry in every reachable state: the inductive
\* invariant behind RegistryInverse and behind the refinement.
RegistryIInv == RegistryTypeOK /\ RegistryInverse

\* An empty registry is its own inverse.
LEMMA RegistryInitInv == RegistryInit => RegistryIInv
  BY NoPathAssumption, NoWdAssumption
     DEF RegistryInit, RegistryIInv, RegistryTypeOK, RegistryInverse

\* Registering a path that has no entry keeps the two maps inverse: the entry
\* of the descriptor's former path goes.
LEMMA RegisterKeepsInv ==
  ASSUME RegistryIInv, NEW path \in Path, NEW wd \in Wd, Register(path, wd)
  PROVE  RegistryInverse'
<1> USE NoPathAssumption, NoWdAssumption
<1> SUFFICES ASSUME NEW d \in Wd, NEW p \in Path
             PROVE  by_descriptor'[d] = p <=> by_path'[p] = d
  BY DEF RegistryInverse
<1> USE DEF RegistryIInv, RegistryTypeOK, RegistryInverse, Register, Insert,
            contains_path, path_for
<1>1. CASE p = path
  BY <1>1
<1>2. CASE p # path /\ p = by_descriptor[wd]
  BY <1>2
<1>3. CASE p # path /\ p # by_descriptor[wd]
  BY <1>3
<1> QED
  BY <1>1, <1>2, <1>3

\* Removing a descriptor removes exactly its own path.
LEMMA RemoveKeepsInv ==
  ASSUME RegistryIInv, NEW wd \in Wd, RemoveByDescriptor(wd)
  PROVE  RegistryInverse'
  BY NoPathAssumption, NoWdAssumption
     DEF RegistryIInv, RegistryTypeOK, RegistryInverse, RemoveByDescriptor, path_for

\* A drain removes the same pairs from both maps.
LEMMA DrainKeepsInv ==
  ASSUME RegistryIInv, NEW prefix \in Path, DrainSubtree(prefix)
  PROVE  RegistryInverse'
<1> USE NoPathAssumption, NoWdAssumption
<1> SUFFICES ASSUME NEW d \in Wd, NEW p \in Path
             PROVE  by_descriptor'[d] = p <=> by_path'[p] = d
  BY DEF RegistryInverse
<1>1. by_descriptor[d] = p <=> by_path[p] = d
  BY DEF RegistryIInv, RegistryInverse
<1>2. p \in DrainedPaths(prefix) => by_path'[p] = NoWd
  BY DEF DrainSubtree
<1>3. p \notin DrainedPaths(prefix) => by_path'[p] = by_path[p]
  BY DEF DrainSubtree
<1>4. d \in DrainedDescriptors(prefix) => by_descriptor'[d] = NoPath
  BY DEF DrainSubtree
<1>5. d \notin DrainedDescriptors(prefix) => by_descriptor'[d] = by_descriptor[d]
  BY DEF DrainSubtree
<1>6. by_path[p] = d => (p \in DrainedPaths(prefix) <=> d \in DrainedDescriptors(prefix))
  BY DEF DrainedDescriptors, DrainedPaths, contains_path, RegistryIInv, RegistryTypeOK,
         RegistryInverse
<1> QED
  BY <1>1, <1>2, <1>3, <1>4, <1>5, <1>6

\* The two maps of the registry are each other's inverse in every reachable
\* state, for any paths and descriptors.
THEOREM RegistryAlwaysInverse == RegistrySpec => []RegistryInverse
<1>1. RegistryIInv /\ [RegistryNext]_registry => RegistryInverse'
  <2> SUFFICES ASSUME RegistryIInv, [RegistryNext]_registry
               PROVE  RegistryInverse'
    OBVIOUS
  <2>1. CASE UNCHANGED registry
    BY <2>1 DEF registry, RegistryIInv, RegistryInverse
  <2>2. CASE \E path \in Path, wd \in Wd : Register(path, wd)
    BY <2>2, RegisterKeepsInv
  <2>3. CASE \E wd \in Wd : RemoveByDescriptor(wd)
    BY <2>3, RemoveKeepsInv
  <2>4. CASE \E prefix \in Path : DrainSubtree(prefix)
    BY <2>4, DrainKeepsInv
  <2> QED
    BY <2>1, <2>2, <2>3, <2>4 DEF RegistryNext
<1>2. RegistryInit => RegistryInverse
  BY RegistryInitInv DEF RegistryIInv
<1> QED
  BY <1>1, <1>2, RegistryTypeCorrect, PTL DEF RegistrySpec, RegistryIInv

-----------------------------------------------------------------------------
\* The registry implements WatchSet: reading only by_path, every operation is
\* one Claim, Forget or Sweep.  The inverse is what makes it true: insert and
\* remove_by_descriptor find the path to drop in the other map.
THEOREM RegistryRefinesWatchSet == RegistrySpec => ImplementsWatchSet
<1> USE NoPathAssumption, NoWdAssumption
<1>1. RegistryInit => WatchedPaths!Init
  BY DEF RegistryInit, WatchedPaths!Init
<1>2. RegistryIInv /\ [RegistryNext]_registry => [WatchedPaths!Next]_by_path
  <2> SUFFICES ASSUME RegistryIInv, [RegistryNext]_registry
               PROVE  [WatchedPaths!Next]_by_path
    OBVIOUS
  <2>1. CASE UNCHANGED registry
    BY <2>1 DEF registry
  <2>2. ASSUME NEW path \in Path, NEW wd \in Wd, Register(path, wd)
        PROVE  WatchedPaths!Claim(path, wd)
    BY <2>2 DEF Register, Insert, contains_path, path_for, WatchedPaths!Claim,
                RegistryIInv, RegistryTypeOK, RegistryInverse
  <2>3. ASSUME NEW wd \in Wd, RemoveByDescriptor(wd)
        PROVE  WatchedPaths!Forget(wd)
    BY <2>3 DEF RemoveByDescriptor, path_for, WatchedPaths!Forget,
                RegistryIInv, RegistryTypeOK, RegistryInverse
  <2>4. ASSUME NEW prefix \in Path, DrainSubtree(prefix)
        PROVE  WatchedPaths!Sweep(prefix)
    BY <2>4 DEF DrainSubtree, DrainedPaths, StartsWith, contains_path,
                WatchedPaths!Sweep, WatchedPaths!IsPrefix, IsPrefix
  <2> QED
    BY <2>1, <2>2, <2>3, <2>4 DEF RegistryNext, WatchedPaths!Next
<1> QED
  BY <1>1, <1>2, RegistryTypeCorrect, RegistryAlwaysInverse, PTL
     DEF RegistrySpec, ImplementsWatchSet, WatchedPaths!Spec, RegistryIInv
=============================================================================
