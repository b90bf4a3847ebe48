------------------------ MODULE TriggerRescanProofs ------------------------
(***************************************************************************)
(* Proofs about the rules and their triggers, for every list of rules and  *)
(* every set of names.                                                     *)
(***************************************************************************)
EXTENDS TriggerRescan, WellFoundedInduction, TLAPS

\* The order of the natural numbers contains no infinite descent.
LEMMA WellFoundedOrder ==
  \E R : /\ IsWellFoundedOn(R, Nat)
         /\ \A x, y \in Nat : x < y => <<x, y>> \in R
<1> DEFINE LessThan == OpToRel(<, Nat)
<1>1. IsWellFoundedOn(LessThan, Nat)
  BY NatLessThanWellFounded
<1>2. \A x, y \in Nat : x < y => <<x, y>> \in LessThan
  <2> SUFFICES ASSUME NEW x \in Nat, NEW y \in Nat, x < y
               PROVE  <<x, y>> \in LessThan
    OBVIOUS
  <2>1. <<x, y>>[1] = x /\ <<x, y>>[2] = y /\ <<x, y>> \in Nat \X Nat
    OBVIOUS
  <2>2. <<x, y>>[1] < <<x, y>>[2]
    BY <2>1
  <2> QED
    BY <2>1, <2>2, Zenon DEF OpToRel
<1> HIDE DEF LessThan
<1> QED
  BY <1>1, <1>2, Zenon

\* The first of a set of rule indices exists.
LEMMA MinOfIndices ==
  ASSUME NEW S \in SUBSET Nat, S # {}
  PROVE  /\ Min(S) \in S
         /\ \A y \in S : Min(S) <= y
<1>1. PICK R : /\ IsWellFoundedOn(R, Nat)
               /\ \A x, y \in Nat : x < y => <<x, y>> \in R
  BY WellFoundedOrder
<1>2. PICK x \in S : \A y \in S : ~ (<<y, x>> \in R)
  <2>1. IsWellFoundedOn(R, Nat) /\ S \subseteq Nat /\ S # {}
    BY <1>1, Zenon
  <2> QED
    BY <2>1, WFMin, Zenon
<1>3. \A y \in S : x <= y
  <2> SUFFICES ASSUME NEW y \in S
               PROVE  x <= y
    OBVIOUS
  <2>1. ~ (y < x)
    BY <1>1, <1>2, Zenon
  <2> QED
    BY <2>1
<1> QED
  BY <1>3 DEF Min

\* A verdict depends on the names beside the entry only through the trigger
\* names among them.
LEMMA VerdictFromTriggers ==
  ASSUME NEW rules, NEW c, NEW d,
         c.name = d.name, c.is_dir = d.is_dir,
         \A t : IsTrigger(rules, t) => (t \in c.siblings <=> t \in d.siblings)
  PROVE  Evaluate(rules, c) = Evaluate(rules, d)
<1>1. \A i \in DOMAIN rules : Matches(rules[i], c) <=> Matches(rules[i], d)
  BY DEF Matches, IsTrigger, TriggersOf
<1>2. Hits(rules, c) = Hits(rules, d)
  BY <1>1 DEF Hits
<1> QED
  BY <1>2 DEF Evaluate

\* Taking siblings away never makes the engine mark an entry it did not mark
\* before: the rule it stops matching is a marker rule, and those mark.
LEMMA FewerSiblingsFewerMarks ==
  ASSUME NEW c, NEW d,
         c.name = d.name, c.is_dir = d.is_dir, c.siblings \subseteq d.siblings,
         Evaluate(TheRules, c).set_dropbox_ignore
  PROVE  Evaluate(TheRules, d).set_dropbox_ignore
<1> DEFINE C == Hits(TheRules, c)
           D == Hits(TheRules, d)
<1>1. C \subseteq D
  BY DEF Hits, Matches
<1>2. C # {}
  BY DEF Evaluate, NO_MATCH
<1>3. C \in SUBSET Nat /\ D \in SUBSET Nat
  BY RulesAssumption DEF Hits
<1>4. /\ Min(C) \in C /\ \A i \in C : Min(C) <= i
      /\ Min(D) \in D /\ \A i \in D : Min(D) <= i
  BY <1>1, <1>2, <1>3, MinOfIndices
<1>5. CASE Min(D) \in C
  <2>1. Min(C) = Min(D)
    BY <1>1, <1>3, <1>4, <1>5
  <2> QED
    BY <1>1, <1>2, <2>1 DEF Evaluate
<1>6. CASE Min(D) \notin C
  <2>1. TheRules[Min(D)].kind = "marked_build_dir"
    BY <1>4, <1>6 DEF Hits, Matches
  <2>2. TheRules[Min(D)].action = IGNORE_AND_SKIP
    BY <1>4, <2>1, RulesAssumption DEF Hits
  <2> QED
    BY <1>1, <1>2, <2>2 DEF Evaluate, IGNORE_AND_SKIP
<1> QED
  BY <1>5, <1>6

-----------------------------------------------------------------------------
\* The entries have kinds.
LEMMA TriggerTypeCorrect == Spec => []TypeOK
<1>1. Init => TypeOK
  BY DEF Init, TypeOK, MatchesIn
<1>2. TypeOK /\ [Next]_vars => TypeOK'
  <2> SUFFICES ASSUME TypeOK, [Next]_vars
               PROVE  TypeOK'
    OBVIOUS
  <2>1. CASE UNCHANGED vars
    BY <2>1 DEF vars, TypeOK
  <2>2. ASSUME NEW name \in Name, NEW kind \in Kinds, CreateEntry(name, kind)
        PROVE  TypeOK'
    <3>1. MatchesIn(entries') \subseteq Name
      BY DEF MatchesIn
    <3> QED
      BY <2>2, <3>1 DEF TypeOK, CreateEntry
  <2>3. ASSUME NEW name \in Name, DeleteEntry(name)
        PROVE  TypeOK'
    BY <2>3 DEF TypeOK, DeleteEntry
  <2> QED
    BY <2>1, <2>2, <2>3 DEF Next
<1> QED
  BY <1>1, <1>2, PTL DEF Spec

\* A new entry that is not a trigger changes no verdict but its own.
LEMMA PlainCreationIsLocal ==
  ASSUME TypeOK, NEW name \in Name, NEW kind \in Kinds, CreateEntry(name, kind),
         ~IsTrigger(TheRules, name)
  PROVE  MatchesIn(entries') \subseteq MatchesIn(entries) \cup {name}
<1> SUFFICES ASSUME NEW n \in MatchesIn(entries'), n # name
             PROVE  n \in MatchesIn(entries)
  OBVIOUS
<1> DEFINE c == Candidate(n, entries')
           d == Candidate(n, entries)
<1>1. n \in Name /\ entries'[n] = entries[n] /\ entries'[n] # "none"
  BY DEF MatchesIn, CreateEntry, TypeOK
<1>2. c.name = d.name /\ c.is_dir = d.is_dir
  BY <1>1 DEF Candidate
<1>3. \A t : IsTrigger(TheRules, t) => (t \in c.siblings <=> t \in d.siblings)
  BY DEF Candidate, CreateEntry, TypeOK
<1>4. Evaluate(TheRules, c) = Evaluate(TheRules, d)
  <2> HIDE DEF c, d
  <2> QED
    BY <1>2, <1>3, VerdictFromTriggers
<1> QED
  BY <1>1, <1>4 DEF MatchesIn, Verdict

\* A deletion makes no entry start to want the mark.
LEMMA DeletionFlipsNothing ==
  ASSUME TypeOK, NEW name \in Name, DeleteEntry(name)
  PROVE  MatchesIn(entries') \subseteq MatchesIn(entries) \ {name}
<1> SUFFICES ASSUME NEW n \in MatchesIn(entries')
             PROVE  n \in MatchesIn(entries) /\ n # name
  OBVIOUS
<1> DEFINE c == Candidate(n, entries')
           d == Candidate(n, entries)
<1>1. n \in Name /\ n # name /\ entries'[n] = entries[n] /\ entries'[n] # "none"
  BY DEF MatchesIn, DeleteEntry, TypeOK
<1>2. c.name = d.name /\ c.is_dir = d.is_dir
  BY <1>1 DEF Candidate
<1>3. c.siblings \subseteq d.siblings
  BY DEF Candidate, DeleteEntry, TypeOK
<1>4. Evaluate(TheRules, c).set_dropbox_ignore
  BY DEF MatchesIn, Verdict
<1>5. Evaluate(TheRules, d).set_dropbox_ignore
  <2> HIDE DEF c, d
  <2> QED
    BY <1>2, <1>3, <1>4, FewerSiblingsFewerMarks
<1> QED
  BY <1>1, <1>5 DEF MatchesIn, Verdict

\* Looking at an entry once, and again only when a trigger file appears beside
\* it, leaves nothing unmarked that the rules want marked: for every rule list
\* whose marker rules mark, and every history of creations and deletions.
THEOREM AlwaysReconciled == Spec => []Reconciled
<1>1. Init => Reconciled
  BY DEF Init, Reconciled
<1>2. TypeOK /\ Reconciled /\ [Next]_vars => Reconciled'
  <2> SUFFICES ASSUME TypeOK, Reconciled, [Next]_vars
               PROVE  Reconciled'
    OBVIOUS
  <2>1. CASE UNCHANGED vars
    BY <2>1 DEF vars, Reconciled, MatchesIn, Verdict, Candidate
  <2>2. ASSUME NEW name \in Name, NEW kind \in Kinds, CreateEntry(name, kind)
        PROVE  Reconciled'
    <3>1. CASE IsTrigger(TheRules, name)
      BY <2>2, <3>1 DEF CreateEntry, Reconciled
    <3>2. CASE ~IsTrigger(TheRules, name)
      <4>1. MatchesIn(entries') \subseteq MatchesIn(entries) \cup {name}
        BY <2>2, <3>2, PlainCreationIsLocal
      <4>2. marked' = marked \cup ({name} \cap MatchesIn(entries'))
        BY <2>2, <3>2 DEF CreateEntry
      <4> QED
        BY <4>1, <4>2 DEF Reconciled
    <3> QED
      BY <3>1, <3>2
  <2>3. ASSUME NEW name \in Name, DeleteEntry(name)
        PROVE  Reconciled'
    <3>1. MatchesIn(entries') \subseteq MatchesIn(entries) \ {name}
      BY <2>3, DeletionFlipsNothing
    <3>2. marked' = marked \ {name}
      BY <2>3 DEF DeleteEntry
    <3> QED
      BY <3>1, <3>2 DEF Reconciled
  <2> QED
    BY <2>1, <2>2, <2>3 DEF Next
<1> QED
  BY <1>1, <1>2, TriggerTypeCorrect, PTL DEF Spec
=============================================================================
