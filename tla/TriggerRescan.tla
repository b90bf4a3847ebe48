--------------------------- MODULE TriggerRescan ---------------------------
(***************************************************************************)
(* What the rules and the event loop promise each other about one watched  *)
(* directory: an entry is evaluated once, when it appears, and again only  *)
(* when a trigger file appears beside it.  The module is abstract about    *)
(* how events arrive: an entry is handled in the step that creates it,     *)
(* which is what remains of drain_events when no event is late.            *)
(***************************************************************************)
EXTENDS Rules

CONSTANTS
    TheRules,       \* the rules of the engine, in priority order
    Name            \* the entry names

\* What RuleEngine::new is given: a Vec of rules, of which the only kind that
\* looks beside the entry, MarkedBuildDirRule, always marks.
ASSUME RulesAssumption ==
    /\ DOMAIN TheRules \subseteq Nat
    /\ \A i \in DOMAIN TheRules :
          TheRules[i].kind = "marked_build_dir" => TheRules[i].action = IGNORE_AND_SKIP

VARIABLES
    entries,        \* the kind of each entry: "dir", "file" or "none"
    marked          \* the entries that carry the Dropbox attribute

vars == <<entries, marked>>

Kinds == {"dir", "file"}

Candidate(name, in) ==
    [name |-> name, is_dir |-> in[name] = "dir",
     siblings |-> {n \in Name : in[n] # "none"}]

Verdict(name, in) == Evaluate(TheRules, Candidate(name, in))

\* The entries of a listing that the rules say to mark.
MatchesIn(in) == {n \in Name : in[n] # "none" /\ Verdict(n, in).set_dropbox_ignore}

Init ==
    /\ entries \in [Name -> {"none"} \cup Kinds]
    /\ marked = MatchesIn(entries)

\* Mutant of CreateEntry: a new trigger file is handled as any other entry.
CreateEntryWithoutRescan(name, kind) ==
    /\ entries[name] = "none"
    /\ entries' = [entries EXCEPT ![name] = kind]
    /\ marked' = marked \cup ({name} \cap MatchesIn(entries'))

\* The creation or move-in event of one entry: plan_entry for the entry, and a
\* rescan of the directory if its name is a trigger.
CreateEntry(name, kind) ==
    /\ entries[name] = "none"
    /\ entries' = [entries EXCEPT ![name] = kind]
    /\ marked' = marked \cup (IF IsTrigger(TheRules, name) THEN MatchesIn(entries')
                              ELSE {name} \cap MatchesIn(entries'))

\* Deletion and move-out are not watched: nothing is evaluated again, and the
\* mark goes away with the entry that carries it.
DeleteEntry(name) ==
    /\ entries[name] # "none"
    /\ entries' = [entries EXCEPT ![name] = "none"]
    /\ marked' = marked \ {name}

Next ==
    \/ \E name \in Name, kind \in Kinds : CreateEntry(name, kind)
    \/ \E name \in Name : DeleteEntry(name)

Spec == Init /\ [][Next]_vars

-----------------------------------------------------------------------------
\* Every name has a kind, or none.
TypeOK == entries \in [Name -> {"none"} \cup Kinds] /\ marked \subseteq Name

\* Every entry the rules want marked is marked, although an entry is evaluated
\* again only when a trigger appears: no creation of a file that is not a
\* trigger, and no deletion, turns a verdict to "mark" behind the event loop's
\* back.  This is what the scope invariant of Rule::triggers is for.
Reconciled == MatchesIn(entries) \subseteq marked
=============================================================================
