CONSTANTS
    TheRules <- DefaultRules
    Name <- MCName
    EggInfoNames = {"x.egg-info"}
SPECIFICATION Spec
INVARIANTS
    Reconciled
