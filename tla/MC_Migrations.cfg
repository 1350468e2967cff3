SPECIFICATION Spec
CONSTANTS
    r1 = r1
    r2 = r2
    Receipts = {r1, r2}
    MaxRows = 3

INVARIANTS
    RunsOnAllLayers
    SomeRuleDecides
    DuplicateIsTrue
    FailureHasACause
    Repeatable
    AdoptionIsReversible
