SPECIFICATION Spec
CONSTANTS
    e1 = e1
    e2 = e2
    Module = {"facturation"}
    Entity <- TwoEntities
    MaxRuns = 3
    MaxFaults = 2
SYMMETRY EntitySymmetry
CHECK_DEADLOCK FALSE
INVARIANTS
    EnteredOnce
    NoDanglingSnippet
    NothingLeftUnsaid
    ShapesFitModule
