SPECIFICATION FairSpec
CONSTANTS
    Module = {m1, m2}
    Protocol = {http1}
    Tracked = {http1}
    NoModule = NoModule
CHECK_DEADLOCK FALSE
INVARIANTS
    NothingRunsAfterRun
    NoTransactionCut
    CleanExitIsGraceful
PROPERTIES
    FailureEndsAll
    SignalEndsAll
