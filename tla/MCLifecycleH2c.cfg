SPECIFICATION Spec
CONSTANTS
    Module = {m1}
    Protocol = {http1, h2c}
    Tracked = {http1}
    NoModule = NoModule
CHECK_DEADLOCK FALSE
INVARIANT ShutdownIsGraceful
