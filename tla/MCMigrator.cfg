SPECIFICATION Spec
CONSTANTS
    auth = auth
    todo = todo
    Schema <- TwoSchemas
    None = None
    Zone <- BehindUTC
    MaxHeld = 1
    MaxClock = 2
    MaxScripts = 3
    MaxFaults = 1
SYMMETRY SchemaSymmetry
INVARIANTS
    TypeOK
    TablesMatch
    SlicesNeverRefused
PROPERTIES
    UpIsComplete
