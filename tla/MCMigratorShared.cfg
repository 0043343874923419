SPECIFICATION Spec
CONSTANTS
    auth = auth
    todo = todo
    Schema <- TwoSchemas
    None = None
    Zone <- BehindUTC
    MaxHeld = 2
    MaxClock = 1
    MaxScripts = 2
    MaxFaults = 0
INVARIANT TablesMatch
