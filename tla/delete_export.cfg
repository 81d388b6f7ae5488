SPECIFICATION Spec
CONSTANTS
    None = None
    Deletes = {d1, d2}
    MaxFaults = 0
    SlashedPersistAttempts = 3
    ReconcileAttempts = 6
INVARIANTS
    DeletedIsExported
CHECK_DEADLOCK FALSE
