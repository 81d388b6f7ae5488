SPECIFICATION Spec
CONSTANTS
    None = None
    Deletes = {d1}
    MaxFaults = 1
    SlashedPersistAttempts = 1
    ReconcileAttempts = 1
INVARIANTS
    KLTypeOK
    DeletedStaysDeleted
    KeystoreGuarded
    SlashedStaysOff
    DeletedIsExported
PROPERTY
    TrackedKeysReleased
CHECK_DEADLOCK FALSE
