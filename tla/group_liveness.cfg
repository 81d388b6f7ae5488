CONSTANTS
    None = None
    c1 = c1
    c2 = c2
    c3 = c3
    pk1 = pk1
    a = a
    b = b
    g = g
    h = h
    Callers = {c1, c2, c3}
    Pubkeys = {pk1}
    Payloads = {a, b}
    Epochs = {0, 1, 2, 3}
    Slots = {1}
    Strict = FALSE
    Duties <- OneDuty
    Chains = {g}
    BatchSize = 2
    BlockFloors = {}
    AttestationFloors = {}
SPECIFICATION FairGCSpec
INVARIANTS
    GCTypeOK
PROPERTIES
    EveryReserveAnswered
