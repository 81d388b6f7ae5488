CONSTANTS
    None = None
    t1 = t1
    t2 = t2
    pk1 = pk1
    a = a
    b = b
    Tasks = {t1, t2}
    Pubkeys = {pk1}
    Payloads = {a, b}
    Epochs = {0, 1, 2, 3}
    Slots = {1, 2, 3}
    Strict = FALSE
    Duties <- DoubleVote
    Gate = FALSE
    BootRegistry <- AnyRegistry
    Importable = {"local", "http"}
    Watched = {pk1}
    Quiescable = {pk1}
    BlockFloors = {}
    AttestationFloors = {}
    Files = {}
SPECIFICATION FairSpec
INVARIANTS
    NoSlashableSignatures
    EverySignatureCovered
PROPERTIES
    DrainedKeyIsSilent
    EveryCallReturns
