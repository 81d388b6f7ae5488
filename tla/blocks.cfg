CONSTANTS
    None = None
    t1 = t1
    t2 = t2
    pk1 = pk1
    a = a
    b = b
    Tasks = {t1, t2}
    Pubkeys = {pk1}
    Payloads = {a, b}
    Epochs = {0, 1, 2, 3}
    Slots = {1, 2, 3}
    Strict = TRUE
    Duties <- BlockDuties
    Gate = TRUE
    BootRegistry <- Local
    Importable = {"local"}
    Watched = {}
    Quiescable = {}
    BlockFloors = {1, 3}
    AttestationFloors = {}
    Files <- BlockFiles
SPECIFICATION Spec
SYMMETRY TaskSymmetry
INVARIANTS
    NoSlashableSignatures
    ExportNotWeaker
PROPERTIES
    ImportedHistoryRespected
