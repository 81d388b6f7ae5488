CONSTANTS
    None = None
    t1 = t1
    t2 = t2
    pk1 = pk1
    a = a
    b = b
    Tasks = {t1, t2}
    Pubkeys = {pk1}
    Payloads = {a, b}
    Epochs = {0, 1, 2, 3}
    Slots = {1, 2, 3}
    Strict = FALSE
    Duties <- AttestationDuties
    Gate = FALSE
    BootRegistry <- LocalOrGrpc
    Importable = {}
    Watched = {}
    Quiescable = {}
    BlockFloors = {}
    AttestationFloors <- AttestationFloorPairs
    Files <- AttestationFiles
SPECIFICATION Spec
SYMMETRY TaskSymmetry
INVARIANTS
    TypeOK
    NoSlashableSignatures
    EverySignatureCovered
    ExportNotWeaker
    ExportCarriesFloor
PROPERTIES
    WatermarksNeverLowered
    ImportedHistoryRespected
