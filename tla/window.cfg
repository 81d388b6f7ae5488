CONSTANTS
    None = None
    k1 = k1
    Pubkeys = {k1}
    MonitoringEpochs = 1
    SlotsPerEpoch = 1
    LastEpoch = 3
    BootKeys = {k1}
    Planted = {2}
    Doubles = {k1}
    Outage = 4
SPECIFICATION FWSpec
INVARIANTS
    FWTypeOK
    ImportIsVetted
PROPERTIES
    SafeMeansQuiet
