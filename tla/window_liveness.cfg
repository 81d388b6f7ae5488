CONSTANTS
    None = None
    k1 = k1
    Pubkeys = {k1}
    MonitoringEpochs = 1
    SlotsPerEpoch = 2
    LastEpoch = 4
    BootKeys = {k1}
    Planted = {}
    Doubles = {}
    Outage = 2
SPECIFICATION FairFWSpec
PROPERTIES
    ObservedWindowDecided
