CONSTANTS
    None = None
    k1 = k1
    Pubkeys = {k1}
    MonitoringEpochs = 1
    SlotsPerEpoch = 2
    LastEpoch = 3
    BootKeys = {}
    Planted = {}
    Doubles = {}
    Outage = 0
SPECIFICATION FWSpec
INVARIANTS
    RestartIsNoDouble
