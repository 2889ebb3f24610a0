SPECIFICATION MCSpec
CONSTANTS
    Producers = {main, request}
    Main = main
    Configs <- MCConfigs
    TlsFeature = FALSE
    Hosts <- MCHosts
    Capacity = 2
    BATCH = 2
    MaxEvents = 7
    MaxServed = 2
    MaxLost = 1
INVARIANTS TrailInEmissionOrder EveryEventAccounted ReadyMeansServing OrderlyStopFlushes
PROPERTIES DaemonEnds
CHECK_DEADLOCK FALSE
