SPECIFICATION Spec
CONSTANTS
    SubConn = {sc1, sc2, sc3}
    NoSubConn = NoSubConn
    Key = {k1}
    Configs <- MCConfigs
    NoConfig = NoConfig
    CanFail = TRUE
    LiveShutdown = TRUE
    MaxAddrs = 1
    MaxCount = 1
SYMMETRY Symmetry
INVARIANT TypeOK
INVARIANT EvaluatorExact
INVARIANT RefsConsistent
INVARIANT PickerCurrent
INVARIANT PoolReconnects
PROPERTY RefreshKeepsReady
CHECK_DEADLOCK FALSE
