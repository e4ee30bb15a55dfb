SPECIFICATION PickerSpec
CONSTANTS
    SubConn = {sc1,sc2,sc3}
    NoSubConn = NoSubConn
    Key = {k1,EmptyKey}
    EmptyKey = EmptyKey
    Configs <- MCConfigs
    NoConfig = NoConfig
    CanFail = FALSE
    LiveShutdown = FALSE
    MaxAddrs = 1
    MaxCount = 2
    Call = {c1,c2}
    ChannelPools <- AllPools
    RRWidth = 3
SYMMETRY Symmetry
VIEW UpToNumbers
INVARIANT PickerTypeOK
INVARIANT StreamsExact
INVARIANT WaitingWillWake
INVARIANT LimitsKept
PROPERTY ImplementsAffinityPool
INVARIANT NoFault
CHECK_DEADLOCK FALSE
