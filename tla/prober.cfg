SPECIFICATION FairSpec
CONSTANTS
    Task = {t1, t2}
    Main = {t1}
    Probe = {p1, p2}
    Row = {r1}
    None = None
    Options <- MCOptions
    ChannelSize = 1
    CanFail = TRUE
INVARIANT TypeOK
INVARIANT RacesHarmless
INVARIANT SetUpOnReady
INVARIANT ErrorsFromOutside
PROPERTY ProbesRecorded
CHECK_DEADLOCK FALSE
