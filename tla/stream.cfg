SPECIFICATION FairSpec
CONSTANTS
    Sender = {s1, s2}
    Receiver = {r1, r2}
    Closer = {h1}
    None = None
    MaxFailures = 3
INVARIANT TypeOK
INVARIANT OneStream
PROPERTY ReceiversWoken
CHECK_DEADLOCK FALSE
