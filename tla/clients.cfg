SPECIFICATION Spec
CONSTANTS
    Worker = {w1}
    NumOfRequests = 2
    Inputs <- MCInputs
    Answers = {1, 2}
    MaxUnread = 3
INVARIANT TypeOK
INVARIANT StreamsInOrder
INVARIANT Accountable
PROPERTY CallsGoOn
CHECK_DEADLOCK FALSE
