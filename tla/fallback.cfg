SPECIFICATION FairSpec
CONSTANTS
    Call = {c1, c2}
    Options <- MCOptions
    MaxReports = 2
INVARIANT TypeOK
PROPERTY FallbackJustified
PROPERTY CallsFollow
PROPERTY FailingPrimaryLeft
PROPERTY LoopsEnd
CHECK_DEADLOCK FALSE
