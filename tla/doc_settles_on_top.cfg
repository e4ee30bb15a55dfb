SPECIFICATION Spec
CONSTANTS
    e1 = e1
    e2 = e2
    e3 = e3
    Endpoint = {e1, e2, e3}
    NoEndpoint = NoEndpoint
    Lists <- MCLists
    Options <- MCOptions
    MaxLength = 3
    Delays = {TRUE}
    MaxTimers = 2
INVARIANTS
    SettlesOnTop
