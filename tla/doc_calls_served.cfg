CONSTANTS
    e1 = e1
    e2 = e2
    m1 = m1
    m2 = m2
    None = None
    Endpoint = {e1, e2}
    Name = {m1, m2}
    Conn = {c1, c2}
    Options <- MCSwapping
    CanFail = FALSE
    MayCall = TRUE
SPECIFICATION Spec
INVARIANT CallsServed
CHECK_DEADLOCK FALSE
