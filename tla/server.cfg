SPECIFICATION Spec
CONSTANTS
    c1 = c1
    c2 = c2
    app = app
    other = other
    None = None
    Dead = Dead
    Conn = {c1, c2}
    UID = {app, other}
    AppUID = {app}
    MaxConns = 2
    MaxConnsPerUID = 1
    AcceptFailureLimit = 2
    QueueLimit = 1
    MaxGeneration = 2
    MaxLaunch = 2
    Busy = {1}
INVARIANTS OneListener RevokedIsNotServed StopWaitsForNoPeer
CHECK_DEADLOCK FALSE
