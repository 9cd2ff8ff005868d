SPECIFICATION EventSpec
CONSTANTS
    c1 = c1
    p1 = p1
    op1 = op1
    i1 = i1
    state = state
    frame = frame
    changed = changed
    None = None
    Manager = Manager
    Changed = changed
    Conn = {c1, p1}
    Client = {c1}
    Provider = {p1}
    Operation = {op1}
    Sees <- MCSees
    Instance = {i1}
    Event = {state, frame}
    Scoped = {frame}
    Class <- MCClass
    Size = {2}
    MaxBytes = 2
    MaxSubscribe = 2
    MaxPublish = 3
    MaxSent = 3
CONSTRAINT MCBound
INVARIANTS ReliableHasNoGap GapIsCounted NothingAfterEnd
CHECK_DEADLOCK FALSE
