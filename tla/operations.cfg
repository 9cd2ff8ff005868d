SPECIFICATION FairSpec
CONSTANTS
    c1 = c1
    p1 = p1
    r1 = r1
    r2 = r2
    None = None
    Conn = {c1, p1}
    OperationId = {r1}
    Request = {r1}
    SourceOf <- FromC1
    TargetOf <- ToP1
    Controlled = {r1}
    Long = {r1}
    Withdrawal = {}
    MotionEpoch = {1, 2}
    LeaseEpoch = 1
    Boundary = {2}
    MaxInflight = 1
    Faulty = {c1}
INVARIANT
    StopLeavesNothing
PROPERTIES
    OvertakenOnlyFails
    RequestIsAnswered
    OperationEnds
CHECK_DEADLOCK FALSE
