SPECIFICATION Spec
CONSTANTS
    c1 = c1
    p1 = p1
    r1 = r1
    r2 = r2
    None = None
    Conn = {c1, p1}
    OperationId = {r1, r2}
    Request = {r1, r2}
    SourceOf <- FromC1
    TargetOf <- ToP1
    Controlled = {r1}
    Long = {}
    Withdrawal = {{r1, r2}}
    MotionEpoch = {1}
    LeaseEpoch = 1
    Boundary = {}
    MaxInflight = 2
    Faulty = {c1, p1}
INVARIANTS
    RouteHasAuthority
    AnsweredOnce
CHECK_DEADLOCK FALSE
