SPECIFICATION FairSpec
CONSTANTS
    r1 = r1  t1 = t1  t2 = t2  p1 = p1  c1 = c1  lease = lease
    Route = {r1}
    Transfer = {t1, t2}
    Attempt = {p1, c1}
    Withdrawal = {lease}
    RouteOf <- OneRoute
    Mode <- RelayAndRing
    Dialler <- Diallers
    About <- Covers
    MaxTransfers = 2
    MaxTombstones = 1
    MaxStreams = 2
    MaxRelayBuffers = 3
    MaxPending = 2
    MaxPendingPerSide = 1
INVARIANTS RevokedIsClosed NothingOutlivesRoute BudgetExact
PROPERTY HalfOpenEnds
CHECK_DEADLOCK FALSE
