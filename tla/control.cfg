SPECIFICATION ControlSpec
CONSTANTS
    EpochMask = 99
    c1 = c1
    c2 = c2
    p1 = p1
    r1 = r1
    r2 = r2
    k1 = k1
    None = None
    Conn = {c1}
    Package = {p1}
    PackageOf <- OwnPackage
    Resource = {r1}
    BaseResource = r1
    MaxSlots = 2
    Generation = {1}
    TTL <- UnitTTL
    Deadman <- HumanDeadman
    Budget = {1}
    Caller = {k1}
    MaxEpoch = 5
    MaxTime = 1
INVARIANTS
    CheckAtomic
    EndToldOnce
    NoLeaseOutlivesTrip
PROPERTIES
    GrantIsEffective
    ImplementsAuthority
