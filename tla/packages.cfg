SPECIFICATION Spec
CONSTANTS
    s1 = s1
    p1 = p1
    p2 = p2
    main = main
    u1 = u1
    u2 = u2
    None = None
    Package = {s1, p1}
    System = {s1}
    Version = {1, 2, 3}
    Code <- Codes
    Dir <- Strings
    Image = {1, 2}
    Clash <- Excluded
    Component = {main}
    Disableable = {main}
    Thread = {u1}
    MaxUid = 3
    MaxFaults = 1
INVARIANTS RemovedStaysRemoved NothingInherited RebootKeepsInstalled
CHECK_DEADLOCK FALSE
