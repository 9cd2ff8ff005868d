SPECIFICATION CatalogSpec
CONSTANTS
    kernel = kernel
    platform = platform
    oem1 = oem1
    oem2 = oem2
    app1 = app1
    app2 = app2
    motion = motion
    camera = camera
    private = private
    drive = drive
    shoot = shoot
    call = call
    base = base
    lens = lens
    gadget = gadget
    main = main
    front = front
    x = x
    y = y
    None = None
    Unnamed = Unnamed
    Standard = Standard
    Kernel = kernel
    Order <- MCOrder
    Namespace <- MCNamespace
    Bootstrap <- MCBootstrap
    Image <- MCImage
    App <- MCApp
    Caller = {1, 2}
    MaxRevision = 5
INVARIANTS GenerationIdentifies QuarantineIsJust
PROPERTIES ChangeIsLocal
CHECK_DEADLOCK FALSE
