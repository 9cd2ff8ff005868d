SPECIFICATION Spec
CONSTANTS
    kernel = kernel
    app = app
    vendor = vendor
    main = main
    service = service
    safety = safety
    lift = lift
    lamp = lamp
    register = register
    use = use
    gadget = gadget
    top = top
    red = red
    x = x
    c1 = c1
    c2 = c2
    None = None
    Closed = Closed
    Unnamed = Unnamed
    Standard = Standard
    Kernel = kernel
    Order <- MCOrder
    Namespace <- MCNamespace
    Bootstrap <- MCBootstrap
    Catalogs <- MCCatalogs
    Plain <- MCPlain
    OnDemand <- MCOnDemand
    Toggled <- MCToggled
    Peer <- MCPeer
    Private = {}
    Register = register
    Selector = {None}
    Majors = {{1}}
    Conn = {c1, c2}
    MaxRevision = 4
    MaxHandle = 1
INVARIANT RouteKeepsContract
PROPERTIES LostStaysLost ResolveEnds
CHECK_DEADLOCK FALSE
