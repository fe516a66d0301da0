SPECIFICATION Spec
CONSTANTS
    c1 = c1
    c2 = c2
    phy = phy
    xen = xen
    net = net
    host = host
    disk = disk
    Collectors = {c1, c2}
    Script <- Scans
    ShortTimeouts = TRUE
    MaxObjects = 5
    MaxExpiries = 1
INVARIANT TypeOK
INVARIANT OneObjectPerKey
INVARIANT LivingElementsAreInGraph
INVARIANT LocksAreOfCalls
CHECK_DEADLOCK FALSE
