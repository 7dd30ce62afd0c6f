SPECIFICATION Spec
CONSTANTS
    KeyOrder <- WithDestination
    Owner <- WithDestinationOwner
    Metrics = {1, 2}
    NeighborMetrics = {1}
    IPs = {"i"}
    SendNeighbors = TRUE
    SendProxied = TRUE
    Connects = {FALSE}
    UdpMode = "single_session"
    Conns = {1,2}
    MaxChanges = 2
    MaxMishaps = 1
INVARIANTS RouterMirrorsRadio
PROPERTIES SessionsRecover
CHECK_DEADLOCK FALSE
