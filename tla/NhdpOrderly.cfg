SPECIFICATION StableSpec
CONSTANTS
    i1 = i1  i2 = i2  o = o  a = a  b = b  c = c  x = x  y = y
    Neighs = {N1, N2}
    Links = {L1, L2, L3}
    Ifs = {i1, i2}
    Addrs = {o, a, b, c, x, y}
    NoNeigh = none
    NoLink = none
    NoAddr = none
    OwnAddrs <- OwnO
    LocalOriginator = none
    Af <- FourSix
    Hellos <- OrderlyHellos
    HystValues = {"ok", "pending"}
    CountBound = 2
INVARIANTS DualstackMutual StatusExact AddressOwnersAgree NeighborHasLink
SYMMETRY Symmetry
