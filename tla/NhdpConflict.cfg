SPECIFICATION Spec
CONSTANTS
    i1 = i1  i2 = i2  o = o  a = a  b = b  c = c  x = x  y = y
    Neighs = {N1, N2, N3}
    Links = {L1, L2, L3}
    Ifs = {i1}
    Addrs = {o, a, b, x}
    NoNeigh = none
    NoLink = none
    NoAddr = none
    OwnAddrs <- OwnO
    LocalOriginator = none
    Af <- Four
    Hellos <- ConflictHellos
    HystValues = {"ok"}
    CountBound = 2
INVARIANTS NoDanglingReference OriginatorIndexExact LinksBounded
SYMMETRY Symmetry
