SPECIFICATION OrderlySpec
CONSTANTS
    a = a  b = b  self = self  p = p
    Nodes = {a, b, self}
    Senders = {a, b}
    Prefixes = {p}
    Neighbors = {N1}
    NoNode = none
    Freed = freed
    AnsnMod = 6
    Versions = {5, 6}
    Advert <- Changing
INVARIANTS VirtualAnnouncesNothing TopologyExact NeighborsDirect
PROPERTIES NeverOlder AnnouncedIsForgotten
