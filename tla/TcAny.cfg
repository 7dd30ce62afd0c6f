SPECIFICATION Spec
CONSTANTS
    a = a  b = b  self = self  p = p
    Nodes = {a, b, self}
    Senders = {a, b}
    Prefixes = {p}
    Neighbors = {N1}
    NoNode = none
    Freed = freed
    AnsnMod = 4
    Versions = {3, 4}
    Advert <- Changing
INVARIANTS GraphSound NodesNeeded
