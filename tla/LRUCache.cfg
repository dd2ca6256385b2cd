CONSTANTS
    Keys = {k1, k2, k3}
    Vals = {v1, v2}
    Cap = 2
    Nodes = {n1, n2, n3}
    head = head
    tail = tail
    nullptr = nullptr
SPECIFICATION HistorySpec
INVARIANTS
    ListMatchesMap
    MatchesHistory
PROPERTY ImplementsLRU
SYMMETRY Symmetry
