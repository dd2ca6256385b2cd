CONSTANTS
    k1 = k1
    k2 = k2
    self = self
    other = other
    Keys = {k1, k2}
    Vals = {v1}
    Cap = 1
    Workers = {w1, w2}
    Background = {b1}
    Servers = {self, other}
    Self = self
    Prefer <- MCPrefer
    HashLists <- MCHashLists
    Ops = {"set_value", "get_value"}
    Commands = {}
    MaxFd = 1
    Free = free
SPECIFICATION Spec
INVARIANT
    GetsPresentKey
CHECK_DEADLOCK FALSE
