CONSTANTS
    k1 = k1
    k2 = k2
    self = self
    other = other
    Keys = {k1, k2}
    Vals = {v1}
    Cap = 1
    Workers = {w1, w2}
    Background = {b1, b2}
    Servers = {self, other}
    Self = self
    Prefer <- MCPrefer
    HashLists <- MCHashLists
    Ops = {"set_value"}
    Commands = {"move_data", "update_backup"}
    MaxFd = 1
    Free = free
SPECIFICATION FairSpec
INVARIANTS
    LockDiscipline
    MoveReadsPresentKey
PROPERTIES
    DirtyNotRevived
    LocksReleased
CHECK_DEADLOCK FALSE
