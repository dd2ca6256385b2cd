CONSTANTS
    k1 = k1
    k2 = k2
    self = self
    other = other
    Keys = {k1, k2}
    Vals = {v1}
    Cap = 1
    Workers = {w1}
    Background = {b1}
    Servers = {self, other}
    Self = self
    Prefer <- MCPrefer
    HashLists <- MCHashLists
    Ops = {"set_value", "get_value", "set_backup_value", "get_backup_value"}
    Commands = {"move_data", "update_hash", "update_backup", "recover_backup"}
    MaxFd = 1
    Free = free
SPECIFICATION Spec
INVARIANT
    LockDiscipline
CHECK_DEADLOCK FALSE
