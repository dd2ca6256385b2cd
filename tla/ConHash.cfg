\* Every hash function of 3 servers with 2 virtual nodes on 3 positions.
SPECIFICATION Spec
CONSTANTS
    Servers = {s1, s2, s3}
    Threads = {t1, t2}
    Nodes = {n1, n2, n3}
    Replicas = 2
    MaxHash = 2
    ReAdd = FALSE
    Nil = Nil
SYMMETRY Symmetry
INVARIANTS VnodesMatchMembers CountMatchesTree
PROPERTY OnlyItsKeysMove
