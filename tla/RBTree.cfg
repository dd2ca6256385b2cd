\* Trees of up to 12 nodes, enough for the loop of a deletion to take more
\* than one turn upwards.  The virtual nodes of a server come in any order.
SPECIFICATION Spec
CONSTANTS
    Keys = {1, 2, 3, 4, 5, 6, 7, 8, 9, 10, 11, 12}
    Servers = {1, 2}
    None = 0
    Hashes <- MCHashes
INVARIANTS LookupIsFirstAfter RedBlackTree
PROPERTY ImplementsSet
