------------------------------ MODULE MCConHash ------------------------------
\* Small instances of ConHash: servers, threads and heap cells are model
\* values and interchangeable.
EXTENDS ConHash, TLC

Symmetry ==
    Permutations(Servers) \cup Permutations(Threads) \cup Permutations(Nodes)
=============================================================================
