------------------------------ MODULE MCRBTree ------------------------------
\* Two servers whose positions alternate, or follow each other.
EXTENDS RBTree

Alternating == [s \in Servers |-> {k \in Keys : k <= 10 /\ k % 2 = s - 1}]
Halves == [s \in Servers |-> {k \in Keys : (k <= Cardinality(Keys) \div 2) <=> (s = 1)}]

MCHashes == {Alternating, Halves}
=============================================================================
