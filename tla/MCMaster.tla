------------------------------ MODULE MCMaster ------------------------------
(* Master with two connections, whose servers may die at any moment.        *)
EXTENDS MasterHistory

CONSTANTS c1, c2, s1, s2

MCHost == [c \in Conns |-> IF c = c1 THEN s1 ELSE s2]
MCPrefer == [k \in Keys |-> <<s1, s2, Garbage>>]
MCRegimes == {[mortal |-> Conns, oneAtATime |-> FALSE, observed |-> {}, keys |-> {}]}
=============================================================================
