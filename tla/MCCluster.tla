------------------------------ MODULE MCCluster ------------------------------
(* Cluster with three servers, in three scenarios.  They come and die while  *)
(* all is at rest, so that descriptors are used again, and their side is     *)
(* followed; or clients are served meanwhile; or the servers register at the *)
(* same time, without deaths.                                                *)
EXTENDS Cluster

CONSTANTS c1, c2, c3, s1, s2, s3

MCHost == [c \in Conns |-> IF c = c2 THEN s2 ELSE IF c = c3 THEN s3 ELSE s1]
MCPrefer == [k \in Keys |-> <<s1, s2, s3, Garbage>>]
MCRegimes ==
    {[mortal |-> Conns, oneAtATime |-> TRUE, observed |-> Conns, keys |-> {}],
     [mortal |-> {}, oneAtATime |-> FALSE, observed |-> {}, keys |-> {}],
     [mortal |-> Conns, oneAtATime |-> TRUE, observed |-> {}, keys |-> Keys]}
=============================================================================
