--------------------------- MODULE MCCacheServer ---------------------------
(* CacheServer with two keys that belong to different servers of the ring, *)
(* and one entry per cache, so that every set of the other key evicts.     *)
EXTENDS CacheServer

CONSTANTS k1, k2, self, other

MCPrefer == [k \in Keys |-> IF k = k1 THEN <<self, other>> ELSE <<other, self>>]
MCHashLists == {{self, other}}
=============================================================================
