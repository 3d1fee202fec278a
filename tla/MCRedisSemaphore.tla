-------------------------- MODULE MCRedisSemaphore --------------------------
(* Small instances of RedisSemaphore.                                      *)
EXTENDS RedisSemaphore

CONSTANT ahead     \* the holder whose worker's clock is ahead of the others'

MCSkew == [h \in Holders |-> IF h = ahead THEN MaxSkew ELSE 0]
=============================================================================
