-------------------------- MODULE MCShardedCounter --------------------------
(***************************************************************************)
(* Small instances of ShardedCounter.                                      *)
(***************************************************************************)
EXTENDS ShardedCounter

CONSTANTS t, u, r, q
=============================================================================
