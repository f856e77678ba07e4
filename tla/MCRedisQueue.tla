---------------------------- MODULE MCRedisQueue ----------------------------
(***************************************************************************)
(* Small fleets and a few threads, for TLC.                                *)
(***************************************************************************)
EXTENDS RedisQueue, TLC

CONSTANTS t1, w1, w2, s1, s2

\* The request threads are alike, and so are the sweepers.
Alike == Permutations({w1, w2}) \cup Permutations({s1, s2})
============================================================================
