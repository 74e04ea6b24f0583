---------------------------- MODULE MCRedisQueue ----------------------------
(* The RESP driver on small instances. *)
EXTENDS RedisQueue, TLC

CONSTANTS j1, w1, w2, o1, o2

MCSymmetry == Permutations(Workers) \cup Permutations(Operators)

=============================================================================
