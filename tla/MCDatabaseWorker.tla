-------------------------- MODULE MCDatabaseWorker --------------------------
EXTENDS DatabaseWorker, TLC

CONSTANTS j1, j2, w1, w2, o1, o2

(* j1 leaves every limit to the worker; j2 has a try limit of its own and  *)
(* is parked by its first exception, a timeout included.                   *)
MCSettings ==
  [id \in Ids |-> IF id = j1 THEN ZeroAttributes
                  ELSE [tries |-> 2, maxExceptions |-> 1, retryUntil |-> 0,
                        failOnTimeout |-> TRUE]]
MCSymmetry == Permutations(Workers) \cup Permutations(Operators)
=============================================================================
