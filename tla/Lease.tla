------------------------------- MODULE Lease -------------------------------
(* What every store of the cache keeps under a lock's key: the token of     *)
(* whoever took it and how much of its ttl is left.  A lock whose ttl ran   *)
(* out may still be there (a row, a file) and counts as free, so a value is *)
(* absent, expired or live.  Time left, and not an instant: a model that    *)
(* counts down needs no bound on its clock.                                 *)
EXTENDS Naturals

\* No owner; a value every owner can be compared with.
None == <<>>

\* The key is not in the store.
Absent == [owner |-> None, left |-> 0]

Entries(Tokens, Ttl) == [owner: Tokens \union {None}, left: 0..Ttl]

Taken(token, ttl) == [owner |-> token, left |-> ttl]

Present(e) == e.owner # None

Live(e) == Present(e) /\ e.left > 0

Expired(e) == Present(e) /\ e.left = 0

\* Who holds the lock, nobody when it expired.
Holder(e) == IF Live(e) THEN e.owner ELSE None

\* A release removes the key only if it still holds the token.
ReleasedBy(e, token) == IF e.owner = token THEN Absent ELSE e

Elapsed(e) == [e EXCEPT !.left = IF @ > 0 THEN @ - 1 ELSE 0]
=============================================================================
