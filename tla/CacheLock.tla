----------------------------- MODULE CacheLock -----------------------------
(* What the cache promises of a named lock (cache.Locking, cache.Lock): it  *)
(* is taken and given back in one step, at most one handle owns it, a       *)
(* handle that lost it cannot release its successor's, and it is free again *)
(* when its ttl ran out.                                                    *)
EXTENDS Lease

CONSTANTS
    Clients,    \* the processes that hold a handle of the lock
    Tokens,     \* the owners Acquire mints
    Ttl         \* how long a lock lives

VARIABLES
    lock,       \* the lock: Absent or live, never merely expired
    handle      \* Clients -> the token of the handle, None when it has none

abstractVars == <<lock, handle>>

LockInit == lock = Absent /\ handle = [c \in Clients |-> None]

\* A lock with no time left is no lock.
Lasting(e) == IF e.left = 0 THEN Absent ELSE e

\* Some of the ttl, or all of it, may have passed when the lock is taken: it
\* counts from the call.
Acquire(c) ==
    /\ handle[c] = None /\ ~Live(lock)
    /\ \E t \in Tokens \ {handle[d] : d \in Clients}, left \in 0..Ttl :
           /\ lock' = Lasting(Taken(t, left))
           /\ handle' = [handle EXCEPT ![c] = t]

Release(c) ==
    /\ handle[c] # None
    /\ lock' = ReleasedBy(lock, handle[c])
    /\ handle' = [handle EXCEPT ![c] = None]

\* The process died and its handle with it: the lock stays until its ttl.
Abandon(c) ==
    /\ handle[c] # None
    /\ handle' = [handle EXCEPT ![c] = None]
    /\ UNCHANGED lock

ForceRelease == lock' = Absent /\ UNCHANGED handle

Elapse ==
    /\ lock' = Lasting(Elapsed(lock))
    /\ UNCHANGED handle

LockNext ==
    \/ \E c \in Clients : Acquire(c) \/ Release(c) \/ Abandon(c)
    \/ ForceRelease
    \/ Elapse

LockSpec == LockInit /\ [][LockNext]_abstractVars
=============================================================================
