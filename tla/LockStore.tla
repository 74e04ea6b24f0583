----------------------------- MODULE LockStore -----------------------------
(* How the stores of the cache hold a named lock: AcquireLock, ReleaseLock  *)
(* and CurrentOwner of the array, redis, database and file stores, one step *)
(* per statement another process can come between, under the calls of       *)
(* cache.Lock.  INSTANCE CacheLock is what they promise together.           *)
EXTENDS Lease, FiniteSets

CONSTANTS
    Clients,    \* processes that take the lock, release it or force it
    Tokens,     \* the owners newLockOwner mints, one fresh for each Acquire
    Ttl,        \* the ttl of the lock, in ticks
    Drivers     \* the stores under check, a subset of AllDrivers

\* The stores whose statements are atomic, and the one that works on files.
Atomic == {"array", "redis", "database"}
AllDrivers == Atomic \union {"file"}

ASSUME LockStoreAssumption ==
    /\ Ttl \in Nat \ {0}
    /\ None \notin Tokens
    /\ Cardinality(Tokens) > Cardinality(Clients)
    /\ Drivers \subseteq AllDrivers

VARIABLES
    driver,     \* the store this behaviour runs on, chosen once
    entry,      \* what the store keeps under the lock's key
    call        \* Clients -> where its call stands and the handle it works on

vars == <<driver, entry, call>>

\* at: the statement the call is about to make; pass: which of the two passes
\* of the file store; owns: the store granted the lock to this handle and it
\* has not given it back; lease: how much of the ttl is left, from the moment the
\* call computed the expiration.
Idle == [at |-> "idle", token |-> None, pass |-> 1, owns |-> FALSE, lease |-> 0]

Statements ==
    {"idle", "take", "update", "lottery", "working", "owner", "drop", "unlink",
     "release", "exec", "sweep", "remove"}

Init ==
    /\ driver \in Drivers
    /\ entry = Absent
    /\ call = [c \in Clients |-> Idle]

At(c, statement) == call[c].at = statement

Return(c) == call' = [call EXCEPT ![c] = Idle]

Goto(c, statement) == call' = [call EXCEPT ![c].at = statement]

Fresh == Tokens \ ({entry.owner} \union {call[c].token : c \in Clients})

\* The store wrote the token, with so much of the ttl left: the call goes on to
\* `statement` as the owner.
Granted(c, statement, left) ==
    /\ entry' = Taken(call[c].token, left)
    /\ call' = [call EXCEPT ![c] = [@ EXCEPT !.at = statement, !.owns = TRUE, !.lease = left]]

----------------------------------------------------------------------------
(* Acquire                                                                  *)

\* The call computes the expiration before its first statement.
Acquire(c) ==
    /\ At(c, "idle")
    /\ \E t \in Fresh :
           call' = [call EXCEPT ![c] = [@ EXCEPT !.at = "take", !.token = t, !.lease = Ttl]]
    /\ UNCHANGED <<driver, entry>>

\* SET NX PX, or the map under the mutex: an expired key is a free one, and the
\* ttl counts from the statement itself.
TakeKey(c) ==
    /\ driver \in {"array", "redis"} /\ At(c, "take")
    /\ IF Live(entry) THEN Return(c) /\ UNCHANGED entry ELSE Granted(c, "working", Ttl)
    /\ UNCHANGED driver

\* INSERT, which an expired row refuses as well as a live one.
InsertRow(c) ==
    /\ driver = "database" /\ At(c, "take")
    /\ IF Present(entry) THEN Goto(c, "update") /\ UNCHANGED entry
       ELSE Granted(c, "lottery", call[c].lease)
    /\ UNCHANGED driver

\* An UPDATE that forgot the expiration in its WHERE.
AnyRow(e, token) == Present(e)

\* UPDATE ... WHERE key = ? AND (owner = ? OR expiration <= now)
Replaceable(e, token) == Present(e) /\ (e.owner = token \/ Expired(e))

UpdateRow(c) ==
    /\ driver = "database" /\ At(c, "update")
    /\ IF Replaceable(entry, call[c].token)
       THEN Granted(c, "lottery", call[c].lease)
       ELSE Goto(c, "lottery") /\ UNCHANGED entry
    /\ UNCHANGED driver

\* Two calls in a hundred prune the expired locks before they return.
PruneExpiredLocks(c) ==
    /\ driver = "database" /\ At(c, "lottery")
    /\ entry' \in {entry, IF Expired(entry) THEN Absent ELSE entry}
    /\ IF call[c].owns THEN Goto(c, "working") ELSE Return(c)
    /\ UNCHANGED driver

\* The exclusive link of PutIfAbsent: any file at the path refuses it.
LinkFile(c) ==
    /\ driver = "file" /\ At(c, "take")
    /\ IF Present(entry) THEN Goto(c, "owner") /\ UNCHANGED entry
       ELSE Granted(c, "working", call[c].lease)
    /\ UNCHANGED driver

\* CurrentOwner of the file store reads the file; one it found expired it
\* deletes by path, in a statement of its own.
ReadFile(c) ==
    /\ driver = "file" /\ At(c, "owner")
    /\ IF Live(entry) THEN Return(c)
       ELSE Goto(c, IF Expired(entry) THEN "drop" ELSE "unlink")
    /\ UNCHANGED <<driver, entry>>

DropFile(c) ==
    /\ At(c, "drop")
    /\ entry' = Absent
    /\ Goto(c, "unlink")
    /\ UNCHANGED driver

\* A loop that never gives up.
NoLastPass(pass) == FALSE

\* for range 2
LastPass(pass) == pass = 2

\* AcquireLock deletes the path as well, and makes a second pass, with an
\* expiration of its own.
UnlinkFile(c) ==
    /\ At(c, "unlink")
    /\ entry' = Absent
    /\ IF LastPass(call[c].pass) THEN Return(c)
       ELSE call' = [call EXCEPT ![c].at = "take", ![c].pass = @ + 1, ![c].lease = Ttl]
    /\ UNCHANGED driver

----------------------------------------------------------------------------
(* Release                                                                  *)

\* The work is done; Release clears the handle and calls the store.
Release(c) ==
    /\ At(c, "working")
    /\ Goto(c, "release")
    /\ UNCHANGED <<driver, entry>>

\* A removal this client did not own is a forced one: the owner lost the lock.
LosesLock(d, e) == call[d].owns /\ Present(entry) /\ entry.owner = call[d].token /\ e = Absent

Remove(c, e) ==
    /\ entry' = e
    /\ call' = [d \in Clients |->
                   IF d = c THEN Idle
                   ELSE IF ~call[c].owns /\ LosesLock(d, e) THEN [call[d] EXCEPT !.lease = 0]
                   ELSE call[d]]
    /\ UNCHANGED driver

\* One statement: DELETE ... WHERE owner = ?, or the map under the mutex.
DeleteKey(c) ==
    /\ driver \in {"array", "database"} /\ At(c, "release")
    /\ Remove(c, ReleasedBy(entry, call[c].token))

\* WATCH and GET; a key that is gone or another's ends the call.
WatchKey(c) ==
    /\ driver = "redis" /\ At(c, "release")
    /\ IF Holder(entry) = call[c].token
       THEN Goto(c, "exec") /\ UNCHANGED <<driver, entry>>
       ELSE Remove(c, entry)

\* EXEC that does not look at what was watched.
ExecUnwatched(e, token) == Absent

\* EXEC refuses when the key changed since the WATCH.
ExecWatched(e, token) == ReleasedBy(e, token)

ExecDelete(c) ==
    /\ driver = "redis" /\ At(c, "exec")
    /\ Remove(c, ExecWatched(entry, call[c].token))

\* The file store reads the owner and then deletes the path.
RereadFile(c) ==
    /\ driver = "file" /\ At(c, "release")
    /\ IF Holder(entry) = call[c].token
       THEN Goto(c, "remove") /\ UNCHANGED <<driver, entry>>
       ELSE IF Expired(entry) THEN Goto(c, "sweep") /\ UNCHANGED <<driver, entry>>
       ELSE Remove(c, entry)

RemoveFile(c) ==
    /\ call[c].at \in {"sweep", "remove"}
    /\ Remove(c, Absent)

\* ForceRelease reads who holds the lock and releases in that owner's name.
ForceRelease(c) ==
    /\ At(c, "idle") /\ Live(entry)
    /\ call' = [call EXCEPT ![c] = [@ EXCEPT !.at = "release", !.token = entry.owner]]
    /\ UNCHANGED <<driver, entry>>

\* The process dies, or the store's answer to it is lost: no handle is left,
\* and what the store already wrote stays.
Crash(c) ==
    /\ ~At(c, "idle")
    /\ Return(c)
    /\ UNCHANGED <<driver, entry>>

\* Time passes, whatever anybody is in the middle of.
Tick ==
    /\ entry' = Elapsed(entry)
    /\ call' = [c \in Clients |-> [call[c] EXCEPT !.lease = IF @ > 0 THEN @ - 1 ELSE 0]]
    /\ UNCHANGED driver

Next ==
    \/ \E c \in Clients :
           \/ Acquire(c) \/ Release(c) \/ ForceRelease(c) \/ Crash(c)
           \/ TakeKey(c) \/ WatchKey(c) \/ ExecDelete(c)
           \/ InsertRow(c) \/ UpdateRow(c) \/ PruneExpiredLocks(c)
           \/ DeleteKey(c)
           \/ LinkFile(c) \/ ReadFile(c) \/ DropFile(c) \/ UnlinkFile(c)
           \/ RereadFile(c) \/ RemoveFile(c)
    \/ Tick

Spec == Init /\ [][Next]_vars

----------------------------------------------------------------------------
(* Properties                                                               *)

\* Types of the store's entry and of the calls under way.
TypeOK ==
    /\ driver \in Drivers
    /\ entry \in Entries(Tokens, Ttl)
    /\ call \in [Clients -> [at: Statements, token: Tokens \union {None},
                             pass: {1, 2}, owns: BOOLEAN, lease: 0..Ttl]]

\* A process that works under its ttl keeps the lock in the store, in its name
\* and for exactly the time it was granted: no acquire, late release, prune or
\* sweep of another process removes, shortens or replaces it.
KeepsLock(c) ==
    call[c].owns /\ call[c].lease > 0 => entry = Taken(call[c].token, call[c].lease)

\* On the stores with atomic statements a running grant is never lost, so no
\* two processes work under the lock at once: AcquireLock's "key is free" and
\* ReleaseLock's "still holds token" hold against every interleaving.
HolderKeepsLock == driver \in Atomic => \A c \in Clients : KeepsLock(c)

\* Two processes never work under one lock at once while the ttl of both runs,
\* whatever the store: the file store's AcquireLock says "the exclusive create
\* is what makes it a lock at all".
MutualExclusion ==
    \A c, d \in Clients :
        call[c].owns /\ call[c].lease > 0 /\ call[d].owns /\ call[d].lease > 0 => c = d

\* The promised lock, seen through the stores that keep it: a lock on files
\* maps to one nobody takes.
Promise == INSTANCE CacheLock WITH
    lock <- IF driver \in Atomic /\ Live(entry) THEN entry ELSE Absent,
    handle <- [c \in Clients |-> IF driver \in Atomic /\ call[c].owns THEN call[c].token ELSE None]

\* The array, redis and database stores implement the lock cache.Locking
\* promises: every statement is a step of the one-step lock (taken, given back,
\* abandoned, forced, elapsed) or changes nothing of it.
ImplementsLock == Promise!LockSpec
=============================================================================
