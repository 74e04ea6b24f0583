------------------------------- MODULE Outbox -------------------------------
(* The transactional outbox: services that store events inside their        *)
(* transactions, and the relay of every replica that hands what was         *)
(* committed to the listeners, under the lock "outbox-relay" when there is  *)
(* one.  The lock is the one-step lock of CacheLock.                        *)
EXTENDS Lease, Integers, FiniteSets, Sequences

CONSTANTS
    Services,       \* transactions open at the same time
    Replicas,       \* processes running the relay
    N,              \* events stored in a behaviour (a bound)
    Listeners,      \* the list NewRelay is given: per listener, the events it answers
    Setups,         \* the options under check, a subset of SetupType
    MaxAttempts,
    LockTtl

\* Ordered ids: the number of the event is its id.
Events == 1..N

\* locks: RelayOptions.Locks is set; batch: RelayOptions.Batch.  The bounds of a
\* behaviour: stamps, the moments each event can be said to occur at; incidents,
\* its crashes, failed statements, shutdowns and passes that outlive their lock;
\* retries, the events an operator puts back in line.
SetupType ==
    [locks: BOOLEAN, batch: Nat \ {0}, stamps: [Events -> SUBSET Nat],
     incidents: Nat, retries: Nat]

ASSUME OutboxAssumption ==
    /\ N \in Nat
    /\ Setups \subseteq SetupType
    /\ {MaxAttempts, LockTtl} \subseteq Nat \ {0}
    /\ Listeners \in Seq(SUBSET Events)
    /\ None \notin Replicas

VARIABLES
    setup,      \* the options, chosen once
    issued,     \* ids given out
    occurred,   \* per event: the column occurred_at
    tx,         \* the events stored in each service's open transaction
    units,      \* the committed transactions, each the set of its events
    row,        \* per event: published_at and failed_at set or not, attempts
    lock,       \* the lock "outbox-relay"
    relay,      \* the pass of each replica
    stop,       \* replicas whose loop context is cancelled
    got,        \* how often each listener received each event, up to Often
    past,       \* whether a delivery of the event failed, and was recorded
    excused,    \* events whose mark was lost or whose pass outlived its lock
    spent       \* incidents and retries so far

vars == <<setup, issued, occurred, tx, units, row, lock, relay, stop, got, past, excused, spent>>

\* "More than once".
Often == 2

\* Where a pass stands: batch is what is left of what PendingAll returned, the
\* attempts each event had then; event the one in hand, 0 when there is none;
\* todo the listeners that are still to get it.
PassAt(at, batch, event, todo) == [at |-> at, batch |-> batch, event |-> event, todo |-> todo]
Empty(at) == PassAt(at, [e \in {} |-> 0], 0, {})

Init ==
    /\ setup \in Setups
    /\ issued = 0
    /\ occurred = [e \in Events |-> 0]
    /\ tx = [s \in Services |-> {}]
    /\ units = {}
    /\ row = [e \in Events |-> [published |-> FALSE, failed |-> FALSE, attempts |-> 0]]
    /\ lock = Absent
    /\ relay = [r \in Replicas |-> Empty("idle")]
    /\ stop = {}
    /\ got = [e \in Events |-> [l \in 1..Len(Listeners) |-> 0]]
    /\ past = [e \in Events |-> "clean"]
    /\ excused = {}
    /\ spent = [incidents |-> 0, retries |-> 0]

\* The rows a statement of the relay sees: those of committed transactions.
Rows == UNION units

At(r, step) == relay[r].at = step

Becomes(r, pass) == relay' = [relay EXCEPT ![r] = pass]

Goto(r, step) == Becomes(r, PassAt(step, relay[r].batch, relay[r].event, relay[r].todo))

Incident ==
    /\ spent.incidents < setup.incidents
    /\ spent' = [spent EXCEPT !.incidents = @ + 1]

----------------------------------------------------------------------------
(* Services                                                                 *)

\* One event of a Store: the next id, and its row, in the caller's transaction.
\* (Store refuses to run outside one.)  It occurred when the caller says, which
\* may be before or after what was stored earlier, or else now.
Store(s) ==
    /\ issued < N
    /\ issued' = issued + 1
    /\ \E at \in setup.stamps[issued + 1] : occurred' = [occurred EXCEPT ![issued + 1] = at]
    /\ tx' = [tx EXCEPT ![s] = @ \union {issued + 1}]
    /\ UNCHANGED <<setup, units, row, lock, relay, stop, got, past, excused, spent>>

Commit(s) ==
    /\ tx[s] # {}
    /\ units' = units \union {tx[s]}
    /\ tx' = [tx EXCEPT ![s] = {}]
    /\ UNCHANGED <<setup, issued, occurred, row, lock, relay, stop, got, past, excused, spent>>

\* The service gave up, or its process died.
Rollback(s) ==
    /\ tx[s] # {}
    /\ tx' = [tx EXCEPT ![s] = {}]
    /\ UNCHANGED <<setup, issued, occurred, units, row, lock, relay, stop, got, past, excused, spent>>

\* An operator puts an event Parked lists back in line.
Retry(e) ==
    /\ row[e].failed
    /\ spent.retries < setup.retries
    /\ spent' = [spent EXCEPT !.retries = @ + 1]
    /\ row' = [row EXCEPT ![e].failed = FALSE, ![e].attempts = 0]
    /\ UNCHANGED <<setup, issued, occurred, tx, units, lock, relay, stop, got, past, excused>>

----------------------------------------------------------------------------
(* The relay                                                                *)

\* A lock that expired is as good as taken.
NeverTaken == ~Present(lock)

\* Acquire gets the lock.
Available == ~Live(lock)

\* The ticker: the lock is taken, or held by another replica and the pass over.
Pass(r) ==
    /\ At(r, "idle") /\ r \notin stop
    /\ setup.locks => Available
    /\ lock' = IF setup.locks THEN Taken(r, LockTtl) ELSE lock
    /\ Goto(r, "read")
    /\ UNCHANGED <<setup, issued, occurred, tx, units, row, stop, got, past, excused, spent>>

\* The unpublished, unparked events.
Pending == {e \in Rows : ~row[e].published /\ ~row[e].failed}

\* As many events as the query's LIMIT lets through.
Limited(S, limit) == Cardinality(S) = IF limit < Cardinality(Pending) THEN limit ELSE Cardinality(Pending)

\* ORDER BY occurred_at, id
Before(e, f) == occurred[e] < occurred[f] \/ (occurred[e] = occurred[f] /\ e < f)

\* A query that orders by the id alone.
PendingById(limit) ==
    {S \in SUBSET Pending : Limited(S, limit) /\ \A e \in S, f \in Pending \ S : e < f}

\* Without a transaction to be in: what a service has not committed is read too.
PendingUncommitted(limit) ==
    {S \in SUBSET {e \in 1..issued : ~row[e].published /\ ~row[e].failed} : Cardinality(S) <= limit}

\* What the query answers: the oldest of them, up to the limit (one set; the
\* relay takes its events in the order of the query).
PendingAll(limit) ==
    {S \in SUBSET Pending : Limited(S, limit) /\ \A e \in S, f \in Pending \ S : Before(e, f)}

\* The events of a pass, which may be in another pass too.
InHand(r) == DOMAIN relay[r].batch

Read(r) ==
    /\ At(r, "read")
    /\ \E pending \in IF r \in stop THEN {{}} ELSE PendingAll(setup.batch) :
          /\ Becomes(r, PassAt("next", [e \in pending |-> row[e].attempts], 0, {}))
          /\ excused' = IF Holder(lock) = r THEN excused ELSE excused \union pending
    /\ UNCHANGED <<setup, issued, occurred, tx, units, row, lock, stop, got, past, spent>>

\* Who answers the event.
Answering(e) == {l \in 1..Len(Listeners) : e \in Listeners[l]}

\* The first event of a batch, and the first of some listeners.
Oldest(S, e) == e \in S /\ \A f \in S \ {e} : Before(e, f)
First(S, l) == l \in S /\ \A m \in S : l <= m

\* The pass returns, with or without an error.
Abandon(r) == Becomes(r, Empty("release"))

\* The head of the loop: the context is looked at before each event.
NextEvent(r) ==
    /\ At(r, "next")
    /\ \/ (InHand(r) = {} \/ r \in stop) /\ Abandon(r)
       \/ /\ r \notin stop
          /\ \E e \in Events :
                /\ Oldest(InHand(r), e)
                /\ Becomes(r, PassAt("publish", relay[r].batch, e, Answering(e)))
    /\ UNCHANGED <<setup, issued, occurred, tx, units, row, lock, stop, got, past, excused, spent>>

\* The listeners take the event in the order they are listed.
Publish(r) ==
    /\ At(r, "publish")
    /\ \E l \in 1..Len(Listeners) :
          /\ First(relay[r].todo, l)
          /\ got' = [got EXCEPT ![relay[r].event][l] = IF @ < Often THEN @ + 1 ELSE @]
          /\ Becomes(r, PassAt("publish", relay[r].batch, relay[r].event, relay[r].todo \ {l}))
    /\ UNCHANGED <<setup, issued, occurred, tx, units, row, lock, stop, past, excused, spent>>

\* A failing listener is passed over.
PassOver(r) ==
    /\ At(r, "publish")
    /\ \E l \in relay[r].todo :
          Becomes(r, PassAt("publish", relay[r].batch, relay[r].event, relay[r].todo \ {l}))
    /\ UNCHANGED <<setup, issued, occurred, tx, units, row, lock, stop, got, past, excused, spent>>

\* A listener fails or panics: the event stops there.
PublishFails(r) ==
    /\ At(r, "publish") /\ relay[r].todo # {}
    /\ past' = [past EXCEPT ![relay[r].event] = IF @ = "clean" THEN "failed" ELSE @]
    /\ Goto(r, "fail")
    /\ UNCHANGED <<setup, issued, occurred, tx, units, row, lock, stop, got, excused, spent>>

\* The loop goes on with the next event of the batch.
Advance(r) ==
    Becomes(r, PassAt("next", [e \in InHand(r) \ {relay[r].event} |-> relay[r].batch[e]], 0, {}))

\* One attempt early.
LastAttemptEarly(attempts) == attempts + 2 >= MaxAttempts

\* What the pass compares is the count it read at its start, not the row's.
LastAttempt(attempts) == attempts + 1 >= MaxAttempts

\* MarkFailed or Park, by id and whatever the row says by now.  Both run on the
\* loop's context: once it is cancelled nothing is recorded.
RecordFailure(r) ==
    /\ At(r, "fail")
    /\ IF r \in stop THEN Abandon(r) /\ UNCHANGED <<row, past>>
       ELSE /\ row' = [row EXCEPT ![relay[r].event] =
                  [published |-> @.published, attempts |-> @.attempts + 1,
                   failed |-> @.failed \/ LastAttempt(relay[r].batch[relay[r].event])]]
            /\ past' = [past EXCEPT ![relay[r].event] = "recorded"]
            /\ Advance(r)
    /\ UNCHANGED <<setup, issued, occurred, tx, units, lock, stop, got, excused, spent>>

\* A mark that rides the loop's context and is lost with it.
MarkCancelled(r) ==
    /\ At(r, "publish") /\ relay[r].todo = {}
    /\ IF r \in stop THEN Abandon(r) /\ UNCHANGED row
       ELSE row' = [row EXCEPT ![relay[r].event].published = TRUE] /\ Advance(r)
    /\ UNCHANGED <<setup, issued, occurred, tx, units, lock, stop, got, past, excused, spent>>

\* Every listener has it: the mark, on a context nothing cancels.
MarkPublished(r) ==
    /\ At(r, "publish") /\ relay[r].todo = {}
    /\ row' = [row EXCEPT ![relay[r].event].published = TRUE]
    /\ Advance(r)
    /\ UNCHANGED <<setup, issued, occurred, tx, units, lock, stop, got, past, excused, spent>>

\* The deferred release of Lock.Get, and the end of the pass.
Release(r) ==
    /\ At(r, "release")
    /\ lock' = IF setup.locks THEN ReleasedBy(lock, r) ELSE lock
    /\ Goto(r, "idle")
    /\ UNCHANGED <<setup, issued, occurred, tx, units, row, stop, got, past, excused, spent>>

----------------------------------------------------------------------------
(* Accidents, shutdown and time                                             *)

\* A statement fails, and with it the pass; a release that fails is ignored.
StatementFails(r) ==
    /\ Incident
    /\ \/ At(r, "read") /\ Abandon(r) /\ UNCHANGED excused
       \/ At(r, "fail") /\ Abandon(r) /\ UNCHANGED excused
       \/ At(r, "publish") /\ relay[r].todo = {} /\ Abandon(r) /\ excused' = excused \union {relay[r].event}
       \/ At(r, "release") /\ Goto(r, "idle") /\ UNCHANGED excused
    /\ UNCHANGED <<setup, issued, occurred, tx, units, row, lock, stop, got, past>>

\* The process dies, its lock stays until it expires.
Crash(r) ==
    /\ Incident
    /\ ~At(r, "down")
    /\ Becomes(r, Empty("down"))
    /\ excused' = IF At(r, "publish") THEN excused \union {relay[r].event} ELSE excused
    /\ UNCHANGED <<setup, issued, occurred, tx, units, row, lock, stop, got, past>>

\* Close cancels the loop and waits for the pass in flight.
Close(r) ==
    /\ Incident
    /\ r \notin stop /\ ~At(r, "down")
    /\ stop' = stop \union {r}
    /\ UNCHANGED <<setup, issued, occurred, tx, units, row, lock, relay, got, past, excused>>

\* Run returns.
Stopped(r) ==
    /\ At(r, "idle") /\ r \in stop
    /\ Becomes(r, Empty("down"))
    /\ UNCHANGED <<setup, issued, occurred, tx, units, row, lock, stop, got, past, excused, spent>>

Start(r) ==
    /\ At(r, "down")
    /\ Becomes(r, Empty("idle"))
    /\ stop' = stop \ {r}
    /\ UNCHANGED <<setup, issued, occurred, tx, units, row, lock, got, past, excused, spent>>

\* The owner of the lock is still in the pass it took it for.
InPass(r) == relay[r].at \notin {"idle", "down"}

\* Part of the ttl passes.
Elapse ==
    /\ Live(lock)
    /\ lock.left = 1 => ~InPass(lock.owner)
    /\ lock' = Elapsed(lock)
    /\ UNCHANGED <<setup, issued, occurred, tx, units, row, relay, stop, got, past, excused, spent>>

\* All of the ttl passed and the pass is not over: it goes on all the same.
Overrun ==
    /\ Incident
    /\ Live(lock) /\ lock.left = 1 /\ InPass(lock.owner)
    /\ lock' = Elapsed(lock)
    /\ excused' = excused \union InHand(lock.owner)
    /\ UNCHANGED <<setup, issued, occurred, tx, units, row, relay, stop, got, past>>

\* What a replica does by itself.
Step(r) ==
    \/ Pass(r) \/ Read(r) \/ NextEvent(r) \/ Publish(r) \/ PublishFails(r) \/ RecordFailure(r)
    \/ MarkPublished(r) \/ Release(r) \/ Stopped(r) \/ Start(r)

Next ==
    \/ \E s \in Services : Store(s) \/ Commit(s) \/ Rollback(s)
    \/ \E e \in Events : Retry(e)
    \/ \E r \in Replicas : Step(r) \/ StatementFails(r) \/ Crash(r) \/ Close(r)
    \/ Elapse \/ Overrun

Spec == Init /\ [][Next]_vars

\* Replicas keep running and are restarted, and time passes.
FairSpec ==
    /\ Spec
    /\ \A r \in Replicas : WF_vars(Step(r))
    /\ WF_vars(Elapse)

----------------------------------------------------------------------------
(* Properties                                                               *)

\* A pass over the events of S.
Passes(S) ==
    [at: {"idle", "read", "next", "publish", "fail", "release", "down"},
     batch: [S -> Nat], event: 0..N, todo: SUBSET (1..Len(Listeners))]

\* Each replica has a pass over some of the events.
Passing ==
    /\ DOMAIN relay = Replicas
    /\ \A r \in Replicas : InHand(r) \subseteq Events /\ relay[r] \in Passes(InHand(r))

\* Types; what a pass has in hand was committed, the event it delivers is in its
\* batch, and nothing is spent beyond the bounds.
TypeOK ==
    /\ setup \in Setups
    /\ issued \in 0..N
    /\ occurred \in [Events -> Nat]
    /\ tx \in [Services -> SUBSET Events]
    /\ units \subseteq SUBSET Events
    /\ row \in [Events -> [published: BOOLEAN, failed: BOOLEAN, attempts: Nat]]
    /\ lock \in Entries(Replicas, LockTtl)
    /\ Passing
    /\ \A r \in Replicas :
          /\ InHand(r) \subseteq Rows
          /\ At(r, "publish") \/ At(r, "fail") => relay[r].event \in InHand(r)
    /\ stop \subseteq Replicas
    /\ got \in [Events -> [1..Len(Listeners) -> 0..Often]]
    /\ past \in [Events -> {"clean", "failed", "recorded"}]
    /\ excused \subseteq Events
    /\ spent \in [incidents: 0..setup.incidents, retries: 0..setup.retries]

\* An event leaves the outbox as published only when every listener that
\* answers it has received it: none is passed over, whatever crashed or failed.
PublishedMeansReceived ==
    \A e \in Events : row[e].published =>
        \A l \in 1..Len(Listeners) : e \in Listeners[l] => got[e][l] > 0

\* Whoever received f received it after e was through: every listener of e had
\* it first, or a failure of e was recorded.
LeavesBefore(e, f) ==
    (\E l \in 1..Len(Listeners) : got[f][l] > 0) =>
        \/ past[e] = "recorded"
        \/ \A l \in 1..Len(Listeners) : e \in Listeners[l] => got[e][l] > 0

\* The events of one transaction leave oldest first, as PendingAll says, and in
\* the order they were stored where they carry one occurred_at, as those of a
\* Store do that leave it to the clock.  However many replicas relay, without
\* locks, and when a batch takes a part of the transaction only.
OldestFirst ==
    \A u \in units : \A e, f \in u : Before(e, f) => LeavesBefore(e, f)

\* "They leave in the order they were stored", whatever OccurredAt says: it does
\* not hold, see the README.
InStoredOrder ==
    \A u \in units : \A e, f \in u : e < f => LeavesBefore(e, f)

\* "Locks keeps N replicas from publishing the same event N times": no listener
\* receives an event twice unless a delivery of it failed, its mark was lost to
\* a crash or a failed statement, or its pass outlived the lock.  A shutdown is
\* no excuse, nor is Retry.
NoDuplicate ==
    setup.locks =>
        \A e \in Events \ excused : past[e] = "clean" =>
            \A l \in 1..Len(Listeners) : got[e][l] <= 1

\* What Parked lists gave up: it was not published and failed MaxAttempts times
\* since it was last put in line, unless its pass outlived the lock.
ParkedGaveUp ==
    setup.locks =>
        \A e \in Events \ excused : row[e].failed =>
            ~row[e].published /\ row[e].attempts >= MaxAttempts

\* At least once: every committed event is published or, after its attempts,
\* parked, through crashes, restarts, failed statements and failing listeners.
EventuallySettled ==
    \A e \in Events : e \in Rows ~> row[e].published \/ row[e].failed
=============================================================================
