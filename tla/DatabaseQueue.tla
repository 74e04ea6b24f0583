--------------------------- MODULE DatabaseQueue ---------------------------
(***************************************************************************)
(* The jobs table of queue/database.go and the statements DatabaseQueue    *)
(* sends to it.  Every operation below is one SQL statement, so it is      *)
(* atomic; what a caller does with two of them is not (DatabaseWorker).    *)
(*                                                                         *)
(* A row's status joins its existence and its failed_at: "none" is no row, *)
(* "live" a row whose failed_at is NULL and "parked" one whose failed_at   *)
(* is set.  A reserved_until of 0 is NULL.  The clock starts at 1, so      *)
(*      reserved_until IS NULL OR reserved_until < now                     *)
(* is reserved_until < now.  One tick is at least one second, the          *)
(* resolution dueAt truncates to.                                          *)
(***************************************************************************)
EXTENDS WorkerPolicy, FiniteSets

CONSTANTS Ids,            \* the ids jobs are pushed under (database.NewID)
          Settings,       \* Settings[id]: the attributes job id is pushed with
          Lease,          \* WorkerOptions.Lease
          Concurrency     \* WorkerOptions.Concurrency, the n of Pop

ASSUME SettingsAssumption == Settings \in [Ids -> Attributes]
ASSUME LeaseAssumption == Lease \in Nat \ {0}
ASSUME ConcurrencyAssumption == Concurrency \in Nat \ {0}

VARIABLES clock,          \* time.Now() of every process
          jobs            \* the jobs table, by id

Statuses == {"none", "live", "parked"}

Row == [status: Statuses, run_at: Nat, created_at: Nat, reserved_until: Nat,
        attempts: Nat, exceptions: Nat, attributes: Attributes]

NoRow == [status |-> "none", run_at |-> 0, created_at |-> 0,
          reserved_until |-> 0, attempts |-> 0, exceptions |-> 0,
          attributes |-> ZeroAttributes]

Exists(id) == jobs[id].status # "none"

(* INSERT.  The id is the primary key, so a second row is refused. *)
Push(id, delay, attributes) ==
  /\ ~Exists(id)
  /\ jobs' = [jobs EXCEPT ![id] =
       [status |-> "live", run_at |-> clock + delay, created_at |-> clock,
        reserved_until |-> 0, attempts |-> 0, exceptions |-> 0,
        attributes |-> attributes]]

(* Mutation of Due: an expired lease is not looked at. *)
DueUnreserved(now) ==
  {id \in Ids : /\ jobs[id].status = "live"
                /\ jobs[id].run_at <= now
                /\ jobs[id].reserved_until = 0}

(* The WHERE of Pop's SELECT. *)
Due(now) ==
  {id \in Ids : /\ jobs[id].status = "live"
                /\ jobs[id].run_at <= now
                /\ jobs[id].reserved_until < now}

(* ORDER BY created_at, id LIMIT n: the oldest n due jobs.  Ids are random *)
(* so which of two jobs created together comes first is not determined.    *)
Candidates(now) ==
  {c \in SUBSET Due(now) :
     /\ Cardinality(c) <= Concurrency
     /\ Cardinality(c) < Concurrency => c = Due(now)
     /\ \A id \in c, other \in Due(now) \ c :
          jobs[id].created_at <= jobs[other].created_at}

(* Mutation of Claimable: the claim is no compare-and-set. *)
ClaimableById(id, now) == Exists(id)

(* The WHERE of Pop's UPDATE: the id and the reservation, and nothing of   *)
(* what the SELECT asked about failed_at and run_at.                       *)
Claimable(id, now) == Exists(id) /\ jobs[id].reserved_until < now

(* Mutation of Claim: the lease runs from the claim, not from the SELECT. *)
ClaimFromNow(id, now) ==
  jobs' = [jobs EXCEPT ![id].reserved_until = clock + Lease,
                       ![id].attempts = @ + 1]

Claim(id, now) ==
  jobs' = [jobs EXCEPT ![id].reserved_until = now + Lease,
                       ![id].attempts = @ + 1]

DeleteJob(id) == jobs' = [jobs EXCEPT ![id] = NoRow]

ReleaseJob(id, delay, exceptions) ==
  jobs' = IF Exists(id)
          THEN [jobs EXCEPT ![id] =
                 [@ EXCEPT !.run_at = clock + delay, !.exceptions = exceptions,
                           !.created_at = clock, !.reserved_until = 0]]
          ELSE jobs

(* Mutation of FailJob: a job that gave up is deleted. *)
FailJobDeletes(id) == DeleteJob(id)

FailJob(id) ==
  jobs' = IF Exists(id)
          THEN [jobs EXCEPT ![id] =
                 [@ EXCEPT !.status = "parked", !.reserved_until = 0]]
          ELSE jobs

(* ErrNotParked is ~Parked(id): nothing was updated. *)
Parked(id) == jobs[id].status = "parked"

(* Mutations of Retry: failed_at is not in the WHERE; the count is reset   *)
(* below zero.                                                             *)
RetryAnyJob(id) ==
  /\ Exists(id)
  /\ jobs' = [jobs EXCEPT ![id] =
       [@ EXCEPT !.status = "live", !.attempts = 0, !.exceptions = 0,
                 !.reserved_until = 0, !.run_at = clock, !.created_at = clock]]

RetryBelowZero(id) ==
  /\ Parked(id)
  /\ jobs' = [jobs EXCEPT ![id] =
       [@ EXCEPT !.status = "live", !.attempts = -1, !.exceptions = 0,
                 !.reserved_until = 0, !.run_at = clock, !.created_at = clock]]

Retry(id) ==
  /\ Parked(id)
  /\ jobs' = [jobs EXCEPT ![id] =
       [@ EXCEPT !.status = "live", !.attempts = 0, !.exceptions = 0,
                 !.reserved_until = 0, !.run_at = clock, !.created_at = clock]]

(* Mutation of Clear: the dead letters go with the queue. *)
ClearParkedToo == jobs' = [id \in Ids |-> NoRow]

Clear ==
  jobs' = [id \in Ids |-> IF jobs[id].status = "live" THEN NoRow ELSE jobs[id]]

(* DELETE by id, whatever the state of the row. *)
DeleteReserved(id) == Exists(id) /\ DeleteJob(id)

-----------------------------------------------------------------------------
(* The counts a health check and a dashboard read. *)

Size == {id \in Ids : jobs[id].status = "live"}

PendingSize ==
  {id \in Ids : jobs[id].status = "live" /\ jobs[id].reserved_until < clock}

DelayedSize ==
  {id \in Ids : jobs[id].status = "live" /\ jobs[id].run_at > clock}

ReservedSize ==
  {id \in Ids : jobs[id].status = "live" /\ jobs[id].reserved_until >= clock}

=============================================================================
