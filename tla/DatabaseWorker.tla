--------------------------- MODULE DatabaseWorker ---------------------------
(***************************************************************************)
(* Worker processes (queue/worker.go) draining a DatabaseQueue, the dead   *)
(* letter list they record into (queue/failed) and operators running the   *)
(* queue:retry, queue:forget and queue:clear commands against both         *)
(* (queue/console).                                                        *)
(*                                                                         *)
(* A worker's Pop is one SELECT and then one UPDATE per candidate; the     *)
(* batch it returns is processed by one goroutine per job, and the next    *)
(* Pop waits for all of them.  Every statement is a step of its own, so    *)
(* the steps of two workers, of two goroutines and of an operator          *)
(* interleave as they do in the store.                                     *)
(***************************************************************************)
EXTENDS DatabaseQueue

CONSTANTS Workers,        \* worker processes, restarted when they die
          Operators,      \* people running queue:retry
          Unroutable,     \* jobs whose name no handler is registered under
          Middleware,     \* how middleware settles a job itself
          Waits,          \* the delays a push, a release and a backoff ask for
          MaxClock,       \* bound: the clock stops here
          FaultHorizon,   \* bound: things go wrong before this time only
          MaxIncidents    \* bound: and at most this often

ASSUME UnroutableAssumption == Unroutable \subseteq Ids
ASSUME MiddlewareAssumption == Middleware \subseteq {"release", "fail"}
ASSUME WaitsAssumption == Waits \subseteq Nat
ASSUME BoundsAssumption ==
  MaxClock \in Nat /\ FaultHorizon \in Nat /\ MaxIncidents \in Nat

VARIABLES popNow,         \* popNow[w]: the now of w's running Pop, 0 when none
          seen,           \* seen[w][id]: a candidate row Pop has yet to claim
          flight,         \* flight[w][id]: the delivery of id that w holds
          records,        \* the ids the failed job provider lists
          command,        \* command[o][id]: where o's queue:retry of id is
          incidents,      \* crashes, failed writes and commands so far
          \* What happened, for the properties; no step reads them.
          pushed,         \* ids pushed so far
          finished,       \* ids whose work was done, or a middleware dropped
          removed,        \* ids an operator removed from the queue
          parkings,       \* ids whose park the driver accepted
          disturbed       \* ids that were not held by one worker under a lease

queue == <<clock, jobs>>
workers == <<popNow, seen, flight>>
history == <<pushed, finished, removed, parkings, disturbed>>
vars == <<clock, jobs, popNow, seen, flight, records, command, incidents,
          pushed, finished, removed, parkings, disturbed>>

(* Where a delivery is: claimed by a Pop that has not returned, about to   *)
(* be started, in its handler, about to send one of the four settling      *)
(* statements, or, once parked, about to be recorded and compensated.      *)
Running == {"reserved", "start", "handle", "delete", "release", "fail", "park"}
Stages == Running \cup {"none", "log", "hook"}

Delivery == [stage: Stages, attempts: Nat, exceptions: Nat, until: Nat,
             attributes: Attributes]

NoDelivery == [stage |-> "none", attempts |-> 0, exceptions |-> 0, until |-> 0,
               attributes |-> ZeroAttributes]

CommandSteps == {"idle", "found", "rebuild", "forget"}

Holds(w, id) == flight[w][id].stage \in Running
Popping(w) == popNow[w] # 0
Pending(w) == {id \in Ids : seen[w][id].status # "none"}
Unstable == clock < FaultHorizon

(* One more thing goes wrong or is interfered with, or nothing is. *)
Incident ==
  /\ Unstable
  /\ incidents < MaxIncidents
  /\ incidents' = incidents + 1
Smooth == incidents' = incidents

(* A delay never points past the end of the bounded clock. *)
Delays == {delay \in Waits : clock + delay <= MaxClock}

(* The delivery of id by w moves to another stage, or is over. *)
GoTo(w, id, stage) == flight' = [flight EXCEPT ![w][id].stage = stage]
Done(w, id) == flight' = [flight EXCEPT ![w][id] = NoDelivery]

(* The deliveries still held when time t comes, past their lease. *)
Overrun(t) ==
  {id \in Ids : \E w \in Workers : Holds(w, id) /\ flight[w][id].until < t}

Init ==
  /\ clock = 1
  /\ jobs = [id \in Ids |-> NoRow]
  /\ popNow = [w \in Workers |-> 0]
  /\ seen = [w \in Workers |-> [id \in Ids |-> NoRow]]
  /\ flight = [w \in Workers |-> [id \in Ids |-> NoDelivery]]
  /\ records = {} /\ incidents = 0
  /\ command = [o \in Operators |-> [id \in Ids |-> "idle"]]
  /\ pushed = {} /\ finished = {} /\ removed = {} /\ parkings = {}
  /\ disturbed = {}

Tick ==
  /\ clock < MaxClock
  /\ clock' = clock + 1
  /\ disturbed' = disturbed \cup Overrun(clock + 1)
  /\ UNCHANGED <<jobs, workers, records, command, incidents, pushed,
                 finished, removed, parkings>>

(* Push and Later: a fresh id, a delay. *)
PushJob(id) ==
  /\ id \notin pushed
  /\ \E delay \in Delays : Push(id, delay, Settings[id])
  /\ pushed' = pushed \cup {id}
  /\ UNCHANGED <<clock, workers, records, command, incidents, finished,
                 removed, parkings, disturbed>>

-----------------------------------------------------------------------------
(* Pop *)

(* What of a row Pop goes on to use: the order, and what the job carries. *)
Scanned(row) == [row EXCEPT !.run_at = 0, !.reserved_until = 0]

(* A worker asks again once its last batch is settled.  An empty answer    *)
(* changes nothing: the worker sleeps.                                     *)
PopSelect(w) ==
  /\ ~Popping(w)
  /\ \A id \in Ids : flight[w][id].stage = "none"
  /\ \E c \in Candidates(clock) :
       /\ c # {}
       /\ seen' = [seen EXCEPT ![w] = [id \in Ids |->
                     IF id \in c THEN Scanned(jobs[id]) ELSE NoRow]]
  /\ popNow' = [popNow EXCEPT ![w] = clock]
  /\ UNCHANGED <<queue, flight, records, command, incidents, history>>

(* The candidates are claimed in the order the SELECT returned them. *)
NextCandidate(w, id) ==
  /\ Popping(w)
  /\ id \in Pending(w)
  /\ \A other \in Pending(w) :
       seen[w][id].created_at <= seen[w][other].created_at

Skip(w, id) == seen' = [seen EXCEPT ![w][id] = NoRow]

(* The claim's row is now + Lease with the now of the SELECT; the attempts *)
(* and the exceptions the delivery carries are those the SELECT read.      *)
PopClaim(w, id) ==
  /\ NextCandidate(w, id)
  /\ Claimable(id, popNow[w])
  /\ Claim(id, popNow[w])
  /\ flight' = [flight EXCEPT ![w][id] =
       [stage |-> "reserved", attempts |-> seen[w][id].attempts + 1,
        exceptions |-> seen[w][id].exceptions, until |-> popNow[w] + Lease,
        attributes |-> seen[w][id].attributes]]
  /\ Skip(w, id)
  /\ disturbed' = IF Parked(id) \/ popNow[w] + Lease < clock
                  THEN disturbed \cup {id} ELSE disturbed
  /\ UNCHANGED <<clock, popNow, records, command, incidents, pushed,
                 finished, removed, parkings>>

(* Nothing updated: another worker got it.  A claim whose row count cannot *)
(* be read is passed over the same way, and is held by nobody.             *)
PopLost(w, id) ==
  /\ NextCandidate(w, id)
  /\ \/ ~Claimable(id, popNow[w]) /\ UNCHANGED jobs /\ Smooth
     \/ Incident /\ Claimable(id, popNow[w]) /\ Claim(id, popNow[w])
  /\ Skip(w, id)
  /\ UNCHANGED <<clock, popNow, flight, records, command, history>>

(* The UPDATE fails, before or after it took effect: Pop returns the error *)
(* and the claims it already made are held by nobody.                      *)
PopError(w, id) ==
  /\ Incident
  /\ NextCandidate(w, id)
  /\ \/ Claimable(id, popNow[w]) /\ Claim(id, popNow[w])
     \/ UNCHANGED jobs
  /\ popNow' = [popNow EXCEPT ![w] = 0]
  /\ seen' = [seen EXCEPT ![w] = [i \in Ids |-> NoRow]]
  /\ flight' = [flight EXCEPT ![w] = [i \in Ids |-> NoDelivery]]
  /\ UNCHANGED <<clock, records, command, history>>

(* Every candidate was tried: the batch is handed to its goroutines. *)
PopReturn(w) ==
  /\ Popping(w)
  /\ Pending(w) = {}
  /\ popNow' = [popNow EXCEPT ![w] = 0]
  /\ flight' = [flight EXCEPT ![w] = [id \in Ids |->
       IF flight[w][id].stage = "reserved"
       THEN [flight[w][id] EXCEPT !.stage = "start"] ELSE flight[w][id]]]
  /\ UNCHANGED <<queue, seen, records, command, incidents, history>>

-----------------------------------------------------------------------------
(* Process *)

(* An unknown name and a job past its limit are parked unrun. *)
Start(w, id) ==
  LET d == flight[w][id] IN
  /\ d.stage = "start"
  /\ GoTo(w, id,
          IF \/ id \in Unroutable
             \/ alreadyExceedsMaxAttempts(d.attributes, d.attempts, clock)
          THEN "park" ELSE "handle")
  /\ UNCHANGED <<queue, popNow, seen, records, command, incidents, history>>

(* The handler and its middleware return nil, or a middleware deleted the  *)
(* job: either way the worker is done with it.                             *)
HandlerSucceeds(w, id) ==
  /\ flight[w][id].stage = "handle"
  /\ GoTo(w, id, "delete")
  /\ finished' = finished \cup {id}
  /\ UNCHANGED <<queue, popNow, seen, records, command, incidents, pushed,
                 removed, parkings, disturbed>>

(* handleJobException: one more exception, then the last failure parks and *)
(* any other is released.                                                  *)
HandlerFails(w, id, cause) ==
  LET d == flight[w][id] IN
  /\ d.stage = "handle"
  /\ Unstable \/ cause = "fatal"
  /\ flight' = [flight EXCEPT ![w][id] =
       [d EXCEPT !.exceptions = @ + 1,
                 !.stage = IF shouldFail(d.attributes, d.attempts,
                                         d.exceptions + 1, cause, clock)
                           THEN "park" ELSE "release"]]
  /\ UNCHANGED <<queue, popNow, seen, records, command, incidents, history>>

(* A middleware settles the job itself: RateLimited and WithoutOverlapping *)
(* release it, ThrottlesExceptions releases or fails it.  The worker then  *)
(* leaves it alone, whatever the middleware returned.                      *)
MiddlewareSettles(w, id, how) ==
  /\ flight[w][id].stage = "handle"
  /\ Unstable
  /\ GoTo(w, id, how)
  /\ UNCHANGED <<queue, popNow, seen, records, command, incidents, history>>

(* The settling statements, each on a context of its own. *)
SettleDelete(w, id) ==
  /\ flight[w][id].stage = "delete"
  /\ DeleteJob(id)
  /\ Done(w, id)
  /\ UNCHANGED <<clock, popNow, seen, records, command, incidents, history>>

SettleRelease(w, id) ==
  /\ flight[w][id].stage = "release"
  /\ \E wait \in Delays : ReleaseJob(id, wait, flight[w][id].exceptions)
  /\ Done(w, id)
  /\ UNCHANGED <<clock, popNow, seen, records, command, incidents, history>>

(* A middleware's Fail ends there; the worker's park goes on to the record *)
(* and the compensating hook.                                              *)
SettleFail(w, id) ==
  /\ flight[w][id].stage = "fail"
  /\ FailJob(id)
  /\ Done(w, id)
  /\ parkings' = parkings \cup {id}
  /\ UNCHANGED <<clock, popNow, seen, records, command, incidents, pushed,
                 finished, removed, disturbed>>

SettlePark(w, id) ==
  /\ flight[w][id].stage = "park"
  /\ FailJob(id)
  /\ GoTo(w, id, "log")
  /\ parkings' = parkings \cup {id}
  /\ UNCHANGED <<clock, popNow, seen, records, command, incidents, pushed,
                 finished, removed, disturbed>>

(* Mutation of SettleError: park goes on after the driver refused. *)
SettleErrorIgnored(w, id) ==
  /\ Incident
  /\ flight[w][id].stage = "park" /\ UNCHANGED jobs
  /\ GoTo(w, id, "log")
  /\ UNCHANGED <<clock, popNow, seen, records, command, history>>

(* A settling statement that reports an error, having changed nothing or   *)
(* after all, ends the delivery: the error is logged and the lease decides *)
(* when the job comes back.  A park that failed is not recorded.           *)
SettleError(w, id) ==
  LET d == flight[w][id] IN
  /\ Incident
  /\ \/ d.stage \in {"delete", "release", "fail", "park"} /\ UNCHANGED jobs
     \/ d.stage = "delete" /\ DeleteJob(id)
     \/ /\ d.stage = "release"
        /\ \E wait \in Delays : ReleaseJob(id, wait, d.exceptions)
     \/ d.stage \in {"fail", "park"} /\ FailJob(id)
  /\ Done(w, id)
  /\ UNCHANGED <<clock, popNow, seen, records, command, history>>

(* failed.Log records an id once, and an error of it is only logged. *)
Log(w, id) ==
  /\ flight[w][id].stage = "log"
  /\ \/ records' = records \cup {id} /\ Smooth
     \/ Incident /\ UNCHANGED records
  /\ GoTo(w, id, "hook")
  /\ UNCHANGED <<queue, popNow, seen, command, history>>

(* The handler's own Failed, the last thing done for a parked job. *)
Hook(w, id) ==
  /\ flight[w][id].stage = "hook"
  /\ Done(w, id)
  /\ UNCHANGED <<queue, popNow, seen, records, command, incidents, history>>

(* The process dies and is started again: what it held stays reserved. *)
Crash(w) ==
  /\ Incident
  /\ popNow' = [popNow EXCEPT ![w] = 0]
  /\ seen' = [seen EXCEPT ![w] = [id \in Ids |-> NoRow]]
  /\ flight' = [flight EXCEPT ![w] = [id \in Ids |-> NoDelivery]]
  /\ UNCHANGED <<queue, records, command, history>>

-----------------------------------------------------------------------------
(* The operators' commands *)

Held(ids) == {id \in ids : \E w \in Workers : Holds(w, id)}

Step(o, id, step) == command' = [command EXCEPT ![o][id] = step]

(* queue:retry takes its ids one after the other: the record is found, the *)
(* driver is asked to un-park the job, a job it no longer holds is rebuilt *)
(* from the record, and then the record is forgotten.                      *)
RetryFind(o, id) ==
  /\ Incident
  /\ id \in records
  /\ \A i \in Ids : command[o][i] = "idle"
  /\ Step(o, id, "found")
  /\ UNCHANGED <<queue, workers, records, history>>

RetryUnpark(o, id) ==
  /\ command[o][id] = "found"
  /\ \/ Retry(id) /\ Step(o, id, "forget") /\ Smooth
     \/ ~Parked(id) /\ UNCHANGED jobs /\ Step(o, id, "rebuild") /\ Smooth
     \/ Incident /\ (Retry(id) \/ UNCHANGED jobs) /\ Step(o, id, "idle")
  /\ UNCHANGED <<clock, workers, records, history>>

(* A record without an action is not rebuilt, and the primary key refuses  *)
(* a job whose row is there: the record stays in both cases.               *)
RetryRebuild(o, id) ==
  /\ command[o][id] = "rebuild"
  /\ \/ Push(id, 0, ZeroAttributes) /\ Step(o, id, "forget") /\ Smooth
     \/ UNCHANGED jobs /\ Step(o, id, "idle") /\ Smooth
     \/ Incident /\ Push(id, 0, ZeroAttributes) /\ Step(o, id, "idle")
  /\ UNCHANGED <<clock, workers, records, history>>

RetryForget(o, id) ==
  /\ command[o][id] = "forget"
  /\ \/ records' = records \ {id} /\ Smooth
     \/ Incident /\ UNCHANGED records
  /\ Step(o, id, "idle")
  /\ UNCHANGED <<queue, workers, history>>

(* queue:forget, and one id of queue:flush or queue:prune-failed. *)
Forget(id) ==
  /\ Incident
  /\ id \in records
  /\ records' = records \ {id}
  /\ UNCHANGED <<queue, workers, command, history>>

(* queue:clear, and a stuck job deleted by its id. *)
ClearQueue ==
  /\ Incident
  /\ Clear
  /\ removed' = removed \cup Size
  /\ disturbed' = disturbed \cup Held(Size)
  /\ UNCHANGED <<clock, workers, records, command, pushed, finished,
                 parkings>>

DeleteStuck(id) ==
  /\ Incident
  /\ DeleteReserved(id)
  /\ removed' = removed \cup {id}
  /\ disturbed' = disturbed \cup Held({id})
  /\ UNCHANGED <<clock, workers, records, command, pushed, finished,
                 parkings>>

-----------------------------------------------------------------------------

PopStep(w) ==
  \/ PopSelect(w)
  \/ \E id \in Ids : PopClaim(w, id) \/ PopLost(w, id)
  \/ PopReturn(w)

(* A goroutine of the batch: it runs its job to a settlement. *)
ProcessStep(w, id) ==
  \/ Start(w, id)
  \/ HandlerSucceeds(w, id)
  \/ \E cause \in Causes : HandlerFails(w, id, cause)
  \/ \E how \in Middleware : MiddlewareSettles(w, id, how)
  \/ SettleDelete(w, id) \/ SettleRelease(w, id)
  \/ SettleFail(w, id) \/ SettlePark(w, id)
  \/ Log(w, id) \/ Hook(w, id)

RetryStep(o) ==
  \E id \in Ids : \/ RetryFind(o, id) \/ RetryUnpark(o, id)
                  \/ RetryRebuild(o, id) \/ RetryForget(o, id)

Fault ==
  \/ \E w \in Workers, id \in Ids : PopError(w, id) \/ SettleError(w, id)
  \/ \E w \in Workers : Crash(w)

Administer ==
  \/ \E id \in Ids : Forget(id) \/ DeleteStuck(id)
  \/ ClearQueue

Next ==
  \/ Tick
  \/ \E id \in Ids : PushJob(id)
  \/ \E w \in Workers : PopStep(w)
  \/ \E w \in Workers, id \in Ids : ProcessStep(w, id)
  \/ \E o \in Operators : RetryStep(o)
  \/ Fault
  \/ Administer

Spec == Init /\ [][Next]_vars

(* Time passes, a worker that runs keeps polling and finishes its Pop, and *)
(* a goroutine settles its job: the handler is bounded by the timeout its  *)
(* context carries.  Nothing is assumed of operators, or of pushes.        *)
FairSpec ==
  /\ Spec
  /\ WF_vars(Tick)
  /\ \A w \in Workers : WF_vars(PopStep(w))
  /\ \A w \in Workers, id \in Ids : WF_vars(ProcessStep(w, id))

-----------------------------------------------------------------------------
(* Properties *)

(* Types of the rows, of the deliveries and of what the operators hold.    *)
TypeOK ==
  /\ clock \in Nat \ {0}
  /\ jobs \in [Ids -> Row]
  /\ popNow \in [Workers -> Nat]
  /\ seen \in [Workers -> [Ids -> Row]]
  /\ flight \in [Workers -> [Ids -> Delivery]]
  /\ records \subseteq Ids
  /\ command \in [Operators -> [Ids -> CommandSteps]]
  /\ incidents \in Nat
  /\ pushed \subseteq Ids /\ finished \subseteq Ids /\ removed \subseteq Ids
  /\ parkings \subseteq Ids /\ disturbed \subseteq Ids

(* The lease is mutual exclusion.  As long as every delivery of a job was  *)
(* settled within its lease, was not taken out of the dead letter state    *)
(* and kept its row, no two workers hold the job, whatever crashed, failed *)
(* to be written or was claimed from a stale SELECT.                       *)
NoOverlap ==
  \A id \in Ids \ disturbed, v, w \in Workers :
    Holds(v, id) /\ Holds(w, id) => v = w

(* Why: an undisturbed delivery is backed by the table.  The row of a job  *)
(* some worker holds is live and reserved until the very time the worker   *)
(* was given, which has not passed.                                        *)
HeldUnderLease ==
  \A id \in Ids \ disturbed, w \in Workers :
    Holds(w, id) => /\ jobs[id].status = "live"
                    /\ jobs[id].reserved_until = flight[w][id].until
                    /\ clock <= flight[w][id].until

(* Nothing is lost: a job that was pushed is in the table until its work   *)
(* was done or an operator removed it.  Deleting is the last step, after   *)
(* the handler, and no other statement removes a row.                      *)
NoLostJob ==
  pushed \subseteq {id \in Ids : Exists(id)} \cup finished \cup removed

(* The dead letter list and the compensating hook only ever name a job     *)
(* whose park the driver accepted: park tells the driver first and stops   *)
(* on its error.                                                           *)
RecordedAfterParked ==
  \A id \in Ids :
    id \in records \/ (\E w \in Workers : flight[w][id].stage = "hook")
      => id \in parkings

(* A retry never resets the count of a job that is running: attempts go    *)
(* back only when no undisturbed delivery holds the job.                   *)
AttemptsOnlyGrowWhileHeld ==
  [][\A id \in Ids :
       /\ id \notin disturbed
       /\ \E w \in Workers : Holds(w, id)
       /\ jobs'[id].status # "none"
       => jobs'[id].attempts >= jobs[id].attempts]_vars

(* FailJob parks the job: "it stops being delivered".  A claim takes no    *)
(* parked row.  (The claim's WHERE does not ask.)                          *)
ParkedNotDelivered ==
  [][\A w \in Workers, id \in Ids :
       flight[w][id].stage = "none" /\ flight'[w][id].stage = "reserved"
         => ~Parked(id)]_vars

(* "The driver stops delivering it, and the record goes where the failed   *)
(* job commands read": a queue:retry that has put its job back forgets the *)
(* record of that failure, never that of a job which has been parked and   *)
(* recorded again.                                                         *)
RetryKeepsLaterFailure ==
  [][\A o \in Operators, id \in Ids :
       /\ command[o][id] = "forget" /\ command'[o][id] = "idle"
       /\ records # records'
       /\ \A w \in Workers : flight[w][id].stage # "log"
       => ~Parked(id)]_vars

(* DelayedSize "is the number PendingSize leaves out": a job whose time    *)
(* has not come is delayed and not pending.                                *)
PendingLeavesOutDelayed == PendingSize \cap DelayedSize = {}

(* The table under all of these statements is a job lifecycle: no lost,    *)
(* repeated or stale statement of a worker or an operator takes a job off  *)
(* the queue whose work was not done, or out of the dead letter state.     *)
Lifecycle ==
  INSTANCE JobLifecycle WITH status <- [id \in Ids |-> jobs[id].status],
                             done <- finished

ImplementsLifecycle == Lifecycle!Spec

(* At-least-once delivery ends: once processes and writes stop failing,    *)
(* every queued job is delivered again until it is deleted or parked.      *)
EventuallySettled ==
  \A id \in Ids : (jobs[id].status = "live") ~> (jobs[id].status # "live")

=============================================================================
