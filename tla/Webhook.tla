------------------------------ MODULE Webhook ------------------------------
(* The sending side of the webhook module: deliveries to one endpoint, the  *)
(* queued jobs that attempt them (claim, request, settlement, each a        *)
(* statement or a transaction of its own), and the operator's acts.  The    *)
(* queue is the at-least-once queue of DatabaseQueue: a job stays until its *)
(* run answers nil, and may be run twice when a worker outlives its lease.  *)
EXTENDS Integers, Functions

CONSTANTS
    Deliveries,
    Workers,
    Operators,
    MaxAttempts,    \* Policy.Tries, frozen in the row
    DisableAfter,   \* Policy.DisableAfter; 0 turns nothing off
    Lease,          \* Policy.Timeout and leaseHeadroom, in ticks
    Waits,          \* the ticks a failed attempt may wait for the next
    MaxCommands,    \* acts of operators in a behaviour (a bound)
    MaxIncidents,   \* crashes, failed statements, jobs run twice (a bound)
    Copies,         \* equal jobs queued at the same time (a bound)
    None

ASSUME WebhookAssumption ==
    /\ {MaxAttempts, Lease, Copies} \subseteq Nat \ {0}
    /\ {DisableAfter, MaxCommands, MaxIncidents} \subseteq Nat
    /\ Waits \subseteq Nat /\ Waits # {}
    /\ None \notin Workers

VARIABLES
    endpoint,   \* active, consecutive_failures, and whether the row is there
    row,        \* the row of each delivery
    jobs,       \* the queued DeliverJobs, and how far away each is available
    worker,     \* the job each worker is running
    operator,   \* what each operator read and is about to write
    history,    \* per delivery, the attempts recordAttempt wrote, by number
    mishaps,    \* what befell deliveries that a property exempts
    spent       \* incidents and commands so far

vars == <<endpoint, row, jobs, worker, operator, history, mishaps, spent>>

\* Attempts a delivery can come to: its plan, and one for every redelivery.
Counts == 0..(MaxAttempts + MaxCommands)

Triggers == {"scheduled", "manual"}

\* A job: the delivery, the attempts it had when it was scheduled, the trigger.
Jobs == [delivery: Deliveries, attempts: Counts, trigger: Triggers, copy: 1..Copies]

\* next and lease: how far away next_attempt_at and lease_until are.
Row(status, attempts, max, next) ==
    [status |-> status, attempts |-> attempts, max |-> max, token |-> None, lease |-> 0, next |-> next]

Unrecorded == Row("unrecorded", 0, 0, 0)

Idle == [at |-> "idle"]

Init ==
    /\ endpoint = [exists |-> TRUE, active |-> TRUE, failures |-> 0]
    /\ row = [d \in Deliveries |-> Unrecorded]
    /\ jobs = [j \in {} |-> 0]
    /\ worker = [w \in Workers |-> Idle]
    /\ operator = [o \in Operators |-> Idle]
    /\ history = [d \in Deliveries |-> [n \in Counts |-> 0]]
    /\ mishaps = {}
    /\ spent = [incidents |-> 0, commands |-> 0]

Incident ==
    /\ spent.incidents < MaxIncidents
    /\ spent' = [spent EXCEPT !.incidents = @ + 1]

At(w, step) == worker[w].at = step

Running == {worker[w].job : w \in {v \in Workers : ~At(v, "idle")}}

\* The jobs not in use that make the attempt after the given count: the queue
\* takes any number of equal jobs, the model Copies of them (a bound).
Free(d, attempts, trigger) ==
    {j \in [delivery: {d}, attempts: {attempts}, trigger: {trigger}, copy: 1..Copies] :
        j \notin DOMAIN jobs \union Running}

\* schedule: the job of the attempt after the given count.
schedule(d, attempts, trigger) == CHOOSE j \in Free(d, attempts, trigger) : TRUE

\* The queue with more jobs in it, each with how far away it is available.
Enqueue(more) ==
    [j \in DOMAIN jobs \union DOMAIN more |-> IF j \in DOMAIN jobs THEN jobs[j] ELSE more[j]]

----------------------------------------------------------------------------
(* Recording                                                                *)

\* record and insert: the row and its first job, in one transaction, once per
\* event.  Send and Test (trigger manual) take an endpoint that is off too.
Record(d, trigger) ==
    /\ row[d].status = "unrecorded"
    /\ endpoint.exists
    /\ Free(d, 0, trigger) # {}
    /\ row' = [row EXCEPT ![d] = Row("pending", 0, MaxAttempts, 0)]
    /\ jobs' = Enqueue([j \in {schedule(d, 0, trigger)} |-> 0])
    /\ UNCHANGED <<endpoint, worker, operator, history, mishaps, spent>>

----------------------------------------------------------------------------
(* The job                                                                  *)

\* The run answers nil, and the worker deletes the job in a step of its own.
Finished(w) == worker' = [worker EXCEPT ![w].at = "answered"]

\* The run answered an error: the job, if it is still there, is tried again
\* after the wait.
Again(w, wait) ==
    /\ worker' = [worker EXCEPT ![w] = Idle]
    /\ jobs' = [j \in DOMAIN jobs |-> IF j = worker[w].job THEN wait ELSE jobs[j]]

\* A worker reserves a job and claim reads the delivery and its endpoint.
Read(w, j) ==
    /\ At(w, "idle") /\ jobs[j] = 0
    /\ IF j \in Running
       THEN Incident /\ mishaps' = mishaps \union {<<j.delivery, "run twice">>}
       ELSE UNCHANGED <<mishaps, spent>>
    /\ worker' = [worker EXCEPT ![w] =
           [at |-> "claim", job |-> j, left |-> 0,
            seen |-> IF ~endpoint.exists THEN "gone" ELSE IF endpoint.active THEN "on" ELSE "off"]]
    /\ UNCHANGED <<endpoint, row, jobs, operator, history>>

\* A claim that does not wait for the lease.
ClaimableHeld(r, attempts) ==
    \/ r.status = "pending" /\ r.attempts = attempts /\ r.next = 0
    \/ r.status = "processing" /\ r.attempts = attempts + 1

\* The WHERE of the claim: due at the count the job carries, or abandoned in
\* the attempt after it.
Claimable(r, attempts) ==
    \/ r.status = "pending" /\ r.attempts = attempts /\ r.next = 0
    \/ r.status = "processing" /\ r.attempts = attempts + 1 /\ r.lease = 0

\* The claim: one conditional UPDATE, under a new token.  (A worker has one
\* claim at a time, so its name stands for the token.)
Claim(w) ==
    LET j == worker[w].job IN
    /\ At(w, "claim")
    /\ IF Claimable(row[j.delivery], j.attempts)
       THEN /\ row' = [row EXCEPT ![j.delivery] =
                  [@ EXCEPT !.status = "processing", !.attempts = j.attempts + 1, !.token = w, !.lease = Lease]]
            /\ worker' = [worker EXCEPT ![w] = [@ EXCEPT !.at = "claimed", !.left = Lease]]
       ELSE /\ worker' = [worker EXCEPT ![w].at = "unclaimed"]
            /\ UNCHANGED row
    /\ UNCHANGED <<endpoint, jobs, operator, history, mishaps, spent>>

\* An attempt in progress or not due yet: the job is asked for again later.
AskedAgain(r, attempts) ==
    \/ r.status = "processing" /\ r.attempts = attempts + 1 /\ r.lease > 0
    \/ r.status = "pending" /\ r.attempts = attempts /\ r.next > 0

\* unclaimed reads the row again; a job overtaken by another does nothing.
Unclaimed(w) ==
    LET j == worker[w].job IN
    /\ At(w, "unclaimed")
    /\ IF AskedAgain(row[j.delivery], j.attempts)
       THEN Again(w, IF row[j.delivery].status = "pending" THEN row[j.delivery].next ELSE row[j.delivery].lease)
       ELSE Finished(w) /\ UNCHANGED jobs
    /\ UNCHANGED <<endpoint, row, operator, history, mishaps, spent>>

\* The endpoint was off when it was read: the attempt is given back and the job
\* is done.
GiveBack(w) ==
    LET j == worker[w].job IN
    /\ At(w, "claimed") /\ worker[w].seen = "off" /\ j.trigger # "manual"
    /\ IF row[j.delivery].token = w
       THEN /\ row' = [row EXCEPT ![j.delivery] =
                  [@ EXCEPT !.status = "pending", !.attempts = j.attempts, !.token = None, !.lease = 0]]
            /\ mishaps' = IF endpoint.active THEN mishaps \union {<<j.delivery, "given back late">>} ELSE mishaps
       ELSE UNCHANGED <<row, mishaps>>
    /\ Finished(w)
    /\ UNCHANGED <<endpoint, jobs, operator, history, spent>>

\* attempt: the request goes out.
Attempt(w) ==
    /\ At(w, "claimed")
    /\ worker[w].seen # "off" \/ worker[w].job.trigger = "manual"
    /\ worker' = [worker EXCEPT ![w].at = "sending"]
    /\ UNCHANGED <<endpoint, row, jobs, operator, history, mishaps, spent>>

\* What the answer comes to, by classify and the policy.
Outcomes == {"delivered", "retryable", "permanent"}

\* settleEndpoint: deliveries in a row that gave up turn the endpoint off.
Settled(w, outcome, gaveUp) ==
    LET failures == endpoint.failures + 1 IN
    IF outcome = "delivered" THEN [endpoint EXCEPT !.failures = 0]
    ELSE IF ~gaveUp \/ worker[w].seen = "gone" \/ worker[w].job.trigger = "manual" THEN endpoint
    ELSE [endpoint EXCEPT !.failures = failures,
                          !.active = @ /\ ~(DisableAfter > 0 /\ failures >= DisableAfter)]

\* A settlement that asks only for the delivery.
OwnsAny(w) == row[worker[w].job.delivery].status \in {"pending", "processing"}

\* The fence of the settlement: the claim is still this one.
Owns(w) == row[worker[w].job.delivery].token = w

\* A failed attempt with one left is not queued.
ForgetNext(d, n, wait) == [j \in {} |-> wait]

\* The job of the attempt after a failed one.
NextJob(d, n, wait) == [j \in {schedule(d, n, "scheduled")} |-> wait]

\* settle, in one transaction: the delivery, its attempt, the next one queued,
\* the endpoint; nothing when another attempt took the claim over.
Settle(w, outcome) ==
    LET d == worker[w].job.delivery
        n == worker[w].job.attempts + 1
        again == outcome = "retryable" /\ n < row[d].max
        over(status, next) == Row(status, row[d].attempts, row[d].max, next)
    IN
    /\ At(w, "sending")
    \* Refused for good, without a request: there is nothing to sign with.
    /\ worker[w].seen = "gone" => outcome = "permanent"
    /\ Finished(w)
    /\ IF ~Owns(w) THEN UNCHANGED <<endpoint, row, jobs, history>>
       ELSE /\ \/ /\ again
                  /\ Free(d, n, "scheduled") # {}
                  /\ \E wait \in Waits :
                        /\ row' = [row EXCEPT ![d] = over("pending", wait)]
                        /\ jobs' = Enqueue(NextJob(d, n, wait))
               \/ /\ ~again
                  /\ row' = [row EXCEPT ![d] = over(IF outcome = "delivered" THEN "delivered" ELSE "failed", 0)]
                  /\ UNCHANGED jobs
            /\ history' = [history EXCEPT ![d][n] = IF @ < 2 THEN @ + 1 ELSE @]
            /\ endpoint' = IF endpoint.exists THEN Settled(w, outcome, ~again) ELSE endpoint
    /\ UNCHANGED <<operator, mishaps, spent>>

\* The worker deletes the job its run is done with.
DeleteJob(w) ==
    /\ At(w, "answered")
    /\ jobs' = Restrict(jobs, DOMAIN jobs \ {worker[w].job})
    /\ worker' = [worker EXCEPT ![w] = Idle]
    /\ UNCHANGED <<endpoint, row, operator, history, mishaps, spent>>

\* The process dies, or a statement or the transaction fails.
Fails(w) ==
    /\ Incident
    /\ ~At(w, "idle")
    /\ Again(w, 0)
    /\ UNCHANGED <<endpoint, row, operator, history, mishaps>>

----------------------------------------------------------------------------
(* Operators and time                                                       *)

Command ==
    /\ spent.commands < MaxCommands
    /\ spent' = [spent EXCEPT !.commands = @ + 1]

\* Enable, Disable and Update read the endpoint ...
Toggle(o, on) ==
    /\ operator[o] = Idle
    /\ Command
    /\ endpoint.exists
    /\ operator' = [operator EXCEPT ![o] = [at |-> "toggle", on |-> on, read |-> endpoint]]
    /\ UNCHANGED <<endpoint, row, jobs, worker, history, mishaps>>

\* Nothing is queued when the endpoint is turned on.
ResumeNone == [j \in {} |-> 0]

Waiting == {d \in Deliveries : row[d].status = "pending"}

\* resume queues again the deliveries the endpoint kept waiting.
Resume == [j \in {schedule(d, row[d].attempts, "scheduled") : d \in Waiting} |-> row[j.delivery].next]

\* ... and toggle saves the columns that changed since, and resumes, in one
\* transaction.
Save(o) ==
    LET read == operator[o].read
        on == operator[o].on
    IN
    /\ operator[o].at = "toggle"
    /\ endpoint' = IF ~endpoint.exists THEN endpoint
                   ELSE [endpoint EXCEPT !.active = IF on # read.active THEN on ELSE @,
                                         !.failures = IF on /\ read.failures # 0 THEN 0 ELSE @]
    /\ IF on /\ ~read.active
       THEN /\ \A d \in Waiting : Free(d, row[d].attempts, "scheduled") # {}
            /\ jobs' = Enqueue(Resume)
       ELSE UNCHANGED jobs
    /\ operator' = [operator EXCEPT ![o] = Idle]
    /\ UNCHANGED <<row, worker, history, mishaps, spent>>

\* Redeliver reads the delivery: one whose attempt is in progress is refused ...
Redeliver(o, d) ==
    /\ operator[o] = Idle
    /\ Command
    /\ endpoint.exists
    /\ \/ row[d].status \in {"pending", "delivered", "failed"}
       \/ row[d].status = "processing" /\ row[d].lease = 0
    /\ operator' = [operator EXCEPT ![o] = [at |-> "redeliver", delivery |-> d, read |-> row[d]]]
    /\ UNCHANGED <<endpoint, row, jobs, worker, history, mishaps>>

\* A delivery that used its attempts up gets no other.
SameAllowance(read) == read.max

\* A delivery that used its attempts up gets one more.
Allowance(read) == IF read.attempts >= read.max THEN read.attempts + 1 ELSE read.max

\* ... and moves it if it is still as it was read.
Move(o) ==
    LET d == operator[o].delivery
        read == operator[o].read
    IN
    /\ operator[o].at = "redeliver"
    /\ operator' = [operator EXCEPT ![o] = Idle]
    /\ IF row[d].attempts = read.attempts /\ row[d].status = read.status
       THEN /\ Free(d, read.attempts, "manual") # {}
            /\ row' = [row EXCEPT ![d] = Row("pending", read.attempts, Allowance(read), 0)]
            /\ jobs' = Enqueue([j \in {schedule(d, read.attempts, "manual")} |-> 0])
            /\ mishaps' = IF row[d].lease > 0 THEN mishaps \union {<<d, "overtaken">>} ELSE mishaps
       ELSE UNCHANGED <<row, jobs, mishaps>>
    /\ UNCHANGED <<endpoint, worker, history, spent>>

\* Delete: what is waiting fails at its next attempt.
Delete ==
    /\ endpoint.exists
    /\ Command
    /\ endpoint' = [endpoint EXCEPT !.exists = FALSE, !.active = FALSE]
    /\ UNCHANGED <<row, jobs, worker, operator, history, mishaps>>

\* clean removes a settled delivery that is old enough, and its attempts.
Clean(d) ==
    /\ row[d].status \in {"delivered", "failed"}
    /\ Command
    /\ row' = [row EXCEPT ![d] = Row("cleaned", 0, 0, 0)]
    /\ history' = [history EXCEPT ![d] = [n \in Counts |-> 0]]
    /\ UNCHANGED <<endpoint, jobs, worker, operator, mishaps>>

Sooner(n) == IF n > 0 THEN n - 1 ELSE 0

\* A tick passes, though not between a refused claim and the read that
\* explains it, which compares with the time of the claim.
Elapse ==
    /\ \A w \in Workers : ~At(w, "unclaimed")
    /\ \/ \E d \in Deliveries : row[d].next > 0 \/ row[d].lease > 0
       \/ \E j \in DOMAIN jobs : jobs[j] > 0
    /\ jobs' = [j \in DOMAIN jobs |-> Sooner(jobs[j])]
    /\ row' = [d \in Deliveries |-> [row[d] EXCEPT !.next = Sooner(@), !.lease = Sooner(@)]]
    /\ worker' = [w \in Workers |-> IF At(w, "idle") THEN Idle ELSE [worker[w] EXCEPT !.left = Sooner(@)]]
    /\ UNCHANGED <<endpoint, operator, history, mishaps, spent>>

Step(w) ==
    \/ \E j \in DOMAIN jobs \ Running : Read(w, j)
    \/ Claim(w) \/ Unclaimed(w) \/ GiveBack(w) \/ Attempt(w) \/ DeleteJob(w)
    \/ \E outcome \in Outcomes : Settle(w, outcome)

Next ==
    \/ \E d \in Deliveries, t \in Triggers : Record(d, t)
    \/ \E w \in Workers : Step(w) \/ Fails(w) \/ \E j \in DOMAIN jobs \intersect Running : Read(w, j)
    \/ \E o \in Operators :
          \/ \E on \in BOOLEAN : Toggle(o, on)
          \/ \E d \in Deliveries : Redeliver(o, d)
          \/ Save(o) \/ Move(o)
    \/ Delete
    \/ \E d \in Deliveries : Clean(d)
    \/ Elapse

Spec == Init /\ [][Next]_vars

\* Workers keep running, operators finish what they began, and time passes
\* however often a statement is under way.
FairSpec ==
    /\ Spec
    /\ \A w \in Workers : WF_vars(Step(w))
    /\ \A o \in Operators : WF_vars(Save(o) \/ Move(o))
    /\ SF_vars(Elapse)

----------------------------------------------------------------------------
(* Properties                                                               *)

EndpointType == [exists: BOOLEAN, active: BOOLEAN, failures: Nat]

RowType ==
    [status: {"unrecorded", "pending", "processing", "delivered", "failed", "cleaned"},
     attempts: Counts, max: Counts, token: Workers \union {None}, lease: 0..Lease, next: Nat]

WorkerType ==
    [at: {"claim", "unclaimed", "claimed", "sending", "answered"}, job: Jobs,
     left: 0..Lease, seen: {"on", "off", "gone"}]

OperatorType ==
    [at: {"toggle"}, on: BOOLEAN, read: EndpointType]
        \union [at: {"redeliver"}, delivery: Deliveries, read: RowType]

\* Types, and what the columns say of each other: a delivery has a token exactly
\* while it is being sent, and no more attempts than its plan allows, which
\* redeliveries lengthen by one at most each.
TypeOK ==
    /\ endpoint \in EndpointType
    /\ row \in [Deliveries -> RowType]
    /\ \A d \in Deliveries :
          /\ row[d].status = "processing" <=> row[d].token # None
          /\ row[d].attempts <= row[d].max
    /\ DOMAIN jobs \subseteq Jobs
    /\ worker \in [Workers -> {Idle} \union WorkerType]
    /\ operator \in [Operators -> {Idle} \union OperatorType]
    /\ history \in [Deliveries -> [Counts -> 0..2]]
    /\ mishaps \subseteq Deliveries \X {"run twice", "given back late", "overtaken"}
    /\ spent \in [incidents: 0..MaxIncidents, commands: 0..MaxCommands]

\* An attempt is settled once, by the claim that made it: no attempt number of
\* a delivery is in its history twice and none is ahead of its count, whatever
\* crashed, ran twice, was redelivered or given back.
SettledOnce ==
    \A d \in Deliveries : \A n \in Counts :
        history[d][n] <= 1 /\ (history[d][n] > 0 => n <= row[d].attempts)

\* Two workers never send the same delivery while both leases run: a second
\* one starts only after the first had its whole lease, except by a redelivery
\* that read the row before the attempt it overtakes was claimed.
OneSender ==
    \A w, v \in Workers :
        w # v /\ At(w, "sending") /\ At(v, "sending") /\ worker[w].job.delivery = worker[v].job.delivery
            => \/ worker[w].left = 0 \/ worker[v].left = 0
               \/ <<worker[w].job.delivery, "overtaken">> \in mishaps

\* A job that can make the attempt the delivery is at.
HasJob(d) ==
    \E j \in DOMAIN jobs : j.delivery = d
        /\ j.attempts = row[d].attempts - (IF row[d].status = "processing" THEN 1 ELSE 0)

Open(d) == row[d].status \in {"pending", "processing"}

\* Nothing befell the delivery that leaves it without a job.
Queued(d) == {<<d, "given back late">>, <<d, "run twice">>} \intersect mishaps = {}

\* While the endpoint is on, a delivery that is not settled has a job that will
\* attempt it, except one given back after the endpoint was turned on, and one
\* whose job two workers ran at once: the first to answer deletes it.
OpenHasJob ==
    endpoint.active => \A d \in Deliveries : Open(d) /\ Queued(d) => HasJob(d)

\* Every delivery is delivered or gives up, or its endpoint is off.
EventuallySettled ==
    \A d \in Deliveries : Open(d) ~> (~Open(d) \/ ~endpoint.active \/ ~Queued(d))

\* "Turning the endpoint on queues them again": no delivery to an endpoint that
\* is on is left without a job.
TurnedOnQueues == endpoint.active => \A d \in Deliveries : Open(d) => HasJob(d)

\* "A redelivery and the attempt it overtook never both send" while the attempt
\* has its lease.
NeverBothSend ==
    \A w, v \in Workers :
        w # v /\ At(w, "sending") /\ At(v, "sending") /\ worker[w].job.delivery = worker[v].job.delivery
            => worker[w].left = 0 \/ worker[v].left = 0
=============================================================================
