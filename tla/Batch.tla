------------------------------- MODULE Batch -------------------------------
(***************************************************************************)
(* Batches and chains of jobs (bus): one batch row that the workers count  *)
(* down, the callbacks that the counters trigger, and the chain a batch    *)
(* may be a link of.                                                       *)
(*                                                                         *)
(* A process is a worker or the one that dispatches the batch: a request,  *)
(* or the worker that runs the ChainedBatch job.  What it does to the row, *)
(* the queue and the callbacks is a list of calls, and each call is one    *)
(* step; so is the read and the conditional write of a report.  The jobs   *)
(* are delivered at least once, by workers that run the                    *)
(* SkipIfBatchCancelled and ReportToBatch middleware.                      *)
(***************************************************************************)
EXTENDS Integers, FiniteSets, Sequences, Functions

CONSTANTS Jobs,
          Links,          \* the chain's links after the batch, a sequence
          Setups,         \* who dispatches what, of SetupType
          Workers, Request,
          MaxTries,
          MaxCopies,      \* bound: how often a link is pushed
          MaxIncidents    \* bound: faults and operator commands

(* Who dispatches the batch, with which jobs, whether it allows failures,  *)
(* and which jobs an Add puts in later.                                    *)
SetupType == [origin : {"dispatch", "afterResponse", "chain", "chainReported"},
              allowFailures : BOOLEAN, described : SUBSET Jobs, extra : SUBSET Jobs]

ASSUME BatchAssumption ==
  /\ IsFiniteSet(Jobs) /\ IsFiniteSet(Workers)
  /\ Request \notin Workers /\ "none" \notin Workers \cup {Request}
  \* A job of the batch is not a link of the chain.
  /\ Jobs \cap ((1..Len(Links)) \X (1..MaxCopies)) = {}
  /\ Links \in Seq(Range(Links)) /\ Links # <<>>
  /\ Setups \subseteq SetupType
  /\ \A s \in Setups : s.described # {} /\ s.described \cap s.extra = {}
  /\ MaxTries \in Nat \ {0} /\ MaxCopies \in Nat /\ MaxIncidents \in Nat

VARIABLES setup,          \* what the batch was described with
          row,            \* the batch's row of job_batches
          status,         \* status[m]: where message m is on the queue
          attempts,       \* attempts[m]: how often it was delivered; 0 once it is settled
          holder,         \* holder[m]: whose delivery of m is in force
          proc,           \* proc[p]: what process p is doing
          fired,          \* fired[c]: how often callback c was pushed
          incidents,
          \* What happened, for the properties; no step reads them.
          reports,        \* reports[j]: what job j last reported
          mishaps         \* what went wrong, of Mishaps

vars == <<setup, row, status, attempts, holder, proc, fired,
          incidents, reports, mishaps>>
ghosts == <<reports, mishaps>>

origin == setup.origin
Described == setup.described
Extra == setup.extra
(* The n-th message that carries the i-th link. *)
LinkMessages == (1..Len(Links)) \X (1..MaxCopies)
Messages == Jobs \cup LinkMessages
Procs == Workers \cup {Request}
(* Before, Progress and Failure are left out: pushing them is one more     *)
(* call that may fail, and no counter is tested for it.                    *)
Callbacks == {"Then", "Catch", "Finally", "ChainCatch"}
Chained == origin \in {"chain", "chainReported"}

(* doubled: a job that had reported success did so again.  again: a job    *)
(* that had reported failed again, or succeeded on a retry.  swapped: a    *)
(* conditional write went through although the failed list had changed.    *)
(* overtaken: an Add raised the counters of a batch some worker was about  *)
(* to mark finished.  lost: a call was refused, or its process died before *)
(* making it.  unreported: a job was parked without being run again.       *)
Mishaps == {"doubled", "again", "swapped", "overtaken", "lost", "unreported", "deleted"}

NoRow == [exists |-> FALSE, total |-> 0, pending |-> 0, failed |-> {},
          finished |-> FALSE, cancelled |-> FALSE]
NoCounts == [pending |-> 0, failed |-> {}]
Idle == [step |-> "idle", msg |-> "none", try |-> 0, failing |-> FALSE,
         before |-> NoCounts, todo |-> <<>>, erred |-> FALSE]

Incident == incidents < MaxIncidents /\ incidents' = incidents + 1

-----------------------------------------------------------------------------
(* The calls, and the lists of them that make an operation. *)
Call(op) == <<op, "none">>
Push(m) == <<"push", m>>
Callback(c) == <<"callback", c>>
InOrder(jobs) == CHOOSE order \in Injection(1..Cardinality(jobs), jobs) : TRUE
Pushes(jobs) == [n \in 1..Cardinality(jobs) |-> Push(InOrder(jobs)[n])]
When(condition, calls) == IF condition THEN calls ELSE <<>>

DispatchCalls == <<Call("store")>> \o Pushes(Described)

(* Mutant of AddCalls: the jobs are pushed before the counter is raised. *)
PushThenRaise(jobs) == Pushes(jobs) \o <<<<"raise", Cardinality(jobs)>>>>

(* Batch.Add. *)
AddCalls(jobs) == <<<<"raise", Cardinality(jobs)>>>> \o Pushes(jobs)

(* attachRemainderOfChainToEndOfBatch: the next link is the Finally. *)
FinallyCall == IF Chained THEN <<"link", 1>> ELSE Callback("Finally")

(* Mutant of AllJobsHaveRanExactlyOnce: off by one. *)
AllButOne(counts) == counts.pending - Cardinality(counts.failed) \in {0, 1}

AllJobsHaveRanExactlyOnce(counts) ==
  counts.pending - Cardinality(counts.failed) = 0

(* What a report triggers, from the counters it left behind. *)
RecordSuccessfulJob(counts) ==
  When(counts.pending = 0, <<Call("finish"), Callback("Then")>>)
  \o When(AllJobsHaveRanExactlyOnce(counts), <<FinallyCall>>)

(* Mutant of FirstFailure: there are failures. *)
AnyFailure(counts) == counts.failed # {}

FirstFailure(counts) == Cardinality(counts.failed) = 1

RecordFailedJob(counts) ==
  When(FirstFailure(counts) /\ ~setup.allowFailures, <<Call("cancel")>>)
  \o When(FirstFailure(counts), <<Callback("Catch")>>)
  \o When(AllJobsHaveRanExactlyOnce(counts), <<FinallyCall>>)

(* DispatchNextJobInChain and InvokeChainCatchCallbacks, for the i-th link *)
(* after the batch; the batch itself is link 0.                            *)
ChainCalls(i, failing) ==
  CASE failing -> <<Callback("ChainCatch")>>
    [] ~failing /\ i < Len(Links) -> <<<<"link", i + 1>>>>
    [] OTHER -> <<>>

-----------------------------------------------------------------------------
Begin(step, calls) == [Idle EXCEPT !.step = step, !.todo = calls]

Init ==
  /\ setup \in Setups
  /\ row = NoRow
  /\ status = [m \in Messages |-> "none"]
  /\ attempts = [m \in Messages |-> 0]
  /\ holder = [m \in Messages |-> "none"]
  /\ proc = [p \in Procs |->
               IF p # Request THEN Idle
               ELSE IF origin = "afterResponse"
               THEN Begin("respond", <<Call("store")>>)
               ELSE Begin("dispatch", DispatchCalls)]
  /\ fired = [c \in Callbacks |-> 0]
  /\ incidents = 0
  /\ reports = [j \in Jobs |-> "none"] /\ mishaps = {}

-----------------------------------------------------------------------------
(* One call of a list, as the row, the queue and the callbacks see it. *)
RowAfter(call) ==
  CASE call[1] = "store" ->
         [NoRow EXCEPT !.exists = TRUE, !.total = Cardinality(Described),
                       !.pending = Cardinality(Described)]
    [] call[1] = "raise" ->
         [row EXCEPT !.total = @ + call[2], !.pending = @ + call[2], !.finished = FALSE]
    [] call[1] = "finish" -> [row EXCEPT !.finished = TRUE]
    [] call[1] = "cancel" /\ ~row.cancelled ->
         [row EXCEPT !.cancelled = TRUE, !.finished = TRUE]
    [] call[1] = "delete" -> NoRow
    [] OTHER -> row

(* The message a call puts on the queue: of a link, the first unused copy. *)
Queues(call, m) ==
  \/ call = Push(m)
  \/ /\ call[1] = "link" /\ m \in LinkMessages /\ m[1] = call[2]
     /\ \A n \in 1..MaxCopies : (status[<<m[1], n>>] = "none") <=> (n >= m[2])

Refused(call) == call[1] \in {"raise", "finish", "cancel"} /\ ~row.exists
Overtakes(call) ==
  call[1] = "raise" /\ \E w \in Workers : Call("finish") \in Range(proc[w].todo)

MakeCall(p) ==
  LET call == Head(proc[p].todo) IN
  /\ proc[p].todo # <<>>
  /\ ~Refused(call)
  /\ row' = RowAfter(call)
  /\ status' = [m \in Messages |-> IF Queues(call, m) THEN "queued" ELSE status[m]]
  /\ fired' = [c \in Callbacks |-> fired[c] + IF call = Callback(c) THEN 1 ELSE 0]
  /\ proc' = [proc EXCEPT ![p].todo = Tail(@)]
  /\ mishaps' = mishaps \cup (IF Overtakes(call) THEN {"overtaken"} ELSE {})
  /\ UNCHANGED <<setup, attempts, holder, incidents, reports>>

(* What is still called after call returned an error: Dispatch abandons    *)
(* the batch, Add gives up and Terminating then deletes it, and a report   *)
(* goes on.                                                                *)
AfterError(step, call, rest) ==
  CASE step = "dispatch" /\ call[1] = "push" -> <<Call("cancel")>>
    [] step = "terminate" /\ call[1] # "delete" -> <<Call("delete")>>
    [] step = "report" -> rest
    [] OTHER -> <<>>

CallFails(p) ==
  LET todo == proc[p].todo IN
  /\ todo # <<>>
  /\ IF Refused(Head(todo)) THEN UNCHANGED incidents ELSE Incident
  /\ proc' = [proc EXCEPT ![p] = [@ EXCEPT !.erred = TRUE,
                 !.todo = AfterError(proc[p].step, Head(todo), Tail(todo))]]
  /\ mishaps' = mishaps \cup {"lost"}
  /\ UNCHANGED <<setup, row, status, attempts, holder, fired, reports>>

-----------------------------------------------------------------------------
(* The process that dispatches the batch: when its list is through. *)
Proceed(next) ==
  /\ proc' = [proc EXCEPT ![Request] = next]
  /\ UNCHANGED <<setup, row, status, attempts, holder, fired,
                 incidents, ghosts>>
Through(step) == proc[Request].step = step /\ proc[Request].todo = <<>>

(* Dispatch returned: the middleware, where it runs, reports the link. *)
Dispatched ==
  /\ Through("dispatch")
  /\ Proceed(IF origin = "chainReported"
             THEN Begin("report", ChainCalls(0, proc[Request].erred))
             ELSE IF Chained \/ proc[Request].erred THEN Begin("done", <<>>)
             ELSE Begin("idle", <<>>))

(* Dispatcher.Terminating: the response of DispatchAfterResponse is out. *)
Terminating ==
  /\ Through("respond") /\ ~proc[Request].erred
  /\ Proceed(Begin("terminate", AddCalls(Described)))

Add ==
  /\ Through("idle") /\ Extra # {}
  /\ Proceed(Begin("add", AddCalls(Extra)))

-----------------------------------------------------------------------------
(* A worker.  A job that asks Batching and finds its batch cancelled skips *)
(* its work, which is a success; one that cannot read its batch fails.     *)
Outcomes(m) ==
  IF m \in Jobs /\ ~row.exists THEN {"retried", "final"}
  ELSE IF m \in Jobs /\ row.cancelled THEN {"ok"}
  ELSE {"ok", "retried", "final"}

(* ReportToBatch reports a success and the failure the job is parked for,  *)
(* and not a failure that will be retried.                                 *)
Handled(m, outcome, try) ==
  LET delivery == [Idle EXCEPT !.msg = m, !.try = try, !.failing = (outcome = "final")] IN
  IF outcome = "retried" THEN [delivery EXCEPT !.step = "report", !.erred = TRUE]
  ELSE IF m \in Jobs THEN [delivery EXCEPT !.step = "find"]
  ELSE [delivery EXCEPT !.step = "report", !.todo = ChainCalls(m[1], outcome = "final")]

Exceeded(m) == attempts[m] >= MaxTries

Deliver(w, m) ==
  /\ proc[w].step = "idle" /\ status[m] = "queued" /\ ~Exceeded(m)
  /\ attempts' = [attempts EXCEPT ![m] = @ + 1]
  /\ status' = [status EXCEPT ![m] = "held"]
  /\ holder' = [holder EXCEPT ![m] = w]
  /\ \E outcome \in Outcomes(m) :
       /\ outcome = "retried" => attempts'[m] < MaxTries
       /\ proc' = [proc EXCEPT ![w] = Handled(m, outcome, attempts'[m])]
  /\ UNCHANGED <<setup, row, fired, incidents, ghosts>>

(* MarkJobAsFailedIfAlreadyExceedsMaxAttempts: no middleware runs. *)
ParkExceeded(w, m) ==
  /\ proc[w].step = "idle" /\ status[m] = "queued" /\ Exceeded(m)
  /\ status' = [status EXCEPT ![m] = "parked"]
  /\ attempts' = [attempts EXCEPT ![m] = 0]
  /\ mishaps' = mishaps \cup {"unreported"}
  /\ UNCHANGED <<setup, row, holder, proc, fired,
                 incidents, reports>>

-----------------------------------------------------------------------------
(* A report: DecrementPendingJobs or IncrementFailedJobs. *)
Applied(counts, m, failing) ==
  IF failing THEN [counts EXCEPT !.failed = @ \cup {m}]
  ELSE [pending |-> counts.pending - 1, failed |-> counts.failed \ {m}]

Counts == [pending |-> row.pending, failed |-> row.failed]
SameCounters(a, b) ==
  a.pending = b.pending /\ Cardinality(a.failed) = Cardinality(b.failed)

(* The report of w is in, with the counters it leaves. *)
Reported(w, counts) ==
  LET m == proc[w].msg  failing == proc[w].failing IN
  /\ proc' = [proc EXCEPT ![w] = [@ EXCEPT !.step = "report", !.before = NoCounts,
                 !.todo = IF failing THEN RecordFailedJob(counts)
                          ELSE RecordSuccessfulJob(counts)]]
  /\ reports' = [reports EXCEPT ![m] =
                   IF failing /\ @ # "success" THEN "failed" ELSE "success"]
  /\ mishaps' = mishaps
       \cup (IF reports[m] = "success" THEN {"doubled"} ELSE {})
       \cup (IF reports[m] = "failed" THEN {"again"} ELSE {})
       \cup (IF proc[w].step = "write" /\ row.failed # proc[w].before.failed
             THEN {"swapped"} ELSE {})

(* update reads the row.  A report that moves no counter writes nothing. *)
Find(w) ==
  LET after == Applied(Counts, proc[w].msg, proc[w].failing) IN
  /\ proc[w].step = "find"
  /\ \/ /\ ~row.exists
        /\ proc' = [proc EXCEPT ![w] = [@ EXCEPT !.step = "report", !.erred = TRUE]]
        /\ UNCHANGED ghosts
     \/ /\ row.exists /\ SameCounters(Counts, after)
        /\ Reported(w, after)
     \/ /\ row.exists /\ ~SameCounters(Counts, after)
        /\ proc' = [proc EXCEPT ![w] = [@ EXCEPT !.step = "write", !.before = Counts]]
        /\ UNCHANGED ghosts
  /\ UNCHANGED <<setup, row, status, attempts, holder, fired, incidents>>

(* Mutant of Unmoved: the UPDATE compares nothing. *)
AnyRow(before) == row.exists

(* What the conditional UPDATE compares: the counters, not the list. *)
Unmoved(before) == row.exists /\ SameCounters(Counts, before)

(* Mutant of Write: a lost race is tried again with the counters read      *)
(* before it.                                                              *)
WriteAgain(w) ==
  LET after == Applied(proc[w].before, proc[w].msg, proc[w].failing) IN
  /\ proc[w].step = "write" /\ Unmoved(proc[w].before)
  /\ row' = [row EXCEPT !.pending = after.pending, !.failed = after.failed]
  /\ Reported(w, after)
  /\ UNCHANGED <<setup, status, attempts, holder, fired, incidents>>

(* The conditional UPDATE; the worker that lost the race reads again. *)
Write(w) ==
  LET after == Applied(proc[w].before, proc[w].msg, proc[w].failing) IN
  /\ proc[w].step = "write"
  /\ \/ /\ Unmoved(proc[w].before)
        /\ row' = [row EXCEPT !.pending = after.pending, !.failed = after.failed]
        /\ Reported(w, after)
     \/ /\ ~Unmoved(proc[w].before)
        /\ proc' = [proc EXCEPT ![w] = [@ EXCEPT !.step = "find", !.before = NoCounts]]
        /\ UNCHANGED <<row, ghosts>>
  /\ UNCHANGED <<setup, status, attempts, holder, fired, incidents>>

(* The worker settles the delivery, if it still is the one in force: a     *)
(* report that could not make all its calls is an error of the job.        *)
Settle(w) ==
  LET me == proc[w]
      settled == IF ~me.failing /\ ~me.erred THEN "done"
                 ELSE IF me.failing \/ me.try >= MaxTries THEN "parked"
                 ELSE "queued" IN
  /\ me.step = "report" /\ me.todo = <<>>
  /\ proc' = [proc EXCEPT ![w] = Idle]
  /\ status' = [m \in Messages |-> IF holder[m] = w THEN settled ELSE status[m]]
  /\ holder' = [m \in Messages |-> IF holder[m] = w THEN "none" ELSE holder[m]]
  /\ attempts' = [m \in Messages |-> IF holder[m] = w /\ settled # "queued" THEN 0
                                     ELSE attempts[m]]
  /\ UNCHANGED <<setup, row, fired, incidents, ghosts>>

-----------------------------------------------------------------------------
(* Faults and operators.  A lease that is not extended, or whose worker    *)
(* died, ends: the message is delivered again.                             *)
LeaseEnds(w) ==
  /\ status' = [m \in Messages |-> IF holder[m] = w THEN "queued" ELSE status[m]]
  /\ holder' = [m \in Messages |-> IF holder[m] = w THEN "none" ELSE holder[m]]
  /\ UNCHANGED <<setup, row, attempts, fired, reports>>

Overrun(w) ==
  /\ Incident
  /\ \E m \in Messages : holder[m] = w
  /\ LeaseEnds(w)
  /\ UNCHANGED <<proc, mishaps>>

Crash(p) ==
  /\ Incident
  /\ proc[p].step \notin {"idle", "done"}
  /\ proc' = [proc EXCEPT ![p] = IF p = Request THEN Begin("done", <<>>) ELSE Idle]
  /\ mishaps' = mishaps \cup (IF p = Request \/ proc[p].todo # <<>> THEN {"lost"} ELSE {})
  /\ LeaseEnds(p)

Retry(m) ==
  /\ Incident
  /\ status[m] = "parked"
  /\ status' = [status EXCEPT ![m] = "queued"]
  /\ UNCHANGED <<setup, row, attempts, holder, proc, fired, ghosts>>

Cancel ==
  /\ Incident
  /\ row.exists
  /\ row' = RowAfter(Call("cancel"))
  /\ UNCHANGED <<setup, status, attempts, holder, proc, fired, ghosts>>

(* Batch.Delete, Prune, PruneUnfinished and PruneCancelled. *)
Delete ==
  /\ Incident
  /\ row.exists
  /\ row' = NoRow
  /\ mishaps' = mishaps \cup {"deleted"}
  /\ UNCHANGED <<setup, status, attempts, holder, proc, fired, reports>>

WorkerStep(w) ==
  \/ \E m \in Messages : Deliver(w, m) \/ ParkExceeded(w, m)
  \/ Find(w) \/ Write(w) \/ Settle(w)

Next ==
  \/ \E p \in Procs : MakeCall(p) \/ CallFails(p) \/ Crash(p)
  \/ Dispatched \/ Terminating \/ Add
  \/ \E w \in Workers : WorkerStep(w) \/ Overrun(w)
  \/ \E m \in Messages : Retry(m)
  \/ Cancel \/ Delete

Spec == Init /\ [][Next]_vars

(* The workers run their steps, and the process that began to dispatch the *)
(* batch goes on with it.                                                  *)
FairSpec ==
  /\ Spec
  /\ \A p \in Procs : WF_vars(MakeCall(p))
  /\ \A w \in Workers : WF_vars(WorkerStep(w))
  /\ WF_vars(Dispatched)

-----------------------------------------------------------------------------
Without(some) == mishaps \cap some = {}
Raised == row.total > Cardinality(Described)
LinkPushed == \E n \in 1..MaxCopies : status[<<1, n>>] # "none"
Closings == fired["Finally"] + Cardinality({n \in 1..MaxCopies : status[<<1, n>>] # "none"})
Allowed == IF Raised THEN 2 ELSE 1

(* The counters are the reports: pending is what has not succeeded and the *)
(* failed list is who reported a failure last, however the reports of      *)
(* several workers interleave.  Not so once a job that had succeeded is    *)
(* reported again, which is counted again, nor once the failed list was    *)
(* exchanged under equal counters.                                         *)
CountersExact ==
  row.exists /\ Without({"doubled", "swapped"}) =>
    /\ row.pending = row.total - Cardinality({j \in Jobs : reports[j] = "success"})
    /\ row.failed = {j \in Jobs : reports[j] = "failed"}

(* A batch that finished without being cancelled has no job on the queue   *)
(* that did not succeed; Add raises the counter before it pushes for this. *)
(* An Add between the last report and MarkAsFinished can break it.         *)
FinishedMeansSucceeded ==
  row.finished /\ ~row.cancelled /\ Without({"doubled", "swapped", "overtaken"}) =>
    \A j \in Jobs : status[j] # "none" => reports[j] = "success"

(* Then is pushed at most once, and once more when an Add reopened the     *)
(* batch, whatever is delivered twice: the counter passes zero once.  So   *)
(* are Catch and Finally (or the next link), as long as no job reports     *)
(* twice: a retry of a parked job is reported again and fires them again.  *)
CallbacksOnce ==
  row.exists =>
    /\ fired["Then"] <= Allowed
    /\ Without({"doubled", "again", "swapped"}) => fired["Catch"] <= 1 /\ Closings <= Allowed

(* The link after a batch is not pushed before every job of the batch has  *)
(* reported (chainedbatch.go).                                             *)
LinkAfterBatch ==
  LinkPushed /\ Without({"doubled", "swapped"}) =>
    \A j \in Described : reports[j] # "none"

(* TotalJobs is how many jobs the batch holds: once the calls that put     *)
(* them there are through, that many were pushed.                          *)
TotalCountsJobs ==
  row.exists /\ proc[Request].todo = <<>> /\ proc[Request].step # "respond"
     /\ Without({"lost"}) =>
    row.total = Cardinality({j \in Jobs : status[j] # "none"})

(* The failed list names the jobs that reported a failure last: a          *)
(* compare-and-set that compares the counters alone does not keep it.      *)
FailedListExact ==
  row.exists /\ Without({"doubled"}) =>
    row.failed = {j \in Jobs : reports[j] = "failed"}

(* A batch whose row is written is closed, by Finally or by the next link, *)
(* unless something befell it: no report waits for another.  Not one that  *)
(* DispatchAfterResponse stored: its counters stand at twice the jobs, and *)
(* no report brings them to zero (finding 8 of the README).                *)
BatchCloses ==
  (row.exists /\ origin # "afterResponse") ~> (Closings > 0 \/ mishaps # {})

=============================================================================
