----------------------------- MODULE RedisQueue -----------------------------
(***************************************************************************)
(* The RESP driver (queue/connectors/redis) and the workers and operators  *)
(* that use it.  A job is a body in a hash and its id in one of three      *)
(* sorted sets.  Every operation but Push and Clear is an optimistic       *)
(* transaction: WATCH one set and look the id up in it, read the body      *)
(* (which is not watched), then EXEC, which is refused and begun again     *)
(* when the watched set changed.  Each of these is a step of its own.      *)
(*                                                                         *)
(* A score of 0 is "not a member"; the clock starts at 1.  Of a body only  *)
(* the attempts are kept.                                                  *)
(***************************************************************************)
EXTENDS WorkerPolicy, FiniteSets

CONSTANTS Ids, Workers, Operators,
          Commands,       \* what operators do: retry, rebuild, clear
          Waits,          \* the delays a push and a release ask for
          Lease, Concurrency,
          MaxClock,       \* bound: the clock stops here
          FaultHorizon,   \* bound: things go wrong before this time only
          MaxIncidents    \* bound: and at most this often

ASSUME RedisAssumption ==
  /\ Commands \subseteq {"retry", "rebuild", "clear"}
  /\ Waits \subseteq Nat
  /\ Lease \in Nat \ {0} /\ Concurrency \in Nat \ {0}
  /\ MaxClock \in Nat /\ FaultHorizon \in Nat /\ MaxIncidents \in Nat

VARIABLES clock,
          scheduled,      \* scheduled[id]: when id becomes eligible
          leased,         \* leased[id]: when the lease of id ends
          parked,         \* ids that gave up
          bodies,         \* bodies[id]: the attempts in its stored body
          pop,            \* pop[w]: the Pop w is in
          held,           \* held[w][id]: the delivery of id that w holds
          tx,             \* tx[w][id]: the transaction w runs for id
          cmd,            \* cmd[o]: the command o runs
          incidents,
          \* What happened, for the properties; no step reads them but
          \* recorded, the ids the failed job list has ever named.
          pushed, finished, removed, recorded,
          mishaps,        \* mishaps[id]: what befell id, of Mishaps
          owner           \* owner[id]: who made the lease id is under

store == <<scheduled, leased, parked, bodies>>
ghosts == <<pushed, finished, removed, recorded, mishaps, owner>>
vars == <<clock, scheduled, leased, parked, bodies, pop, held, tx, cmd,
          incidents, pushed, finished, removed, recorded, mishaps, owner>>

NoBody == -1

(* A delivery outlived its lease; a Clear listed the job or found it in    *)
(* the set it deleted; the job was pushed again beside a copy of itself;   *)
(* its attempts were set back to zero.                                     *)
Mishaps == {"overrun", "cleared", "doubled", "reset"}

Settling == {"delete", "release", "fail"}
NoTx == [op |-> "none", step |-> "none", at |-> 0, attempts |-> 0,
         clean |-> TRUE]
NoHold == [attempts |-> 0, until |-> 0]
Idle == [step |-> "idle", now |-> 0, todo |-> {}]
NoCommand == [step |-> "idle", ids |-> {}, clean |-> TRUE, at |-> 1]

Holds(w, id) == held[w][id] # NoHold
(* A fault, or the start of a command. *)
Incident ==
  /\ clock < FaultHorizon
  /\ incidents < MaxIncidents
  /\ incidents' = incidents + 1
Marked(ids, mishap) ==
  [id \in Ids |-> IF id \in ids THEN mishaps[id] \cup {mishap} ELSE mishaps[id]]
Delays == {delay \in Waits : clock + delay <= MaxClock}

(* Mutants of Watches: a recovery, a settlement or a claim that commits    *)
(* without having watched the set it takes the id out of.                  *)
RecoverUnwatched(op) ==
  CASE op = "claim" -> "scheduled" [] op \in Settling -> "leased" [] OTHER -> "none"
SettleUnwatched(op) ==
  CASE op = "claim" -> "scheduled" [] op = "recover" -> "leased" [] OTHER -> "none"
ClaimUnwatched(op) ==
  IF op \in Settling \cup {"recover"} THEN "leased" ELSE "none"

(* The set a transaction watches. *)
Watches(op) ==
  CASE op = "claim" -> "scheduled"
    [] op \in Settling \cup {"recover"} -> "leased"
    [] OTHER -> "none"

(* A write to the sets named by keys: no transaction that watches one of   *)
(* them can commit any more.                                               *)
Touched(keys) ==
  [w \in Workers |-> [id \in Ids |->
     IF Watches(tx[w][id].op) \in keys
     THEN [tx[w][id] EXCEPT !.clean = FALSE] ELSE tx[w][id]]]
Touch(keys) == tx' = Touched(keys)

(* The same by a transaction of w for id, which is over. *)
CommitTx(keys, w, id) == tx' = [Touched(keys) EXCEPT ![w][id] = NoTx]

(* Retry watches the parked set: no other one under way can commit. *)
TouchParked ==
  [o \in Operators |-> IF cmd[o].step \in {"read", "exec"}
                       THEN [cmd[o] EXCEPT !.clean = FALSE] ELSE cmd[o]]

EndTx(w, id) == tx' = [tx EXCEPT ![w][id] = NoTx]

Init ==
  /\ clock = 1 /\ incidents = 0
  /\ scheduled = [id \in Ids |-> 0] /\ leased = [id \in Ids |-> 0]
  /\ parked = {} /\ bodies = [id \in Ids |-> NoBody]
  /\ pop = [w \in Workers |-> Idle]
  /\ held = [w \in Workers |-> [id \in Ids |-> NoHold]]
  /\ tx = [w \in Workers |-> [id \in Ids |-> NoTx]]
  /\ cmd = [o \in Operators |-> NoCommand]
  /\ pushed = {} /\ finished = {} /\ removed = {} /\ recorded = {}
  /\ mishaps = [id \in Ids |-> {}] /\ owner = [id \in Ids |-> "nobody"]

Tick ==
  /\ clock < MaxClock
  /\ clock' = clock + 1
  /\ mishaps' = Marked({id \in Ids : \E w \in Workers :
                          Holds(w, id) /\ held[w][id].until <= clock + 1}, "overrun")
  /\ UNCHANGED <<store, pop, held, tx, cmd, incidents, pushed, finished,
                 removed, recorded, owner>>

(* Push, PushOn, Later and each job of Bulk: body and id in one MULTI. *)
Push(id, runAt) ==
  /\ bodies' = [bodies EXCEPT ![id] = 0]
  /\ scheduled' = [scheduled EXCEPT ![id] = runAt]
  /\ Touch({"scheduled"})
  /\ UNCHANGED <<leased, parked>>

PushJob(id) ==
  /\ id \notin pushed
  /\ \E delay \in Delays : Push(id, clock + delay)
  /\ pushed' = pushed \cup {id}
  /\ UNCHANGED <<clock, pop, held, cmd, incidents, finished, removed,
                 recorded, mishaps, owner>>

-----------------------------------------------------------------------------
(* Pop *)

NoTxOf(w) == \A id \in Ids : tx[w][id] = NoTx
Skip(w, id) == pop' = [pop EXCEPT ![w].todo = @ \ {id}]

(* A mutant of PopStart: the expired leases are not looked up. *)
PopStartForgets(w) ==
  /\ pop[w] = Idle
  /\ \A id \in Ids : ~Holds(w, id)
  /\ pop' = [pop EXCEPT ![w] = [step |-> "recover", now |-> clock, todo |-> {}]]
  /\ UNCHANGED <<clock, store, held, tx, cmd, incidents, ghosts>>

(* A worker asks again once its last batch is settled. *)
PopStart(w) ==
  /\ pop[w] = Idle
  /\ \A id \in Ids : ~Holds(w, id)
  /\ pop' = [pop EXCEPT ![w] =
       [step |-> "recover", now |-> clock,
        todo |-> {id \in Ids : leased[id] # 0 /\ leased[id] <= clock}]]
  /\ UNCHANGED <<clock, store, held, tx, cmd, incidents, ghosts>>

recoverLeaseWatch(w, id) ==
  /\ pop[w].step = "recover" /\ id \in pop[w].todo /\ NoTxOf(w)
  /\ IF leased[id] = 0 \/ leased[id] > pop[w].now
     THEN Skip(w, id) /\ UNCHANGED tx
     ELSE /\ tx' = [tx EXCEPT ![w][id] =
                      [NoTx EXCEPT !.op = "recover", !.step = "exec"]]
          /\ UNCHANGED pop
  /\ UNCHANGED <<clock, store, held, cmd, incidents, ghosts>>

recoverLeaseExec(w, id) ==
  /\ tx[w][id].op = "recover"
  /\ IF tx[w][id].clean
     THEN /\ leased' = [leased EXCEPT ![id] = 0]
          /\ scheduled' = [scheduled EXCEPT ![id] = pop[w].now]
          /\ CommitTx({"leased", "scheduled"}, w, id)
          /\ Skip(w, id)
     ELSE EndTx(w, id) /\ UNCHANGED <<leased, scheduled, pop>>
  /\ UNCHANGED <<clock, parked, bodies, held, cmd, incidents, ghosts>>

(* ZRANGEBYSCORE ... LIMIT n: the n eligible ids of lowest score. *)
Batches(w) ==
  LET due == {id \in Ids : scheduled[id] # 0 /\ scheduled[id] <= pop[w].now}
      size == IF Cardinality(due) < Concurrency THEN Cardinality(due)
              ELSE Concurrency
  IN  {batch \in SUBSET due :
         /\ Cardinality(batch) = size
         /\ \A i \in batch, j \in due \ batch : scheduled[i] <= scheduled[j]}

PopScan(w) ==
  /\ pop[w].step = "recover" /\ pop[w].todo = {}
  /\ \E batch \in Batches(w) :
       pop' = [pop EXCEPT ![w] = [@ EXCEPT !.step = "claim", !.todo = batch]]
  /\ UNCHANGED <<clock, store, held, tx, cmd, incidents, ghosts>>

claimWatch(w, id) ==
  /\ pop[w].step = "claim" /\ id \in pop[w].todo /\ NoTxOf(w)
  /\ IF scheduled[id] = 0 \/ scheduled[id] > pop[w].now
     THEN Skip(w, id) /\ UNCHANGED tx
     ELSE /\ tx' = [tx EXCEPT ![w][id] =
                      [NoTx EXCEPT !.op = "claim", !.step = "read"]]
          /\ UNCHANGED pop
  /\ UNCHANGED <<clock, store, held, cmd, incidents, ghosts>>

(* What a Pop that fails, or a worker that dies, leaves behind: the jobs   *)
(* it claimed stay leased and nobody runs them.                            *)
Abandon(w) ==
  /\ pop' = [pop EXCEPT ![w] = Idle]
  /\ held' = [held EXCEPT ![w] = [id \in Ids |-> NoHold]]
  /\ tx' = [tx EXCEPT ![w] = [id \in Ids |-> NoTx]]

(* An id without a body is an error that ends the whole Pop. *)
claimRead(w, id) ==
  /\ tx[w][id].op = "claim" /\ tx[w][id].step = "read"
  /\ IF bodies[id] = NoBody
     THEN Abandon(w)
     ELSE /\ tx' = [tx EXCEPT ![w][id] =
                      [@ EXCEPT !.step = "exec", !.attempts = bodies[id] + 1]]
          /\ UNCHANGED <<pop, held>>
  /\ UNCHANGED <<clock, store, cmd, incidents, ghosts>>

claimExec(w, id) ==
  /\ tx[w][id].op = "claim" /\ tx[w][id].step = "exec"
  /\ IF tx[w][id].clean
     THEN LET until == pop[w].now + Lease
          IN  /\ bodies' = [bodies EXCEPT ![id] = tx[w][id].attempts]
              /\ scheduled' = [scheduled EXCEPT ![id] = 0]
              /\ leased' = [leased EXCEPT ![id] = until]
              /\ held' = [held EXCEPT ![w][id] =
                   [attempts |-> tx[w][id].attempts, until |-> until]]
              /\ owner' = [owner EXCEPT ![id] = w]
              \* A Pop slower than its lease returns a job whose lease is over.
              /\ mishaps' = Marked(IF until <= clock THEN {id} ELSE {}, "overrun")
              /\ CommitTx({"leased", "scheduled"}, w, id)
              /\ Skip(w, id)
     ELSE /\ EndTx(w, id)
          /\ UNCHANGED <<bodies, scheduled, leased, held, owner, mishaps, pop>>
  /\ UNCHANGED <<clock, parked, cmd, incidents, pushed, finished, removed, recorded>>

PopReturn(w) ==
  /\ pop[w].step = "claim" /\ pop[w].todo = {}
  /\ pop' = [pop EXCEPT ![w] = Idle]
  /\ UNCHANGED <<clock, store, held, tx, cmd, incidents, ghosts>>

PopStep(w) ==
  \/ PopStart(w) \/ PopScan(w) \/ PopReturn(w)
  \/ \E id \in Ids : \/ recoverLeaseWatch(w, id) \/ recoverLeaseExec(w, id)
                     \/ claimWatch(w, id) \/ claimRead(w, id) \/ claimExec(w, id)

-----------------------------------------------------------------------------
(* Running a job and settling it *)

(* The handler and the worker's policy choose the outcome; the job's new   *)
(* body, and when it is to run again, are fixed before the transaction.    *)
Finish(w, id, how) ==
  LET attempts == held[w][id].attempts
  IN  /\ pop[w] = Idle /\ Holds(w, id) /\ tx[w][id] = NoTx
      /\ how = "delete" => ~alreadyExceedsMaxAttempts(ZeroAttributes, attempts, clock)
      /\ how = "release" => ~shouldFail(ZeroAttributes, attempts, 0, "error", clock)
      /\ \E delay \in IF how = "release" THEN Delays ELSE {0} :
           tx' = [tx EXCEPT ![w][id] =
             [NoTx EXCEPT !.op = how, !.step = "begin", !.at = clock + delay]]
      /\ finished' = IF how = "delete" THEN finished \cup {id} ELSE finished
      /\ UNCHANGED <<clock, store, pop, held, cmd, incidents, pushed, removed,
                     recorded, mishaps, owner>>

Settled(w, id) == held' = [held EXCEPT ![w][id] = NoHold]

(* settleLeased: the lease must exist and the stored attempts be the ones  *)
(* this delivery was given; otherwise an error, which the worker logs.     *)
settleLeasedWatch(w, id) ==
  /\ tx[w][id].op \in Settling /\ tx[w][id].step = "begin"
  /\ IF leased[id] = 0
     THEN EndTx(w, id) /\ Settled(w, id)
     ELSE /\ tx' = [tx EXCEPT ![w][id] = [@ EXCEPT !.step = "read", !.clean = TRUE]]
          /\ UNCHANGED held
  /\ UNCHANGED <<clock, store, pop, cmd, incidents, ghosts>>

(* A mutant of settleLeasedRead: any stored attempt will do. *)
SettlesAnyAttempt(w, id) ==
  /\ tx[w][id].op \in Settling /\ tx[w][id].step = "read"
  /\ tx' = [tx EXCEPT ![w][id].step = "exec"]
  /\ UNCHANGED <<clock, store, pop, held, cmd, incidents, ghosts>>

settleLeasedRead(w, id) ==
  /\ tx[w][id].op \in Settling /\ tx[w][id].step = "read"
  /\ IF bodies[id] # held[w][id].attempts
     THEN EndTx(w, id) /\ Settled(w, id)
     ELSE tx' = [tx EXCEPT ![w][id].step = "exec"] /\ UNCHANGED held
  /\ UNCHANGED <<clock, store, pop, cmd, incidents, ghosts>>

Commits(w, id, op) ==
  /\ tx[w][id].op = op /\ tx[w][id].step = "exec" /\ tx[w][id].clean
  /\ leased' = [leased EXCEPT ![id] = 0]
  /\ Settled(w, id)
  /\ UNCHANGED <<clock, pop, incidents, pushed, finished, removed, mishaps, owner>>

DeleteJob(w, id) ==
  /\ Commits(w, id, "delete")
  /\ bodies' = [bodies EXCEPT ![id] = NoBody]
  /\ CommitTx({"leased"}, w, id)
  /\ UNCHANGED <<scheduled, parked, cmd, recorded>>

ReleaseJob(w, id) ==
  /\ Commits(w, id, "release")
  /\ bodies' = [bodies EXCEPT ![id] = held[w][id].attempts]
  /\ scheduled' = [scheduled EXCEPT ![id] = tx[w][id].at]
  /\ CommitTx({"leased", "scheduled"}, w, id)
  /\ UNCHANGED <<parked, cmd, recorded>>

(* The worker records the failure it parked. *)
FailJob(w, id) ==
  /\ Commits(w, id, "fail")
  /\ bodies' = [bodies EXCEPT ![id] = held[w][id].attempts]
  /\ parked' = parked \cup {id}
  /\ cmd' = TouchParked
  /\ CommitTx({"leased"}, w, id)
  /\ recorded' = recorded \cup {id}
  /\ UNCHANGED scheduled

(* transaction: a refused EXEC begins again. *)
SettleAgain(w, id) ==
  /\ tx[w][id].op \in Settling /\ tx[w][id].step = "exec" /\ ~tx[w][id].clean
  /\ tx' = [tx EXCEPT ![w][id].step = "begin"]
  /\ UNCHANGED <<clock, store, pop, held, cmd, incidents, ghosts>>

ProcessStep(w, id) ==
  \/ \E how \in Settling : Finish(w, id, how)
  \/ settleLeasedWatch(w, id) \/ settleLeasedRead(w, id)
  \/ DeleteJob(w, id) \/ ReleaseJob(w, id) \/ FailJob(w, id)
  \/ SettleAgain(w, id)

(* The settlement gets five seconds, then an error. *)
SettleError(w, id) ==
  /\ Incident
  /\ tx[w][id].op \in Settling
  /\ EndTx(w, id) /\ Settled(w, id)
  /\ UNCHANGED <<clock, store, pop, cmd, ghosts>>

(* The worker dies, or a call of its Pop fails. *)
Crash(w) ==
  /\ Incident
  /\ pop[w] # Idle \/ \E id \in Ids : Holds(w, id)
  /\ Abandon(w)
  /\ UNCHANGED <<clock, store, cmd, ghosts>>

-----------------------------------------------------------------------------
(* queue:retry and queue:clear *)

At(o, step) == cmd[o].step = step
To(o, step) == cmd' = [cmd EXCEPT ![o].step = step]
Of(o, ids) == cmd[o].ids = ids
Done(o) == cmd' = [cmd EXCEPT ![o] = NoCommand]
Quiet == UNCHANGED <<clock, pop, held, incidents>>

(* The command read the record of id, now or a while ago. *)
RetryFind(o, id) ==
  /\ "retry" \in Commands /\ Incident
  /\ At(o, "idle") /\ id \in recorded
  /\ cmd' = [cmd EXCEPT ![o] = [NoCommand EXCEPT !.step = "begin", !.ids = {id}]]
  /\ UNCHANGED <<clock, store, pop, held, tx, ghosts>>

(* Retry; ErrNotParked has requeue build the job again from its record. *)
RetryWatch(o, id) ==
  /\ At(o, "begin") /\ Of(o, {id})
  /\ cmd' = [cmd EXCEPT ![o] =
       [@ EXCEPT !.step = IF id \in parked THEN "read" ELSE "rebuild",
                 !.clean = TRUE]]
  /\ Quiet /\ UNCHANGED <<store, tx, ghosts>>

(* The job is to run at the instant it was read. *)
RetryRead(o, id) ==
  /\ At(o, "read") /\ Of(o, {id})
  /\ IF bodies[id] = NoBody THEN Done(o)
     ELSE cmd' = [cmd EXCEPT ![o] = [@ EXCEPT !.step = "exec", !.at = clock]]
  /\ Quiet /\ UNCHANGED <<store, tx, ghosts>>

(* A mutant of ResetAttempts: tries are handed out below zero. *)
ResetBelowZero(id) == bodies' = [bodies EXCEPT ![id] = @ - MaxTries - 1]

ResetAttempts(id) == bodies' = [bodies EXCEPT ![id] = 0]

RetryExec(o, id) ==
  /\ At(o, "exec") /\ Of(o, {id})
  /\ IF cmd[o].clean
     THEN /\ ResetAttempts(id)
          /\ parked' = parked \ {id}
          /\ scheduled' = [scheduled EXCEPT ![id] = cmd[o].at]
          /\ Touch({"scheduled"})
          /\ cmd' = [TouchParked EXCEPT ![o] = NoCommand]
          /\ mishaps' = Marked({id}, "reset")
     ELSE To(o, "begin") /\ UNCHANGED <<bodies, parked, scheduled, tx, mishaps>>
  /\ Quiet
  /\ UNCHANGED <<leased, pushed, finished, removed, recorded, owner>>

Rebuild(o, id) ==
  /\ At(o, "rebuild") /\ Of(o, {id})
  /\ IF "rebuild" \in Commands
     THEN /\ Push(id, clock)
          /\ mishaps' = [mishaps EXCEPT ![id] = @ \cup {"reset"} \cup
               IF scheduled[id] # 0 \/ leased[id] # 0 \/ id \in parked
               THEN {"doubled"} ELSE {}]
     ELSE UNCHANGED <<store, tx, mishaps>>
  /\ Done(o) /\ Quiet
  /\ UNCHANGED <<pushed, finished, removed, recorded, owner>>

(* Clear: for each of the two sets list it, then delete it and the bodies  *)
(* of what was listed, in one MULTI that watches nothing.  An empty list   *)
(* goes on to the next set.                                                *)
ClearList(o, set, members, next) ==
  /\ cmd' = [cmd EXCEPT ![o] = IF members = {} /\ next = "idle" THEN NoCommand ELSE
       [NoCommand EXCEPT !.step = IF members = {} THEN next ELSE set,
                         !.ids = members]]
  /\ UNCHANGED <<clock, store, pop, held, tx, ghosts>>

ClearScheduledList(o) ==
  /\ "clear" \in Commands /\ Incident
  /\ At(o, "idle")
  /\ ClearList(o, "clear scheduled", {id \in Ids : scheduled[id] # 0}, "clear next")

ClearLeasedList(o) ==
  /\ At(o, "clear next") /\ UNCHANGED incidents
  /\ ClearList(o, "clear leased", {id \in Ids : leased[id] # 0}, "idle")

(* A mutant of Cleared: the parked set goes too. *)
ClearedParkedToo(o, members, others) ==
  /\ bodies' = [id \in Ids |-> IF id \in cmd[o].ids THEN NoBody ELSE bodies[id]]
  /\ parked' = {}
  /\ removed' = removed \cup {id \in members : others[id] = 0 /\ id \notin parked}
  /\ mishaps' = Marked(cmd[o].ids \cup members, "cleared")
  /\ Quiet /\ UNCHANGED <<pushed, finished, recorded, owner>>

Cleared(o, members, others) ==
  /\ bodies' = [id \in Ids |-> IF id \in cmd[o].ids THEN NoBody ELSE bodies[id]]
  /\ removed' = removed \cup {id \in members : others[id] = 0 /\ id \notin parked}
  /\ mishaps' = Marked(cmd[o].ids \cup members, "cleared")
  /\ Quiet /\ UNCHANGED <<parked, pushed, finished, recorded, owner>>

ClearScheduled(o) ==
  /\ At(o, "clear scheduled")
  /\ Cleared(o, {id \in Ids : scheduled[id] # 0}, leased)
  /\ scheduled' = [id \in Ids |-> 0]
  /\ Touch(IF scheduled = scheduled' THEN {} ELSE {"scheduled"})
  /\ cmd' = [cmd EXCEPT ![o] = [NoCommand EXCEPT !.step = "clear next"]]
  /\ UNCHANGED leased

ClearLeased(o) ==
  /\ At(o, "clear leased")
  /\ Cleared(o, {id \in Ids : leased[id] # 0}, scheduled)
  /\ leased' = [id \in Ids |-> 0]
  /\ Touch(IF leased = leased' THEN {} ELSE {"leased"})
  /\ Done(o)
  /\ UNCHANGED scheduled

OperatorStep(o) ==
  \/ \E id \in Ids : \/ RetryFind(o, id) \/ RetryWatch(o, id) \/ RetryRead(o, id)
                     \/ RetryExec(o, id) \/ Rebuild(o, id)
  \/ ClearScheduledList(o) \/ ClearScheduled(o)
  \/ ClearLeasedList(o) \/ ClearLeased(o)

-----------------------------------------------------------------------------
Next ==
  \/ Tick
  \/ \E id \in Ids : PushJob(id)
  \/ \E w \in Workers : PopStep(w) \/ Crash(w)
  \/ \E w \in Workers, id \in Ids : ProcessStep(w, id) \/ SettleError(w, id)
  \/ \E o \in Operators : OperatorStep(o)

Spec == Init /\ [][Next]_vars

(* As for the database driver: time passes, a running worker keeps polling *)
(* and finishes its Pop, a goroutine settles its job.                      *)
FairSpec ==
  /\ Spec
  /\ WF_vars(Tick)
  /\ \A w \in Workers : WF_vars(PopStep(w))
  /\ \A w \in Workers, id \in Ids : WF_vars(ProcessStep(w, id))

-----------------------------------------------------------------------------
(* Properties *)

(* The Pop a worker is in, a delivery, a transaction, a command. *)
Pops == [step: {"idle", "recover", "claim"}, now: Nat, todo: SUBSET Ids]
Holdings == [attempts: Nat, until: Nat]
Txs == [op: Settling \cup {"none", "recover", "claim"},
        step: {"none", "begin", "read", "exec"}, at: Nat, attempts: Nat,
        clean: BOOLEAN]
Cmds == [step: {"idle", "begin", "read", "exec", "rebuild", "clear scheduled",
                "clear next", "clear leased"},
         ids: SUBSET Ids, clean: BOOLEAN, at: Nat \ {0}]

(* Types: a score and an attempt count are natural numbers, an entry of    *)
(* the store belongs to a job.                                             *)
TypeOK ==
  /\ clock \in Nat \ {0} /\ incidents \in Nat
  /\ scheduled \in [Ids -> Nat] /\ leased \in [Ids -> Nat]
  /\ parked \subseteq Ids
  /\ bodies \in [Ids -> Nat \cup {NoBody}]
  /\ pop \in [Workers -> Pops]
  /\ held \in [Workers -> [Ids -> Holdings]]
  /\ tx \in [Workers -> [Ids -> Txs]]
  /\ cmd \in [Operators -> Cmds]
  /\ pushed \subseteq Ids /\ finished \subseteq Ids /\ removed \subseteq Ids
  /\ recorded \subseteq Ids
  /\ mishaps \in [Ids -> SUBSET Mishaps]
  /\ owner \in [Ids -> Workers \cup {"nobody"}]

Spared(id, what) == mishaps[id] \cap what = {}
OnQueue(id) == scheduled[id] # 0 \/ leased[id] # 0

(* Each transaction moves an id from one set to another: whatever raced    *)
(* with it, expired or was cleared, an id is never in two of the sets,     *)
(* unless queue:retry pushed the job again beside a copy of itself.        *)
OneSet ==
  \A id \in Ids : Spared(id, {"doubled"}) =>
    /\ ~(scheduled[id] # 0 /\ leased[id] # 0)
    /\ id \in parked => ~OnQueue(id)

(* The body is not watched, and still an id in a set always has one: the   *)
(* claim, settlement or retry that finds the id can read the job.          *)
BodyKept ==
  \A id \in Ids : /\ Spared(id, {"doubled", "cleared"})
                  /\ OnQueue(id) \/ id \in parked
                  => bodies[id] # NoBody

(* A worker within its lease is the only one to hold the job: the lease in *)
(* the store is the one it made, and the stored attempts are its own, so   *)
(* that its settlement is accepted.                                        *)
HeldUnderLease ==
  \A w \in Workers, id \in Ids :
    Holds(w, id) /\ Spared(id, {"overrun", "cleared", "doubled"}) =>
      /\ owner[id] = w
      /\ leased[id] = held[w][id].until
      /\ bodies[id] = held[w][id].attempts

(* A settlement of w that commits ended the lease of id. *)
Settles(w, id) ==
  /\ tx[w][id].op \in Settling /\ tx[w][id].step = "exec" /\ tx[w][id].clean
  /\ leased[id] # 0 /\ leased'[id] = 0
  /\ Holds(w, id) /\ held'[w][id] = NoHold

(* settleLeased: "if a lease expired and another worker already claimed    *)
(* the job, the old pointer cannot delete or release the new worker's      *)
(* delivery."                                                              *)
SettlesOwnDelivery ==
  [][\A w \in Workers, id \in Ids : Settles(w, id) => owner[id] = w]_vars

(* The same as long as the attempts of the job only grew: they are the     *)
(* generation of the delivery until Retry sets them back.                  *)
FencedByAttempts ==
  [][\A w \in Workers, id \in Ids :
       Settles(w, id) /\ Spared(id, {"reset"}) => owner[id] = w]_vars

(* Clear: "Parked jobs are not cleared".  A job that gave up keeps its     *)
(* body, which is what Failed lists and Retry puts back.                   *)
ParkedKeepsBody == \A id \in parked : bodies[id] # NoBody

Lifecycle == INSTANCE JobLifecycle WITH
  status <- [id \in Ids |-> IF id \in parked THEN "parked"
                            ELSE IF OnQueue(id) THEN "live" ELSE "none"],
  done <- finished

(* The driver keeps the promise of every queue driver: a job leaves its    *)
(* queue only done, given up or removed, and a dead letter only by Retry.  *)
ImplementsLifecycle == Lifecycle!Spec

(* A job on its queue is eventually done, given up or removed, crashes and *)
(* transactions that collide included.  An id that a Clear or a second     *)
(* push left without a body ends every Pop that meets it, so none may      *)
(* exist.                                                                  *)
EventuallySettled ==
  \A id \in Ids :
    OnQueue(id) ~> \/ ~OnQueue(id)
                   \/ \E i \in Ids : ~Spared(i, {"cleared", "doubled"})

=============================================================================
