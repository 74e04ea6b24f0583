------------------------ MODULE DatabaseWorkerProofs ------------------------
(***************************************************************************)
(* What DatabaseWorker guarantees for every set of jobs, workers and       *)
(* operators, every lease, try limit and job setting, and an unbounded     *)
(* number of crashes, failed statements and ticks.                         *)
(***************************************************************************)
EXTENDS DatabaseWorker, TLAPS

(* The rows and deliveries the initial state is made of are well formed. *)
LEMMA RowTypes ==
  /\ ZeroAttributes \in Attributes
  /\ NoRow \in Row
  /\ NoDelivery \in Delivery
<1>1. ZeroAttributes \in Attributes
  BY DEF ZeroAttributes, Attributes
<1>2. QED
  BY <1>1 DEF NoRow, NoDelivery, Row, Delivery, Statuses, Stages

(* A delivery at another stage of Process is a delivery. *)
LEMMA StageChange ==
  ASSUME NEW d \in Delivery, NEW stage \in Stages
  PROVE  [d EXCEPT !.stage = stage] \in Delivery
BY DEF Delivery

(* So is one whose exception handleJobException counted. *)
LEMMA FailedDelivery ==
  ASSUME NEW d \in Delivery, NEW stage \in Stages
  PROVE  /\ d.exceptions \in Nat
         /\ [d EXCEPT !.exceptions = @ + 1, !.stage = stage] \in Delivery
<1>1. d.exceptions \in Nat /\ d.exceptions + 1 \in Nat
  BY DEF Delivery
<1>2. QED
  BY <1>1, Zenon DEF Delivery

(* The statements of the table keep every row well formed. *)
LEMMA TableTypes ==
  ASSUME TypeOK, NEW id \in Ids
  PROVE  /\ \A delay \in Nat, a \in Attributes :
              Push(id, delay, a) => jobs' \in [Ids -> Row]
         /\ \A now \in Nat : Claim(id, now) => jobs' \in [Ids -> Row]
         /\ DeleteJob(id) => jobs' \in [Ids -> Row]
         /\ \A delay \in Nat, exceptions \in Nat :
              ReleaseJob(id, delay, exceptions) => jobs' \in [Ids -> Row]
         /\ FailJob(id) => jobs' \in [Ids -> Row]
         /\ Retry(id) => jobs' \in [Ids -> Row]
         /\ Clear => jobs' \in [Ids -> Row]
<1> USE RowTypes, LeaseAssumption
<1>1. /\ jobs \in [Ids -> Row]
      /\ clock \in Nat
  BY DEF TypeOK
<1>2. ASSUME NEW delay \in Nat, NEW a \in Attributes, Push(id, delay, a)
      PROVE  jobs' \in [Ids -> Row]
  BY <1>1, <1>2 DEF Push, Row, Statuses
<1>3. ASSUME NEW now \in Nat, Claim(id, now) PROVE jobs' \in [Ids -> Row]
  BY <1>1, <1>3 DEF Claim, Row
<1>4. ASSUME DeleteJob(id) PROVE jobs' \in [Ids -> Row]
  BY <1>1, <1>4 DEF DeleteJob
<1>5. ASSUME NEW delay \in Nat, NEW exceptions \in Nat,
             ReleaseJob(id, delay, exceptions)
      PROVE  jobs' \in [Ids -> Row]
  <2> DEFINE row == [jobs[id] EXCEPT !.run_at = clock + delay,
                                     !.exceptions = exceptions,
                                     !.created_at = clock,
                                     !.reserved_until = 0]
  <2>1. row \in Row
    <3>1. clock + delay \in Nat
      BY <1>1
    <3>2. QED
      BY <1>1, <3>1, Zenon DEF Row
  <2>2. jobs' = IF Exists(id) THEN [jobs EXCEPT ![id] = row] ELSE jobs
    BY <1>5 DEF ReleaseJob
  <2>3. QED
    BY <1>1, <2>1, <2>2
<1>6. ASSUME FailJob(id) PROVE jobs' \in [Ids -> Row]
  BY <1>1, <1>6, Zenon DEF FailJob, Row, Statuses
<1>7. ASSUME Retry(id) PROVE jobs' \in [Ids -> Row]
  BY <1>1, <1>7, Zenon DEF Retry, Row, Statuses
<1>8. ASSUME Clear PROVE jobs' \in [Ids -> Row]
  BY <1>1, <1>8 DEF Clear
<1>9. QED
  BY <1>2, <1>3, <1>4, <1>5, <1>6, <1>7, <1>8

(* Moving a delivery on, or ending it, keeps the deliveries well formed. *)
LEMMA FlightTypes ==
  ASSUME TypeOK, NEW w \in Workers, NEW id \in Ids
  PROVE  /\ \A stage \in Stages :
              GoTo(w, id, stage) => flight' \in [Workers -> [Ids -> Delivery]]
         /\ Done(w, id) => flight' \in [Workers -> [Ids -> Delivery]]
         /\ Skip(w, id) => seen' \in [Workers -> [Ids -> Row]]
<1>1. /\ flight \in [Workers -> [Ids -> Delivery]]
      /\ seen \in [Workers -> [Ids -> Row]]
  BY DEF TypeOK
<1>2. ASSUME NEW stage \in Stages, GoTo(w, id, stage)
      PROVE  flight' \in [Workers -> [Ids -> Delivery]]
  <2>1. [flight[w][id] EXCEPT !.stage = stage] \in Delivery
    BY <1>1, StageChange
  <2>2. flight' = [flight EXCEPT ![w] = [flight[w] EXCEPT
                     ![id] = [flight[w][id] EXCEPT !.stage = stage]]]
    BY <1>1, <1>2 DEF GoTo
  <2>3. QED
    BY <1>1, <2>1, <2>2
<1>3. ASSUME Done(w, id) PROVE flight' \in [Workers -> [Ids -> Delivery]]
  BY <1>1, <1>3, RowTypes DEF Done
<1>4. ASSUME Skip(w, id) PROVE seen' \in [Workers -> [Ids -> Row]]
  BY <1>1, <1>4, RowTypes DEF Skip
<1>5. QED
  BY <1>2, <1>3, <1>4

(* Pop's SELECT, claims and errors keep every variable's type. *)
LEMMA PopTypes ==
  ASSUME TypeOK, NEW w \in Workers,
         PopStep(w) \/ \E id \in Ids : PopError(w, id)
  PROVE  TypeOK'
<1> USE RowTypes, LeaseAssumption
<1>0. /\ clock \in Nat \ {0} /\ jobs \in [Ids -> Row]
      /\ popNow \in [Workers -> Nat] /\ seen \in [Workers -> [Ids -> Row]]
      /\ flight \in [Workers -> [Ids -> Delivery]] /\ incidents \in Nat
  BY DEF TypeOK
<1>1. CASE PopSelect(w)
  <2>1. PICK c \in Candidates(clock) :
          seen' = [seen EXCEPT ![w] = [id \in Ids |->
                     IF id \in c THEN Scanned(jobs[id]) ELSE NoRow]]
    BY <1>1 DEF PopSelect
  <2>2. \A id \in Ids : Scanned(jobs[id]) \in Row
    BY <1>0, Zenon DEF Scanned, Row
  <2>3. seen' \in [Workers -> [Ids -> Row]]
    BY <1>0, <2>1, <2>2
  <2>4. popNow' \in [Workers -> Nat]
    BY <1>0, <1>1 DEF PopSelect
  <2>5. QED
    BY <1>1, <2>3, <2>4 DEF PopSelect, TypeOK, queue, history
<1>2. ASSUME NEW id \in Ids, PopClaim(w, id) PROVE TypeOK'
  <2>1. popNow[w] + Lease \in Nat /\ seen[w][id].attempts + 1 \in Nat
    BY <1>0 DEF Row
  <2>2. [stage |-> "reserved", attempts |-> seen[w][id].attempts + 1,
         exceptions |-> seen[w][id].exceptions, until |-> popNow[w] + Lease,
         attributes |-> seen[w][id].attributes] \in Delivery
    BY <1>0, <2>1 DEF Row, Delivery, Stages, Running
  <2>3. flight' \in [Workers -> [Ids -> Delivery]]
    BY <1>0, <1>2, <2>2 DEF PopClaim
  <2>4. jobs' \in [Ids -> Row]
    BY <1>0, <1>2, TableTypes DEF PopClaim
  <2>5. seen' \in [Workers -> [Ids -> Row]]
    BY <1>2, FlightTypes DEF PopClaim
  <2>6. QED
    BY <1>2, <2>3, <2>4, <2>5 DEF PopClaim, TypeOK
<1>3. ASSUME NEW id \in Ids, PopLost(w, id) PROVE TypeOK'
  <2>1. jobs' \in [Ids -> Row]
    BY <1>0, <1>3, TableTypes DEF PopLost
  <2>2. seen' \in [Workers -> [Ids -> Row]]
    BY <1>3, FlightTypes DEF PopLost
  <2>3. incidents' \in Nat
    BY <1>0, <1>3 DEF PopLost, Incident, Smooth
  <2>4. QED
    BY <1>3, <2>1, <2>2, <2>3 DEF PopLost, TypeOK, history
<1>4. CASE PopReturn(w)
  <2>1. \A id \in Ids : [flight[w][id] EXCEPT !.stage = "start"] \in Delivery
    BY <1>0, StageChange, ZenonT(30) DEF Stages, Running
  <2>2. flight' \in [Workers -> [Ids -> Delivery]]
    BY <1>0, <1>4, <2>1 DEF PopReturn
  <2>3. popNow' \in [Workers -> Nat]
    BY <1>0, <1>4 DEF PopReturn
  <2>4. QED
    BY <1>4, <2>2, <2>3 DEF PopReturn, TypeOK, queue, history
<1>5. ASSUME NEW id \in Ids, PopError(w, id) PROVE TypeOK'
  <2>1. jobs' \in [Ids -> Row]
    BY <1>0, <1>5, TableTypes DEF PopError
  <2>2. /\ popNow' \in [Workers -> Nat]
        /\ seen' \in [Workers -> [Ids -> Row]]
        /\ flight' \in [Workers -> [Ids -> Delivery]]
    BY <1>0, <1>5 DEF PopError
  <2>3. QED
    BY <1>0, <1>5, <2>1, <2>2 DEF PopError, Incident, TypeOK, history
<1>6. QED
  BY <1>1, <1>2, <1>3, <1>4, <1>5 DEF PopStep

(* So do the steps of Process and park. *)
LEMMA ProcessTypes ==
  ASSUME TypeOK, NEW w \in Workers, NEW id \in Ids,
         ProcessStep(w, id) \/ SettleError(w, id)
  PROVE  TypeOK'
<1> USE FlightTypes
<1>b. /\ flight \in [Workers -> [Ids -> Delivery]]
      /\ flight[w][id] \in Delivery /\ incidents \in Nat
  BY DEF TypeOK
<1>c. "none" \in Stages
  BY DEF Stages
<1>0. /\ flight \in [Workers -> [Ids -> Delivery]]
      /\ flight[w][id] \in Delivery /\ flight[w][id].exceptions \in Nat
      /\ Delays \subseteq Nat /\ incidents \in Nat
  BY <1>b, <1>c, FailedDelivery, WaitsAssumption, Zenon DEF Delays
<1>a. {"handle", "delete", "release", "fail", "park", "log", "hook"} \subseteq Stages
  BY DEF Stages, Running
<1>1. CASE Start(w, id)
  BY <1>1, <1>a DEF Start, TypeOK, queue, history
<1>2. CASE HandlerSucceeds(w, id)
  BY <1>2, <1>a DEF HandlerSucceeds, TypeOK, queue
<1>3. ASSUME NEW cause \in Causes, HandlerFails(w, id, cause) PROVE TypeOK'
  <2> DEFINE failing(stage) == [flight[w][id] EXCEPT !.exceptions = @ + 1,
                                                     !.stage = stage]
  <2>1. failing("park") \in Delivery /\ failing("release") \in Delivery
    BY <1>0, <1>a, FailedDelivery, Zenon
  <2>2. \/ flight' = [flight EXCEPT ![w][id] = failing("park")]
        \/ flight' = [flight EXCEPT ![w][id] = failing("release")]
    BY <1>3, Zenon DEF HandlerFails
  <2>3. flight' \in [Workers -> [Ids -> Delivery]]
    BY SMTT(30), <1>0, <2>1, <2>2
  <2>4. QED
    BY <1>3, <2>3, ZenonT(15) DEF HandlerFails, TypeOK, queue, history
<1>4. ASSUME NEW how \in Middleware, MiddlewareSettles(w, id, how) PROVE TypeOK'
  BY <1>4, <1>a, MiddlewareAssumption, ZenonT(15) DEF MiddlewareSettles, TypeOK, queue, history
<1>5. CASE SettleDelete(w, id)
  BY <1>5, TableTypes DEF SettleDelete, TypeOK, history
<1>6. CASE SettleRelease(w, id)
  <2>1. jobs' \in [Ids -> Row]
    BY <1>0, <1>6, TableTypes DEF SettleRelease
  <2>2. QED
    BY <1>6, <2>1 DEF SettleRelease, TypeOK, history
<1>7. CASE SettleFail(w, id)
  BY <1>7, TableTypes DEF SettleFail, TypeOK
<1>8. CASE SettlePark(w, id)
  BY <1>8, <1>a, TableTypes DEF SettlePark, TypeOK
<1>9. CASE Log(w, id)
  BY <1>9, <1>a, <1>0 DEF Log, TypeOK, queue, history, Incident, Smooth
<1>10. CASE Hook(w, id)
  BY <1>10, ZenonT(15) DEF Hook, TypeOK, queue, history
<1>11. CASE SettleError(w, id)
  <2>1. jobs' \in [Ids -> Row]
    BY <1>0, <1>11, TableTypes DEF SettleError, TypeOK
  <2>2. QED
    BY <1>0, <1>11, <2>1 DEF SettleError, TypeOK, history, Incident
<1>12. QED
  BY <1>1, <1>2, <1>3, <1>4, <1>5, <1>6, <1>7, <1>8, <1>9, <1>10, <1>11
  DEF ProcessStep

(* So do the commands of the operators. *)
LEMMA OperatorTypes ==
  ASSUME TypeOK,
         Administer \/ \E o \in Operators : RetryStep(o)
  PROVE  TypeOK'
<1>0. /\ command \in [Operators -> [Ids -> CommandSteps]]
      /\ records \subseteq Ids /\ removed \subseteq Ids /\ disturbed \subseteq Ids
      /\ incidents \in Nat /\ jobs \in [Ids -> Row] /\ clock \in Nat
  BY DEF TypeOK
<1>1. ASSUME NEW o \in Operators, RetryStep(o) PROVE TypeOK'
  <2>1. PICK id \in Ids : \/ RetryFind(o, id) \/ RetryUnpark(o, id)
                          \/ RetryRebuild(o, id) \/ RetryForget(o, id)
    BY <1>1 DEF RetryStep
  <2>2. command' \in [Operators -> [Ids -> CommandSteps]]
    <3>1. PICK step \in CommandSteps : Step(o, id, step)
      BY <2>1 DEF RetryFind, RetryUnpark, RetryRebuild, RetryForget,
                  CommandSteps
    <3>2. QED
      BY <1>0, <3>1 DEF Step
  <2>3. jobs' \in [Ids -> Row]
    BY <1>0, <2>1, TableTypes, RowTypes
    DEF RetryFind, RetryUnpark, RetryRebuild, RetryForget, queue
  <2>4. incidents' \in Nat /\ records' \subseteq Ids
    BY <1>0, <2>1 DEF RetryFind, RetryUnpark, RetryRebuild, RetryForget,
                      Incident, Smooth
  <2>5. UNCHANGED <<clock, workers, history>>
    BY <2>1 DEF RetryFind, RetryUnpark, RetryRebuild, RetryForget, queue
  <2>6. QED
    BY <2>2, <2>3, <2>4, <2>5 DEF TypeOK, workers, history
<1>2. ASSUME NEW id \in Ids, Forget(id) PROVE TypeOK'
  BY <1>0, <1>2 DEF Forget, Incident, TypeOK, queue, workers, history
<1>3. ASSUME NEW id \in Ids, DeleteStuck(id) PROVE TypeOK'
  <2>1. jobs' \in [Ids -> Row]
    BY <1>3, TableTypes DEF DeleteStuck, DeleteReserved
  <2>2. QED
    BY <1>0, <1>3, <2>1 DEF DeleteStuck, Incident, Held, TypeOK, workers
<1>4. CASE ClearQueue
  <2>1. jobs' \in [Ids -> Row]
    BY <1>0, <1>4, RowTypes DEF ClearQueue, Clear
  <2>2. QED
    BY <1>0, <1>4, <2>1 DEF ClearQueue, Incident, Held, Size, TypeOK, workers
<1>5. QED
  BY <1>1, <1>2, <1>3, <1>4 DEF Administer

(* Every variable keeps its type, in every reachable state. *)
THEOREM TypeCorrect == Spec => []TypeOK
<1>1. Init => TypeOK
  BY RowTypes DEF Init, TypeOK, CommandSteps
<1>2. TypeOK /\ [Next]_vars => TypeOK'
  <2> SUFFICES ASSUME TypeOK, [Next]_vars PROVE TypeOK'
    OBVIOUS
  <2>1. CASE Tick
    BY <2>1 DEF Tick, TypeOK, Overrun, workers
  <2>2. ASSUME NEW id \in Ids, PushJob(id) PROVE TypeOK'
    <3>1. jobs' \in [Ids -> Row]
      BY <2>2, TableTypes, SettingsAssumption, WaitsAssumption
      DEF PushJob, Delays
    <3>2. QED
      BY <2>2, <3>1 DEF PushJob, TypeOK, workers
  <2>3. ASSUME NEW w \in Workers, PopStep(w) PROVE TypeOK'
    BY <2>3, PopTypes
  <2>4. ASSUME NEW w \in Workers, NEW id \in Ids, ProcessStep(w, id)
        PROVE  TypeOK'
    BY <2>4, ProcessTypes
  <2>5. ASSUME NEW o \in Operators, RetryStep(o) PROVE TypeOK'
    BY <2>5, OperatorTypes
  <2>6. CASE Fault
    <3>1. ASSUME NEW w \in Workers, Crash(w) PROVE TypeOK'
      BY <3>1, RowTypes DEF Crash, Incident, TypeOK, queue, history
    <3>2. QED
      BY <2>6, <3>1, PopTypes, ProcessTypes DEF Fault
  <2>7. CASE Administer
    BY <2>7, OperatorTypes
  <2>8. CASE UNCHANGED vars
    BY <2>8 DEF vars, TypeOK
  <2>9. QED
    BY <2>1, <2>2, <2>3, <2>4, <2>5, <2>6, <2>7, <2>8 DEF Next
<1>3. QED
  BY <1>1, <1>2, PTL DEF Spec

-----------------------------------------------------------------------------
(* The lease.  The invariant is inductive together with the fact that the  *)
(* now of a running Pop is not in the future: a claim asks for a lease     *)
(* that ended before that now, and an undisturbed holder's has not ended.  *)

LeaseInv ==
  /\ \A w \in Workers : popNow[w] <= clock
  /\ HeldUnderLease
  /\ NoOverlap

(* A step at which time stands still keeps the invariant when every        *)
(* undisturbed delivery held after it was held before it, with the same    *)
(* lease and the same reservation.                                         *)
LEMMA KeepsLease ==
  ASSUME TypeOK, LeaseInv, clock' = clock, disturbed \subseteq disturbed',
         \A w \in Workers : popNow'[w] <= clock,
         \A w \in Workers, id \in Ids \ disturbed' :
           Holds(w, id)' => /\ Holds(w, id)
                            /\ flight'[w][id].until = flight[w][id].until
                            /\ jobs'[id].status = jobs[id].status
                            /\ jobs'[id].reserved_until = jobs[id].reserved_until
  PROVE  LeaseInv'
<1>1. HeldUnderLease'
  BY DEF LeaseInv, HeldUnderLease
<1>2. NoOverlap'
  BY DEF LeaseInv, NoOverlap
<1>3. QED
  BY <1>1, <1>2 DEF LeaseInv

(* The deliveries that GoTo and Done leave, seen through Holds. *)
LEMMA HoldsAfter ==
  ASSUME TypeOK, NEW w \in Workers, NEW id \in Ids
  PROVE  /\ \A stage \in Stages : GoTo(w, id, stage) =>
              \A v \in Workers, i \in Ids :
                /\ flight'[v][i].until = flight[v][i].until
                /\ flight'[v][i].stage =
                     IF v = w /\ i = id THEN stage ELSE flight[v][i].stage
         /\ Done(w, id) =>
              /\ flight'[w][id].stage = "none"
              /\ \A v \in Workers, i \in Ids :
                   v # w \/ i # id => flight'[v][i] = flight[v][i]
<1>1. flight \in [Workers -> [Ids -> Delivery]]
  BY DEF TypeOK
<1>2. ASSUME NEW stage \in Stages, GoTo(w, id, stage)
      PROVE  \A v \in Workers, i \in Ids :
               /\ flight'[v][i].until = flight[v][i].until
               /\ flight'[v][i].stage =
                    IF v = w /\ i = id THEN stage ELSE flight[v][i].stage
  <2>1. flight' = [flight EXCEPT ![w] = [flight[w] EXCEPT
                     ![id] = [flight[w][id] EXCEPT !.stage = stage]]]
    BY <1>1, <1>2 DEF GoTo
  <2>2. /\ [flight[w][id] EXCEPT !.stage = stage].until = flight[w][id].until
        /\ [flight[w][id] EXCEPT !.stage = stage].stage = stage
    BY <1>1 DEF Delivery
  <2>3. QED
    BY <1>1, <2>1, <2>2
<1>3. ASSUME Done(w, id)
      PROVE  /\ flight'[w][id].stage = "none"
             /\ \A v \in Workers, i \in Ids :
                  v # w \/ i # id => flight'[v][i] = flight[v][i]
  BY <1>1, <1>3 DEF Done, NoDelivery
<1>4. QED
  BY <1>2, <1>3

(* A settling statement touches the row of the job its worker holds, and   *)
(* ends the holding: no other undisturbed worker is concerned.             *)
LEMMA SettlingKeepsLease ==
  ASSUME TypeOK, LeaseInv, NEW w \in Workers, NEW id \in Ids,
         Holds(w, id), clock' = clock, popNow' = popNow,
         disturbed' = disturbed,
         \A i \in Ids : i # id => jobs'[i] = jobs[i],
         flight'[w][id].stage \notin Running,
         \A v \in Workers, i \in Ids :
           v # w \/ i # id => flight'[v][i] = flight[v][i]
  PROVE  LeaseInv'
<1>1. \A v \in Workers, i \in Ids \ disturbed' :
        Holds(v, i)' => /\ Holds(v, i)
                        /\ flight'[v][i].until = flight[v][i].until
                        /\ i # id
  BY DEF LeaseInv, NoOverlap, Holds
<1>2. \A v \in Workers : popNow'[v] <= clock
  BY DEF LeaseInv
<1>3. QED
  BY <1>1, <1>2, KeepsLease

(* A statement with WHERE id = ? leaves the other rows alone. *)
LEMMA OtherRows ==
  ASSUME TypeOK, NEW id \in Ids, NEW delay, NEW a, NEW now, NEW exceptions,
         \/ Push(id, delay, a) \/ Claim(id, now) \/ DeleteJob(id)
         \/ ReleaseJob(id, delay, exceptions) \/ FailJob(id) \/ Retry(id)
         \/ UNCHANGED jobs
  PROVE  \A i \in Ids : i # id => jobs'[i] = jobs[i]
BY DEF TypeOK, Push, Claim, DeleteJob, ReleaseJob, FailJob, Retry

(* A claim takes only a row nobody undisturbed holds: its reservation has  *)
(* run out, and that of a holder within its lease has not.                 *)
LEMMA PopKeepsLease ==
  ASSUME TypeOK, LeaseInv, NEW w \in Workers,
         PopStep(w) \/ \E id \in Ids : PopError(w, id)
  PROVE  LeaseInv'
<1>0. /\ clock \in Nat \ {0} /\ jobs \in [Ids -> Row]
      /\ popNow \in [Workers -> Nat]
      /\ flight \in [Workers -> [Ids -> Delivery]]
      /\ \A v \in Workers : popNow[v] <= clock
      /\ HeldUnderLease /\ NoOverlap
  BY DEF TypeOK, LeaseInv
<1>1. CASE PopSelect(w)
  BY <1>0, <1>1, KeepsLease DEF PopSelect, queue, history, Holds
<1>2. ASSUME NEW id \in Ids, Claimable(id, popNow[w]), Claim(id, popNow[w])
      PROVE  /\ \A v \in Workers : Holds(v, id) => id \in disturbed
             /\ \A i \in Ids : i # id => jobs'[i] = jobs[i]
             /\ jobs'[id].status = jobs[id].status
             /\ jobs'[id].reserved_until = popNow[w] + Lease
  <2>1. \A v \in Workers : Holds(v, id) => id \in disturbed
    <3>1. jobs[id].reserved_until < popNow[w] /\ popNow[w] <= clock
      BY <1>0, <1>2 DEF Claimable
    <3>2. \A v \in Workers : flight[v][id].until \in Nat
      BY <1>0 DEF Delivery
    <3>3. popNow[w] \in Nat
      BY <1>0
    <3>4. QED
      BY <1>0, <3>1, <3>2, <3>3 DEF HeldUnderLease
  <2>2. /\ \A i \in Ids : i # id => jobs'[i] = jobs[i]
        /\ jobs'[id].status = jobs[id].status
        /\ jobs'[id].reserved_until = popNow[w] + Lease
    BY <1>0, <1>2 DEF Claim, Row
  <2>3. QED
    BY <2>1, <2>2
<1>3. ASSUME NEW id \in Ids, PopClaim(w, id) PROVE LeaseInv'
  <2>1. /\ \A v \in Workers : Holds(v, id) => id \in disturbed
        /\ \A i \in Ids : i # id => jobs'[i] = jobs[i]
        /\ jobs'[id].status = jobs[id].status
        /\ jobs'[id].reserved_until = popNow[w] + Lease
    BY <1>2, <1>3, ZenonT(15) DEF PopClaim
  <2>2. /\ flight'[w][id].stage = "reserved"
        /\ flight'[w][id].until = popNow[w] + Lease
        /\ \A v \in Workers, i \in Ids :
             v # w \/ i # id => flight'[v][i] = flight[v][i]
    BY <1>0, <1>3 DEF PopClaim
  <2>3. /\ clock' = clock /\ popNow' = popNow
        /\ disturbed \subseteq disturbed'
        /\ id \notin disturbed' =>
             ~(Parked(id) \/ popNow[w] + Lease < clock) /\ Exists(id)
    BY <1>3 DEF PopClaim, Claimable
  <2>4. id \notin disturbed' => jobs[id].status = "live" /\ clock <= popNow[w] + Lease
    <3>1. jobs[id].status \in Statuses
      BY <1>0 DEF Row
    <3>2. popNow[w] + Lease \in Nat
      BY <1>0, LeaseAssumption
    <3>3. QED
      BY <1>0, <2>3, <3>1, <3>2 DEF Parked, Exists, Statuses
  <2>5. HeldUnderLease'
    BY <1>0, <2>1, <2>2, <2>3, <2>4, SMTT(20) DEF HeldUnderLease, Holds
  <2>6. NoOverlap'
    BY <1>0, <2>1, <2>2, <2>3, SMTT(20) DEF NoOverlap, Holds
  <2>7. QED
    BY <1>0, <2>3, <2>5, <2>6 DEF LeaseInv
<1>4. ASSUME NEW id \in Ids, PopLost(w, id) PROVE LeaseInv'
  <2>1. UNCHANGED <<clock, popNow, flight, disturbed>>
    BY <1>4 DEF PopLost, history
  <2>2. \/ UNCHANGED jobs
        \/ Claimable(id, popNow[w]) /\ Claim(id, popNow[w])
    BY <1>4 DEF PopLost
  <2>3. QED
    BY <1>0, <1>2, <2>1, <2>2, KeepsLease DEF Holds
<1>5. CASE PopReturn(w)
  <2>1. \A v \in Workers, i \in Ids :
          /\ flight'[v][i].until = flight[v][i].until
          /\ Holds(v, i)' => Holds(v, i)
    <3>1. \A i \in Ids : [flight[w][i] EXCEPT !.stage = "start"].until
                           = flight[w][i].until
      BY <1>0 DEF Delivery
    <3>2. QED
      BY <1>0, <1>5, <3>1 DEF PopReturn, Holds, Running
  <2>2. \A v \in Workers : popNow'[v] <= clock
    BY <1>0, <1>5 DEF PopReturn
  <2>3. QED
    BY <1>0, <1>5, <2>1, <2>2, KeepsLease DEF PopReturn, queue, history
<1>6. ASSUME NEW id \in Ids, PopError(w, id) PROVE LeaseInv'
  <2>1. \A v \in Workers, i \in Ids :
          Holds(v, i)' => flight'[v][i] = flight[v][i] /\ Holds(v, i)
    BY <1>0, <1>6 DEF PopError, NoDelivery, Holds, Running
  <2>2. \A v \in Workers : popNow'[v] <= clock
    BY <1>0, <1>6 DEF PopError
  <2>3. \/ UNCHANGED jobs
        \/ Claimable(id, popNow[w]) /\ Claim(id, popNow[w])
    BY <1>6 DEF PopError
  <2>4. clock' = clock /\ disturbed' = disturbed
    BY <1>6 DEF PopError, history
  <2>5. QED
    BY <1>2, <2>1, <2>2, <2>3, <2>4, KeepsLease, ZenonT(15)
<1>7. QED
  BY <1>1, <1>3, <1>4, <1>5, <1>6 DEF PopStep

(* What a goroutine does to the job it holds: it moves it to another stage *)
(* it still holds it in, or settles it, or works on one it has settled.    *)
LEMMA ProcessKeepsLease ==
  ASSUME TypeOK, LeaseInv, NEW w \in Workers, NEW id \in Ids,
         ProcessStep(w, id) \/ SettleError(w, id)
  PROVE  LeaseInv'
<1>0. /\ flight \in [Workers -> [Ids -> Delivery]]
      /\ \A v \in Workers : popNow[v] <= clock
  BY ZenonT(15) DEF TypeOK, LeaseInv
<1>1. ASSUME NEW stage \in Stages, GoTo(w, id, stage), UNCHANGED <<queue, popNow>>,
             disturbed' = disturbed, stage \in Running => Holds(w, id)
      PROVE  LeaseInv'
  <2>1. \A v \in Workers, i \in Ids :
          /\ flight'[v][i].until = flight[v][i].until
          /\ Holds(v, i)' => Holds(v, i)
    BY <1>1, HoldsAfter DEF Holds
  <2>2. QED
    BY <1>0, <1>1, <2>1, KeepsLease, Zenon DEF queue
<1>2. ASSUME Holds(w, id), Done(w, id), UNCHANGED <<clock, popNow, disturbed>>,
             \A i \in Ids : i # id => jobs'[i] = jobs[i]
      PROVE  LeaseInv'
  <2>1. flight'[w][id].stage \notin Running
    BY <1>2, HoldsAfter, ZenonT(15) DEF Running
  <2>2. QED
    BY <1>2, <2>1, HoldsAfter, SettlingKeepsLease, ZenonT(15)
<1>3. CASE \/ Start(w, id) \/ HandlerSucceeds(w, id) \/ Log(w, id)
           \/ \E how \in Middleware : MiddlewareSettles(w, id, how)
  BY <1>1, <1>3, MiddlewareAssumption
     DEF Start, HandlerSucceeds, MiddlewareSettles, Log, history, Stages,
         Running, Holds, queue
<1>4. ASSUME NEW cause \in Causes, HandlerFails(w, id, cause) PROVE LeaseInv'
  <2>1. PICK stage : flight' = [flight EXCEPT ![w][id] =
             [flight[w][id] EXCEPT !.exceptions = flight[w][id].exceptions + 1,
                                   !.stage = stage]]
    BY <1>4, Zenon DEF HandlerFails
  <2>2. [flight[w][id] EXCEPT !.exceptions = flight[w][id].exceptions + 1,
                              !.stage = stage].until = flight[w][id].until
    BY <1>0 DEF Delivery
  <2>3. flight[w][id].stage = "handle"
    BY <1>4 DEF HandlerFails
  <2>4. \A v \in Workers, i \in Ids :
          /\ flight'[v][i].until = flight[v][i].until
          /\ Holds(v, i)' => Holds(v, i)
    BY <1>0, <2>1, <2>2, <2>3, ZenonT(15) DEF Holds, Running
  <2>5. QED
    BY <1>0, <1>4, <2>4, KeepsLease, ZenonT(15) DEF HandlerFails, queue, history
<1>5. CASE SettleDelete(w, id)
  BY <1>2, <1>5, OtherRows, Zenon DEF SettleDelete, history, Holds, Running
<1>6. CASE SettleRelease(w, id)
  BY <1>2, <1>6, OtherRows, ZenonT(15) DEF SettleRelease, history, Holds, Running
<1>7. CASE SettleFail(w, id)
  BY <1>2, <1>7, OtherRows, ZenonT(15) DEF SettleFail, history, Holds, Running
<1>8. CASE SettlePark(w, id)
  <2>1. /\ flight'[w][id].stage = "log"
        /\ \A v \in Workers, i \in Ids :
             v # w \/ i # id => flight'[v][i] = flight[v][i]
    <3>1. [flight[w][id] EXCEPT !.stage = "log"].stage = "log"
      BY <1>0 DEF Delivery
    <3>2. QED
      BY <1>0, <1>8, <3>1 DEF SettlePark, GoTo
  <2>2. \A i \in Ids : i # id => jobs'[i] = jobs[i]
    BY <1>8, OtherRows, Zenon DEF SettlePark
  <2>3. Holds(w, id) /\ flight'[w][id].stage \notin Running
    BY <1>8, <2>1, ZenonT(15) DEF SettlePark, Holds, Running
  <2>4. QED
    BY <1>8, <2>1, <2>2, <2>3, SettlingKeepsLease DEF SettlePark
<1>9. CASE SettleError(w, id)
  <2>1. \A i \in Ids : i # id => jobs'[i] = jobs[i]
    BY <1>9, OtherRows, Zenon DEF SettleError
  <2>2. Holds(w, id)
    BY <1>9, Zenon DEF SettleError, Holds, Running
  <2>3. QED
    BY <1>2, <1>9, <2>1, <2>2, ZenonT(30) DEF SettleError, history
<1>10. CASE Hook(w, id)
  <2>1. \A v \in Workers, i \in Ids :
          Holds(v, i)' => Holds(v, i) /\ flight'[v][i] = flight[v][i]
    BY <1>10, HoldsAfter DEF Hook, Holds, Running
  <2>2. QED
    BY <1>0, <1>10, <2>1, KeepsLease, Zenon DEF Hook, queue, history
<1>11. QED
  BY <1>3, <1>4, <1>5, <1>6, <1>7, <1>8, <1>9, <1>10 DEF ProcessStep

(* A statement of an operator, or an INSERT, changes the row of no job     *)
(* that is held undisturbed: such a row is live, and the two that remove a *)
(* live row mark its holders.                                              *)
LEMMA OperatorKeepsLease ==
  ASSUME TypeOK, LeaseInv,
         \/ \E id \in Ids : PushJob(id)
         \/ \E o \in Operators : RetryStep(o)
         \/ Administer
         \/ \E w \in Workers : Crash(w)
  PROVE  LeaseInv'
<1>0. /\ flight \in [Workers -> [Ids -> Delivery]]
      /\ jobs \in [Ids -> Row]
      /\ \A v \in Workers : popNow[v] <= clock
      /\ HeldUnderLease
  BY ZenonT(15) DEF TypeOK, LeaseInv
<1>1. ASSUME NEW id \in Ids, UNCHANGED <<clock, popNow, flight, disturbed>>,
             \A i \in Ids : i # id => jobs'[i] = jobs[i],
             jobs[id].status # "live" \/ jobs' = jobs
      PROVE  LeaseInv'
  BY <1>0, <1>1, KeepsLease, ZenonT(15) DEF HeldUnderLease, Holds
<1>2. ASSUME NEW id \in Ids, PushJob(id) PROVE LeaseInv'
  BY <1>1, <1>2, OtherRows, SMTT(20) DEF PushJob, workers, Push, Exists
<1>3. ASSUME NEW o \in Operators, NEW id \in Ids,
             \/ RetryFind(o, id) \/ RetryUnpark(o, id)
             \/ RetryRebuild(o, id) \/ RetryForget(o, id)
      PROVE  LeaseInv'
  <2>1. UNCHANGED <<clock, popNow, flight, disturbed>>
    BY <1>3, Zenon DEF RetryFind, RetryUnpark, RetryRebuild, RetryForget, queue,
                workers, history
  <2>2. Retry(id) \/ Push(id, 0, ZeroAttributes) \/ UNCHANGED jobs
    BY <1>3 DEF RetryFind, RetryUnpark, RetryRebuild, RetryForget, queue
  <2>3. jobs[id].status # "live" \/ jobs' = jobs
    BY <2>2 DEF Retry, Parked, Push, Exists
  <2>4. QED
    BY <1>1, <2>1, <2>2, <2>3, OtherRows, Zenon
<1>4. ASSUME NEW id \in Ids, Forget(id) PROVE LeaseInv'
  BY <1>0, <1>4, KeepsLease DEF Forget, queue, workers, history, Holds
<1>5. ASSUME NEW id \in Ids, DeleteStuck(id) PROVE LeaseInv'
  <2>1. \A i \in Ids : i # id => jobs'[i] = jobs[i]
    BY <1>5, OtherRows DEF DeleteStuck, DeleteReserved
  <2>2. \A v \in Workers : Holds(v, id) => id \in disturbed'
    BY SMTT(30), <1>5 DEF DeleteStuck, Held
  <2>3. QED
    BY <1>0, <1>5, <2>1, <2>2, KeepsLease, Zenon DEF DeleteStuck, workers, Holds
<1>6. CASE ClearQueue
  <2>1. \A i \in Ids \ disturbed', v \in Workers :
          Holds(v, i) => jobs[i].status # "live"
    BY SMTT(30), <1>6 DEF ClearQueue, Held, Size
  <2>2. \A i \in Ids : jobs[i].status # "live" => jobs'[i] = jobs[i]
    BY <1>6 DEF ClearQueue, Clear
  <2>3. QED
    BY <1>0, <1>6, <2>1, <2>2, KeepsLease DEF ClearQueue, workers, Holds
<1>7. ASSUME NEW w \in Workers, Crash(w) PROVE LeaseInv'
  <2>1. \A v \in Workers, i \in Ids :
          Holds(v, i)' => flight'[v][i] = flight[v][i] /\ Holds(v, i)
    BY <1>0, <1>7 DEF Crash, NoDelivery, Holds, Running
  <2>2. \A v \in Workers : popNow'[v] <= clock
    BY <1>0, <1>7 DEF Crash, TypeOK
  <2>3. QED
    BY <1>7, <2>1, <2>2, KeepsLease DEF Crash, queue, history
<1>8. QED
  BY <1>2, <1>3, <1>4, <1>5, <1>6, <1>7 DEF RetryStep, Administer

(* Time leaves an undisturbed delivery within its lease: Overrun marks the *)
(* others.                                                                 *)
LEMMA TickKeepsLease ==
  ASSUME TypeOK, LeaseInv, Tick
  PROVE  LeaseInv'
<1>1. /\ clock \in Nat /\ clock' = clock + 1
      /\ flight \in [Workers -> [Ids -> Delivery]]
      /\ popNow \in [Workers -> Nat]
      /\ UNCHANGED <<jobs, popNow, flight>>
      /\ disturbed' = disturbed \cup Overrun(clock + 1)
  BY ZenonT(15) DEF TypeOK, Tick, workers
<1>2. HeldUnderLease'
  <2>1. \A w \in Workers, id \in Ids : flight[w][id].until \in Nat
    BY <1>1 DEF Delivery
  <2>2. \A id \in Ids \ disturbed', w \in Workers :
          Holds(w, id) => ~(flight[w][id].until < clock + 1)
    BY <1>1 DEF Overrun
  <2>3. QED
    BY <1>1, <2>1, <2>2 DEF LeaseInv, HeldUnderLease, Holds
<1>3. NoOverlap'
  BY <1>1 DEF LeaseInv, NoOverlap, Holds
<1>4. QED
  BY <1>1, <1>2, <1>3 DEF LeaseInv

(* The lease is mutual exclusion, for any number of workers, jobs and      *)
(* operators: no two workers hold a job whose deliveries were settled in   *)
(* time and kept their row, and each is backed by the row it claimed       *)
(* (Pop's compare-and-set on reserved_until, and the settling statements). *)
THEOREM LeaseExcludes == Spec => []HeldUnderLease /\ []NoOverlap
<1>1. Init => LeaseInv
  BY DEF Init, LeaseInv, HeldUnderLease, NoOverlap, Holds, NoDelivery, Running
<1>2. TypeOK /\ LeaseInv /\ [Next]_vars => LeaseInv'
  <2>1. ASSUME TypeOK, LeaseInv, UNCHANGED vars PROVE LeaseInv'
    BY <2>1, KeepsLease DEF vars, LeaseInv, Holds
  <2>2. QED
    BY <2>1, TickKeepsLease, PopKeepsLease, ProcessKeepsLease,
       OperatorKeepsLease DEF Next, Fault
<1>3. LeaseInv => HeldUnderLease /\ NoOverlap
  BY DEF LeaseInv
<1>4. QED
  BY <1>1, <1>2, <1>3, TypeCorrect, PTL DEF Spec

(* Of that, what a holder may rely on: its row is live and still carries   *)
(* the reservation Pop made for it, so its settling statement finds it.    *)
THEOREM ReservationStands == Spec => []HeldUnderLease
BY LeaseExcludes, PTL

-----------------------------------------------------------------------------
(* The consequences of the lease, and the order of park.                   *)

(* The statements that change a row's attempts: a claim counts up, a retry *)
(* starts over on a parked row, and a new row starts at zero.              *)
LEMMA AttemptsOfStatement ==
  ASSUME TypeOK, NEW id \in Ids, NEW delay, NEW a, NEW now, NEW exceptions,
         NEW i \in Ids, jobs[i].status = "live", jobs'[i].status # "none",
         \/ Push(id, delay, a) \/ Claim(id, now) \/ DeleteJob(id)
         \/ ReleaseJob(id, delay, exceptions) \/ FailJob(id) \/ Retry(id)
         \/ UNCHANGED jobs
  PROVE  jobs'[i].attempts >= jobs[i].attempts
<1>1. jobs \in [Ids -> Row] /\ jobs[i].attempts \in Nat
  BY DEF TypeOK, Row
<1>2. CASE i # id
  BY SMTT(30), <1>1, <1>2, OtherRows
<1>3. ASSUME i = id PROVE jobs'[i].attempts >= jobs[i].attempts
  <2>1. ~Push(id, delay, a) /\ ~DeleteJob(id) /\ ~Retry(id)
    BY <1>1, <1>3 DEF Push, Exists, DeleteJob, NoRow, Retry, Parked
  <2>2. CASE Claim(id, now)
    BY <1>1, <1>3, <2>2 DEF Claim, Row
  <2>3. CASE ReleaseJob(id, delay, exceptions)
    BY <1>1, <1>3, <2>3 DEF ReleaseJob, Row
  <2>4. CASE FailJob(id)
    BY <1>1, <1>3, <2>4 DEF FailJob, Row
  <2>5. CASE UNCHANGED jobs
    BY <1>1, <2>5
  <2>6. QED
    BY <2>1, <2>2, <2>3, <2>4, <2>5
<1>4. QED
  BY <1>2, <1>3

(* Every step sends at most one statement to the table. *)
LEMMA OneStatement ==
  ASSUME [Next]_vars
  PROVE  \/ UNCHANGED jobs
         \/ Clear
         \/ \E id \in Ids :
              \/ \E delay \in Nat, a \in Attributes : Push(id, delay, a)
              \/ \E now : Claim(id, now)
              \/ DeleteJob(id)
              \/ \E delay, exceptions : ReleaseJob(id, delay, exceptions)
              \/ FailJob(id)
              \/ Retry(id)
<1>1. CASE Tick \/ UNCHANGED vars
  BY <1>1 DEF Tick, vars
<1>2. ASSUME NEW id \in Ids, PushJob(id)
      PROVE  \E delay \in Nat, a \in Attributes : Push(id, delay, a)
  BY <1>2, SettingsAssumption, WaitsAssumption DEF PushJob, Delays
<1>3. ASSUME NEW w \in Workers, PopStep(w)
      PROVE  UNCHANGED jobs \/ \E id \in Ids : \E now : Claim(id, now)
  BY <1>3, ZenonT(15) DEF PopStep, PopSelect, PopClaim, PopLost, PopReturn, queue
<1>4. ASSUME NEW w \in Workers, NEW id \in Ids,
             ProcessStep(w, id) \/ SettleError(w, id)
      PROVE  \/ UNCHANGED jobs \/ DeleteJob(id) \/ FailJob(id)
             \/ \E delay, exceptions : ReleaseJob(id, delay, exceptions)
  BY <1>4, ZenonT(30) DEF ProcessStep, Start, HandlerSucceeds, HandlerFails,
     MiddlewareSettles, SettleDelete, SettleRelease, SettleFail, SettlePark,
     SettleError, Log, Hook, queue
<1>5. ASSUME NEW o \in Operators, NEW id \in Ids,
             \/ RetryFind(o, id) \/ RetryUnpark(o, id)
             \/ RetryRebuild(o, id) \/ RetryForget(o, id)
      PROVE  \/ UNCHANGED jobs \/ Retry(id)
             \/ \E delay \in Nat, a \in Attributes : Push(id, delay, a)
  <2>1. ZeroAttributes \in Attributes
    BY DEF ZeroAttributes, Attributes
  <2>2. QED
    BY <1>5, <2>1, Zenon DEF RetryFind, RetryUnpark, RetryRebuild, RetryForget, queue
<1>6. ASSUME NEW w \in Workers, NEW id \in Ids, PopError(w, id)
      PROVE  UNCHANGED jobs \/ \E now : Claim(id, now)
  BY <1>6 DEF PopError
<1>7. ASSUME NEW w \in Workers, Crash(w) PROVE UNCHANGED jobs
  BY <1>7 DEF Crash, queue
<1>8. CASE Administer
  BY <1>8, Zenon DEF Administer, Forget, DeleteStuck, DeleteReserved, ClearQueue, queue
<1>9. QED
  BY <1>1, <1>2, <1>3, <1>4, <1>5, <1>6, <1>7, <1>8
     DEF Next, RetryStep, Fault

(* A retry never resets the count of a job that is running: queue:retry's  *)
(* UPDATE asks for a parked row, and the row of a job held under its lease *)
(* is live.                                                                *)
THEOREM RunningCountsStand == Spec => AttemptsOnlyGrowWhileHeld
<1>1. ASSUME TypeOK, HeldUnderLease, [Next]_vars, NEW id \in Ids,
             id \notin disturbed, NEW w \in Workers, Holds(w, id),
             jobs'[id].status # "none"
      PROVE  jobs'[id].attempts >= jobs[id].attempts
  <2>1. jobs[id].status = "live"
    BY <1>1, ZenonT(15) DEF HeldUnderLease
  <2>2. ~Clear
    BY <1>1, <2>1 DEF Clear, NoRow
  <2>3. QED
    BY <1>1, <2>1, <2>2, OneStatement, AttemptsOfStatement, ZenonT(15)
<1>2. TypeOK /\ HeldUnderLease /\ [Next]_vars =>
        [\A id \in Ids :
           /\ id \notin disturbed
           /\ \E w \in Workers : Holds(w, id)
           /\ jobs'[id].status # "none"
           => jobs'[id].attempts >= jobs[id].attempts]_vars
  BY <1>1, ZenonT(15)
<1>3. QED
  BY <1>2, TypeCorrect, LeaseExcludes, PTL DEF Spec, AttemptsOnlyGrowWhileHeld

-----------------------------------------------------------------------------
(* Workers and operators on a DatabaseQueue implement JobLifecycle, for    *)
(* any number of them.  The mapping is the status of each row; what makes  *)
(* every deletion a legal one is the order in which Process and park do    *)
(* their work, stated as OrderInv.                                         *)

(* A delivery about to be deleted had its work done, and one about to be   *)
(* recorded or compensated was parked.                                     *)
OrderInv ==
  /\ \A w \in Workers, id \in Ids :
       flight[w][id].stage = "delete" => id \in finished
  /\ \A w \in Workers, id \in Ids :
       flight[w][id].stage \in {"log", "hook"} => id \in parkings
  /\ records \subseteq parkings

(* How a delivery comes to one of these stages. *)
Ordered(w, id) ==
  LET stage == flight[w][id].stage
      next == flight'[w][id].stage
  IN  \/ next \notin {"delete", "log", "hook"}
      \/ next = stage
      \/ next = "delete" /\ id \in finished'
      \/ next = "log" /\ id \in parkings'
      \/ next = "hook" /\ stage = "log"

(* GoTo moves one delivery. *)
LEMMA OrderedGoTo ==
  ASSUME TypeOK, NEW w \in Workers, NEW id \in Ids, NEW stage \in Stages,
         GoTo(w, id, stage),
         \/ stage \notin {"delete", "log", "hook"}
         \/ stage = "delete" /\ id \in finished'
         \/ stage = "log" /\ id \in parkings'
         \/ stage = "hook" /\ flight[w][id].stage = "log"
  PROVE  \A v \in Workers, i \in Ids : Ordered(v, i)
BY HoldsAfter DEF Ordered

(* Done ends one. *)
LEMMA OrderedDone ==
  ASSUME TypeOK, NEW w \in Workers, NEW id \in Ids, Done(w, id)
  PROVE  \A v \in Workers, i \in Ids : Ordered(v, i)
<1>0. /\ flight'[w][id].stage = "none"
      /\ \A v \in Workers, i \in Ids :
           v # w \/ i # id => flight'[v][i] = flight[v][i]
  BY HoldsAfter
<1>1. \A v \in Workers, i \in Ids :
        flight'[v][i].stage = "none" \/ flight'[v][i] = flight[v][i]
  BY <1>0, Zenon
<1>2. QED
  BY <1>1, Zenon DEF Ordered

(* Pops, goroutines and faults keep the order of Process and park. *)
LEMMA OrderedStep ==
  ASSUME TypeOK, [Next]_vars
  PROVE  \A v \in Workers, i \in Ids : Ordered(v, i)
<1>0. flight \in [Workers -> [Ids -> Delivery]]
  BY DEF TypeOK
<1>1. ASSUME UNCHANGED flight PROVE \A v \in Workers, i \in Ids : Ordered(v, i)
  BY <1>1 DEF Ordered
<1>2. ASSUME NEW w \in Workers, PopStep(w)
      PROVE  \A v \in Workers, i \in Ids : Ordered(v, i)
  <2>1. CASE PopSelect(w) \/ \E id \in Ids : PopLost(w, id)
    BY <1>1, <2>1, ZenonT(15) DEF PopSelect, PopLost
  <2>2. ASSUME NEW id \in Ids, PopClaim(w, id)
        PROVE  \A v \in Workers, i \in Ids : Ordered(v, i)
    BY <1>0, <2>2, Zenon DEF PopClaim, Ordered
  <2>3. CASE PopReturn(w)
    <3>1. \A i \in Ids : [flight[w][i] EXCEPT !.stage = "start"].stage = "start"
      BY <1>0 DEF Delivery
    <3>2. QED
      BY <1>0, <2>3, <3>1 DEF PopReturn, Ordered
  <2>4. QED
    BY <1>2, <2>1, <2>2, <2>3, ZenonT(15) DEF PopStep
<1>3. ASSUME NEW w \in Workers, NEW id \in Ids, ProcessStep(w, id)
      PROVE  \A v \in Workers, i \in Ids : Ordered(v, i)
  <2>1. CASE Start(w, id)
    BY <2>1, OrderedGoTo, ZenonT(15) DEF Start, Stages, Running
  <2>2. CASE HandlerSucceeds(w, id)
    BY <2>2, OrderedGoTo DEF HandlerSucceeds, Stages, Running
  <2>3. ASSUME NEW cause \in Causes, HandlerFails(w, id, cause)
        PROVE  \A v \in Workers, i \in Ids : Ordered(v, i)
    <3>1. PICK stage \in {"park", "release"} : flight' = [flight EXCEPT ![w][id] =
               [flight[w][id] EXCEPT !.exceptions = flight[w][id].exceptions + 1,
                                     !.stage = stage]]
      BY <2>3, Zenon DEF HandlerFails
    <3>2. [flight[w][id] EXCEPT !.exceptions = flight[w][id].exceptions + 1,
                                !.stage = stage].stage = stage
      BY <1>0 DEF Delivery
    <3>3. QED
      BY <1>0, <3>1, <3>2 DEF Ordered
  <2>4. ASSUME NEW how \in Middleware, MiddlewareSettles(w, id, how)
        PROVE  \A v \in Workers, i \in Ids : Ordered(v, i)
    BY <2>4, OrderedGoTo, MiddlewareAssumption
       DEF MiddlewareSettles, Stages, Running
  <2>5. CASE SettlePark(w, id)
    BY <2>5, OrderedGoTo DEF SettlePark, Stages
  <2>6. CASE Log(w, id)
    BY <2>6, OrderedGoTo, ZenonT(15) DEF Log, Stages
  <2>7. CASE SettleDelete(w, id) \/ SettleRelease(w, id) \/ SettleFail(w, id)
             \/ Hook(w, id)
    BY <2>7, OrderedDone, Zenon DEF SettleDelete, SettleRelease, SettleFail, Hook
  <2>8. QED
    BY <1>3, <2>1, <2>2, <2>3, <2>4, <2>5, <2>6, <2>7, ZenonT(15) DEF ProcessStep
<1>4. CASE Fault
  <2>1. ASSUME NEW w \in Workers, NEW id \in Ids, SettleError(w, id)
        PROVE  \A v \in Workers, i \in Ids : Ordered(v, i)
    BY <2>1, OrderedDone, Zenon DEF SettleError
  <2>2. ASSUME NEW w \in Workers,
               Crash(w) \/ \E id \in Ids : PopError(w, id)
        PROVE  \A v \in Workers, i \in Ids : Ordered(v, i)
    BY <1>0, <2>2 DEF Crash, PopError, NoDelivery, Ordered
  <2>3. QED
    BY <1>4, <2>1, <2>2 DEF Fault
<1>5. CASE \/ Tick \/ Administer \/ UNCHANGED vars
           \/ \E id \in Ids : PushJob(id)
           \/ \E o \in Operators : RetryStep(o)
  BY <1>1, <1>5, ZenonT(30) DEF Tick, Administer, PushJob, RetryStep, RetryFind,
     RetryUnpark, RetryRebuild, RetryForget, Forget, DeleteStuck, ClearQueue,
     vars, workers
<1>6. QED
  BY <1>2, <1>3, <1>4, <1>5 DEF Next

(* What was done stays done, and only park's record is added to the list. *)
LEMMA HistoryGrows ==
  ASSUME [Next]_vars
  PROVE  /\ finished \subseteq finished' /\ removed \subseteq removed'
         /\ parkings \subseteq parkings'
         /\ \A id \in records' \ records :
              id \in Ids /\ \E w \in Workers : flight[w][id].stage = "log"
<1>1. CASE Tick \/ UNCHANGED vars \/ \E id \in Ids : PushJob(id)
  BY <1>1, Zenon DEF Tick, vars, PushJob
<1>2. ASSUME NEW w \in Workers, PopStep(w) \/ Crash(w)
      PROVE  UNCHANGED <<finished, removed, parkings, records>>
  BY <1>2, ZenonT(15) DEF PopStep, PopSelect, PopClaim, PopLost, PopReturn, Crash, history
<1>3. ASSUME NEW w \in Workers, NEW id \in Ids,
             ProcessStep(w, id) \/ SettleError(w, id) \/ PopError(w, id)
      PROVE  /\ finished \subseteq finished' /\ removed = removed'
             /\ parkings \subseteq parkings'
             /\ \A i \in records' \ records :
                  i \in Ids /\ \E v \in Workers : flight[v][i].stage = "log"
  BY <1>3, ZenonT(30) DEF ProcessStep, Start, HandlerSucceeds, HandlerFails,
     MiddlewareSettles, SettleDelete, SettleRelease, SettleFail, SettlePark,
     SettleError, PopError, Log, Hook, history
<1>4. CASE Administer \/ \E o \in Operators : RetryStep(o)
  BY <1>4, Zenon DEF Administer, RetryStep, RetryFind, RetryUnpark, RetryRebuild,
     RetryForget, Forget, DeleteStuck, ClearQueue, history
<1>5. QED
  BY <1>1, <1>2, <1>3, <1>4, Zenon DEF Next, Fault

(* OrderInv is inductive: Process deletes what it has run, and park tells  *)
(* the driver before it records (queue/worker.go).                         *)
LEMMA OrderInvariant == Spec => []OrderInv
<1>1. Init => OrderInv
  BY DEF Init, OrderInv, NoDelivery
<1>2. TypeOK /\ OrderInv /\ [Next]_vars => OrderInv'
  <2> SUFFICES ASSUME TypeOK, OrderInv, [Next]_vars PROVE OrderInv'
    BY ZenonT(15)
  <2>1. \A w \in Workers, id \in Ids :
          flight'[w][id].stage = "delete" => id \in finished'
    BY OrderedStep, HistoryGrows DEF OrderInv, Ordered
  <2>2. \A w \in Workers, id \in Ids :
          flight'[w][id].stage \in {"log", "hook"} => id \in parkings'
    BY OrderedStep, HistoryGrows DEF OrderInv, Ordered
  <2>3. records' \subseteq parkings'
    BY HistoryGrows DEF OrderInv, TypeOK
  <2>4. QED
    BY <2>1, <2>2, <2>3 DEF OrderInv
<1>3. QED
  BY <1>1, <1>2, TypeCorrect, PTL DEF Spec

(* A job is in the dead letter list, or its compensating hook is called,   *)
(* only once the driver accepted its park.                                 *)
THEOREM ParkBeforeRecord == Spec => []RecordedAfterParked
<1>1. OrderInv => RecordedAfterParked
  BY DEF OrderInv, RecordedAfterParked
<1>2. QED
  BY <1>1, OrderInvariant, PTL

-----------------------------------------------------------------------------
(* The refinement *)

(* The status of the rows after a statement. *)
LEMMA StatusAfter ==
  ASSUME TypeOK, NEW id \in Ids
  PROVE  /\ \A delay, a : Push(id, delay, a) =>
              /\ jobs[id].status = "none"
              /\ \A i \in Ids : jobs'[i].status =
                   IF i = id THEN "live" ELSE jobs[i].status
         /\ \A now : Claim(id, now) =>
              \A i \in Ids : jobs'[i].status = jobs[i].status
         /\ DeleteJob(id) =>
              \A i \in Ids : jobs'[i].status =
                IF i = id THEN "none" ELSE jobs[i].status
         /\ \A delay, exceptions : ReleaseJob(id, delay, exceptions) =>
              \A i \in Ids : jobs'[i].status = jobs[i].status
         /\ FailJob(id) =>
              \A i \in Ids : jobs'[i].status =
                IF i = id /\ jobs[id].status = "live"
                THEN "parked" ELSE jobs[i].status
         /\ Retry(id) =>
              /\ jobs[id].status = "parked"
              /\ \A i \in Ids : jobs'[i].status =
                   IF i = id THEN "live" ELSE jobs[i].status
<1>1. jobs \in [Ids -> Row] /\ jobs[id].status \in {"none", "live", "parked"}
  BY DEF TypeOK, Row, Statuses
<1>2. ASSUME NEW delay, NEW a, Push(id, delay, a)
      PROVE  /\ jobs[id].status = "none"
             /\ \A i \in Ids : jobs'[i].status =
                  IF i = id THEN "live" ELSE jobs[i].status
  BY <1>1, <1>2 DEF Push, Exists
<1>3. ASSUME NEW now, Claim(id, now)
      PROVE  \A i \in Ids : jobs'[i].status = jobs[i].status
  BY <1>1, <1>3, ZenonT(15) DEF Claim, Row
<1>4. ASSUME DeleteJob(id)
      PROVE  \A i \in Ids : jobs'[i].status =
               IF i = id THEN "none" ELSE jobs[i].status
  BY <1>1, <1>4 DEF DeleteJob, NoRow
<1>5. ASSUME NEW delay, NEW exceptions, ReleaseJob(id, delay, exceptions)
      PROVE  \A i \in Ids : jobs'[i].status = jobs[i].status
  BY <1>1, <1>5 DEF ReleaseJob, Row
<1>6. ASSUME FailJob(id)
      PROVE  \A i \in Ids : jobs'[i].status =
               IF i = id /\ jobs[id].status = "live"
               THEN "parked" ELSE jobs[i].status
  BY <1>1, <1>6 DEF FailJob, Exists, Row
<1>7. ASSUME Retry(id)
      PROVE  /\ jobs[id].status = "parked"
             /\ \A i \in Ids : jobs'[i].status =
                  IF i = id THEN "live" ELSE jobs[i].status
  BY <1>1, <1>7 DEF Retry, Parked, Row
<1>8. QED
  BY <1>2, <1>3, <1>4, <1>5, <1>6, <1>7, Zenon

(* A step of the table that maps to a step of the lifecycle. *)
LEMMA LifecycleOfStatement ==
  ASSUME TypeOK, NEW id \in Ids, UNCHANGED <<finished, removed>>,
         \/ UNCHANGED jobs
         \/ \E delay, a : Push(id, delay, a)
         \/ \E now : Claim(id, now)
         \/ DeleteJob(id) /\ id \in finished
         \/ \E delay, exceptions : ReleaseJob(id, delay, exceptions)
         \/ FailJob(id)
         \/ Retry(id)
  PROVE  [Lifecycle!Next]_Lifecycle!vars
<1> DEFINE st == [i \in Ids |-> jobs[i].status]
           st2 == [i \in Ids |-> jobs'[i].status]
<1>1. /\ Lifecycle!Accept(id) =
           (st[id] = "none" /\ st2 = [st EXCEPT ![id] = "live"]
            /\ UNCHANGED <<finished, removed>>)
      /\ Lifecycle!Delete(id) =
           (id \in finished /\ st2 = [st EXCEPT ![id] = "none"]
            /\ UNCHANGED <<finished, removed>>)
      /\ Lifecycle!FailJob(id) =
           (st[id] = "live" /\ st2 = [st EXCEPT ![id] = "parked"]
            /\ UNCHANGED <<finished, removed>>)
      /\ Lifecycle!Retry(id) =
           (st[id] = "parked" /\ st2 = [st EXCEPT ![id] = "live"]
            /\ UNCHANGED <<finished, removed>>)
  BY ZenonT(30) DEF Lifecycle!Accept, Lifecycle!Delete, Lifecycle!FailJob,
         Lifecycle!Retry, Lifecycle!Move
<1>2. st2 = st \/ Lifecycle!Accept(id) \/ Lifecycle!Delete(id)
      \/ Lifecycle!FailJob(id) \/ Lifecycle!Retry(id)
  BY <1>1, StatusAfter, Zenon
<1>3. QED
  BY <1>2, ZenonT(15) DEF Lifecycle!Next, Lifecycle!vars

(* Every step maps to a step of the lifecycle or to a stutter. *)
LEMMA LifecycleStep ==
  ASSUME TypeOK, OrderInv, [Next]_vars
  PROVE  [Lifecycle!Next]_Lifecycle!vars
<1>1. CASE Tick \/ UNCHANGED vars
  BY <1>1, ZenonT(15) DEF Tick, vars, Lifecycle!vars
<1>2. ASSUME NEW id \in Ids, PushJob(id)
      PROVE  [Lifecycle!Next]_Lifecycle!vars
  BY <1>2, LifecycleOfStatement, Zenon DEF PushJob
<1>3. ASSUME NEW w \in Workers, PopStep(w) \/ Crash(w)
      PROVE  [Lifecycle!Next]_Lifecycle!vars
  <2>1. CASE PopSelect(w) \/ PopReturn(w) \/ Crash(w)
    BY <2>1, ZenonT(15) DEF PopSelect, PopReturn, Crash, queue, history, Lifecycle!vars
  <2>2. ASSUME NEW id \in Ids, PopClaim(w, id) \/ PopLost(w, id)
        PROVE  [Lifecycle!Next]_Lifecycle!vars
    BY <2>2, LifecycleOfStatement, ZenonT(15) DEF PopClaim, PopLost, history
  <2>3. QED
    BY <1>3, <2>1, <2>2 DEF PopStep
<1>4. ASSUME NEW w \in Workers, NEW id \in Ids,
             ProcessStep(w, id) \/ SettleError(w, id) \/ PopError(w, id)
      PROVE  [Lifecycle!Next]_Lifecycle!vars
  <2>1. CASE HandlerSucceeds(w, id)
    <3>1. Lifecycle!Finish(id)
      BY <2>1, ZenonT(15) DEF HandlerSucceeds, queue, Lifecycle!Finish
    <3>2. QED
      BY <3>1, ZenonT(15) DEF Lifecycle!Next
  <2>2. CASE SettleDelete(w, id)
    BY <2>2, LifecycleOfStatement, ZenonT(30) DEF SettleDelete, OrderInv, history
  <2>3. CASE \/ SettleRelease(w, id) \/ SettleFail(w, id) \/ SettlePark(w, id)
    BY <2>3, LifecycleOfStatement, ZenonT(30)
       DEF SettleRelease, SettleFail, SettlePark, history
  <2>4. CASE SettleError(w, id)
    BY <2>4, LifecycleOfStatement, Zenon DEF SettleError, OrderInv, history
  <2>5. CASE PopError(w, id)
    BY <2>5, LifecycleOfStatement, ZenonT(15) DEF PopError, history
  <2>6. CASE \/ Start(w, id) \/ Log(w, id) \/ Hook(w, id)
             \/ \E cause \in Causes : HandlerFails(w, id, cause)
             \/ \E how \in Middleware : MiddlewareSettles(w, id, how)
    BY <2>6, LifecycleOfStatement, ZenonT(30)
       DEF Start, Log, Hook, HandlerFails, MiddlewareSettles, queue, history
  <2>7. QED
    BY <1>4, <2>1, <2>2, <2>3, <2>4, <2>5, <2>6 DEF ProcessStep
<1>5. ASSUME NEW o \in Operators, NEW id \in Ids,
             \/ RetryFind(o, id) \/ RetryUnpark(o, id)
             \/ RetryRebuild(o, id) \/ RetryForget(o, id)
      PROVE  [Lifecycle!Next]_Lifecycle!vars
  BY <1>5, LifecycleOfStatement, Zenon DEF RetryFind, RetryUnpark, RetryRebuild,
     RetryForget, queue, history
<1>6. ASSUME NEW ids \in SUBSET Ids, finished' = finished,
             removed' = removed \cup ids,
             \A i \in Ids : jobs'[i].status =
                              IF i \in ids THEN "none" ELSE jobs[i].status
      PROVE  [Lifecycle!Next]_Lifecycle!vars
  <2>1. Lifecycle!Remove(ids)
    BY <1>6 DEF Lifecycle!Remove
  <2>2. QED
    BY <2>1 DEF Lifecycle!Next
<1>7. CASE Administer
  <2>1. ASSUME NEW id \in Ids, Forget(id) PROVE [Lifecycle!Next]_Lifecycle!vars
    BY <2>1, LifecycleOfStatement, ZenonT(15) DEF Forget, queue, history
  <2>2. ASSUME NEW id \in Ids, DeleteStuck(id)
        PROVE  [Lifecycle!Next]_Lifecycle!vars
    <3>1. \A i \in Ids : jobs'[i].status =
                          IF i \in {id} THEN "none" ELSE jobs[i].status
      BY <2>2, StatusAfter, Zenon DEF DeleteStuck, DeleteReserved
    <3>2. QED
      BY <1>6, <2>2, <3>1, ZenonT(15) DEF DeleteStuck
  <2>3. CASE ClearQueue
    <3>1. \A i \in Ids : jobs'[i].status =
                          IF i \in Size THEN "none" ELSE jobs[i].status
      BY <2>3 DEF ClearQueue, Clear, Size, NoRow
    <3>2. Size \in SUBSET Ids
      BY DEF Size
    <3>3. QED
      BY <1>6, <2>3, <3>1, <3>2, ZenonT(15) DEF ClearQueue
  <2>4. QED
    BY <1>7, <2>1, <2>2, <2>3 DEF Administer
<1>8. QED
  BY <1>1, <1>2, <1>3, <1>4, <1>5, <1>7 DEF Next, Fault, RetryStep

(* Workers and operators implement the lifecycle a driver promises: no     *)
(* lost, repeated or stale statement takes a job off the queue whose work  *)
(* was not done and which no operator removed (jobs.Driver,                *)
(* queue/jobs/jobs.go).                                                    *)
THEOREM Refinement == Spec => ImplementsLifecycle
<1>1. Init => Lifecycle!Init
  BY DEF Init, Lifecycle!Init, NoRow
<1>2. TypeOK /\ OrderInv /\ [Next]_vars => [Lifecycle!Next]_Lifecycle!vars
  BY LifecycleStep
<1>3. QED
  BY <1>1, <1>2, TypeCorrect, OrderInvariant, PTL
     DEF Spec, ImplementsLifecycle, Lifecycle!Spec

(* Nothing is lost: a pushed job is in the table until its work was done   *)
(* or an operator removed it.                                              *)
THEOREM NothingLost == Spec => []NoLostJob
<1>1. Init => NoLostJob
  BY DEF Init, NoLostJob
<1>2. TypeOK /\ OrderInv /\ NoLostJob /\ [Next]_vars => NoLostJob'
  <2> SUFFICES ASSUME TypeOK, OrderInv, NoLostJob, [Next]_vars PROVE NoLostJob'
    OBVIOUS
  <2>1. \A id \in Ids : Exists(id) => \/ jobs'[id].status # "none"
                                       \/ id \in finished' \cup removed'
    <3> DEFINE st == [i \in Ids |-> jobs[i].status]
               st2 == [i \in Ids |-> jobs'[i].status]
    <3>1. CASE Lifecycle!Next
      <4>1. ASSUME NEW id \in Ids, Lifecycle!Accept(id) \/ Lifecycle!FailJob(id)
                                   \/ Lifecycle!Retry(id)
            PROVE  \A i \in Ids : st[i] # "none" => st2[i] # "none"
        BY <4>1, Zenon DEF Lifecycle!Accept, Lifecycle!FailJob, Lifecycle!Retry,
                    Lifecycle!Move
      <4>2. ASSUME NEW id \in Ids, Lifecycle!Finish(id)
            PROVE  st2 = st
        BY <4>2 DEF Lifecycle!Finish
      <4>3. ASSUME NEW id \in Ids, Lifecycle!Delete(id)
            PROVE  \A i \in Ids : i = id \/ st2[i] = st[i]
        BY <4>3, Zenon DEF Lifecycle!Delete
      <4>4. ASSUME NEW ids \in SUBSET Ids, Lifecycle!Remove(ids)
            PROVE  \A i \in Ids : i \in removed' \/ st2[i] = st[i]
        BY <4>4 DEF Lifecycle!Remove
      <4>5. \A id \in Ids : Lifecycle!Delete(id) => id \in finished'
        BY DEF Lifecycle!Delete
      <4>6. \A i \in Ids : st[i] # "none" => \/ st2[i] # "none"
                                             \/ i \in finished' \cup removed'
        BY <3>1, <4>1, <4>2, <4>3, <4>4, <4>5, ZenonT(15) DEF Lifecycle!Next
      <4>7. QED
        BY <4>6 DEF Exists
    <3>2. CASE UNCHANGED Lifecycle!vars
      <4>1. st2 = st
        BY <3>2 DEF Lifecycle!vars
      <4>2. \A i \in Ids : st2[i] = st[i]
        BY <4>1, ZenonT(15)
      <4>3. QED
        BY <4>2 DEF Exists
    <3>3. QED
      BY <3>1, <3>2, LifecycleStep
  <2>2. \A id \in pushed' \ pushed : id \in Ids /\ jobs'[id].status # "none"
    <3>1. ASSUME NEW id \in Ids, PushJob(id)
          PROVE  pushed' = pushed \cup {id} /\ jobs'[id].status = "live"
      BY <3>1, StatusAfter, Zenon DEF PushJob
    <3>2. ASSUME NEW w \in Workers, PopStep(w) \/ Crash(w)
          PROVE  pushed' = pushed
      BY <3>2, ZenonT(15) DEF PopStep, PopSelect, PopClaim, PopLost, PopReturn, Crash,
                  history
    <3>3. ASSUME NEW w \in Workers, NEW id \in Ids,
                 ProcessStep(w, id) \/ SettleError(w, id) \/ PopError(w, id)
          PROVE  pushed' = pushed
      BY <3>3, ZenonT(30) DEF ProcessStep, Start, HandlerSucceeds, HandlerFails,
         MiddlewareSettles, SettleDelete, SettleRelease, SettleFail,
         SettlePark, SettleError, PopError, Log, Hook, history
    <3>4. CASE Administer \/ Tick \/ UNCHANGED vars
               \/ \E o \in Operators : RetryStep(o)
      BY <3>4, Zenon DEF Administer, Tick, vars, RetryStep, RetryFind, RetryUnpark,
         RetryRebuild, RetryForget, Forget, DeleteStuck, ClearQueue, history
    <3>5. QED
      BY <3>1, <3>2, <3>3, <3>4, ZenonT(30) DEF Next, Fault
  <2>3. finished \subseteq finished' /\ removed \subseteq removed'
    BY HistoryGrows
  <2>4. QED
    BY <2>1, <2>2, <2>3 DEF NoLostJob, Exists
<1>3. QED
  BY <1>1, <1>2, TypeCorrect, OrderInvariant, PTL DEF Spec

=============================================================================
