--------------------------- MODULE WebhookProofs ---------------------------
(* Proofs about the webhook deliveries: their types and plans, who settles  *)
(* an attempt, who sends, and that an open delivery keeps a job.            *)
EXTENDS Webhook, FiniteSets, TLAPS

(* Zenon is the default backend; the leaves that need arithmetic cite SMT. *)
USE Zenon

----------------------------------------------------------------------------
(* Finite sets                                                              *)

\* The facts about finite sets that the lemmas below take as a hypothesis.
\* FiniteSetTheorems proves them: SetFactsHold, at the end.
Sized == \A S : IsFiniteSet(S) => Cardinality(S) \in Nat
Adding == \A S, x : IsFiniteSet(S) =>
    /\ IsFiniteSet(S \cup {x})
    /\ Cardinality(S \cup {x}) = IF x \in S THEN Cardinality(S) ELSE Cardinality(S) + 1
Removing == \A S, x : IsFiniteSet(S) =>
    /\ IsFiniteSet(S \ {x})
    /\ Cardinality(S \ {x}) = IF x \in S THEN Cardinality(S) - 1 ELSE Cardinality(S)
Emptiness ==
    /\ IsFiniteSet({}) /\ Cardinality({}) = 0
    /\ \A S : IsFiniteSet(S) => (Cardinality(S) = 0 <=> S = {})
SetFacts == Sized /\ Adding /\ Removing /\ Emptiness

----------------------------------------------------------------------------
(* Jobs and workers                                                         *)

\* The constants are the numbers they are meant to be.
LEMMA Constants ==
    /\ MaxAttempts \in Nat \ {0} /\ Lease \in Nat \ {0} /\ Copies \in Nat \ {0}
    /\ DisableAfter \in Nat /\ MaxCommands \in Nat /\ MaxIncidents \in Nat
    /\ Waits \subseteq Nat /\ None \notin Workers
  BY WebhookAssumption

\* schedule takes a job that is neither queued nor run.
LEMMA FreshJob ==
    ASSUME NEW d \in Deliveries, NEW n \in Counts, NEW t \in Triggers, Free(d, n, t) # {}
    PROVE  /\ schedule(d, n, t) \in Jobs
           /\ schedule(d, n, t) \notin DOMAIN jobs
           /\ schedule(d, n, t) \notin Running
           /\ schedule(d, n, t).delivery = d /\ schedule(d, n, t).attempts = n
<1> DEFINE j == schedule(d, n, t)
<1>1. j \in Free(d, n, t)
  BY DEF schedule
<1>2. j \in [delivery: {d}, attempts: {n}, trigger: {t}, copy: 1..Copies] /\ j \notin DOMAIN jobs \union Running
  BY <1>1 DEF Free
<1> QED
  BY <1>2 DEF Jobs

\* A worker at work has a record of its own kind.
LEMMA Busy ==
    ASSUME TypeOK, NEW w \in Workers, ~At(w, "idle")
    PROVE  worker[w] \in WorkerType
<1>1. worker[w] \in {Idle} \union WorkerType
  BY DEF TypeOK
<1>2. Idle.at = "idle"
  BY DEF Idle
<1> QED
  BY <1>1, <1>2 DEF At

\* Who works for a delivery, and holds its token, is at the attempt it counts.
Working(w) == At(w, "claimed") \/ At(w, "sending")

Holds(w) == Working(w) /\ row[worker[w].job.delivery].token = w

\* A running worker moves to another step of the same job.
LEMMA WorkerMoves ==
    ASSUME TypeOK, NEW w \in Workers, ~At(w, "idle"),
           NEW at \in {"claim", "unclaimed", "claimed", "sending", "answered"},
           worker' = [worker EXCEPT ![w].at = at]
    PROVE  /\ worker' \in [Workers -> {Idle} \union WorkerType]
           /\ worker'[w] \in WorkerType /\ worker'[w].at = at
           /\ worker'[w].job = worker[w].job /\ worker'[w].left = worker[w].left
           /\ worker'[w].seen = worker[w].seen
           /\ \A v \in Workers \ {w} : worker'[v] = worker[v]
<1>1. worker[w] \in WorkerType
  BY Busy
<1>2. worker \in [Workers -> {Idle} \union WorkerType]
  BY DEF TypeOK
<1>3. worker'[w] = [worker[w] EXCEPT !.at = at] /\ \A v \in Workers \ {w} : worker'[v] = worker[v]
  BY <1>2
<1>4. [worker[w] EXCEPT !.at = at] \in WorkerType
  BY <1>1 DEF WorkerType
<1> QED
  BY <1>1, <1>2, <1>3, <1>4 DEF WorkerType

----------------------------------------------------------------------------
(* Types and plans                                                          *)

\* Operators about to write a redelivery.
Redelivering == {o \in Operators : operator[o].at = "redeliver"}

\* No plan, in a row or in a reading of one, is longer than the redeliveries
\* that were finished make it.
Plans ==
    /\ IsFiniteSet(Redelivering) /\ Cardinality(Redelivering) <= spent.commands
    /\ \A d \in Deliveries : row[d].max + Cardinality(Redelivering) <= MaxAttempts + spent.commands
    /\ \A o \in Redelivering :
          /\ operator[o].read.max + Cardinality(Redelivering) <= MaxAttempts + spent.commands
          /\ operator[o].read.attempts <= operator[o].read.max

\* A delivery that waits has an attempt left, and the holder of its token is at
\* the attempt it counts.
Counted ==
    /\ \A d \in Deliveries : row[d].status = "pending" => row[d].attempts < row[d].max
    /\ \A w \in Workers : Holds(w) => row[worker[w].job.delivery].attempts = worker[w].job.attempts + 1

TypeInv == TypeOK /\ Plans /\ Counted

\* Initially there is nothing.
LEMMA TypesInit ==
    ASSUME SetFacts
    PROVE  Init => TypeInv
<1> SUFFICES ASSUME Init PROVE TypeInv
  OBVIOUS
<1>1. endpoint \in EndpointType
  BY DEF Init, EndpointType
<1>2. /\ row \in [Deliveries -> RowType]
      /\ \A d \in Deliveries : row[d].status = "unrecorded" /\ row[d].token = None /\ row[d].attempts = 0 /\ row[d].max = 0
  BY SMT, Constants DEF Init, RowType, Unrecorded, Row, Counts
<1>3. DOMAIN jobs \subseteq Jobs
  BY DEF Init
<1>4. worker \in [Workers -> {Idle} \union WorkerType] /\ operator \in [Operators -> {Idle} \union OperatorType]
  BY DEF Init
<1>5. history \in [Deliveries -> [Counts -> 0..2]]
  BY SMT DEF Init
<1>6. spent \in [incidents: 0..MaxIncidents, commands: 0..MaxCommands] /\ spent.commands = 0
  BY SMT, Constants DEF Init
<1>7. TypeOK
  BY SMT, <1>1, <1>2, <1>3, <1>4, <1>5, <1>6 DEF TypeOK, Init
<1>8. Redelivering = {}
  BY DEF Init, Redelivering, Idle
<1>9. Cardinality(Redelivering) = 0 /\ IsFiniteSet(Redelivering)
  BY <1>8 DEF SetFacts, Emptiness
<1>10. Plans
  BY SMT, <1>2, <1>6, <1>8, <1>9, Constants DEF Plans
<1>11. \A w \in Workers : ~Working(w)
  BY DEF Init, Working, At, Idle
<1> QED
  BY <1>2, <1>7, <1>10, <1>11 DEF TypeInv, Counted, Holds

\* The fields of a row.
LEMMA RowFacts ==
    ASSUME NEW r \in RowType
    PROVE  /\ r.attempts \in Nat /\ r.attempts \in Counts /\ r.max \in Nat /\ r.max \in Counts
           /\ r.lease \in Nat /\ r.lease \in 0..Lease /\ r.next \in Nat /\ r.token \in Workers \union {None}
  BY SMT, Constants DEF RowType, Counts

\* A row has a token exactly while it is being sent, and no more attempts than
\* its plan.
Right(r) == (r.status = "processing" <=> r.token # None) /\ r.attempts <= r.max

RowsRight == row \in [Deliveries -> RowType] /\ \A d \in Deliveries : Right(row[d])

\* The rows of the deliveries.
LEMMA Rows ==
    ASSUME TypeOK
    PROVE  RowsRight /\ \A d \in Deliveries : row[d] \in RowType /\ Right(row[d])
  BY DEF TypeOK, RowsRight, Right

\* The counters of incidents and commands.
LEMMA Spent ==
    ASSUME TypeOK
    PROVE  /\ spent \in [incidents: 0..MaxIncidents, commands: 0..MaxCommands]
           /\ spent.commands \in Nat /\ spent.incidents \in Nat
<1>1. spent \in [incidents: 0..MaxIncidents, commands: 0..MaxCommands]
  BY DEF TypeOK
<1> QED
  BY SMT, <1>1, Constants

\* What an operator about to redeliver carries.
LEMMA Reading ==
    ASSUME TypeOK, NEW o \in Operators, operator[o].at = "redeliver"
    PROVE  operator[o].delivery \in Deliveries /\ operator[o].read \in RowType
<1>1. operator[o] \in {Idle} \union OperatorType
  BY DEF TypeOK
<1>2. Idle.at = "idle"
  BY DEF Idle
<1>3. operator[o] \in OperatorType
  BY <1>1, <1>2
<1> QED
  BY <1>3 DEF OperatorType

\* A row of a delivery is replaced by one that is right.
LEMMA RowMoves ==
    ASSUME TypeOK, NEW d \in Deliveries, NEW r \in RowType, Right(r), row' = [row EXCEPT ![d] = r]
    PROVE  RowsRight' /\ row'[d] = r /\ \A e \in Deliveries \ {d} : row'[e] = row[e]
<1>1. row \in [Deliveries -> RowType] /\ \A e \in Deliveries : Right(row[e])
  BY Rows DEF RowsRight
<1>2. row' \in [Deliveries -> RowType] /\ row'[d] = r /\ \A e \in Deliveries \ {d} : row'[e] = row[e]
  BY <1>1
<1>3. \A e \in Deliveries : Right(row'[e])
  BY <1>1, <1>2
<1> QED
  BY <1>2, <1>3 DEF RowsRight

\* Rows without a token.
LEMMA RowFields ==
    ASSUME NEW status \in {"unrecorded", "pending", "delivered", "failed", "cleaned"},
           NEW attempts \in Counts, NEW max \in Counts, NEW next \in Nat
    PROVE  LET r == Row(status, attempts, max, next) IN
           /\ r \in RowType /\ r.status = status /\ r.attempts = attempts /\ r.max = max
           /\ r.token = None /\ r.lease = 0 /\ r.next = next /\ r.status # "processing"
  BY SMT, Constants DEF Row, RowType

\* The redeliveries under way are the same.
SameRedeliveries ==
    \A o \in Operators :
        operator'[o] = operator[o] \/ (operator[o].at # "redeliver" /\ operator'[o].at # "redeliver")

\* Plans are not touched by a step that lengthens none and leaves the operators
\* about to redeliver alone.
LEMMA PlansKept ==
    ASSUME SetFacts,
           TypeInv, operator' = operator \/ SameRedeliveries, spent'.commands \in Nat, spent'.commands >= spent.commands,
           row' \in [Deliveries -> RowType],
           \A d \in Deliveries : row'[d].max <= row[d].max \/ row'[d].max <= MaxAttempts
    PROVE  Plans'
<1>1. Redelivering' = Redelivering /\ \A o \in Redelivering : operator'[o] = operator[o]
  BY DEF Redelivering, SameRedeliveries
<1> DEFINE K == Cardinality(Redelivering)
<1>2. K \in Nat /\ K <= spent.commands /\ IsFiniteSet(Redelivering)
  BY DEF TypeInv, Plans, SetFacts, Sized
<1>3. /\ \A d \in Deliveries : row[d].max + K <= MaxAttempts + spent.commands
      /\ \A o \in Redelivering :
            /\ operator[o].read.max + K <= MaxAttempts + spent.commands
            /\ operator[o].read.attempts <= operator[o].read.max
  BY DEF TypeInv, Plans
<1>4. spent.commands \in Nat
  BY Spent DEF TypeInv
<1>5. \A d \in Deliveries : row[d].max \in Nat /\ row'[d].max \in Nat
  BY Rows, RowFacts DEF TypeInv
<1>6. \A o \in Redelivering : operator[o].read.max \in Nat
  BY Reading, RowFacts DEF TypeInv, Redelivering
<1> HIDE DEF K
<1>7. \A d \in Deliveries : row'[d].max + K <= MaxAttempts + spent'.commands
  BY SMT, <1>2, <1>3, <1>4, <1>5, Constants
<1>8. \A o \in Redelivering : operator[o].read.max + K <= MaxAttempts + spent'.commands
  BY SMT, <1>2, <1>3, <1>4, <1>6, Constants
<1>9. \A o \in Redelivering :
         /\ operator'[o].read.max + K <= MaxAttempts + spent'.commands
         /\ operator'[o].read.attempts <= operator'[o].read.max
  BY <1>1, <1>3, <1>8
<1> QED
  BY SMT, <1>1, <1>2, <1>4, <1>7, <1>9 DEF Plans, K

\* One more job in the queue.
LEMMA EnqueueOne ==
    ASSUME NEW j, NEW wait, jobs' = Enqueue([i \in {j} |-> wait])
    PROVE  DOMAIN jobs' = DOMAIN jobs \union {j}
  BY DEF Enqueue

\* A delivery that waits has an attempt left.
LEMMA Waits0 ==
    ASSUME TypeInv, NEW d \in Deliveries, row[d].status = "pending"
    PROVE  row[d].attempts < row[d].max
  BY DEF TypeInv, Counted

\* Steps that leave the worker at the claim, or the row of its delivery, as they
\* are keep what is counted.
LEMMA CountedKept ==
    ASSUME TypeInv,
           \A d \in Deliveries : row'[d].status = "pending" => row'[d].attempts < row'[d].max,
           \A w \in Workers : Holds(w)' =>
               \/ row'[worker'[w].job.delivery].attempts = worker'[w].job.attempts + 1
               \/ /\ Holds(w) /\ worker'[w].job = worker[w].job
                  /\ row'[worker[w].job.delivery].attempts = row[worker[w].job.delivery].attempts
    PROVE  Counted'
  BY DEF TypeInv, Counted

\* What a worker at work carries.
LEMMA Carries ==
    ASSUME TypeOK, NEW w \in Workers, ~At(w, "idle")
    PROVE  /\ worker[w] \in WorkerType /\ worker[w].job \in Jobs
           /\ worker[w].job.delivery \in Deliveries
           /\ worker[w].job.attempts \in Counts /\ worker[w].job.attempts \in Nat
           /\ worker[w].left \in Nat /\ worker[w].left \in 0..Lease
<1>1. worker[w] \in WorkerType
  BY Busy
<1>2. worker[w].job \in Jobs /\ worker[w].left \in 0..Lease
  BY <1>1 DEF WorkerType
<1> QED
  BY SMT, <1>1, <1>2, Constants DEF Jobs, Counts

\* Who keeps a token while the row of one other delivery changes.
LEMMA OthersHold ==
    ASSUME TypeOK, NEW d \in Deliveries, \A e \in Deliveries \ {d} : row'[e] = row[e],
           NEW v \in Workers, worker'[v] = worker[v], Holds(v)', row'[d].token # v
    PROVE  /\ Holds(v) /\ worker'[v].job = worker[v].job
           /\ row'[worker[v].job.delivery] = row[worker[v].job.delivery]
<1>1. Working(v)
  BY DEF Holds, Working, At
<1>2. worker[v].job.delivery \in Deliveries
  BY <1>1, Carries DEF Working, At
<1>3. row'[worker[v].job.delivery].token = v
  BY DEF Holds
<1>4. worker[v].job.delivery # d
  BY <1>3
<1> QED
  BY <1>1, <1>2, <1>3, <1>4 DEF Holds

\* Who keeps a token while no row changes.
LEMMA SameHold ==
    ASSUME NEW v, worker'[v] = worker[v], row' = row, Holds(v)'
    PROVE  /\ Holds(v) /\ worker'[v].job = worker[v].job
           /\ row'[worker[v].job.delivery] = row[worker[v].job.delivery]
  BY DEF Holds, Working, At

\* Record writes a first row and queues its job.
LEMMA RecordMoves ==
    ASSUME TypeOK, NEW d \in Deliveries, NEW t \in Triggers, Record(d, t)
    PROVE  /\ row'[d].status = "pending" /\ row'[d].attempts = 0 /\ row'[d].max = MaxAttempts
           /\ row'[d].token = None /\ row'[d].lease = 0
           /\ RowsRight' /\ \A e \in Deliveries \ {d} : row'[e] = row[e]
           /\ DOMAIN jobs' = DOMAIN jobs \union {schedule(d, 0, t)}
           /\ schedule(d, 0, t) \in Jobs /\ schedule(d, 0, t) \notin DOMAIN jobs
           /\ schedule(d, 0, t) \notin Running
           /\ schedule(d, 0, t).delivery = d /\ schedule(d, 0, t).attempts = 0
           /\ row[d].status = "unrecorded"
           /\ UNCHANGED <<endpoint, worker, operator, history, mishaps, spent>>
<1>1. 0 \in Counts /\ MaxAttempts \in Counts /\ 0 \in Nat
  BY SMT, Constants DEF Counts
<1> DEFINE r == Row("pending", 0, MaxAttempts, 0)
<1>2. r \in RowType /\ r.status = "pending" /\ r.attempts = 0 /\ r.max = MaxAttempts /\ r.token = None /\ r.lease = 0
  BY SMT, <1>1, RowFields
<1>3. row' = [row EXCEPT ![d] = r]
  BY DEF Record
<1>4. Right(r)
  BY SMT, <1>2, Constants DEF Right
<1> HIDE DEF r
<1>5. RowsRight' /\ row'[d] = r /\ \A e \in Deliveries \ {d} : row'[e] = row[e]
  BY <1>2, <1>3, <1>4, RowMoves
<1>6. DOMAIN jobs' = DOMAIN jobs \union {schedule(d, 0, t)}
  BY EnqueueOne DEF Record
<1>7. /\ schedule(d, 0, t) \in Jobs /\ schedule(d, 0, t) \notin DOMAIN jobs
      /\ schedule(d, 0, t) \notin Running
      /\ schedule(d, 0, t).delivery = d /\ schedule(d, 0, t).attempts = 0
  BY SMT, <1>1, FreshJob DEF Record
<1> QED
  BY <1>2, <1>5, <1>6, <1>7 DEF Record

\* Record keeps the types.
LEMMA RecordTypes ==
    ASSUME SetFacts, TypeInv, NEW d \in Deliveries, NEW t \in Triggers, Record(d, t)
    PROVE  TypeInv'
<1>1. TypeOK
  BY DEF TypeInv
<1>2. /\ row'[d].status = "pending" /\ row'[d].attempts = 0 /\ row'[d].max = MaxAttempts /\ row'[d].token = None
      /\ RowsRight' /\ \A e \in Deliveries \ {d} : row'[e] = row[e]
      /\ DOMAIN jobs' = DOMAIN jobs \union {schedule(d, 0, t)} /\ schedule(d, 0, t) \in Jobs
      /\ UNCHANGED <<endpoint, worker, operator, history, mishaps, spent>>
  BY <1>1, RecordMoves
<1>3. TypeOK'
  BY <1>1, <1>2 DEF TypeOK, RowsRight, Right
<1>4. spent.commands \in Nat /\ spent'.commands = spent.commands
  BY <1>1, <1>2, Spent
<1>5. \A e \in Deliveries : row'[e].max <= row[e].max \/ row'[e].max <= MaxAttempts
  BY SMT, <1>1, <1>2, Rows, RowFacts, Constants
<1>6. Plans'
  <2>1. row' \in [Deliveries -> RowType] /\ operator' = operator
    BY <1>2 DEF RowsRight
  <2>2. spent'.commands \in Nat /\ spent'.commands >= spent.commands
    BY SMT, <1>4
  <2> QED
    BY <1>5, <2>1, <2>2, PlansKept
<1>7. \A e \in Deliveries : row'[e].status = "pending" => row'[e].attempts < row'[e].max
  BY SMT, <1>2, Waits0, Constants
<1>8. \A w \in Workers : Holds(w)' =>
         /\ Holds(w) /\ worker'[w].job = worker[w].job
         /\ row'[worker[w].job.delivery] = row[worker[w].job.delivery]
  BY <1>1, <1>2, OthersHold, Constants
<1> QED
  BY <1>3, <1>6, <1>7, <1>8, CountedKept DEF TypeInv

\* A step that changes no row, and gives no worker a token.
LEMMA QuietTypes ==
    ASSUME SetFacts, TypeInv, TypeOK', row' = row, operator' = operator \/ SameRedeliveries,
           spent'.commands \in Nat, spent'.commands >= spent.commands,
           \A w \in Workers : Holds(w)' => Holds(w) /\ worker'[w].job = worker[w].job
    PROVE  TypeInv'
<1>1. TypeOK /\ spent.commands \in Nat
  BY Spent DEF TypeInv
<1>2. row' \in [Deliveries -> RowType] /\ \A d \in Deliveries : row'[d].max <= row[d].max
  BY SMT, <1>1, Rows, RowFacts DEF RowsRight
<1>3. Plans'
  BY <1>2, PlansKept
<1>4. \A d \in Deliveries : row'[d].status = "pending" => row'[d].attempts < row'[d].max
  BY Waits0
<1> QED
  BY <1>3, <1>4, CountedKept DEF TypeInv

\* An incident is counted.
LEMMA IncidentMoves ==
    ASSUME TypeOK, Incident
    PROVE  /\ spent' \in [incidents: 0..MaxIncidents, commands: 0..MaxCommands]
           /\ spent'.commands = spent.commands
<1>1. spent \in [incidents: 0..MaxIncidents, commands: 0..MaxCommands] /\ spent.incidents \in Nat
  BY Spent
<1>2. spent' = [spent EXCEPT !.incidents = spent.incidents + 1] /\ spent.incidents < MaxIncidents
  BY DEF Incident
<1> QED
  BY SMT, <1>1, <1>2, Constants

\* A command is counted.
LEMMA CommandMoves ==
    ASSUME TypeOK, Command
    PROVE  /\ spent' \in [incidents: 0..MaxIncidents, commands: 0..MaxCommands]
           /\ spent'.commands = spent.commands + 1 /\ spent.commands \in Nat
<1>1. spent \in [incidents: 0..MaxIncidents, commands: 0..MaxCommands] /\ spent.commands \in Nat
  BY Spent
<1>2. spent' = [spent EXCEPT !.commands = spent.commands + 1] /\ spent.commands < MaxCommands
  BY DEF Command
<1> QED
  BY SMT, <1>1, <1>2, Constants

\* A mishap is recorded.
LEMMA OneMishap ==
    ASSUME TypeOK, NEW d \in Deliveries, NEW kind \in {"run twice", "given back late", "overtaken"}
    PROVE  mishaps \union {<<d, kind>>} \subseteq Deliveries \X {"run twice", "given back late", "overtaken"}
<1>1. <<d, kind>> \in Deliveries \X {"run twice", "given back late", "overtaken"}
  OBVIOUS
<1> QED
  BY <1>1 DEF TypeOK

\* Read takes a job from the queue.
LEMMA ReadMoves ==
    ASSUME TypeOK, NEW w \in Workers, NEW j \in DOMAIN jobs, Read(w, j)
    PROVE  /\ At(w, "idle") /\ j \in Jobs
           /\ worker' \in [Workers -> {Idle} \union WorkerType]
           /\ worker'[w].at = "claim" /\ worker'[w].job = j /\ worker'[w].left = 0
           /\ \A v \in Workers \ {w} : worker'[v] = worker[v]
           /\ mishaps' \subseteq Deliveries \X {"run twice", "given back late", "overtaken"}
           /\ mishaps \subseteq mishaps'
           /\ j \in Running => <<j.delivery, "run twice">> \in mishaps'
           /\ spent' \in [incidents: 0..MaxIncidents, commands: 0..MaxCommands]
           /\ spent'.commands = spent.commands
           /\ UNCHANGED <<endpoint, row, jobs, operator, history>>
<1>1. j \in Jobs /\ worker \in [Workers -> {Idle} \union WorkerType]
  BY DEF TypeOK
<1> DEFINE seen == IF ~endpoint.exists THEN "gone" ELSE IF endpoint.active THEN "on" ELSE "off"
           b == [at |-> "claim", job |-> j, left |-> 0, seen |-> seen]
<1>2. seen \in {"on", "off", "gone"}
  OBVIOUS
<1> HIDE DEF seen
<1>3. b \in WorkerType /\ b.at = "claim" /\ b.job = j /\ b.left = 0
  BY SMT, <1>1, <1>2, Constants DEF WorkerType
<1>4. worker' = [worker EXCEPT ![w] = b]
  BY DEF Read, seen
<1> HIDE DEF b
<1>5. worker' \in [Workers -> {Idle} \union WorkerType] /\ worker'[w] = b /\ \A v \in Workers \ {w} : worker'[v] = worker[v]
  BY <1>1, <1>3, <1>4
<1>6. j.delivery \in Deliveries
  BY <1>1 DEF Jobs
<1>7. mishaps \subseteq Deliveries \X {"run twice", "given back late", "overtaken"}
  BY DEF TypeOK
<1>8. CASE j \in Running
  <2>1. Incident /\ mishaps' = mishaps \union {<<j.delivery, "run twice">>}
    BY <1>8 DEF Read
  <2>2. /\ spent' \in [incidents: 0..MaxIncidents, commands: 0..MaxCommands]
        /\ spent'.commands = spent.commands
    BY <2>1, IncidentMoves
  <2>3. mishaps' \subseteq Deliveries \X {"run twice", "given back late", "overtaken"}
    BY <1>6, <2>1, OneMishap
  <2> QED
    BY <1>1, <1>3, <1>5, <2>1, <2>2, <2>3 DEF Read
<1>9. CASE j \notin Running
  <2>1. UNCHANGED <<mishaps, spent>>
    BY <1>9 DEF Read
  <2> QED
    BY <1>1, <1>3, <1>5, <1>7, <1>9, <2>1, Spent DEF Read
<1> QED
  BY <1>8, <1>9

\* Read keeps the types.
LEMMA ReadTypes ==
    ASSUME SetFacts, TypeInv, NEW w \in Workers, NEW j \in DOMAIN jobs, Read(w, j)
    PROVE  TypeInv'
<1>1. TypeOK
  BY DEF TypeInv
<1>2. /\ worker' \in [Workers -> {Idle} \union WorkerType] /\ worker'[w].at = "claim"
      /\ \A v \in Workers \ {w} : worker'[v] = worker[v]
      /\ mishaps' \subseteq Deliveries \X {"run twice", "given back late", "overtaken"}
      /\ spent' \in [incidents: 0..MaxIncidents, commands: 0..MaxCommands]
      /\ spent'.commands = spent.commands
      /\ UNCHANGED <<endpoint, row, jobs, operator, history>>
  BY <1>1, ReadMoves
<1>3. TypeOK'
  BY <1>1, <1>2 DEF TypeOK
<1>4. ~Holds(w)'
  BY <1>2 DEF Holds, Working, At
<1>5. \A v \in Workers : Holds(v)' => Holds(v) /\ worker'[v].job = worker[v].job
  BY <1>2, <1>4, SameHold
<1>6. spent'.commands \in Nat /\ spent'.commands >= spent.commands
  <2>1. spent.commands \in Nat
    BY <1>1, Spent
  <2>2. spent'.commands = spent.commands
    BY <1>2
  <2> QED
    BY SMT, <2>1, <2>2
<1> QED
  BY <1>2, <1>3, <1>5, <1>6, QuietTypes

\* What a claim does: it takes the delivery, at the attempt after the count the
\* job carries, or finds it taken.
Claims(w, d) ==
    /\ At(w, "claim") /\ d \in Deliveries
    /\ worker' \in [Workers -> {Idle} \union WorkerType] /\ worker'[w].job = worker[w].job
    /\ \A v \in Workers \ {w} : worker'[v] = worker[v]
    /\ RowsRight' /\ \A e \in Deliveries \ {d} : row'[e] = row[e]
    /\ \/ /\ Claimable(row[d], worker[w].job.attempts)
          /\ worker'[w].at = "claimed" /\ worker'[w].left = Lease
          /\ row'[d].status = "processing" /\ row'[d].attempts = worker[w].job.attempts + 1
          /\ row'[d].max = row[d].max /\ row'[d].token = w /\ row'[d].lease = Lease
       \/ /\ ~Claimable(row[d], worker[w].job.attempts)
          /\ worker'[w].at = "unclaimed" /\ row' = row
    /\ UNCHANGED <<endpoint, jobs, operator, history, mishaps, spent>>

\* Claim does no more than this.
LEMMA ClaimMoves ==
    ASSUME TypeInv, NEW w \in Workers, NEW d, d = worker[w].job.delivery, Claim(w)
    PROVE  Claims(w, d)
<1> DEFINE j == worker[w].job
<1>1. TypeOK /\ At(w, "claim")
  BY DEF TypeInv, Claim
<1>2. ~At(w, "idle")
  BY <1>1 DEF At
<1>3. worker[w] \in WorkerType /\ d \in Deliveries /\ j.attempts \in Nat
  BY <1>1, <1>2, Carries
<1>4. row[d] \in RowType /\ Right(row[d]) /\ RowsRight
  BY <1>1, <1>3, Rows
<1>5. worker \in [Workers -> {Idle} \union WorkerType]
  BY <1>1 DEF TypeOK
<1>6. CASE Claimable(row[d], j.attempts)
  <2> DEFINE r == [row[d] EXCEPT !.status = "processing", !.attempts = j.attempts + 1, !.token = w, !.lease = Lease]
             b == [worker[w] EXCEPT !.at = "claimed", !.left = Lease]
  <2>1. row' = [row EXCEPT ![d] = r] /\ worker' = [worker EXCEPT ![w] = b]
    BY <1>6 DEF Claim
  <2>2. j.attempts + 1 <= row[d].max /\ j.attempts + 1 \in Counts
    <3>1. row[d].max \in Nat /\ row[d].attempts \in Nat /\ row[d].max \in Counts
      BY <1>4, RowFacts
    <3>2. j.attempts + 1 <= row[d].max
      BY SMT, <1>3, <1>4, <1>6, <3>1, Waits0 DEF Claimable, Right
    <3> QED
      BY SMT, <1>3, <3>1, <3>2, Constants DEF Counts
  <2>3. /\ r \in RowType /\ r.status = "processing" /\ r.attempts = j.attempts + 1 /\ r.token = w
        /\ r.lease = Lease /\ r.max = row[d].max
    <3>1. Lease \in 0..Lease /\ w \in Workers \union {None}
      BY SMT, Constants
    <3>2. r \in RowType
      BY <1>4, <2>2, <3>1 DEF RowType
    <3> QED
      BY <1>4, <3>2 DEF RowType
  <2>4. Right(r)
    BY <2>2, <2>3, Constants DEF Right
  <2>5. b \in WorkerType /\ b.at = "claimed" /\ b.left = Lease /\ b.job = j
    <3>1. Lease \in 0..Lease
      BY SMT, Constants
    <3>2. b \in WorkerType
      BY <1>3, <3>1 DEF WorkerType
    <3> QED
      BY <1>3, <3>2 DEF WorkerType
  <2> HIDE DEF r, b
  <2>6. RowsRight' /\ row'[d] = r /\ \A e \in Deliveries \ {d} : row'[e] = row[e]
    BY <1>1, <1>3, <2>1, <2>3, <2>4, RowMoves
  <2>7. /\ worker' \in [Workers -> {Idle} \union WorkerType]
        /\ worker'[w] = b /\ \A v \in Workers \ {w} : worker'[v] = worker[v]
    BY <1>5, <2>1, <2>5
  <2> QED
    BY <1>1, <1>3, <1>6, <2>3, <2>5, <2>6, <2>7 DEF Claim, Claims
<1>7. CASE ~Claimable(row[d], j.attempts)
  <2>1. worker' = [worker EXCEPT ![w].at = "unclaimed"] /\ row' = row
    BY <1>7 DEF Claim
  <2>2. /\ worker' \in [Workers -> {Idle} \union WorkerType] /\ worker'[w].at = "unclaimed"
        /\ worker'[w].job = j /\ \A v \in Workers \ {w} : worker'[v] = worker[v]
    BY <1>1, <1>2, <2>1, WorkerMoves
  <2>3. RowsRight'
    BY <1>4, <2>1 DEF RowsRight
  <2> QED
    BY <1>1, <1>3, <1>7, <2>1, <2>2, <2>3 DEF Claim, Claims
<1> QED
  BY <1>6, <1>7

\* Claim keeps the types.
LEMMA ClaimTypes ==
    ASSUME SetFacts, TypeInv, NEW w \in Workers, Claim(w)
    PROVE  TypeInv'
<1>1. TypeOK
  BY DEF TypeInv
<1>2. PICK d : d = worker[w].job.delivery
  OBVIOUS
<1>3. /\ d \in Deliveries
      /\ worker' \in [Workers -> {Idle} \union WorkerType] /\ worker'[w].job = worker[w].job
      /\ \A v \in Workers \ {w} : worker'[v] = worker[v]
      /\ RowsRight' /\ \A e \in Deliveries \ {d} : row'[e] = row[e]
      /\ \/ /\ worker'[w].at = "claimed"
            /\ row'[d].status = "processing" /\ row'[d].attempts = worker[w].job.attempts + 1
            /\ row'[d].max = row[d].max /\ row'[d].token = w
         \/ worker'[w].at = "unclaimed" /\ row' = row
      /\ UNCHANGED <<endpoint, jobs, operator, history, mishaps, spent>>
  <2>1. Claims(w, d)
    BY <1>2, ClaimMoves
  <2> QED
    BY <2>1 DEF Claims
<1>4. TypeOK'
  BY <1>1, <1>3 DEF TypeOK, RowsRight, Right
<1>5. spent.commands \in Nat /\ spent'.commands = spent.commands
  BY <1>1, <1>3, Spent
<1>6. \A e \in Deliveries : row'[e].max <= row[e].max
  BY SMT, <1>1, <1>3, Rows, RowFacts
<1>7. Plans'
  <2>1. row' \in [Deliveries -> RowType] /\ operator' = operator
    BY <1>3 DEF RowsRight
  <2>2. spent'.commands \in Nat /\ spent'.commands >= spent.commands
    BY SMT, <1>5
  <2> QED
    BY <1>6, <2>1, <2>2, PlansKept
<1>8. \A e \in Deliveries : row'[e].status = "pending" => row'[e].attempts < row'[e].max
  BY <1>3, Waits0
<1>9. ASSUME NEW v \in Workers, Holds(v)'
      PROVE  \/ row'[worker'[v].job.delivery].attempts = worker'[v].job.attempts + 1
             \/ /\ Holds(v) /\ worker'[v].job = worker[v].job
                /\ row'[worker[v].job.delivery].attempts = row[worker[v].job.delivery].attempts
  <2>1. CASE worker'[w].at = "claimed" /\ row'[d].attempts = worker[w].job.attempts + 1 /\ row'[d].token = w
    <3>1. CASE v = w
      BY <1>2, <1>3, <2>1, <3>1
    <3>2. CASE v # w
      BY <1>1, <1>3, <1>9, <2>1, <3>2, OthersHold
    <3> QED
      BY <3>1, <3>2
  <2>2. CASE worker'[w].at = "unclaimed" /\ row' = row
    <3>1. v # w
      BY <1>9, <2>2 DEF Holds, Working, At
    <3> QED
      BY <1>3, <1>9, <2>2, <3>1, SameHold
  <2> QED
    BY <1>3, <2>1, <2>2
<1> QED
  BY <1>4, <1>7, <1>8, <1>9, CountedKept DEF TypeInv

\* Unclaimed gives the job up or puts it back.
LEMMA UnclaimedMoves ==
    ASSUME TypeOK, NEW w \in Workers, NEW d, d = worker[w].job.delivery, Unclaimed(w)
    PROVE  /\ At(w, "unclaimed") /\ d \in Deliveries
           /\ worker' \in [Workers -> {Idle} \union WorkerType]
           /\ \A v \in Workers \ {w} : worker'[v] = worker[v]
           /\ \/ worker'[w] = Idle
              \/ /\ ~AskedAgain(row[d], worker[w].job.attempts)
                 /\ worker'[w].at = "answered" /\ worker'[w].job = worker[w].job
           /\ DOMAIN jobs' = DOMAIN jobs
           /\ UNCHANGED <<endpoint, row, operator, history, mishaps, spent>>
<1> DEFINE j == worker[w].job
<1>1. At(w, "unclaimed") /\ ~At(w, "idle")
  BY DEF Unclaimed, At
<1>2. d \in Deliveries
  BY <1>1, Carries
<1>3. worker \in [Workers -> {Idle} \union WorkerType]
  BY DEF TypeOK
<1>4. CASE AskedAgain(row[d], j.attempts)
  <2>1. \E wait : Again(w, wait)
    BY <1>4 DEF Unclaimed
  <2>2. worker' = [worker EXCEPT ![w] = Idle] /\ DOMAIN jobs' = DOMAIN jobs
    BY <2>1 DEF Again
  <2> QED
    BY <1>1, <1>2, <1>3, <2>2 DEF Unclaimed
<1>5. CASE ~AskedAgain(row[d], j.attempts)
  <2>1. worker' = [worker EXCEPT ![w].at = "answered"] /\ jobs' = jobs
    BY <1>5 DEF Unclaimed, Finished
  <2>2. /\ worker' \in [Workers -> {Idle} \union WorkerType] /\ worker'[w].at = "answered"
        /\ worker'[w].job = j /\ \A v \in Workers \ {w} : worker'[v] = worker[v]
    BY <1>1, <2>1, WorkerMoves
  <2> QED
    BY <1>1, <1>2, <1>5, <2>1, <2>2 DEF Unclaimed
<1> QED
  BY <1>4, <1>5

\* Unclaimed keeps the types.
LEMMA UnclaimedTypes ==
    ASSUME SetFacts, TypeInv, NEW w \in Workers, Unclaimed(w)
    PROVE  TypeInv'
<1>1. TypeOK
  BY DEF TypeInv
<1>2. PICK d : d = worker[w].job.delivery
  OBVIOUS
<1>3. /\ worker' \in [Workers -> {Idle} \union WorkerType]
      /\ \A v \in Workers \ {w} : worker'[v] = worker[v]
      /\ worker'[w] = Idle \/ worker'[w].at = "answered"
      /\ DOMAIN jobs' = DOMAIN jobs
      /\ UNCHANGED <<endpoint, row, operator, history, mishaps, spent>>
  BY <1>1, <1>2, UnclaimedMoves
<1>4. TypeOK'
  BY <1>1, <1>3 DEF TypeOK
<1>5. ~Holds(w)'
  BY SMT, <1>3 DEF Holds, Working, At, Idle
<1>6. \A v \in Workers : Holds(v)' => Holds(v) /\ worker'[v].job = worker[v].job
  BY <1>3, <1>5, SameHold
<1> QED
  BY SMT, <1>1, <1>3, <1>4, <1>6, Spent, QuietTypes

\* GiveBack takes the attempt back, if the claim is still the worker's.
LEMMA GiveBackMoves ==
    ASSUME TypeInv, NEW w \in Workers, NEW d, d = worker[w].job.delivery, GiveBack(w)
    PROVE  /\ At(w, "claimed") /\ d \in Deliveries
           /\ worker' \in [Workers -> {Idle} \union WorkerType]
           /\ worker'[w].at = "answered" /\ worker'[w].job = worker[w].job
           /\ \A v \in Workers \ {w} : worker'[v] = worker[v]
           /\ RowsRight' /\ \A e \in Deliveries \ {d} : row'[e] = row[e]
           /\ mishaps' \subseteq Deliveries \X {"run twice", "given back late", "overtaken"}
           /\ mishaps \subseteq mishaps'
           /\ \/ /\ Holds(w)
                 /\ row'[d].status = "pending" /\ row'[d].attempts = worker[w].job.attempts
                 /\ row[d].attempts = worker[w].job.attempts + 1
                 /\ row'[d].max = row[d].max /\ row'[d].token = None /\ row'[d].lease = 0
                 /\ endpoint.active => <<d, "given back late">> \in mishaps'
              \/ ~Holds(w) /\ row' = row
           /\ UNCHANGED <<endpoint, jobs, operator, history, spent>>
<1> DEFINE j == worker[w].job
<1>1. TypeOK /\ At(w, "claimed") /\ ~At(w, "idle") /\ Working(w)
  BY DEF TypeInv, GiveBack, At, Working
<1>2. worker[w] \in WorkerType /\ d \in Deliveries /\ j.attempts \in Nat /\ j.attempts \in Counts
  BY <1>1, Carries
<1>3. row[d] \in RowType /\ Right(row[d]) /\ RowsRight
  BY <1>1, <1>2, Rows
<1>4. /\ worker' \in [Workers -> {Idle} \union WorkerType] /\ worker'[w].at = "answered"
      /\ worker'[w].job = j /\ \A v \in Workers \ {w} : worker'[v] = worker[v]
  BY <1>1, WorkerMoves DEF GiveBack, Finished
<1>5. CASE row[d].token = w
  <2> DEFINE r == [row[d] EXCEPT !.status = "pending", !.attempts = j.attempts, !.token = None, !.lease = 0]
  <2>1. /\ row' = [row EXCEPT ![d] = r]
        /\ mishaps' = IF endpoint.active THEN mishaps \union {<<d, "given back late">>} ELSE mishaps
    BY <1>5 DEF GiveBack
  <2>2. Holds(w) /\ row[d].attempts = j.attempts + 1
    BY <1>1, <1>5 DEF TypeInv, Counted, Holds
  <2>3. r \in RowType
    <3>1. 0 \in 0..Lease
      BY SMT, Constants
    <3> QED
      BY <1>2, <1>3, <3>1 DEF RowType
  <2>4. /\ r.status = "pending" /\ r.attempts = j.attempts /\ r.token = None
        /\ r.lease = 0 /\ r.max = row[d].max
    BY <1>3 DEF RowType
  <2>5. r.attempts <= r.max
    BY SMT, <1>2, <1>3, <2>2, <2>4, RowFacts DEF Right
  <2>6. Right(r)
    BY <2>4, <2>5 DEF Right
  <2> HIDE DEF r
  <2>7. RowsRight' /\ row'[d] = r /\ \A e \in Deliveries \ {d} : row'[e] = row[e]
    BY <1>1, <1>2, <2>1, <2>3, <2>6, RowMoves
  <2>8. /\ mishaps' \subseteq Deliveries \X {"run twice", "given back late", "overtaken"}
        /\ mishaps \subseteq mishaps' /\ (endpoint.active => <<d, "given back late">> \in mishaps')
    <3>1. mishaps \subseteq Deliveries \X {"run twice", "given back late", "overtaken"}
      BY <1>1 DEF TypeOK
    <3> QED
      BY <1>1, <1>2, <2>1, <3>1, OneMishap
  <2> QED
    BY <1>1, <1>2, <1>4, <2>2, <2>4, <2>7, <2>8 DEF GiveBack
<1>6. CASE row[d].token # w
  <2>1. row' = row /\ mishaps' = mishaps
    BY <1>6 DEF GiveBack
  <2>2. RowsRight'
    BY <1>3, <2>1 DEF RowsRight
  <2>3. mishaps' \subseteq Deliveries \X {"run twice", "given back late", "overtaken"}
    BY <1>1, <2>1 DEF TypeOK
  <2>4. ~Holds(w)
    BY <1>6 DEF Holds
  <2> QED
    BY <1>1, <1>2, <1>4, <2>1, <2>2, <2>3, <2>4 DEF GiveBack
<1> QED
  BY <1>5, <1>6

\* GiveBack keeps the types.
LEMMA GiveBackTypes ==
    ASSUME SetFacts, TypeInv, NEW w \in Workers, GiveBack(w)
    PROVE  TypeInv'
<1>1. TypeOK
  BY DEF TypeInv
<1>2. PICK d : d = worker[w].job.delivery
  OBVIOUS
<1>3. /\ d \in Deliveries
      /\ worker' \in [Workers -> {Idle} \union WorkerType] /\ worker'[w].at = "answered"
      /\ \A v \in Workers \ {w} : worker'[v] = worker[v]
      /\ RowsRight' /\ \A e \in Deliveries \ {d} : row'[e] = row[e]
      /\ mishaps' \subseteq Deliveries \X {"run twice", "given back late", "overtaken"}
      /\ \/ /\ row'[d].attempts = worker[w].job.attempts /\ row[d].attempts = worker[w].job.attempts + 1
            /\ row'[d].max = row[d].max /\ row'[d].token = None
         \/ row' = row
      /\ UNCHANGED <<endpoint, jobs, operator, history, spent>>
  BY <1>2, GiveBackMoves
<1>4. TypeOK'
  BY <1>1, <1>3 DEF TypeOK, RowsRight, Right
<1>5. ~Holds(w)'
  BY <1>3 DEF Holds, Working, At
<1>6. CASE row' = row
  <2>1. \A v \in Workers : Holds(v)' => Holds(v) /\ worker'[v].job = worker[v].job
    BY <1>3, <1>5, <1>6, SameHold
  <2>2. spent'.commands = spent.commands /\ operator' = operator
    BY <1>3
  <2> QED
    BY SMT, <1>1, <1>4, <1>6, <2>1, <2>2, Spent, QuietTypes
<1>7. CASE row' # row
  <2>1. /\ row'[d].attempts = worker[w].job.attempts /\ row[d].attempts = worker[w].job.attempts + 1
        /\ row'[d].max = row[d].max /\ row'[d].token = None /\ \A e \in Deliveries \ {d} : row'[e] = row[e]
    BY <1>3, <1>7
  <2>2. ~At(w, "idle")
    BY DEF GiveBack, At
  <2>3. row[d].attempts <= row[d].max /\ row[d].max \in Nat /\ worker[w].job.attempts \in Nat
    BY <1>1, <1>3, <2>2, Rows, RowFacts, Carries DEF Right
  <2>4. spent.commands \in Nat /\ spent'.commands = spent.commands /\ operator' = operator
    BY <1>1, <1>3, Spent
  <2>5. \A e \in Deliveries : row[e].max \in Nat
    BY <1>1, Rows, RowFacts
  <2>6. \A e \in Deliveries : row'[e].max <= row[e].max
    BY SMT, <2>1, <2>5
  <2>7. row' \in [Deliveries -> RowType]
    BY <1>3 DEF RowsRight
  <2>8. Plans'
    BY SMT, <2>4, <2>6, <2>7, PlansKept
  <2>9. row'[d].attempts < row'[d].max
    BY SMT, <2>1, <2>3
  <2>10. \A e \in Deliveries : row'[e].status = "pending" => row'[e].attempts < row'[e].max
    BY <2>1, <2>9, Waits0
  <2>11. \A v \in Workers \ {w} : Holds(v)' =>
            /\ Holds(v) /\ worker'[v].job = worker[v].job
            /\ row'[worker[v].job.delivery] = row[worker[v].job.delivery]
    BY <1>1, <1>3, <2>1, OthersHold, Constants
  <2> QED
    BY <1>4, <1>5, <2>8, <2>10, <2>11, CountedKept DEF TypeInv
<1> QED
  BY <1>6, <1>7

\* Attempt goes on with the claim.
LEMMA AttemptMoves ==
    ASSUME TypeOK, NEW w \in Workers, Attempt(w)
    PROVE  /\ At(w, "claimed")
           /\ worker' \in [Workers -> {Idle} \union WorkerType]
           /\ worker'[w].at = "sending" /\ worker'[w].job = worker[w].job /\ worker'[w].left = worker[w].left
           /\ \A v \in Workers \ {w} : worker'[v] = worker[v]
           /\ UNCHANGED <<endpoint, row, jobs, operator, history, mishaps, spent>>
<1>1. At(w, "claimed") /\ ~At(w, "idle")
  BY DEF Attempt, At
<1> QED
  BY <1>1, WorkerMoves DEF Attempt

\* Attempt keeps the types.
LEMMA AttemptTypes ==
    ASSUME SetFacts, TypeInv, NEW w \in Workers, Attempt(w)
    PROVE  TypeInv'
<1>1. TypeOK
  BY DEF TypeInv
<1>2. /\ At(w, "claimed")
      /\ worker' \in [Workers -> {Idle} \union WorkerType]
      /\ worker'[w].at = "sending" /\ worker'[w].job = worker[w].job
      /\ \A v \in Workers \ {w} : worker'[v] = worker[v]
      /\ UNCHANGED <<endpoint, row, jobs, operator, history, mishaps, spent>>
  BY <1>1, AttemptMoves
<1>3. TypeOK'
  BY <1>1, <1>2 DEF TypeOK
<1>4. Holds(w)' => Holds(w)
  BY <1>2 DEF Holds, Working, At
<1>5. \A v \in Workers : Holds(v)' => Holds(v) /\ worker'[v].job = worker[v].job
  BY <1>2, <1>4, SameHold
<1> QED
  BY SMT, <1>1, <1>2, <1>3, <1>5, Spent, QuietTypes

\* The row of one delivery loses its token, and no plan grows.
LEMMA RowStepTypes ==
    ASSUME SetFacts,
           TypeInv, TypeOK', NEW d \in Deliveries, \A e \in Deliveries \ {d} : row'[e] = row[e],
           row'[d].max <= row[d].max, row'[d].token = None,
           row'[d].status = "pending" => row'[d].attempts < row'[d].max,
           operator' = operator, spent'.commands \in Nat, spent'.commands >= spent.commands,
           \A v \in Workers : worker'[v] = worker[v] \/ ~Holds(v)'
    PROVE  TypeInv'
<1>1. TypeOK
  BY DEF TypeInv
<1>2. row' \in [Deliveries -> RowType]
  BY DEF TypeOK
<1>3. \A e \in Deliveries : row[e].max \in Nat
  BY <1>1, Rows, RowFacts
<1>4. \A e \in Deliveries : row'[e].max <= row[e].max
  BY SMT, <1>3
<1>5. Plans'
  BY <1>2, <1>4, PlansKept
<1>6. \A e \in Deliveries : row'[e].status = "pending" => row'[e].attempts < row'[e].max
  BY Waits0
<1>7. \A v \in Workers : Holds(v)' =>
         /\ Holds(v) /\ worker'[v].job = worker[v].job
         /\ row'[worker[v].job.delivery] = row[worker[v].job.delivery]
  BY <1>1, OthersHold, Constants
<1> QED
  BY <1>5, <1>6, <1>7, CountedKept DEF TypeInv

\* The endpoint after a settlement.
LEMMA SettledMoves ==
    ASSUME TypeOK, NEW w, NEW outcome, NEW gaveUp
    PROVE  Settled(w, outcome, gaveUp) \in EndpointType /\ (Settled(w, outcome, gaveUp).active => endpoint.active)
<1>1. endpoint \in EndpointType
  BY DEF TypeOK
<1>2. endpoint.failures + 1 \in Nat
  BY SMT, <1>1 DEF EndpointType
<1>3. [endpoint EXCEPT !.failures = 0] \in EndpointType /\ [endpoint EXCEPT !.failures = 0].active = endpoint.active
  BY <1>1 DEF EndpointType
<1>4. ASSUME NEW a \in BOOLEAN, NEW f \in Nat
      PROVE  /\ [endpoint EXCEPT !.failures = f, !.active = a] \in EndpointType
             /\ [endpoint EXCEPT !.failures = f, !.active = a].active = a
  BY <1>1 DEF EndpointType
<1> DEFINE off == DisableAfter > 0 /\ endpoint.failures + 1 >= DisableAfter
           on == endpoint.active /\ ~off
<1>5. on \in BOOLEAN /\ (on => endpoint.active)
  OBVIOUS
<1>6. \/ Settled(w, outcome, gaveUp) = [endpoint EXCEPT !.failures = 0]
      \/ Settled(w, outcome, gaveUp) = endpoint
      \/ Settled(w, outcome, gaveUp) = [endpoint EXCEPT !.failures = endpoint.failures + 1, !.active = on]
  BY DEF Settled
<1> HIDE DEF on
<1>7. CASE Settled(w, outcome, gaveUp) = [endpoint EXCEPT !.failures = 0]
  BY <1>3, <1>7
<1>8. CASE Settled(w, outcome, gaveUp) = endpoint
  BY <1>1, <1>8
<1>9. CASE Settled(w, outcome, gaveUp) = [endpoint EXCEPT !.failures = endpoint.failures + 1, !.active = on]
  <2>1. PICK f \in Nat : f = endpoint.failures + 1
    BY <1>2
  <2>2. PICK a \in BOOLEAN : a = on
    BY <1>5
  <2>3. Settled(w, outcome, gaveUp) = [endpoint EXCEPT !.failures = f, !.active = a]
    BY <1>9, <2>1, <2>2
  <2>4. [endpoint EXCEPT !.failures = f, !.active = a] \in EndpointType /\ [endpoint EXCEPT !.failures = f, !.active = a].active = a
    BY <1>4
  <2> QED
    BY <1>5, <2>2, <2>3, <2>4
<1> QED
  BY <1>6, <1>7, <1>8, <1>9

\* The job of the next attempt of a delivery is queued.
QueuedNext(d) ==
    \E j \in Jobs \ (DOMAIN jobs \union Running) :
        /\ j.delivery = d /\ j.attempts = row[d].attempts
        /\ DOMAIN jobs' = DOMAIN jobs \union {j}

\* What a settlement with the token writes.
Written(w, d) ==
    /\ Holds(w)
    /\ row[d].status = "processing" /\ row[d].attempts = worker[w].job.attempts + 1
    /\ row'[d].attempts = row[d].attempts /\ row'[d].max = row[d].max
    /\ row'[d].token = None /\ row'[d].lease = 0
    /\ history' = [history EXCEPT ![d][row[d].attempts] = IF @ < 2 THEN @ + 1 ELSE @]
    /\ \/ row'[d].status = "pending" /\ row[d].attempts < row[d].max /\ QueuedNext(d)
       \/ row'[d].status \in {"delivered", "failed"} /\ jobs' = jobs

\* The row a settlement leaves.
LEMMA SettledRow ==
    ASSUME TypeOK, NEW d \in Deliveries, NEW status \in {"pending", "delivered", "failed"}, NEW next \in Nat,
           row' = [row EXCEPT ![d] = Row(status, row[d].attempts, row[d].max, next)]
    PROVE  /\ RowsRight' /\ \A e \in Deliveries \ {d} : row'[e] = row[e]
           /\ row'[d].status = status /\ row'[d].attempts = row[d].attempts /\ row'[d].max = row[d].max
           /\ row'[d].token = None /\ row'[d].lease = 0
<1>1. PICK r : r = Row(status, row[d].attempts, row[d].max, next)
  OBVIOUS
<1>2. PICK attempts, max : attempts = row[d].attempts /\ max = row[d].max
  OBVIOUS
<1>3. attempts \in Counts /\ max \in Counts /\ attempts <= max
  BY <1>2, Rows, RowFacts DEF Right
<1>4. status \in {"unrecorded", "pending", "delivered", "failed", "cleaned"}
  OBVIOUS
<1>5. /\ r \in RowType /\ r.status = status /\ r.attempts = attempts /\ r.max = max
      /\ r.token = None /\ r.lease = 0 /\ r.status # "processing"
  BY SMT, <1>1, <1>2, <1>3, <1>4, RowFields
<1>6. Right(r)
  BY <1>3, <1>5 DEF Right
<1>7. row' = [row EXCEPT ![d] = r]
  BY <1>1
<1>8. RowsRight' /\ row'[d] = r /\ \A e \in Deliveries \ {d} : row'[e] = row[e]
  BY <1>5, <1>6, <1>7, RowMoves
<1> QED
  BY <1>2, <1>5, <1>8

\* What every settlement does.
LEMMA SettleMoves ==
    ASSUME TypeInv, NEW w \in Workers, NEW outcome, Settle(w, outcome)
    PROVE  /\ At(w, "sending") /\ Working(w) /\ TypeOK
           /\ worker[w].job.delivery \in Deliveries /\ worker[w].job.attempts \in Nat
           /\ worker' \in [Workers -> {Idle} \union WorkerType]
           /\ worker'[w].at = "answered" /\ worker'[w].job = worker[w].job
           /\ \A v \in Workers \ {w} : worker'[v] = worker[v]
           /\ endpoint' \in EndpointType /\ (endpoint'.active => endpoint.active)
           /\ ~Holds(w) => UNCHANGED <<endpoint, row, jobs, history>>
           /\ UNCHANGED <<operator, mishaps, spent>>
<1>1. TypeOK /\ At(w, "sending") /\ ~At(w, "idle") /\ Working(w)
  BY DEF TypeInv, Settle, At, Working
<1>2. worker[w].job.delivery \in Deliveries /\ worker[w].job.attempts \in Nat
  BY <1>1, Carries
<1>3. /\ worker' \in [Workers -> {Idle} \union WorkerType] /\ worker'[w].at = "answered"
      /\ worker'[w].job = worker[w].job /\ \A v \in Workers \ {w} : worker'[v] = worker[v]
  BY <1>1, WorkerMoves DEF Settle, Finished
<1>4. endpoint' = endpoint \/ \E gaveUp : endpoint' = Settled(w, outcome, gaveUp)
  BY DEF Settle
<1>5. endpoint \in EndpointType
  BY <1>1 DEF TypeOK
<1>6. endpoint' \in EndpointType /\ (endpoint'.active => endpoint.active)
  BY <1>1, <1>4, <1>5, SettledMoves
<1>7. ~Holds(w) => UNCHANGED <<endpoint, row, jobs, history>>
  BY <1>1 DEF Settle, Holds, Owns
<1>8. UNCHANGED <<operator, mishaps, spent>>
  BY DEF Settle
<1> QED
  BY <1>1, <1>2, <1>3, <1>6, <1>7, <1>8

\* With the token, Settle writes the attempt, and the next job or the end.
LEMMA SettleWrites ==
    ASSUME TypeInv, NEW w \in Workers, NEW outcome, NEW d, d = worker[w].job.delivery,
           Settle(w, outcome), Holds(w)
    PROVE  RowsRight' /\ (\A e \in Deliveries \ {d} : row'[e] = row[e]) /\ Written(w, d)
<1>1. TypeOK /\ d \in Deliveries /\ Owns(w)
  BY SettleMoves DEF Holds, Owns
<1>2. PICK n : n = worker[w].job.attempts + 1
  OBVIOUS
<1>3. row[d].attempts = n /\ row[d].token = w
  BY <1>2 DEF TypeInv, Counted, Holds
<1>4. row[d] \in RowType /\ Right(row[d])
  BY <1>1, Rows
<1>5. row[d].status = "processing"
  BY <1>3, <1>4, Constants DEF Right
<1>6. row[d].attempts \in Counts
  BY <1>4, RowFacts
<1>7. history' = [history EXCEPT ![d][row[d].attempts] = IF @ < 2 THEN @ + 1 ELSE @]
  BY <1>1, <1>2, <1>3 DEF Settle
<1>8. CASE outcome = "retryable" /\ n < row[d].max
  <2>1. PICK wait \in Waits :
           /\ row' = [row EXCEPT ![d] = Row("pending", row[d].attempts, row[d].max, wait)]
           /\ jobs' = Enqueue(NextJob(d, n, wait))
    BY <1>1, <1>2, <1>8 DEF Settle
  <2>2. Free(d, n, "scheduled") # {}
    BY <1>1, <1>2, <1>8 DEF Settle
  <2>3. wait \in Nat
    BY Constants
  <2>4. n \in Counts /\ "scheduled" \in Triggers
    BY <1>3, <1>6 DEF Triggers
  <2>5. PICK j : j = schedule(d, n, "scheduled")
    OBVIOUS
  <2>6. j \in Jobs \ (DOMAIN jobs \union Running) /\ j.delivery = d /\ j.attempts = n
    BY SMT, <1>1, <2>2, <2>4, <2>5, FreshJob
  <2>7. DOMAIN jobs' = DOMAIN jobs \union {j}
    BY <2>1, <2>5, EnqueueOne DEF NextJob
  <2>8. /\ RowsRight' /\ \A e \in Deliveries \ {d} : row'[e] = row[e]
        /\ row'[d].status = "pending" /\ row'[d].attempts = row[d].attempts /\ row'[d].max = row[d].max
        /\ row'[d].token = None /\ row'[d].lease = 0
    BY <1>1, <2>1, <2>3, SettledRow
  <2>9. QueuedNext(d)
    BY <1>3, <2>6, <2>7 DEF QueuedNext
  <2> QED
    BY <1>2, <1>3, <1>5, <1>7, <1>8, <2>8, <2>9 DEF Written
<1>9. CASE ~(outcome = "retryable" /\ n < row[d].max)
  <2>1. PICK status \in {"delivered", "failed"} :
           row' = [row EXCEPT ![d] = Row(status, row[d].attempts, row[d].max, 0)] /\ jobs' = jobs
    BY <1>1, <1>2, <1>9 DEF Settle
  <2>2. /\ RowsRight' /\ \A e \in Deliveries \ {d} : row'[e] = row[e]
        /\ row'[d].status = status /\ row'[d].attempts = row[d].attempts /\ row'[d].max = row[d].max
        /\ row'[d].token = None /\ row'[d].lease = 0
    BY <1>1, <2>1, SettledRow
  <2> QED
    BY <1>2, <1>3, <1>5, <1>7, <2>1, <2>2 DEF Written
<1> QED
  BY <1>8, <1>9

\* One more settlement of an attempt, as far as they are counted.
LEMMA HistoryMoves ==
    ASSUME TypeOK, NEW d \in Deliveries, NEW n \in Counts,
           history' = [history EXCEPT ![d][n] = IF @ < 2 THEN @ + 1 ELSE @]
    PROVE  /\ history' \in [Deliveries -> [Counts -> 0..2]]
           /\ history'[d][n] <= history[d][n] + 1
           /\ \A e \in Deliveries, m \in Counts : e # d \/ m # n => history'[e][m] = history[e][m]
<1>1. history \in [Deliveries -> [Counts -> 0..2]]
  BY DEF TypeOK
<1> HIDE DEF Counts
<1>2. history[d] \in [Counts -> 0..2]
  BY <1>1
<1>3. history[d][n] \in 0..2
  BY <1>2
<1>4. PICK k \in 0..2 : k = (IF history[d][n] < 2 THEN history[d][n] + 1 ELSE history[d][n]) /\ k <= history[d][n] + 1
  BY SMT, <1>3
<1>5. history' = [history EXCEPT ![d] = [history[d] EXCEPT ![n] = k]]
  BY <1>4
<1> QED
  BY SMT, <1>1, <1>2, <1>4, <1>5

\* Settle keeps the types.
LEMMA SettleTypes ==
    ASSUME SetFacts, TypeInv, NEW w \in Workers, NEW outcome, Settle(w, outcome)
    PROVE  TypeInv'
<1>1. PICK d : d = worker[w].job.delivery
  OBVIOUS
<1>2. /\ TypeOK /\ d \in Deliveries
      /\ worker' \in [Workers -> {Idle} \union WorkerType] /\ worker'[w].at = "answered"
      /\ \A v \in Workers \ {w} : worker'[v] = worker[v]
      /\ endpoint' \in EndpointType
      /\ ~Holds(w) => UNCHANGED <<endpoint, row, jobs, history>>
      /\ UNCHANGED <<operator, mishaps, spent>>
  BY <1>1, SettleMoves
<1>3. ~Holds(w)'
  BY <1>2 DEF Holds, Working, At
<1>4. spent.commands \in Nat /\ spent'.commands = spent.commands
  BY <1>2, Spent
<1>5. CASE ~Holds(w)
  <2>1. UNCHANGED <<endpoint, row, jobs, history>>
    BY <1>2, <1>5
  <2>2. TypeOK'
    BY <1>2, <2>1 DEF TypeOK
  <2>3. \A v \in Workers : Holds(v)' => Holds(v) /\ worker'[v].job = worker[v].job
    BY <1>2, <1>3, <2>1, SameHold
  <2> QED
    BY SMT, <1>2, <1>4, <2>1, <2>2, <2>3, QuietTypes
<1>6. CASE Holds(w)
  <2>1. RowsRight' /\ (\A e \in Deliveries \ {d} : row'[e] = row[e]) /\ Written(w, d)
    BY <1>1, <1>6, SettleWrites
  <2>2. /\ row'[d].attempts = row[d].attempts /\ row'[d].max = row[d].max /\ row'[d].token = None
        /\ history' = [history EXCEPT ![d][row[d].attempts] = IF @ < 2 THEN @ + 1 ELSE @]
        /\ row'[d].status = "pending" => row[d].attempts < row[d].max
    BY <2>1 DEF Written
  <2>3. row[d].attempts \in Counts /\ row[d].max \in Nat
    BY <1>2, Rows, RowFacts
  <2>4. history' \in [Deliveries -> [Counts -> 0..2]]
    BY <1>2, <2>2, <2>3, HistoryMoves
  <2>5. DOMAIN jobs' \subseteq Jobs
    <3>1. DOMAIN jobs \subseteq Jobs
      BY <1>2 DEF TypeOK
    <3> QED
      BY <2>1, <3>1 DEF Written, QueuedNext
  <2>6. TypeOK'
    BY <1>2, <2>1, <2>4, <2>5 DEF TypeOK, RowsRight, Right
  <2>7. row'[d].max <= row[d].max /\ (row'[d].status = "pending" => row'[d].attempts < row'[d].max)
    BY SMT, <2>2, <2>3
  <2> QED
    BY SMT, <1>2, <1>3, <1>4, <2>1, <2>2, <2>6, <2>7, RowStepTypes
<1> QED
  BY <1>5, <1>6

\* A worker leaves its job, done or not.
LEMMA LeaveMoves ==
    ASSUME TypeOK, NEW w \in Workers, DeleteJob(w) \/ Fails(w)
    PROVE  /\ worker' \in [Workers -> {Idle} \union WorkerType] /\ worker'[w] = Idle
           /\ \A v \in Workers \ {w} : worker'[v] = worker[v]
           /\ \/ At(w, "answered") /\ DOMAIN jobs' = DOMAIN jobs \ {worker[w].job}
              \/ DOMAIN jobs' = DOMAIN jobs
           /\ spent' \in [incidents: 0..MaxIncidents, commands: 0..MaxCommands]
           /\ spent'.commands = spent.commands
           /\ UNCHANGED <<endpoint, row, operator, history, mishaps>>
<1>1. worker \in [Workers -> {Idle} \union WorkerType]
  BY DEF TypeOK
<1>2. worker' = [worker EXCEPT ![w] = Idle]
  BY DEF DeleteJob, Fails, Again
<1>3. \/ At(w, "answered") /\ DOMAIN jobs' = DOMAIN jobs \ {worker[w].job}
      \/ DOMAIN jobs' = DOMAIN jobs
  BY DEF DeleteJob, Fails, Again, Restrict
<1>4. /\ spent' \in [incidents: 0..MaxIncidents, commands: 0..MaxCommands]
      /\ spent'.commands = spent.commands
  BY Spent, IncidentMoves DEF DeleteJob, Fails
<1>5. UNCHANGED <<endpoint, row, operator, history, mishaps>>
  BY DEF DeleteJob, Fails
<1> QED
  BY <1>1, <1>2, <1>3, <1>4, <1>5

\* Leaving a job keeps the types.
LEMMA LeaveTypes ==
    ASSUME SetFacts, TypeInv, NEW w \in Workers, DeleteJob(w) \/ Fails(w)
    PROVE  TypeInv'
<1>1. TypeOK
  BY DEF TypeInv
<1>2. /\ worker' \in [Workers -> {Idle} \union WorkerType] /\ worker'[w] = Idle
      /\ \A v \in Workers \ {w} : worker'[v] = worker[v]
      /\ DOMAIN jobs' \subseteq DOMAIN jobs
      /\ spent' \in [incidents: 0..MaxIncidents, commands: 0..MaxCommands]
      /\ spent'.commands = spent.commands
      /\ UNCHANGED <<endpoint, row, operator, history, mishaps>>
  BY <1>1, LeaveMoves
<1>3. TypeOK'
  BY <1>1, <1>2 DEF TypeOK
<1>4. ~Holds(w)'
  BY SMT, <1>2 DEF Holds, Working, At, Idle
<1>5. \A v \in Workers : Holds(v)' => Holds(v) /\ worker'[v].job = worker[v].job
  BY <1>2, <1>4, SameHold
<1> QED
  BY SMT, <1>1, <1>2, <1>3, <1>5, Spent, QuietTypes

\* Toggle reads the endpoint.
LEMMA ToggleMoves ==
    ASSUME TypeOK, NEW o \in Operators, NEW on \in BOOLEAN, Toggle(o, on)
    PROVE  /\ operator' \in [Operators -> {Idle} \union OperatorType] /\ SameRedeliveries
           /\ spent' \in [incidents: 0..MaxIncidents, commands: 0..MaxCommands]
           /\ spent'.commands \in Nat /\ spent'.commands >= spent.commands
           /\ UNCHANGED <<endpoint, row, jobs, worker, history, mishaps>>
<1>1. operator \in [Operators -> {Idle} \union OperatorType] /\ endpoint \in EndpointType
  BY DEF TypeOK
<1>2. PICK b : b = [at |-> "toggle", on |-> on, read |-> endpoint]
  OBVIOUS
<1>3. b \in OperatorType /\ b.at = "toggle"
  BY <1>1, <1>2 DEF OperatorType
<1>4. operator[o] = Idle /\ operator' = [operator EXCEPT ![o] = b]
  BY <1>2 DEF Toggle
<1>5. operator[o].at # "redeliver"
  BY SMT, <1>4 DEF Idle
<1>6. operator' \in [Operators -> {Idle} \union OperatorType]
  BY <1>1, <1>3, <1>4
<1>7. SameRedeliveries
  BY <1>1, <1>3, <1>4, <1>5 DEF SameRedeliveries
<1>8. /\ spent' \in [incidents: 0..MaxIncidents, commands: 0..MaxCommands]
      /\ spent'.commands \in Nat /\ spent'.commands >= spent.commands
  BY SMT, CommandMoves DEF Toggle
<1> QED
  BY <1>6, <1>7, <1>8 DEF Toggle

\* Delete turns the endpoint off.
LEMMA DeleteMoves ==
    ASSUME TypeOK, Delete
    PROVE  /\ endpoint' \in EndpointType /\ ~endpoint'.active
           /\ spent' \in [incidents: 0..MaxIncidents, commands: 0..MaxCommands]
           /\ spent'.commands \in Nat /\ spent'.commands >= spent.commands
           /\ UNCHANGED <<row, jobs, worker, operator, history, mishaps>>
<1>1. endpoint \in EndpointType
  BY DEF TypeOK
<1>2. endpoint' = [endpoint EXCEPT !.exists = FALSE, !.active = FALSE]
  BY DEF Delete
<1>3. endpoint' \in EndpointType /\ ~endpoint'.active
  BY <1>1, <1>2 DEF EndpointType
<1>4. /\ spent' \in [incidents: 0..MaxIncidents, commands: 0..MaxCommands]
      /\ spent'.commands \in Nat /\ spent'.commands >= spent.commands
  BY SMT, CommandMoves DEF Delete
<1> QED
  BY <1>3, <1>4 DEF Delete

\* Toggle and Delete keep the types.
LEMMA EndpointTypes ==
    ASSUME SetFacts, TypeInv, Delete \/ \E o \in Operators, on \in BOOLEAN : Toggle(o, on)
    PROVE  TypeInv'
<1>1. TypeOK
  BY DEF TypeInv
<1>2. /\ endpoint' \in EndpointType
      /\ operator' \in [Operators -> {Idle} \union OperatorType] /\ (operator' = operator \/ SameRedeliveries)
      /\ spent' \in [incidents: 0..MaxIncidents, commands: 0..MaxCommands]
      /\ spent'.commands \in Nat /\ spent'.commands >= spent.commands
      /\ UNCHANGED <<row, jobs, worker, history, mishaps>>
  <2>1. endpoint \in EndpointType /\ operator \in [Operators -> {Idle} \union OperatorType]
    BY <1>1 DEF TypeOK
  <2> QED
    BY <1>1, <2>1, ToggleMoves, DeleteMoves
<1>3. TypeOK'
  BY <1>1, <1>2 DEF TypeOK
<1>4. \A v \in Workers : Holds(v)' => Holds(v) /\ worker'[v].job = worker[v].job
  BY <1>2, SameHold
<1> QED
  BY <1>2, <1>3, <1>4, QuietTypes

\* The jobs resume queues: one for each delivery that waits.
Resumed == {schedule(d, row[d].attempts, "scheduled") : d \in Waiting}

\* Save writes the endpoint and queues what it kept waiting, if it turns it on.
LEMMA SaveMoves ==
    ASSUME TypeOK, NEW o \in Operators, Save(o)
    PROVE  /\ endpoint' \in EndpointType
           /\ operator' \in [Operators -> {Idle} \union OperatorType] /\ SameRedeliveries
           /\ \/ /\ endpoint'.active => endpoint.active
                 /\ jobs' = jobs
              \/ /\ DOMAIN jobs' = DOMAIN jobs \union Resumed
                 /\ \A d \in Waiting : Free(d, row[d].attempts, "scheduled") # {}
           /\ UNCHANGED <<row, worker, history, mishaps, spent>>
<1>1. operator \in [Operators -> {Idle} \union OperatorType] /\ endpoint \in EndpointType
  BY DEF TypeOK
<1>2. operator[o].at = "toggle" /\ operator' = [operator EXCEPT ![o] = Idle]
  BY DEF Save
<1>3. operator[o] \in OperatorType
  <2>1. Idle.at = "idle"
    BY DEF Idle
  <2> QED
    BY <1>1, <1>2, <2>1
<1>4. operator[o].on \in BOOLEAN /\ operator[o].read \in EndpointType
  BY <1>2, <1>3 DEF OperatorType
<1>5. operator' \in [Operators -> {Idle} \union OperatorType]
  BY <1>1, <1>2
<1>6. SameRedeliveries
  BY <1>1, <1>2 DEF SameRedeliveries, Idle
<1>7. PICK on \in BOOLEAN, off \in BOOLEAN : on = operator[o].on /\ off = ~operator[o].read.active
  BY <1>4 DEF EndpointType
<1>8. PICK active \in BOOLEAN, failures \in Nat :
         /\ endpoint' = endpoint \/ endpoint' = [endpoint EXCEPT !.active = active, !.failures = failures]
         /\ (on /\ off) \/ (active => endpoint.active)
  <2> DEFINE a == IF operator[o].on # operator[o].read.active THEN operator[o].on ELSE endpoint.active
             f == IF operator[o].on /\ operator[o].read.failures # 0 THEN 0 ELSE endpoint.failures
  <2>1. endpoint.active \in BOOLEAN /\ endpoint.failures \in Nat /\ operator[o].read.active \in BOOLEAN
    BY <1>1, <1>4 DEF EndpointType
  <2>2. a \in BOOLEAN /\ ((on /\ off) \/ (a => endpoint.active))
    BY <1>4, <1>7, <2>1
  <2>3. f \in Nat
    BY <2>1
  <2>4. endpoint' = endpoint \/ endpoint' = [endpoint EXCEPT !.active = a, !.failures = f]
    BY DEF Save
  <2> HIDE DEF a, f
  <2> QED
    BY <2>2, <2>3, <2>4
<1>9. endpoint' \in EndpointType /\ (endpoint' = endpoint \/ endpoint'.active = active)
  BY <1>1, <1>8 DEF EndpointType
<1>10. CASE on /\ off
  <2>1. \A d \in Waiting : Free(d, row[d].attempts, "scheduled") # {}
    BY <1>7, <1>10 DEF Save
  <2>2. jobs' = Enqueue(Resume)
    BY <1>7, <1>10 DEF Save
  <2>3. DOMAIN jobs' = DOMAIN jobs \union Resumed
    BY <2>2 DEF Enqueue, Resume, Resumed
  <2> QED
    BY <1>5, <1>6, <1>9, <2>1, <2>3 DEF Save
<1>11. CASE ~(on /\ off)
  <2>1. jobs' = jobs
    BY <1>7, <1>11 DEF Save
  <2>2. endpoint'.active => endpoint.active
    BY <1>8, <1>9, <1>11
  <2> QED
    BY <1>5, <1>6, <1>9, <2>1, <2>2 DEF Save
<1> QED
  BY <1>10, <1>11

\* A resumed job is one of a delivery that waits, and was not in use.
LEMMA ResumedJobs ==
    ASSUME TypeOK, \A d \in Waiting : Free(d, row[d].attempts, "scheduled") # {}, NEW d \in Waiting,
           NEW j, j = schedule(d, row[d].attempts, "scheduled")
    PROVE  /\ j \in Jobs /\ j \notin DOMAIN jobs /\ j \notin Running
           /\ j.delivery = d /\ j.attempts = row[d].attempts
<1>1. d \in Deliveries /\ row[d].attempts \in Counts
  BY Rows, RowFacts DEF Waiting
<1>2. PICK n \in Counts : n = row[d].attempts
  BY <1>1
<1> QED
  BY <1>1, <1>2, FreshJob DEF Triggers

\* Save keeps the types.
LEMMA SaveTypes ==
    ASSUME SetFacts, TypeInv, NEW o \in Operators, Save(o)
    PROVE  TypeInv'
<1>1. TypeOK
  BY DEF TypeInv
<1>2. /\ endpoint' \in EndpointType
      /\ operator' \in [Operators -> {Idle} \union OperatorType] /\ SameRedeliveries
      /\ \/ jobs' = jobs
         \/ /\ DOMAIN jobs' = DOMAIN jobs \union Resumed
            /\ \A d \in Waiting : Free(d, row[d].attempts, "scheduled") # {}
      /\ UNCHANGED <<row, worker, history, mishaps, spent>>
  BY <1>1, SaveMoves
<1>3. DOMAIN jobs' \subseteq Jobs
  <2>1. DOMAIN jobs \subseteq Jobs
    BY <1>1 DEF TypeOK
  <2>2. (\A d \in Waiting : Free(d, row[d].attempts, "scheduled") # {}) => Resumed \subseteq Jobs
    BY <1>1, ResumedJobs DEF Resumed
  <2> QED
    BY <1>2, <2>1, <2>2
<1>4. TypeOK'
  BY <1>1, <1>2, <1>3 DEF TypeOK
<1>5. \A v \in Workers : Holds(v)' => Holds(v) /\ worker'[v].job = worker[v].job
  BY <1>2, SameHold
<1>6. spent'.commands \in Nat /\ spent'.commands >= spent.commands
  BY SMT, <1>1, <1>2, Spent
<1> QED
  BY <1>2, <1>4, <1>5, <1>6, QuietTypes

\* Redeliver reads a row.
LEMMA RedeliverMoves ==
    ASSUME TypeOK, NEW o \in Operators, NEW d \in Deliveries, Redeliver(o, d)
    PROVE  /\ operator' \in [Operators -> {Idle} \union OperatorType]
           /\ operator[o] = Idle /\ operator'[o].at = "redeliver" /\ operator'[o].read = row[d]
           /\ operator'[o].delivery = d /\ row[d].status \in {"pending", "processing", "delivered", "failed"}
           /\ \A p \in Operators \ {o} : operator'[p] = operator[p]
           /\ spent' \in [incidents: 0..MaxIncidents, commands: 0..MaxCommands]
           /\ spent'.commands = spent.commands + 1 /\ spent.commands \in Nat
           /\ UNCHANGED <<endpoint, row, jobs, worker, history, mishaps>>
<1>1. operator \in [Operators -> {Idle} \union OperatorType] /\ row[d] \in RowType
  BY DEF TypeOK
<1>2. PICK b : b = [at |-> "redeliver", delivery |-> d, read |-> row[d]]
  OBVIOUS
<1>3. b \in OperatorType /\ b.at = "redeliver" /\ b.read = row[d] /\ b.delivery = d
  BY <1>1, <1>2 DEF OperatorType
<1>4. operator[o] = Idle /\ operator' = [operator EXCEPT ![o] = b]
  BY <1>2 DEF Redeliver
<1>5. /\ operator' \in [Operators -> {Idle} \union OperatorType]
      /\ operator'[o] = b /\ \A p \in Operators \ {o} : operator'[p] = operator[p]
  BY <1>1, <1>3, <1>4
<1>6. /\ spent' \in [incidents: 0..MaxIncidents, commands: 0..MaxCommands]
      /\ spent'.commands = spent.commands + 1 /\ spent.commands \in Nat
  BY CommandMoves DEF Redeliver
<1>7. row[d].status \in {"pending", "processing", "delivered", "failed"}
  BY DEF Redeliver
<1> QED
  BY <1>3, <1>4, <1>5, <1>6, <1>7 DEF Redeliver

\* Redeliver keeps the types.
LEMMA RedeliverTypes ==
    ASSUME SetFacts, TypeInv, NEW o \in Operators, NEW d \in Deliveries, Redeliver(o, d)
    PROVE  TypeInv'
<1>1. TypeOK
  BY DEF TypeInv
<1>2. /\ operator' \in [Operators -> {Idle} \union OperatorType]
      /\ operator[o] = Idle /\ operator'[o].at = "redeliver" /\ operator'[o].read = row[d]
      /\ \A p \in Operators \ {o} : operator'[p] = operator[p]
      /\ spent' \in [incidents: 0..MaxIncidents, commands: 0..MaxCommands]
      /\ spent'.commands = spent.commands + 1 /\ spent.commands \in Nat
      /\ UNCHANGED <<endpoint, row, jobs, worker, history, mishaps>>
  BY <1>1, RedeliverMoves
<1>3. TypeOK'
  BY <1>1, <1>2 DEF TypeOK
<1>4. Redelivering' = Redelivering \union {o} /\ o \notin Redelivering
  BY SMT, <1>2 DEF Redelivering, Idle
<1>5. PICK K : K = Cardinality(Redelivering)
  OBVIOUS
<1>6. /\ IsFiniteSet(Redelivering) /\ K \in Nat /\ K <= spent.commands
      /\ \A e \in Deliveries : row[e].max + K <= MaxAttempts + spent.commands
      /\ \A p \in Redelivering :
            /\ operator[p].read.max + K <= MaxAttempts + spent.commands
            /\ operator[p].read.attempts <= operator[p].read.max
  BY <1>5 DEF TypeInv, Plans, SetFacts, Sized
<1>7. IsFiniteSet(Redelivering') /\ Cardinality(Redelivering') = K + 1
  BY <1>4, <1>5, <1>6 DEF SetFacts, Adding
<1>8. \A e \in Deliveries : row[e].max \in Nat /\ row[e].attempts <= row[e].max
  BY <1>1, Rows, RowFacts DEF Right
<1>9. \A p \in Redelivering : operator[p].read.max \in Nat /\ operator'[p] = operator[p]
  BY <1>1, <1>2, <1>4, Reading, RowFacts DEF Redelivering
<1>10. \A e \in Deliveries : row'[e].max + (K + 1) <= MaxAttempts + spent'.commands
  BY SMT, <1>2, <1>6, <1>8, Constants
<1>11. \A p \in Redelivering :
          /\ operator'[p].read.max + (K + 1) <= MaxAttempts + spent'.commands
          /\ operator'[p].read.attempts <= operator'[p].read.max
  BY SMT, <1>2, <1>6, <1>9, Constants
<1>12. /\ operator'[o].read.max + (K + 1) <= MaxAttempts + spent'.commands
       /\ operator'[o].read.attempts <= operator'[o].read.max
  BY <1>2, <1>8, <1>10
<1>13. K + 1 <= spent'.commands
  BY SMT, <1>2, <1>6
<1>14. Plans'
  BY <1>4, <1>7, <1>10, <1>11, <1>12, <1>13 DEF Plans
<1>15. \A e \in Deliveries : row'[e].status = "pending" => row'[e].attempts < row'[e].max
  BY <1>2, Waits0
<1>16. \A v \in Workers : Holds(v)' =>
          /\ Holds(v) /\ worker'[v].job = worker[v].job
          /\ row'[worker[v].job.delivery] = row[worker[v].job.delivery]
  BY <1>2, SameHold
<1> QED
  BY <1>3, <1>14, <1>15, <1>16, CountedKept DEF TypeInv

\* What Move writes when the row is as it was read.
Moved(o, d) ==
    /\ row[d].attempts = operator[o].read.attempts /\ row[d].status = operator[o].read.status
    /\ row'[d].status = "pending" /\ row'[d].attempts = row[d].attempts
    /\ row'[d].attempts < row'[d].max /\ row'[d].max <= operator[o].read.max + 1
    /\ row'[d].token = None /\ row'[d].lease = 0
    /\ row[d].lease > 0 => <<d, "overtaken">> \in mishaps'
    /\ QueuedNext(d)

\* Move ends the redelivery, and writes if the row is as it was read.
LEMMA MoveMoves ==
    ASSUME SetFacts, TypeInv, NEW o \in Operators, NEW d, d = operator[o].delivery, Move(o)
    PROVE  /\ operator[o].at = "redeliver" /\ operator[o].read \in RowType /\ d \in Deliveries
           /\ operator' = [operator EXCEPT ![o] = Idle]
           /\ RowsRight' /\ \A e \in Deliveries \ {d} : row'[e] = row[e]
           /\ mishaps' \subseteq Deliveries \X {"run twice", "given back late", "overtaken"}
           /\ mishaps \subseteq mishaps'
           /\ Moved(o, d) \/ UNCHANGED <<row, jobs, mishaps>>
           /\ UNCHANGED <<endpoint, worker, history, spent>>
<1>1. operator[o].at = "redeliver" /\ operator' = [operator EXCEPT ![o] = Idle] /\ UNCHANGED <<endpoint, worker, history, spent>>
  BY DEF Move
<1>2. TypeOK
  BY DEF TypeInv
<1>3. operator[o].read \in RowType /\ d \in Deliveries
  BY <1>1, <1>2, Reading
<1>4. mishaps \subseteq Deliveries \X {"run twice", "given back late", "overtaken"}
  BY <1>2 DEF TypeOK
<1>5. PICK read \in RowType : read = operator[o].read
  BY <1>3
<1>6. CASE row[d].attempts = read.attempts /\ row[d].status = read.status
  <2>1. /\ Free(d, read.attempts, "manual") # {}
        /\ row' = [row EXCEPT ![d] = Row("pending", read.attempts, Allowance(read), 0)]
        /\ jobs' = Enqueue([j \in {schedule(d, read.attempts, "manual")} |-> 0])
        /\ mishaps' = IF row[d].lease > 0 THEN mishaps \union {<<d, "overtaken">>} ELSE mishaps
    BY <1>5, <1>6 DEF Move
  <2>2. /\ read.attempts \in Counts /\ read.attempts \in Nat /\ read.max \in Counts /\ read.max \in Nat
        /\ read.attempts <= read.max
    <3>1. o \in Redelivering
      BY <1>1 DEF Redelivering
    <3>2. read.attempts <= read.max
      BY <1>5, <3>1 DEF TypeInv, Plans
    <3> QED
      BY <3>2, RowFacts
  <2>3. PICK max : max = Allowance(read)
    OBVIOUS
  <2>4. max \in Nat /\ read.attempts < max /\ max <= read.max + 1
    BY SMT, <2>2, <2>3 DEF Allowance
  <2>5. max \in Counts
    <3>1. o \in Redelivering
      BY <1>1 DEF Redelivering
    <3>2. /\ IsFiniteSet(Redelivering) /\ Cardinality(Redelivering) \in Nat
          /\ read.max + Cardinality(Redelivering) <= MaxAttempts + spent.commands
      BY <1>5, <3>1 DEF TypeInv, Plans, SetFacts, Sized
    <3>3. Cardinality(Redelivering) # 0
      BY <3>1, <3>2 DEF SetFacts, Emptiness
    <3>4. spent.commands \in 0..MaxCommands
      BY <1>2, Spent
    <3> QED
      BY SMT, <2>2, <2>4, <3>2, <3>3, <3>4, Constants DEF Counts
  <2>6. PICK r : r = Row("pending", read.attempts, max, 0)
    OBVIOUS
  <2>7. PICK n \in Counts : n = read.attempts
    BY <2>2
  <2>8. /\ r \in RowType /\ r.status = "pending" /\ r.attempts = n /\ r.max = max
        /\ r.token = None /\ r.lease = 0 /\ r.status # "processing"
    BY SMT, <2>5, <2>6, <2>7, RowFields
  <2>9. Right(r)
    BY SMT, <2>2, <2>4, <2>7, <2>8 DEF Right
  <2>10. RowsRight' /\ row'[d] = r /\ \A e \in Deliveries \ {d} : row'[e] = row[e]
    BY <1>2, <1>3, <2>1, <2>3, <2>6, <2>8, <2>9, RowMoves
  <2>11. PICK j : j = schedule(d, n, "manual")
    OBVIOUS
  <2>12. j \in Jobs \ (DOMAIN jobs \union Running) /\ j.delivery = d /\ j.attempts = n
    BY ZenonT(60), <1>3, <2>1, <2>7, <2>11, FreshJob DEF Triggers
  <2>13. DOMAIN jobs' = DOMAIN jobs \union {j}
    BY <2>1, <2>7, <2>11, EnqueueOne
  <2>14. QueuedNext(d)
    BY <1>6, <2>7, <2>12, <2>13 DEF QueuedNext
  <2>15. /\ mishaps' \subseteq Deliveries \X {"run twice", "given back late", "overtaken"}
         /\ mishaps \subseteq mishaps' /\ (row[d].lease > 0 => <<d, "overtaken">> \in mishaps')
    BY <1>2, <1>3, <1>4, <2>1, OneMishap
  <2>16. Moved(o, d)
    BY <1>5, <1>6, <2>4, <2>7, <2>8, <2>10, <2>14, <2>15 DEF Moved
  <2> QED
    BY <1>1, <1>3, <2>10, <2>15, <2>16
<1>7. CASE ~(row[d].attempts = read.attempts /\ row[d].status = read.status)
  <2>1. UNCHANGED <<row, jobs, mishaps>>
    BY <1>5, <1>7 DEF Move
  <2>2. RowsRight'
    BY <1>2, <2>1, Rows DEF RowsRight
  <2> QED
    BY <1>1, <1>3, <1>4, <2>1, <2>2
<1> QED
  BY <1>6, <1>7

\* Move keeps the types.
LEMMA MoveTypes ==
    ASSUME SetFacts, TypeInv, NEW o \in Operators, Move(o)
    PROVE  TypeInv'
<1>1. TypeOK
  BY DEF TypeInv
<1>2. PICK d : d = operator[o].delivery
  OBVIOUS
<1>3. /\ operator[o].at = "redeliver" /\ operator[o].read \in RowType /\ d \in Deliveries
      /\ operator' = [operator EXCEPT ![o] = Idle]
      /\ RowsRight' /\ \A e \in Deliveries \ {d} : row'[e] = row[e]
      /\ mishaps' \subseteq Deliveries \X {"run twice", "given back late", "overtaken"}
      /\ Moved(o, d) \/ UNCHANGED <<row, jobs, mishaps>>
      /\ UNCHANGED <<endpoint, worker, history, spent>>
  BY <1>2, MoveMoves
<1>4. DOMAIN jobs' \subseteq Jobs
  <2>1. DOMAIN jobs \subseteq Jobs
    BY <1>1 DEF TypeOK
  <2>2. QueuedNext(d) \/ jobs' = jobs
    BY <1>3 DEF Moved
  <2> QED
    BY <2>1, <2>2 DEF QueuedNext
<1>5. /\ operator' \in [Operators -> {Idle} \union OperatorType]
      /\ \A p \in Operators \ {o} : operator'[p] = operator[p]
      /\ operator'[o].at = "idle"
  <2>1. operator \in [Operators -> {Idle} \union OperatorType]
    BY <1>1 DEF TypeOK
  <2>2. /\ operator' \in [Operators -> {Idle} \union OperatorType]
        /\ \A p \in Operators \ {o} : operator'[p] = operator[p]
        /\ operator'[o] = Idle
    BY <1>3, <2>1
  <2> QED
    BY SMT, <2>2 DEF Idle
<1>6. TypeOK'
  BY <1>1, <1>3, <1>4, <1>5 DEF TypeOK, RowsRight, Right
<1>7. Redelivering' = Redelivering \ {o} /\ o \in Redelivering
  BY <1>3, <1>5 DEF Redelivering
<1>8. PICK K : K = Cardinality(Redelivering)
  OBVIOUS
<1>9. /\ IsFiniteSet(Redelivering) /\ K \in Nat /\ K <= spent.commands
      /\ \A e \in Deliveries : row[e].max + K <= MaxAttempts + spent.commands
      /\ \A p \in Redelivering :
            /\ operator[p].read.max + K <= MaxAttempts + spent.commands
            /\ operator[p].read.attempts <= operator[p].read.max
  BY <1>8 DEF TypeInv, Plans, SetFacts, Sized
<1>10. IsFiniteSet(Redelivering') /\ Cardinality(Redelivering') = K - 1
  BY <1>7, <1>8, <1>9 DEF SetFacts, Removing
<1>11. spent.commands \in Nat /\ spent'.commands = spent.commands
  BY <1>1, <1>3, Spent
<1>12. \A e \in Deliveries : row'[e].max + (K - 1) <= MaxAttempts + spent'.commands
  <2>1. \A e \in Deliveries : row[e].max \in Nat
    BY <1>1, Rows, RowFacts
  <2>2. \A e \in Deliveries : row'[e].max \in Nat
    BY <1>3, RowFacts DEF RowsRight
  <2>3. row'[d] = row[d] \/ row'[d].max <= operator[o].read.max + 1
    BY <1>3 DEF Moved
  <2>4. operator[o].read.max \in Nat /\ operator[o].read.max + K <= MaxAttempts + spent.commands
    BY <1>3, <1>7, <1>9, RowFacts
  <2>5. row'[d].max + (K - 1) <= MaxAttempts + spent'.commands
    <3>1. row'[d].max <= row[d].max \/ row'[d].max <= operator[o].read.max + 1
      <4>1. d \in Deliveries
        BY <1>3
      <4>2. row[d].max \in Nat
        BY <2>1, <4>1
      <4>3. row[d].max <= row[d].max
        BY SMT, <4>2
      <4> QED
        BY <2>3, <4>3
    <3>2. row[d].max \in Nat /\ row'[d].max \in Nat /\ row[d].max + K <= MaxAttempts + spent.commands
      BY <1>3, <1>9, <2>1, <2>2
    <3>3. K \in Nat /\ MaxAttempts \in Nat
      BY <1>9, Constants
    <3> QED
      BY SMT, <1>11, <2>4, <3>1, <3>2, <3>3
  <2>6. \A e \in Deliveries \ {d} : row'[e].max = row[e].max
    BY <1>3
  <2> QED
    BY SMT, <1>9, <1>11, <2>1, <2>5, <2>6, Constants
<1>13. \A p \in Redelivering \ {o} :
          /\ operator'[p].read.max + (K - 1) <= MaxAttempts + spent'.commands
          /\ operator'[p].read.attempts <= operator'[p].read.max
  <2>1. \A p \in Redelivering \ {o} : operator'[p] = operator[p] /\ operator[p].read.max \in Nat
    BY <1>1, <1>5, Reading, RowFacts DEF Redelivering
  <2> QED
    BY SMT, <1>9, <1>11, <2>1, Constants
<1>14. Plans'
  <2>1. K - 1 <= spent'.commands
    BY SMT, <1>9, <1>11
  <2> QED
    BY <1>7, <1>10, <1>12, <1>13, <2>1 DEF Plans
<1>15. \A e \in Deliveries : row'[e].status = "pending" => row'[e].attempts < row'[e].max
  <2>1. row'[d] = row[d] \/ row'[d].attempts < row'[d].max
    BY <1>3 DEF Moved
  <2> QED
    BY <1>3, <2>1, Waits0
<1>16. \A v \in Workers : Holds(v)' =>
          /\ Holds(v) /\ worker'[v].job = worker[v].job
          /\ row'[worker[v].job.delivery] = row[worker[v].job.delivery]
  <2>1. CASE row' = row
    BY <1>3, <2>1, SameHold
  <2>2. CASE Moved(o, d)
    <3>1. row'[d].token = None
      BY <2>2 DEF Moved
    <3> QED
      BY <1>1, <1>3, <3>1, OthersHold, Constants
  <2> QED
    BY <1>3, <2>1, <2>2
<1> QED
  BY <1>6, <1>14, <1>15, <1>16, CountedKept DEF TypeInv

\* clean empties a row.
LEMMA CleanMoves ==
    ASSUME TypeOK, NEW d \in Deliveries, Clean(d)
    PROVE  /\ row[d].status \in {"delivered", "failed"}
           /\ RowsRight' /\ \A e \in Deliveries \ {d} : row'[e] = row[e]
           /\ row'[d].status = "cleaned" /\ row'[d].attempts = 0 /\ row'[d].max = 0
           /\ row'[d].token = None /\ row'[d].lease = 0
           /\ history' \in [Deliveries -> [Counts -> 0..2]] /\ \A n \in Counts : history'[d][n] = 0
           /\ \A e \in Deliveries \ {d} : history'[e] = history[e]
           /\ spent' \in [incidents: 0..MaxIncidents, commands: 0..MaxCommands]
           /\ spent'.commands \in Nat /\ spent'.commands >= spent.commands
           /\ UNCHANGED <<endpoint, jobs, worker, operator, mishaps>>
<1>1. 0 \in Counts
  BY SMT, Constants DEF Counts
<1>2. PICK r : r = Row("cleaned", 0, 0, 0)
  OBVIOUS
<1>3. /\ r \in RowType /\ r.status = "cleaned" /\ r.attempts = 0 /\ r.max = 0
      /\ r.token = None /\ r.lease = 0 /\ r.status # "processing"
  BY SMT, <1>1, <1>2, RowFields
<1>4. Right(r)
  BY SMT, <1>3 DEF Right
<1>5. row' = [row EXCEPT ![d] = r]
  BY <1>2 DEF Clean
<1>6. RowsRight' /\ row'[d] = r /\ \A e \in Deliveries \ {d} : row'[e] = row[e]
  BY <1>3, <1>4, <1>5, RowMoves
<1>7. history \in [Deliveries -> [Counts -> 0..2]]
  BY DEF TypeOK
<1>8. history' = [history EXCEPT ![d] = [n \in Counts |-> 0]]
  BY DEF Clean
<1>9. /\ history' \in [Deliveries -> [Counts -> 0..2]] /\ \A n \in Counts : history'[d][n] = 0
      /\ \A e \in Deliveries \ {d} : history'[e] = history[e]
  <2> HIDE DEF Counts
  <2> QED
    BY SMT, <1>7, <1>8
<1>10. /\ spent' \in [incidents: 0..MaxIncidents, commands: 0..MaxCommands]
       /\ spent'.commands \in Nat /\ spent'.commands >= spent.commands
  BY SMT, CommandMoves DEF Clean
<1> QED
  BY <1>3, <1>6, <1>9, <1>10 DEF Clean

\* clean keeps the types.
LEMMA CleanTypes ==
    ASSUME SetFacts, TypeInv, NEW d \in Deliveries, Clean(d)
    PROVE  TypeInv'
<1>1. TypeOK
  BY DEF TypeInv
<1>2. /\ RowsRight' /\ \A e \in Deliveries \ {d} : row'[e] = row[e]
      /\ row'[d].status = "cleaned" /\ row'[d].max = 0 /\ row'[d].token = None
      /\ history' \in [Deliveries -> [Counts -> 0..2]]
      /\ spent' \in [incidents: 0..MaxIncidents, commands: 0..MaxCommands]
      /\ spent'.commands \in Nat /\ spent'.commands >= spent.commands
      /\ UNCHANGED <<endpoint, jobs, worker, operator, mishaps>>
  BY <1>1, CleanMoves
<1>3. TypeOK'
  BY <1>1, <1>2 DEF TypeOK, RowsRight, Right
<1>4. row'[d].max <= row[d].max
  BY SMT, <1>1, <1>2, Rows, RowFacts
<1> QED
  BY <1>2, <1>3, <1>4, RowStepTypes

\* A tick brings the waits and the leases closer.
LEMMA ElapseMoves ==
    ASSUME TypeOK, Elapse
    PROVE  /\ RowsRight' /\ \A d \in Deliveries :
                 /\ row'[d].status = row[d].status /\ row'[d].attempts = row[d].attempts
                 /\ row'[d].max = row[d].max /\ row'[d].token = row[d].token
                 /\ row'[d].lease = Sooner(row[d].lease)
           /\ worker' \in [Workers -> {Idle} \union WorkerType] /\ \A w \in Workers :
                 /\ worker'[w].at = worker[w].at
                 /\ ~At(w, "idle") => worker'[w].job = worker[w].job /\ worker'[w].left = Sooner(worker[w].left)
           /\ \A w \in Workers : ~At(w, "unclaimed")
           /\ DOMAIN jobs' = DOMAIN jobs
           /\ UNCHANGED <<endpoint, operator, history, mishaps, spent>>
<1>1. ASSUME NEW n \in Nat PROVE Sooner(n) \in Nat /\ Sooner(n) <= n
  BY SMT DEF Sooner
<1>2. row' = [d \in Deliveries |-> [row[d] EXCEPT !.next = Sooner(row[d].next), !.lease = Sooner(row[d].lease)]]
  BY DEF Elapse
<1>3. ASSUME NEW d \in Deliveries
      PROVE  /\ row'[d] \in RowType /\ Right(row'[d])
             /\ row'[d].status = row[d].status /\ row'[d].attempts = row[d].attempts
             /\ row'[d].max = row[d].max /\ row'[d].token = row[d].token
             /\ row'[d].lease = Sooner(row[d].lease)
  <2>1. row[d] \in RowType /\ Right(row[d]) /\ row[d].lease \in 0..Lease /\ row[d].next \in Nat
    BY Rows, RowFacts
  <2>2. PICK n \in Nat, l \in 0..Lease : n = Sooner(row[d].next) /\ l = Sooner(row[d].lease)
    BY SMT, <2>1, Constants DEF Sooner
  <2>3. row'[d] = [row[d] EXCEPT !.next = n, !.lease = l]
    BY <1>2, <2>2
  <2>4. /\ row'[d] \in RowType
        /\ row'[d].status = row[d].status /\ row'[d].attempts = row[d].attempts
        /\ row'[d].max = row[d].max /\ row'[d].token = row[d].token /\ row'[d].lease = l
    BY <2>1, <2>3 DEF RowType
  <2> QED
    BY <2>1, <2>2, <2>4 DEF Right
<1>4. RowsRight'
  BY <1>2, <1>3 DEF RowsRight
<1>5. worker' = [w \in Workers |-> IF At(w, "idle") THEN Idle ELSE [worker[w] EXCEPT !.left = Sooner(worker[w].left)]]
  BY DEF Elapse
<1>6. ASSUME NEW w \in Workers
      PROVE  /\ worker'[w] \in {Idle} \union WorkerType
             /\ worker'[w].at = worker[w].at
             /\ ~At(w, "idle") => worker'[w].job = worker[w].job /\ worker'[w].left = Sooner(worker[w].left)
  <2>1. CASE At(w, "idle")
    <3>1. worker'[w] = Idle
      BY <1>5, <2>1
    <3> QED
      BY SMT, <2>1, <3>1 DEF At, Idle
  <2>2. CASE ~At(w, "idle")
    <3>1. worker[w] \in WorkerType /\ worker[w].left \in 0..Lease
      BY <2>2, Carries
    <3>2. PICK l \in 0..Lease : l = Sooner(worker[w].left)
      BY SMT, <3>1, Constants DEF Sooner
    <3>3. worker'[w] = [worker[w] EXCEPT !.left = l]
      BY <1>5, <2>2, <3>2
    <3> QED
      BY <3>1, <3>2, <3>3 DEF WorkerType
  <2> QED
    BY <2>1, <2>2
<1>7. worker' \in [Workers -> {Idle} \union WorkerType]
  BY <1>5, <1>6
<1>8. DOMAIN jobs' = DOMAIN jobs /\ UNCHANGED <<endpoint, operator, history, mishaps, spent>>
  BY DEF Elapse
<1>9. \A w \in Workers : ~At(w, "unclaimed")
  BY DEF Elapse
<1> QED
  BY <1>3, <1>4, <1>6, <1>7, <1>8, <1>9

\* A tick keeps the types.
LEMMA ElapseTypes ==
    ASSUME SetFacts, TypeInv, Elapse
    PROVE  TypeInv'
<1>1. TypeOK
  BY DEF TypeInv
<1>2. /\ RowsRight' /\ \A d \in Deliveries :
            /\ row'[d].status = row[d].status /\ row'[d].attempts = row[d].attempts
            /\ row'[d].max = row[d].max /\ row'[d].token = row[d].token
      /\ worker' \in [Workers -> {Idle} \union WorkerType] /\ \A w \in Workers :
            /\ worker'[w].at = worker[w].at
            /\ ~At(w, "idle") => worker'[w].job = worker[w].job
      /\ DOMAIN jobs' = DOMAIN jobs
      /\ UNCHANGED <<endpoint, operator, history, mishaps, spent>>
  BY <1>1, ElapseMoves
<1>3. TypeOK'
  BY <1>1, <1>2 DEF TypeOK, RowsRight, Right
<1>4. spent.commands \in Nat /\ spent'.commands = spent.commands
  BY <1>1, <1>2, Spent
<1>5. \A d \in Deliveries : row'[d].max <= row[d].max
  BY SMT, <1>1, <1>2, Rows, RowFacts
<1>6. Plans'
  <2>1. row' \in [Deliveries -> RowType] /\ operator' = operator
    BY <1>2 DEF RowsRight
  <2>2. spent'.commands \in Nat /\ spent'.commands >= spent.commands
    BY SMT, <1>4
  <2> QED
    BY <1>5, <2>1, <2>2, PlansKept
<1>7. \A d \in Deliveries : row'[d].status = "pending" => row'[d].attempts < row'[d].max
  BY <1>2, Waits0
<1>8. ASSUME NEW w \in Workers, Holds(w)'
      PROVE  /\ Holds(w) /\ worker'[w].job = worker[w].job
             /\ row'[worker[w].job.delivery].attempts = row[worker[w].job.delivery].attempts
  <2>1. Working(w) /\ ~At(w, "idle")
    BY <1>2, <1>8 DEF Holds, Working, At
  <2>2. worker[w].job.delivery \in Deliveries /\ worker'[w].job = worker[w].job
    BY <1>1, <1>2, <2>1, Carries
  <2> QED
    BY <1>2, <1>8, <2>1, <2>2 DEF Holds
<1> QED
  BY <1>3, <1>6, <1>7, <1>8, CountedKept DEF TypeInv

\* Every step keeps the types and the plans.
LEMMA TypesStep ==
    ASSUME SetFacts
    PROVE  TypeInv /\ [Next]_vars => TypeInv'
<1> SUFFICES ASSUME TypeInv, [Next]_vars PROVE TypeInv'
  OBVIOUS
<1>1. CASE UNCHANGED vars
  <2>1. /\ UNCHANGED <<endpoint, row, jobs, worker, operator>>
        /\ UNCHANGED <<history, mishaps, spent>>
    BY <1>1 DEF vars
  <2>2. TypeOK' /\ TypeOK
    BY <2>1 DEF TypeInv, TypeOK, RowType
  <2>3. \A v \in Workers : Holds(v)' => Holds(v) /\ worker'[v].job = worker[v].job
    BY <2>1, SameHold
  <2>4. spent'.commands \in Nat /\ spent'.commands >= spent.commands
    BY SMT, <2>1, <2>2, Spent
  <2> QED
    BY <2>1, <2>2, <2>3, <2>4, QuietTypes
<1>2. CASE \E d \in Deliveries, t \in Triggers : Record(d, t)
  BY <1>2, RecordTypes
<1>3. CASE \E w \in Workers : Step(w) \/ Fails(w) \/ \E j \in DOMAIN jobs \intersect Running : Read(w, j)
  <2>1. PICK w \in Workers : Step(w) \/ Fails(w) \/ \E j \in DOMAIN jobs \intersect Running : Read(w, j)
    BY <1>3
  <2>2. CASE \E j \in DOMAIN jobs : Read(w, j)
    BY <2>2, ReadTypes
  <2>3. CASE Claim(w)
    BY <2>3, ClaimTypes
  <2>4. CASE Unclaimed(w)
    BY <2>4, UnclaimedTypes
  <2>5. CASE GiveBack(w)
    BY <2>5, GiveBackTypes
  <2>6. CASE Attempt(w)
    BY <2>6, AttemptTypes
  <2>7. CASE \E outcome \in Outcomes : Settle(w, outcome)
    BY <2>7, SettleTypes
  <2>8. CASE DeleteJob(w) \/ Fails(w)
    BY <2>8, LeaveTypes
  <2> QED
    BY <2>1, <2>2, <2>3, <2>4, <2>5, <2>6, <2>7, <2>8 DEF Step
<1>4. CASE \E o \in Operators :
              \/ \E on \in BOOLEAN : Toggle(o, on)
              \/ \E d \in Deliveries : Redeliver(o, d)
              \/ Save(o) \/ Move(o)
  BY <1>4, EndpointTypes, RedeliverTypes, SaveTypes, MoveTypes
<1>5. CASE Delete
  BY <1>5, EndpointTypes
<1>6. CASE \E d \in Deliveries : Clean(d)
  BY <1>6, CleanTypes
<1>7. CASE Elapse
  BY <1>7, ElapseTypes
<1> QED
  BY <1>1, <1>2, <1>3, <1>4, <1>5, <1>6, <1>7 DEF Next

----------------------------------------------------------------------------
(* Settled once                                                             *)

\* Each attempt is settled at most once, none ahead of the count, and the
\* attempt that is under way not yet.
Fresh(d) ==
    /\ row[d].status = "unrecorded" => row[d].attempts = 0
    /\ \A n \in Counts :
          /\ history[d][n] <= 1
          /\ history[d][n] > 0 => n <= row[d].attempts /\ (row[d].status = "processing" => n < row[d].attempts)

HistoryInv == TypeInv /\ \A d \in Deliveries : Fresh(d)

\* A row that only goes on counting.
LEMMA FreshKept ==
    ASSUME TypeOK, NEW d \in Deliveries, Fresh(d), history'[d] = history[d], row'[d] \in RowType,
           row'[d].status \in {row[d].status, "pending", "processing"},
           \/ row'[d].status = row[d].status /\ row'[d].attempts = row[d].attempts
           \/ row'[d].status # "processing" /\ row'[d].attempts = row[d].attempts
           \/ row'[d].status = "processing" /\ row'[d].attempts = row[d].attempts + 1
           \/ row[d].status = "processing" /\ row'[d].status # "processing" /\ row'[d].attempts = row[d].attempts - 1
    PROVE  Fresh(d)'
<1> SUFFICES ASSUME NEW n \in Counts
             PROVE  /\ history'[d][n] <= 1
                    /\ history'[d][n] > 0 => n <= row'[d].attempts /\ (row'[d].status = "processing" => n < row'[d].attempts)
  <2>1. row'[d].status = "unrecorded" => row'[d].attempts = 0
    BY DEF Fresh
  <2> QED
    BY <2>1 DEF Fresh
<1>1. n \in Nat /\ row[d].attempts \in Nat /\ row'[d].attempts \in Nat
  BY SMT, Rows, RowFacts, Constants DEF Counts
<1>2. /\ history[d][n] <= 1
      /\ history[d][n] > 0 => n <= row[d].attempts /\ (row[d].status = "processing" => n < row[d].attempts)
  BY DEF Fresh
<1> QED
  BY SMT, <1>1, <1>2

\* A row that does not change.
LEMMA FreshSame ==
    ASSUME TypeOK, NEW d \in Deliveries, Fresh(d), history'[d] = history[d], row'[d] = row[d]
    PROVE  Fresh(d)'
<1>1. row'[d] \in RowType
  BY Rows
<1> QED
  BY <1>1, FreshKept

\* Initially nothing was settled.
LEMMA HistoryInit ==
    ASSUME SetFacts
    PROVE  Init => HistoryInv
<1> SUFFICES ASSUME Init PROVE HistoryInv
  OBVIOUS
<1>1. \A d \in Deliveries, n \in Counts : history[d][n] = 0
  BY DEF Init
<1>2. \A d \in Deliveries : row[d].attempts = 0
  BY DEF Init, Unrecorded, Row
<1> QED
  BY SMT, <1>1, <1>2, TypesInit DEF HistoryInv, Fresh

\* A settlement adds the attempt under way.
LEMMA SettleHistory ==
    ASSUME HistoryInv, NEW w \in Workers, NEW outcome, Settle(w, outcome)
    PROVE  \A e \in Deliveries : Fresh(e)'
<1>1. PICK d : d = worker[w].job.delivery
  OBVIOUS
<1>2. TypeInv /\ \A e \in Deliveries : Fresh(e)
  BY DEF HistoryInv
<1>3. TypeOK /\ d \in Deliveries /\ (~Holds(w) => UNCHANGED <<endpoint, row, jobs, history>>)
  BY <1>1, <1>2, SettleMoves
<1>4. CASE ~Holds(w)
  BY <1>2, <1>3, <1>4, FreshSame
<1>5. CASE Holds(w)
  <2>1. RowsRight' /\ (\A e \in Deliveries \ {d} : row'[e] = row[e]) /\ Written(w, d)
    BY <1>1, <1>2, <1>5, SettleWrites
  <2>2. /\ row[d].status = "processing" /\ row'[d].status # "processing" /\ row'[d].attempts = row[d].attempts
        /\ history' = [history EXCEPT ![d][row[d].attempts] = IF @ < 2 THEN @ + 1 ELSE @]
    BY <2>1 DEF Written
  <2>3. PICK k \in Counts : k = row[d].attempts
    BY <1>3, Rows, RowFacts
  <2>4. /\ history'[d][k] <= history[d][k] + 1
        /\ \A e \in Deliveries, m \in Counts : e # d \/ m # k => history'[e][m] = history[e][m]
    <3>1. history' = [history EXCEPT ![d][k] = IF @ < 2 THEN @ + 1 ELSE @]
      BY <2>2, <2>3
    <3> QED
      BY ZenonT(60), <1>3, <3>1, HistoryMoves
  <2>5. history[d][k] = 0
    <3>1. history[d][k] \in 0..2
      <4>1. history \in [Deliveries -> [Counts -> 0..2]]
        BY <1>3 DEF TypeOK
      <4>2. history[d] \in [Counts -> 0..2]
        BY <1>3, <4>1
      <4> QED
        BY <4>2
    <3>2. ~(history[d][k] > 0)
      <4>1. history[d][k] > 0 => k < row[d].attempts
        BY <1>2, <1>3, <2>2 DEF Fresh
      <4>2. row[d].attempts \in Nat
        BY <1>3, Rows, RowFacts
      <4> QED
        BY SMT, <2>3, <4>1, <4>2
    <3> QED
      BY SMT, <3>1, <3>2
  <2>6. ASSUME NEW e \in Deliveries \ {d} PROVE Fresh(e)'
    <3>1. \A m \in Counts : history'[e][m] = history[e][m]
      BY <2>4
    <3>2. row'[e] = row[e] /\ Fresh(e)
      BY <1>2, <2>1
    <3> QED
      BY <3>1, <3>2 DEF Fresh
  <2>7. Fresh(d)'
    <3> SUFFICES ASSUME NEW n \in Counts
                 PROVE  history'[d][n] <= 1 /\ (history'[d][n] > 0 => n <= row'[d].attempts)
      <4>1. row'[d].status # "unrecorded"
        BY <2>1 DEF Written
      <4> QED
        BY <2>2, <4>1 DEF Fresh
    <3>1. n \in Nat /\ k \in Nat /\ row'[d].attempts = k
      BY SMT, <2>2, <2>3, Constants DEF Counts
    <3>2. CASE n = k
      BY SMT, <2>4, <2>5, <3>1, <3>2
    <3>3. CASE n # k
      BY <1>2, <1>3, <2>3, <2>4, <3>1, <3>3 DEF Fresh
    <3> QED
      BY <3>2, <3>3
  <2> QED
    BY <2>6, <2>7
<1> QED
  BY <1>4, <1>5

\* Every step keeps each attempt settled once.
LEMMA HistoryStep ==
    ASSUME SetFacts
    PROVE  HistoryInv /\ [Next]_vars => HistoryInv'
<1> SUFFICES ASSUME HistoryInv, [Next]_vars PROVE \A d \in Deliveries : Fresh(d)'
  BY TypesStep DEF HistoryInv
<1>1. TypeInv /\ TypeOK /\ \A d \in Deliveries : Fresh(d)
  BY DEF HistoryInv, TypeInv
<1>2. \A d \in Deliveries : row'[d] \in RowType
  BY <1>1, TypesStep DEF TypeInv, TypeOK
<1>3. CASE UNCHANGED vars
  BY <1>1, <1>3, FreshSame DEF vars
<1>4. CASE \E d \in Deliveries, t \in Triggers : Record(d, t)
  <2>1. PICK d \in Deliveries, t \in Triggers : Record(d, t)
    BY <1>4
  <2>2. /\ row'[d].status = "pending" /\ row'[d].attempts = 0 /\ history' = history
        /\ \A e \in Deliveries \ {d} : row'[e] = row[e]
    BY <1>1, <2>1, RecordMoves
  <2>3. row[d].attempts = 0
    BY <1>1, <2>1 DEF Record, Fresh
  <2>4. Fresh(d)'
    BY <1>1, <1>2, <2>2, <2>3, FreshKept
  <2> QED
    BY <1>1, <2>2, <2>4, FreshSame
<1>5. CASE \E w \in Workers : Step(w) \/ Fails(w) \/ \E j \in DOMAIN jobs \intersect Running : Read(w, j)
  <2>1. PICK w \in Workers : Step(w) \/ Fails(w) \/ \E j \in DOMAIN jobs \intersect Running : Read(w, j)
    BY <1>5
  <2>2. CASE Claim(w)
    <3>1. PICK d : d = worker[w].job.delivery
      OBVIOUS
    <3>2. /\ d \in Deliveries /\ \A e \in Deliveries \ {d} : row'[e] = row[e]
          /\ history' = history
          /\ \/ /\ Claimable(row[d], worker[w].job.attempts)
                /\ row'[d].status = "processing" /\ row'[d].attempts = worker[w].job.attempts + 1
             \/ row' = row
      <4>1. Claims(w, d)
        BY <1>1, <2>2, <3>1, ClaimMoves
      <4> QED
        BY <4>1 DEF Claims
    <3>3. Fresh(d)'
      BY <1>1, <1>2, <3>2, FreshSame, FreshKept DEF Claimable
    <3> QED
      BY <1>1, <3>2, <3>3, FreshSame
  <2>3. CASE GiveBack(w)
    <3>1. PICK d : d = worker[w].job.delivery
      OBVIOUS
    <3>2. /\ d \in Deliveries /\ \A e \in Deliveries \ {d} : row'[e] = row[e]
          /\ history' = history
          /\ \/ /\ Holds(w) /\ row'[d].status = "pending"
                /\ row'[d].attempts = worker[w].job.attempts /\ row[d].attempts = worker[w].job.attempts + 1
             \/ row' = row
      BY <1>1, <2>3, <3>1, GiveBackMoves
    <3>3. CASE row' = row
      BY <1>1, <3>2, <3>3, FreshSame
    <3>4. CASE row' # row
      <4>1. worker[w].job.attempts \in Nat
        <5>1. ~At(w, "idle")
          BY <2>3 DEF GiveBack, At
        <5> QED
          BY <1>1, <5>1, Carries
      <4>2. row'[d].status # "processing" /\ row'[d].attempts = row[d].attempts - 1
        BY SMT, <3>2, <3>4, <4>1
      <4>3. row[d].status = "processing"
        BY <1>1, <3>1, <3>2, <3>4, Rows, Constants DEF Holds, Right
      <4>4. Fresh(d)'
        BY <1>1, <1>2, <3>2, <4>2, <4>3, FreshKept
      <4> QED
        BY <1>1, <3>2, <4>4, FreshSame
    <3> QED
      BY <3>3, <3>4
  <2>4. CASE \E outcome \in Outcomes : Settle(w, outcome)
    BY <2>4, SettleHistory
  <2>5. CASE (\E j \in DOMAIN jobs : Read(w, j)) \/ Unclaimed(w) \/ Attempt(w) \/ DeleteJob(w) \/ Fails(w)
    <3>1. row' = row /\ history' = history
      BY <2>5 DEF Read, Unclaimed, Attempt, DeleteJob, Fails
    <3> QED
      BY <1>1, <3>1, FreshSame
  <2> QED
    BY <2>1, <2>2, <2>3, <2>4, <2>5 DEF Step
<1>6. CASE \E o \in Operators :
              \/ \E on \in BOOLEAN : Toggle(o, on)
              \/ \E d \in Deliveries : Redeliver(o, d)
              \/ Save(o) \/ Move(o)
  <2>1. PICK o \in Operators :
              \/ \E on \in BOOLEAN : Toggle(o, on)
              \/ \E d \in Deliveries : Redeliver(o, d)
              \/ Save(o) \/ Move(o)
    BY <1>6
  <2>2. CASE Move(o)
    <3>1. PICK d : d = operator[o].delivery
      OBVIOUS
    <3>2. /\ d \in Deliveries /\ \A e \in Deliveries \ {d} : row'[e] = row[e]
          /\ history' = history /\ (Moved(o, d) \/ row' = row)
      BY <1>1, <2>2, <3>1, MoveMoves
    <3>3. Fresh(d)'
      BY <1>1, <1>2, <3>2, FreshSame, FreshKept DEF Moved
    <3> QED
      BY <1>1, <3>2, <3>3, FreshSame
  <2>3. CASE ~Move(o)
    <3>1. row' = row /\ history' = history
      BY <2>1, <2>3 DEF Toggle, Redeliver, Save
    <3> QED
      BY <1>1, <3>1, FreshSame
  <2> QED
    BY <2>2, <2>3
<1>7. CASE Delete
  BY <1>1, <1>7, FreshSame DEF Delete
<1>8. CASE \E d \in Deliveries : Clean(d)
  <2>1. PICK d \in Deliveries : Clean(d)
    BY <1>8
  <2>2. /\ \A e \in Deliveries \ {d} : row'[e] = row[e] /\ history'[e] = history[e]
        /\ row'[d].status = "cleaned" /\ \A n \in Counts : history'[d][n] = 0
    BY <1>1, <2>1, CleanMoves
  <2>3. Fresh(d)'
    BY SMT, <2>2 DEF Fresh
  <2> QED
    BY <1>1, <2>2, <2>3, FreshSame
<1>9. CASE Elapse
  <2>1. /\ history' = history
        /\ \A d \in Deliveries : row'[d].status = row[d].status /\ row'[d].attempts = row[d].attempts
    BY <1>1, <1>9, ElapseMoves
  <2> QED
    BY <1>1, <1>2, <2>1, FreshKept
<1> QED
  BY <1>3, <1>4, <1>5, <1>6, <1>7, <1>8, <1>9 DEF Next

----------------------------------------------------------------------------
(* One sender                                                               *)

\* A worker whose lease runs holds the token, and the row has the same lease,
\* unless a redelivery overtook it.
Leased(w) ==
    Working(w) /\ worker[w].left > 0 /\ <<worker[w].job.delivery, "overtaken">> \notin mishaps
        => LET r == row[worker[w].job.delivery] IN r.token = w /\ r.lease = worker[w].left

LeaseInv == TypeInv /\ \A w \in Workers : Leased(w)

\* Another row, or one that was not the worker's.
LEMMA LeasedKept ==
    ASSUME TypeOK, NEW v \in Workers, Leased(v), worker'[v] = worker[v], mishaps \subseteq mishaps',
           NEW d \in Deliveries, \A e \in Deliveries \ {d} : row'[e] = row[e],
           row[d].token # v \/ row[d].lease = 0 \/ <<d, "overtaken">> \in mishaps' \/ row'[d] = row[d]
    PROVE  Leased(v)'
<1> SUFFICES ASSUME Working(v), worker[v].left > 0, <<worker[v].job.delivery, "overtaken">> \notin mishaps'
             PROVE  /\ row'[worker[v].job.delivery].token = v
                    /\ row'[worker[v].job.delivery].lease = worker[v].left
  BY DEF Leased, Working, At
<1>1. PICK e : e = worker[v].job.delivery
  OBVIOUS
<1>2. e \in Deliveries /\ worker[v].left \in Nat
  <2>1. ~At(v, "idle")
    BY DEF Working, At
  <2> QED
    BY <1>1, <2>1, Carries
<1>3. row[e].token = v /\ row[e].lease = worker[v].left
  BY <1>1 DEF Leased
<1>4. row'[e] = row[e]
  BY SMT, <1>1, <1>2, <1>3
<1> QED
  BY <1>1, <1>3, <1>4

\* No row changes.
LEMMA LeasedSame ==
    ASSUME NEW v, Leased(v), worker'[v] = worker[v], mishaps \subseteq mishaps', row' = row
    PROVE  Leased(v)'
  BY DEF Leased, Working, At

\* A worker that does not work has no lease.
LEMMA LeasedIdle ==
    ASSUME NEW v, worker'[v].at \notin {"claimed", "sending"}
    PROVE  Leased(v)'
  BY DEF Leased, Working, At

\* Claim leases the delivery it takes, which nobody had.
LEMMA ClaimLeases ==
    ASSUME LeaseInv, NEW w \in Workers, Claim(w)
    PROVE  \A v \in Workers : Leased(v)'
<1>1. TypeInv /\ TypeOK /\ \A v \in Workers : Leased(v)
  BY DEF LeaseInv, TypeInv
<1>2. PICK d : d = worker[w].job.delivery
  OBVIOUS
<1>3. /\ d \in Deliveries /\ worker'[w].job = worker[w].job
      /\ \A v \in Workers \ {w} : worker'[v] = worker[v]
      /\ \A e \in Deliveries \ {d} : row'[e] = row[e]
      /\ \/ /\ Claimable(row[d], worker[w].job.attempts)
            /\ worker'[w].at = "claimed" /\ worker'[w].left = Lease
            /\ row'[d].token = w /\ row'[d].lease = Lease
         \/ worker'[w].at = "unclaimed" /\ row' = row
      /\ mishaps' = mishaps
  <2>1. Claims(w, d)
    BY <1>1, <1>2, ClaimMoves
  <2> QED
    BY <2>1 DEF Claims
<1>4. CASE worker'[w].at = "unclaimed" /\ row' = row
  BY <1>1, <1>3, <1>4, LeasedSame, LeasedIdle
<1>5. CASE ~(worker'[w].at = "unclaimed" /\ row' = row)
  <2>1. /\ Claimable(row[d], worker[w].job.attempts)
        /\ worker'[w].left = Lease /\ row'[d].token = w /\ row'[d].lease = Lease
    BY <1>3, <1>5
  <2>2. Leased(w)'
    BY <1>2, <1>3, <2>1 DEF Leased
  <2>3. row[d].token = None \/ row[d].lease = 0
    BY <1>1, <1>3, <2>1, Rows DEF Claimable, Right
  <2>4. \A v \in Workers \ {w} : Leased(v)'
    BY <1>1, <1>3, <2>3, LeasedKept, Constants
  <2> QED
    BY <2>2, <2>4
<1> QED
  BY <1>4, <1>5

\* A tick shortens the lease of the row and of its worker alike.
LEMMA ElapseLeases ==
    ASSUME LeaseInv, Elapse
    PROVE  \A v \in Workers : Leased(v)'
<1>1. TypeInv /\ TypeOK /\ \A v \in Workers : Leased(v)
  BY DEF LeaseInv, TypeInv
<1>2. /\ \A d \in Deliveries : row'[d].token = row[d].token /\ row'[d].lease = Sooner(row[d].lease)
      /\ \A w \in Workers :
            /\ worker'[w].at = worker[w].at
            /\ ~At(w, "idle") => worker'[w].job = worker[w].job /\ worker'[w].left = Sooner(worker[w].left)
      /\ mishaps' = mishaps
  BY <1>1, ElapseMoves
<1> SUFFICES ASSUME NEW v \in Workers, Working(v)', worker'[v].left > 0,
                    <<worker'[v].job.delivery, "overtaken">> \notin mishaps
             PROVE  /\ row'[worker'[v].job.delivery].token = v
                    /\ row'[worker'[v].job.delivery].lease = worker'[v].left
  BY <1>2 DEF Leased
<1>3. Working(v) /\ ~At(v, "idle")
  BY <1>2 DEF Working, At
<1>4. PICK d : d = worker[v].job.delivery
  OBVIOUS
<1>5. d \in Deliveries /\ worker[v].left \in Nat
  BY <1>1, <1>3, <1>4, Carries
<1>6. worker'[v].job.delivery = d /\ worker'[v].left = Sooner(worker[v].left)
  BY <1>2, <1>3, <1>4
<1>7. worker[v].left > 0
  BY SMT, <1>5, <1>6 DEF Sooner
<1>8. row[d].token = v /\ row[d].lease = worker[v].left
  BY <1>1, <1>3, <1>4, <1>6, <1>7 DEF Leased
<1> QED
  BY <1>2, <1>5, <1>6, <1>8

\* Initially nobody works.
LEMMA LeaseInit ==
    ASSUME SetFacts
    PROVE  Init => LeaseInv
<1> SUFFICES ASSUME Init PROVE LeaseInv
  OBVIOUS
<1>1. \A w \in Workers : ~Working(w)
  BY DEF Init, Working, At, Idle
<1> QED
  BY <1>1, TypesInit DEF LeaseInv, Leased

\* Every step keeps the leases of the workers those of the rows.
LEMMA LeaseStep ==
    ASSUME SetFacts
    PROVE  LeaseInv /\ [Next]_vars => LeaseInv'
<1> SUFFICES ASSUME LeaseInv, [Next]_vars PROVE \A v \in Workers : Leased(v)'
  BY TypesStep DEF LeaseInv
<1>1. TypeInv /\ TypeOK /\ \A v \in Workers : Leased(v)
  BY DEF LeaseInv, TypeInv
<1>2. CASE UNCHANGED vars
  BY <1>1, <1>2, LeasedSame DEF vars
<1>3. CASE \E d \in Deliveries, t \in Triggers : Record(d, t)
  <2>1. PICK d \in Deliveries, t \in Triggers : Record(d, t)
    BY <1>3
  <2>2. /\ row[d].status = "unrecorded" /\ worker' = worker /\ mishaps' = mishaps
        /\ \A e \in Deliveries \ {d} : row'[e] = row[e]
    BY <1>1, <2>1, RecordMoves
  <2>3. row[d].token = None
    BY <1>1, <2>2, Rows DEF Right
  <2> QED
    BY <1>1, <2>2, <2>3, LeasedKept, Constants
<1>4. CASE \E w \in Workers : Step(w) \/ Fails(w) \/ \E j \in DOMAIN jobs \intersect Running : Read(w, j)
  <2>1. PICK w \in Workers : Step(w) \/ Fails(w) \/ \E j \in DOMAIN jobs \intersect Running : Read(w, j)
    BY <1>4
  <2>2. CASE Claim(w)
    BY <2>2, ClaimLeases
  <2>3. CASE \E j \in DOMAIN jobs : Read(w, j)
    <3>1. /\ worker'[w].at = "claim" /\ \A v \in Workers \ {w} : worker'[v] = worker[v]
          /\ mishaps \subseteq mishaps' /\ row' = row
      BY <1>1, <2>3, ReadMoves
    <3> QED
      BY <1>1, <3>1, LeasedSame, LeasedIdle
  <2>4. CASE Unclaimed(w)
    <3>1. PICK d : d = worker[w].job.delivery
      OBVIOUS
    <3>2. /\ worker'[w] = Idle \/ worker'[w].at = "answered"
          /\ \A v \in Workers \ {w} : worker'[v] = worker[v]
          /\ mishaps' = mishaps /\ row' = row
      BY <1>1, <2>4, <3>1, UnclaimedMoves
    <3>3. worker'[w].at \notin {"claimed", "sending"}
      BY SMT, <3>2 DEF Idle
    <3> QED
      BY <1>1, <3>2, <3>3, LeasedSame, LeasedIdle
  <2>5. CASE GiveBack(w)
    <3>1. PICK d : d = worker[w].job.delivery
      OBVIOUS
    <3>2. /\ d \in Deliveries /\ worker'[w].at = "answered"
          /\ \A v \in Workers \ {w} : worker'[v] = worker[v]
          /\ \A e \in Deliveries \ {d} : row'[e] = row[e]
          /\ mishaps \subseteq mishaps' /\ (Holds(w) \/ row' = row)
      BY <1>1, <2>5, <3>1, GiveBackMoves
    <3>3. row[d].token = w \/ row' = row
      BY <3>1, <3>2 DEF Holds
    <3>4. \A v \in Workers \ {w} : Leased(v)'
      BY <1>1, <3>2, <3>3, LeasedKept
    <3> QED
      BY <3>2, <3>4, LeasedIdle
  <2>6. CASE Attempt(w)
    <3>1. /\ At(w, "claimed") /\ worker'[w].job = worker[w].job /\ worker'[w].left = worker[w].left
          /\ \A v \in Workers \ {w} : worker'[v] = worker[v]
          /\ mishaps' = mishaps /\ row' = row
      BY <1>1, <2>6, AttemptMoves
    <3>2. Leased(w)'
      BY <1>1, <3>1 DEF Leased, Working
    <3> QED
      BY <1>1, <3>1, <3>2, LeasedSame
  <2>7. CASE \E outcome \in Outcomes : Settle(w, outcome)
    <3>1. PICK outcome \in Outcomes : Settle(w, outcome)
      BY <2>7
    <3>2. PICK d : d = worker[w].job.delivery
      OBVIOUS
    <3>3. /\ d \in Deliveries /\ worker'[w].at = "answered"
          /\ \A v \in Workers \ {w} : worker'[v] = worker[v]
          /\ mishaps' = mishaps /\ (Holds(w) \/ row' = row)
      BY <1>1, <3>1, <3>2, SettleMoves
    <3>4. \A e \in Deliveries \ {d} : row'[e] = row[e]
      BY <1>1, <3>1, <3>2, <3>3, SettleWrites
    <3>5. row[d].token = w \/ row' = row
      BY <3>2, <3>3 DEF Holds
    <3>6. \A v \in Workers \ {w} : Leased(v)'
      BY <1>1, <3>3, <3>4, <3>5, LeasedKept
    <3> QED
      BY <3>3, <3>6, LeasedIdle
  <2>8. CASE DeleteJob(w) \/ Fails(w)
    <3>1. /\ worker'[w] = Idle /\ \A v \in Workers \ {w} : worker'[v] = worker[v]
          /\ mishaps' = mishaps /\ row' = row
      BY <1>1, <2>8, LeaveMoves
    <3>2. worker'[w].at \notin {"claimed", "sending"}
      BY SMT, <3>1 DEF Idle
    <3> QED
      BY <1>1, <3>1, <3>2, LeasedSame, LeasedIdle
  <2> QED
    BY <2>1, <2>2, <2>3, <2>4, <2>5, <2>6, <2>7, <2>8 DEF Step
<1>5. CASE \E o \in Operators :
              \/ \E on \in BOOLEAN : Toggle(o, on)
              \/ \E d \in Deliveries : Redeliver(o, d)
              \/ Save(o) \/ Move(o)
  <2>1. PICK o \in Operators :
              \/ \E on \in BOOLEAN : Toggle(o, on)
              \/ \E d \in Deliveries : Redeliver(o, d)
              \/ Save(o) \/ Move(o)
    BY <1>5
  <2>2. CASE Move(o)
    <3>1. PICK d : d = operator[o].delivery
      OBVIOUS
    <3>2. /\ d \in Deliveries /\ \A e \in Deliveries \ {d} : row'[e] = row[e]
          /\ mishaps \subseteq mishaps' /\ worker' = worker /\ (Moved(o, d) \/ row' = row)
      BY <1>1, <2>2, <3>1, MoveMoves
    <3>3. row[d].lease \in Nat
      BY <1>1, <3>2, Rows, RowFacts
    <3>4. row[d].lease = 0 \/ <<d, "overtaken">> \in mishaps' \/ row' = row
      BY SMT, <3>2, <3>3 DEF Moved
    <3> QED
      BY <1>1, <3>2, <3>4, LeasedKept
  <2>3. CASE ~Move(o)
    <3>1. row' = row /\ worker' = worker /\ mishaps' = mishaps
      BY <2>1, <2>3 DEF Toggle, Redeliver, Save
    <3> QED
      BY <1>1, <3>1, LeasedSame
  <2> QED
    BY <2>2, <2>3
<1>6. CASE Delete
  BY <1>1, <1>6, LeasedSame DEF Delete
<1>7. CASE \E d \in Deliveries : Clean(d)
  <2>1. PICK d \in Deliveries : Clean(d)
    BY <1>7
  <2>2. /\ row[d].status \in {"delivered", "failed"} /\ \A e \in Deliveries \ {d} : row'[e] = row[e]
        /\ worker' = worker /\ mishaps' = mishaps
    BY <1>1, <2>1, CleanMoves
  <2>3. row[d].token = None
    BY <1>1, <2>2, Rows DEF Right
  <2> QED
    BY <1>1, <2>2, <2>3, LeasedKept, Constants
<1>8. CASE Elapse
  BY <1>8, ElapseLeases
<1> QED
  BY <1>2, <1>3, <1>4, <1>5, <1>6, <1>7, <1>8 DEF Next

----------------------------------------------------------------------------
(* A job for what is open                                                   *)

\* Unless a job of the delivery was run twice, its running jobs are queued and
\* each has one worker.
Alone(d) ==
    <<d, "run twice">> \notin mishaps =>
        \A w \in Workers : ~At(w, "idle") /\ worker[w].job.delivery = d =>
            /\ worker[w].job \in DOMAIN jobs
            /\ \A v \in Workers \ {w} : ~At(v, "idle") => worker[v].job # worker[w].job

Matches(j, d) ==
    /\ j.delivery = d
    /\ j.attempts = row[d].attempts - (IF row[d].status = "processing" THEN 1 ELSE 0)

\* The worker, if it has the job, will not answer nil for it without settling
\* the delivery or queueing another.
Spares(w, j) ==
    ~At(w, "idle") /\ worker[w].job = j =>
        /\ ~At(w, "answered")
        /\ Working(w) => row[j.delivery].token = w
        /\ At(w, "unclaimed") => AskedAgain(row[j.delivery], j.attempts)

Kept(d) == \E j \in DOMAIN jobs : Matches(j, d) /\ \A w \in Workers : Spares(w, j)

\* A delivery that must have such a job: one that is being sent must, even when
\* the endpoint is off.
Expected(d) == Queued(d) /\ Open(d) /\ (endpoint.active \/ row[d].status = "processing")

KeptFor(d) == Alone(d) /\ (Expected(d) => Kept(d))

KeptInv == TypeInv /\ \A d \in Deliveries : KeptFor(d)

Carry(v) == worker'[v].at = "idle" \/ (~At(v, "idle") /\ worker'[v].job = worker[v].job)

\* Workers that start no job, and a queue that loses none.
LEMMA AloneKept ==
    ASSUME NEW d, Alone(d), \A v \in Workers : Carry(v),
           DOMAIN jobs \subseteq DOMAIN jobs', mishaps \subseteq mishaps'
    PROVE  Alone(d)'
  BY DEF Alone, Carry, At

\* What was not expected to have a job is not expected now.
LEMMA ExpectedBefore ==
    ASSUME NEW d, Expected(d)', row'[d].status = row[d].status, mishaps \subseteq mishaps',
           endpoint'.active => endpoint.active
    PROVE  Expected(d)
  BY DEF Expected, Queued, Open

\* A step that does not touch the row, of one worker that goes on sparing the job.
LEMMA KeptOne ==
    ASSUME NEW w \in Workers, NEW d, row'[d] = row[d], DOMAIN jobs \subseteq DOMAIN jobs',
           \A v \in Workers \ {w} : worker'[v] = worker[v], Kept(d),
           \A j \in DOMAIN jobs : Matches(j, d) /\ Spares(w, j) => Spares(w, j)'
    PROVE  Kept(d)'
<1>1. PICK j \in DOMAIN jobs : Matches(j, d) /\ \A v \in Workers : Spares(v, j)
  BY DEF Kept
<1>2. Matches(j, d)' /\ j.delivery = d
  BY <1>1 DEF Matches
<1>3. \A v \in Workers \ {w} : Spares(v, j)'
  BY <1>1, <1>2 DEF Spares, Working, At
<1>4. Spares(w, j)'
  BY <1>1
<1>5. \A v \in Workers : Spares(v, j)'
  BY <1>3, <1>4
<1> QED
  BY <1>1, <1>2, <1>5 DEF Kept

\* A step of a worker with another delivery.
LEMMA KeptOther ==
    ASSUME NEW w \in Workers, NEW d, row'[d] = row[d], DOMAIN jobs \subseteq DOMAIN jobs',
           \A v \in Workers \ {w} : worker'[v] = worker[v], Kept(d),
           worker'[w].at = "idle" \/ worker'[w].job.delivery # d
    PROVE  Kept(d)'
<1>1. \A j \in DOMAIN jobs : Matches(j, d) /\ Spares(w, j) => Spares(w, j)'
  BY DEF Matches, Spares, At
<1> QED
  BY <1>1, KeptOne

\* A step of no worker.
LEMMA KeptQuiet ==
    ASSUME NEW d, row'[d] = row[d], DOMAIN jobs \subseteq DOMAIN jobs', worker' = worker, Kept(d)
    PROVE  Kept(d)'
<1>1. PICK j \in DOMAIN jobs : Matches(j, d) /\ \A v \in Workers : Spares(v, j)
  BY DEF Kept
<1>2. Matches(j, d)' /\ j.delivery = d
  BY <1>1 DEF Matches
<1>3. \A v \in Workers : Spares(v, j)'
  BY <1>1, <1>2 DEF Spares, Working, At
<1> QED
  BY <1>1, <1>2, <1>3 DEF Kept

\* A job that was just queued is nobody's yet.
LEMMA KeptFresh ==
    ASSUME NEW d, NEW j \in DOMAIN jobs', j \notin Running, j.delivery = d,
           j.attempts = row'[d].attempts, row'[d].attempts \in Nat, row'[d].status = "pending",
           \A v \in Workers : Carry(v)
    PROVE  Kept(d)'
<1>1. Matches(j, d)'
  BY SMT DEF Matches
<1>2. \A v \in Workers : Spares(v, j)'
  BY DEF Spares, Running, Carry, At
<1> QED
  BY <1>1, <1>2 DEF Kept

\* Initially nothing is open.
LEMMA KeptInit ==
    ASSUME SetFacts
    PROVE  Init => KeptInv
<1> SUFFICES ASSUME Init, NEW d \in Deliveries PROVE KeptFor(d)
  BY TypesInit DEF KeptInv
<1>1. Alone(d)
  BY DEF Alone, Init, At, Idle
<1>2. ~Open(d)
  BY DEF Open, Init, Unrecorded, Row
<1> QED
  BY <1>1, <1>2 DEF KeptFor, Expected

\* A recorded delivery has its first job.
LEMMA RecordKeeps ==
    ASSUME KeptInv, NEW d \in Deliveries, NEW t \in Triggers, Record(d, t), NEW e \in Deliveries
    PROVE  KeptFor(e)'
<1>1. TypeInv /\ TypeOK /\ KeptFor(e)
  BY DEF KeptInv, TypeInv
<1>2. PICK j : j = schedule(d, 0, t)
  OBVIOUS
<1>3. /\ row'[d].status = "pending" /\ row'[d].attempts = 0
      /\ \A f \in Deliveries \ {d} : row'[f] = row[f]
      /\ DOMAIN jobs' = DOMAIN jobs \union {j} /\ j \notin Running
      /\ j.delivery = d /\ j.attempts = 0
      /\ worker' = worker /\ mishaps' = mishaps /\ endpoint' = endpoint
  BY ZenonT(60), <1>1, <1>2, RecordMoves
<1>4. \A v \in Workers : Carry(v)
  BY <1>3 DEF Carry, At
<1>5. Alone(e)'
  BY <1>1, <1>3, <1>4, AloneKept DEF KeptFor
<1>6. ASSUME Expected(e)' PROVE Kept(e)'
  <2>1. CASE e = d
    <3>1. j \in DOMAIN jobs' /\ j.attempts = row'[d].attempts /\ row'[d].attempts \in Nat
      BY SMT, <1>3
    <3>2. Kept(d)'
      BY <1>3, <1>4, <3>1, KeptFresh
    <3> QED
      BY <2>1, <3>2
  <2>2. CASE e # d
    <3>1. row'[e] = row[e]
      BY <1>3, <2>2
    <3>2. Kept(e)
      BY <1>1, <1>3, <1>6, <3>1, ExpectedBefore DEF KeptFor
    <3> QED
      BY <1>3, <3>1, <3>2, KeptQuiet
  <2> QED
    BY <2>1, <2>2
<1> QED
  BY <1>5, <1>6 DEF KeptFor

\* Read: a job read for the second time is exempt, and one read for the first
\* is spared.
LEMMA ReadKeeps ==
    ASSUME KeptInv, NEW w \in Workers, NEW j \in DOMAIN jobs, Read(w, j), NEW e \in Deliveries
    PROVE  KeptFor(e)'
<1>1. TypeInv /\ TypeOK /\ KeptFor(e)
  BY DEF KeptInv, TypeInv
<1>2. /\ At(w, "idle") /\ worker'[w].at = "claim" /\ worker'[w].job = j
      /\ \A v \in Workers \ {w} : worker'[v] = worker[v]
      /\ mishaps \subseteq mishaps' /\ (j \in Running => <<j.delivery, "run twice">> \in mishaps')
      /\ endpoint' = endpoint /\ row' = row /\ jobs' = jobs
  BY <1>1, ReadMoves
<1>3. Alone(e)'
  <2> SUFFICES ASSUME <<e, "run twice">> \notin mishaps',
                      NEW v \in Workers, worker'[v].at # "idle", worker'[v].job.delivery = e
               PROVE  /\ worker'[v].job \in DOMAIN jobs
                      /\ \A u \in Workers \ {v} : worker'[u].at # "idle" => worker'[u].job # worker'[v].job
    BY <1>2 DEF Alone, At
  <2>1. \A u \in Workers : ~At(u, "idle") /\ worker[u].job.delivery = e =>
            /\ worker[u].job \in DOMAIN jobs
            /\ \A x \in Workers \ {u} : ~At(x, "idle") => worker[x].job # worker[u].job
    BY <1>1, <1>2 DEF KeptFor, Alone
  <2>2. CASE v = w
    <3>1. j \notin Running
      BY <1>2, <2>2
    <3>2. \A u \in Workers \ {w} : ~At(u, "idle") => worker[u].job # j
      BY <3>1 DEF Running
    <3> QED
      BY <1>2, <2>2, <3>2 DEF At
  <2>3. CASE v # w
    <3>1. worker'[v] = worker[v] /\ ~At(v, "idle") /\ worker[v].job.delivery = e
      BY <1>2, <2>3 DEF At
    <3>2. worker[v].job \in DOMAIN jobs
      BY <2>1, <3>1
    <3>3. worker[v].job # j
      BY <1>2, <3>1 DEF Running
    <3>4. \A u \in Workers \ {v} : worker'[u].at # "idle" => worker'[u].job # worker[v].job
      BY <1>2, <2>1, <3>1, <3>3 DEF At
    <3> QED
      BY <3>1, <3>2, <3>4
  <2> QED
    BY <2>2, <2>3
<1>4. ASSUME Expected(e)' PROVE Kept(e)'
  <2>1. Kept(e)
    BY <1>1, <1>2, <1>4, ExpectedBefore DEF KeptFor
  <2>2. \A k \in DOMAIN jobs : Spares(w, k)'
    BY <1>2 DEF Spares, Working, At
  <2> QED
    BY <1>2, <2>1, <2>2, KeptOne
<1> QED
  BY <1>3, <1>4 DEF KeptFor

\* Claim: the job of the claim is the one kept, and a refused claim of a job
\* that matches is asked again.
LEMMA ClaimKeeps ==
    ASSUME KeptInv, NEW w \in Workers, Claim(w), NEW e \in Deliveries
    PROVE  KeptFor(e)'
<1>1. TypeInv /\ TypeOK /\ KeptFor(e)
  BY DEF KeptInv, TypeInv
<1>2. PICK d : d = worker[w].job.delivery
  OBVIOUS
<1>3. PICK j : j = worker[w].job
  OBVIOUS
<1>4. /\ At(w, "claim") /\ d \in Deliveries /\ worker'[w].job = j /\ j.delivery = d
      /\ \A v \in Workers \ {w} : worker'[v] = worker[v]
      /\ \A f \in Deliveries \ {d} : row'[f] = row[f]
      /\ \/ /\ worker'[w].at = "claimed"
            /\ row'[d].status = "processing" /\ row'[d].attempts = j.attempts + 1 /\ row'[d].token = w
         \/ ~Claimable(row[d], j.attempts) /\ worker'[w].at = "unclaimed" /\ row' = row
      /\ endpoint' = endpoint /\ jobs' = jobs /\ mishaps' = mishaps
  <2>1. Claims(w, d)
    BY <1>1, <1>2, ClaimMoves
  <2> QED
    BY <1>2, <1>3, <2>1 DEF Claims
<1>5. ~At(w, "idle")
  BY <1>4 DEF At
<1>6. \A v \in Workers : Carry(v)
  BY <1>3, <1>4, <1>5 DEF Carry, At
<1>7. Alone(e)'
  BY <1>1, <1>4, <1>6, AloneKept DEF KeptFor
<1>8. ASSUME Expected(e)' PROVE Kept(e)'
  <2>1. CASE e # d
    <3>1. row'[e] = row[e]
      BY <1>4, <2>1
    <3>2. Kept(e)
      BY <1>1, <1>4, <1>8, <3>1, ExpectedBefore DEF KeptFor
    <3> QED
      BY <1>4, <2>1, <3>1, <3>2, KeptOther
  <2>2. CASE e = d /\ worker'[w].at = "claimed"
    <3>1. row'[d].status = "processing" /\ row'[d].attempts = j.attempts + 1 /\ row'[d].token = w
      BY <1>4, <2>2
    <3>2. <<d, "run twice">> \notin mishaps
      BY <1>4, <1>8, <2>2 DEF Expected, Queued
    <3>3. j \in DOMAIN jobs /\ \A v \in Workers \ {w} : ~At(v, "idle") => worker[v].job # j
      BY <1>1, <1>2, <1>3, <1>5, <2>2, <3>2 DEF KeptFor, Alone
    <3>4. j.attempts \in Nat
      BY <1>1, <1>3, <1>5, Carries
    <3>5. Matches(j, d)'
      BY SMT, <1>4, <3>1, <3>4 DEF Matches
    <3>6. \A v \in Workers \ {w} : Spares(v, j)'
      BY <1>4, <3>3 DEF Spares, At
    <3>7. Spares(w, j)'
      BY <1>4, <2>2, <3>1 DEF Spares, At
    <3>8. \A v \in Workers : Spares(v, j)'
      BY <3>6, <3>7
    <3> QED
      BY <1>4, <2>2, <3>3, <3>5, <3>8 DEF Kept
  <2>3. CASE e = d /\ worker'[w].at # "claimed"
    <3>1. ~Claimable(row[d], j.attempts) /\ worker'[w].at = "unclaimed" /\ row' = row
      BY <1>4, <2>3
    <3>2. Kept(d) /\ Open(d)
      BY <1>1, <1>4, <1>8, <2>3, <3>1, ExpectedBefore DEF KeptFor, Expected
    <3>3. row[d].lease \in Nat /\ row[d].next \in Nat /\ row[d].attempts \in Nat
      BY <1>1, <1>4, Rows, RowFacts
    <3>4. ASSUME Matches(j, d) PROVE AskedAgain(row[d], j.attempts)
      <4>1. CASE row[d].status = "pending"
        <5>1. row[d].attempts = j.attempts
          BY SMT, <3>3, <3>4, <4>1 DEF Matches
        <5>2. row[d].next > 0
          BY SMT, <3>1, <3>3, <4>1, <5>1 DEF Claimable
        <5> QED
          BY <4>1, <5>1, <5>2 DEF AskedAgain
      <4>2. CASE row[d].status = "processing"
        <5>1. row[d].attempts = j.attempts + 1
          BY SMT, <3>3, <3>4, <4>2 DEF Matches
        <5>2. row[d].lease > 0
          BY SMT, <3>1, <3>3, <4>2, <5>1 DEF Claimable
        <5> QED
          BY <4>2, <5>1, <5>2 DEF AskedAgain
      <4> QED
        BY <3>2, <4>1, <4>2 DEF Open
    <3>5. \A k \in DOMAIN jobs : Matches(k, d) /\ Spares(w, k) => Spares(w, k)'
      <4> SUFFICES ASSUME NEW k, Matches(k, d), k = j PROVE Spares(w, k)'
        BY <1>4 DEF Spares
      <4>1. AskedAgain(row'[d], j.attempts)
        BY <3>1, <3>4
      <4> QED
        BY <1>4, <3>1, <4>1 DEF Spares, Working, At
    <3> QED
      BY <1>4, <2>3, <3>1, <3>2, <3>5, KeptOne
  <2> QED
    BY <2>1, <2>2, <2>3
<1> QED
  BY <1>7, <1>8 DEF KeptFor

\* A worker answers nil for a job it did not spare.
LEMMA AnswerKeeps ==
    ASSUME KeptInv, NEW w \in Workers, ~At(w, "idle"), NEW d, d = worker[w].job.delivery, row' = row,
           worker'[w].at = "idle" \/ (worker'[w].job = worker[w].job /\ ~Spares(w, worker[w].job)),
           \A v \in Workers \ {w} : worker'[v] = worker[v], DOMAIN jobs' = DOMAIN jobs,
           mishaps \subseteq mishaps', endpoint' = endpoint, NEW e \in Deliveries
    PROVE  KeptFor(e)'
<1>1. KeptFor(e)
  BY DEF KeptInv
<1>2. \A v \in Workers : Carry(v)
  BY DEF Carry, At
<1>3. Alone(e)'
  BY <1>1, <1>2, AloneKept DEF KeptFor
<1>4. ASSUME Expected(e)' PROVE Kept(e)'
  <2>1. Kept(e)
    BY <1>1, <1>4, ExpectedBefore DEF KeptFor
  <2>2. \A j \in DOMAIN jobs : Matches(j, e) /\ Spares(w, j) => Spares(w, j)'
    BY DEF Spares, At
  <2> QED
    BY <2>1, <2>2, KeptOne
<1> QED
  BY <1>3, <1>4 DEF KeptFor

\* unclaimed: answers nil only for a job overtaken by another.
LEMMA UnclaimedKeeps ==
    ASSUME KeptInv, NEW w \in Workers, Unclaimed(w), NEW e \in Deliveries
    PROVE  KeptFor(e)'
<1>1. TypeOK
  BY DEF KeptInv, TypeInv
<1>2. PICK d : d = worker[w].job.delivery
  OBVIOUS
<1>3. /\ At(w, "unclaimed")
      /\ \A v \in Workers \ {w} : worker'[v] = worker[v]
      /\ \/ worker'[w] = Idle
         \/ ~AskedAgain(row[d], worker[w].job.attempts) /\ worker'[w].job = worker[w].job
      /\ DOMAIN jobs' = DOMAIN jobs /\ endpoint' = endpoint /\ row' = row /\ mishaps' = mishaps
  BY <1>1, <1>2, UnclaimedMoves
<1>4. ~At(w, "idle") /\ (worker'[w].at = "idle" \/ (worker'[w].job = worker[w].job /\ ~Spares(w, worker[w].job)))
  BY SMT, <1>2, <1>3 DEF Spares, At, Idle
<1> QED
  BY <1>2, <1>3, <1>4, AnswerKeeps

\* GiveBack: the delivery waits for its endpoint, or is exempt.
LEMMA GiveBackKeeps ==
    ASSUME KeptInv, NEW w \in Workers, GiveBack(w), NEW e \in Deliveries
    PROVE  KeptFor(e)'
<1>1. TypeInv /\ TypeOK /\ KeptFor(e)
  BY DEF KeptInv, TypeInv
<1>2. PICK d : d = worker[w].job.delivery
  OBVIOUS
<1>3. /\ At(w, "claimed") /\ d \in Deliveries
      /\ worker'[w].at = "answered" /\ worker'[w].job = worker[w].job
      /\ \A v \in Workers \ {w} : worker'[v] = worker[v]
      /\ \A f \in Deliveries \ {d} : row'[f] = row[f]
      /\ mishaps \subseteq mishaps'
      /\ \/ /\ row'[d].status = "pending"
            /\ endpoint.active => <<d, "given back late">> \in mishaps'
         \/ ~Holds(w) /\ row' = row
      /\ endpoint' = endpoint /\ jobs' = jobs
  BY <1>1, <1>2, GiveBackMoves
<1>4. ~At(w, "idle") /\ Working(w)
  BY <1>3 DEF At, Working
<1>5. CASE ~Holds(w) /\ row' = row
  <2>1. ~Spares(w, worker[w].job)
    BY <1>2, <1>4, <1>5 DEF Spares, Holds
  <2> QED
    BY <1>2, <1>3, <1>4, <1>5, <2>1, AnswerKeeps
<1>6. CASE row'[d].status = "pending" /\ (endpoint.active => <<d, "given back late">> \in mishaps')
  <2>1. \A v \in Workers : Carry(v)
    BY <1>3, <1>4 DEF Carry, At
  <2>2. Alone(e)'
    BY <1>1, <1>3, <2>1, AloneKept DEF KeptFor
  <2>3. ASSUME Expected(e)' PROVE Kept(e)'
    <3>1. e # d
      BY <1>3, <1>6, <2>3 DEF Expected, Queued
    <3>2. row'[e] = row[e]
      BY <1>3, <3>1
    <3>3. Kept(e)
      BY <1>1, <1>3, <2>3, <3>2, ExpectedBefore DEF KeptFor
    <3> QED
      BY <1>2, <1>3, <3>1, <3>2, <3>3, KeptOther
  <2> QED
    BY <2>2, <2>3 DEF KeptFor
<1> QED
  BY <1>3, <1>5, <1>6

\* Attempt: the worker has the token as before.
LEMMA AttemptKeeps ==
    ASSUME KeptInv, NEW w \in Workers, Attempt(w), NEW e \in Deliveries
    PROVE  KeptFor(e)'
<1>1. TypeOK /\ KeptFor(e)
  BY DEF KeptInv, TypeInv
<1>2. /\ At(w, "claimed") /\ worker'[w].at = "sending" /\ worker'[w].job = worker[w].job
      /\ \A v \in Workers \ {w} : worker'[v] = worker[v]
      /\ endpoint' = endpoint /\ row' = row /\ jobs' = jobs /\ mishaps' = mishaps
  BY <1>1, AttemptMoves
<1>3. \A v \in Workers : Carry(v)
  BY <1>2 DEF Carry, At
<1>4. Alone(e)'
  BY <1>1, <1>2, <1>3, AloneKept DEF KeptFor
<1>5. ASSUME Expected(e)' PROVE Kept(e)'
  <2>1. Kept(e)
    BY <1>1, <1>2, <1>5, ExpectedBefore DEF KeptFor
  <2>2. \A j \in DOMAIN jobs : Spares(w, j) => Spares(w, j)'
    BY <1>2 DEF Spares, Working, At
  <2> QED
    BY <1>2, <2>1, <2>2, KeptOne
<1> QED
  BY <1>4, <1>5 DEF KeptFor

\* Settle: the delivery is over, or its next attempt is queued.
LEMMA SettleKeeps ==
    ASSUME KeptInv, NEW w \in Workers, NEW outcome, Settle(w, outcome), NEW e \in Deliveries
    PROVE  KeptFor(e)'
<1>1. TypeInv /\ TypeOK /\ KeptFor(e)
  BY DEF KeptInv, TypeInv
<1>2. PICK d : d = worker[w].job.delivery
  OBVIOUS
<1>3. /\ At(w, "sending") /\ Working(w) /\ d \in Deliveries
      /\ worker'[w].at = "answered" /\ worker'[w].job = worker[w].job
      /\ \A v \in Workers \ {w} : worker'[v] = worker[v]
      /\ endpoint'.active => endpoint.active
      /\ ~Holds(w) => endpoint' = endpoint /\ row' = row /\ jobs' = jobs
      /\ mishaps' = mishaps
  BY <1>1, <1>2, SettleMoves
<1>4. ~At(w, "idle")
  BY <1>3 DEF At
<1>5. CASE ~Holds(w)
  <2>1. ~Spares(w, worker[w].job)
    BY <1>2, <1>3, <1>4, <1>5 DEF Spares, Holds
  <2> QED
    BY <1>2, <1>3, <1>4, <1>5, <2>1, AnswerKeeps
<1>6. CASE Holds(w)
  <2>1. (\A f \in Deliveries \ {d} : row'[f] = row[f]) /\ Written(w, d)
    BY <1>1, <1>2, <1>6, SettleWrites
  <2>2. DOMAIN jobs \subseteq DOMAIN jobs'
    BY <2>1 DEF Written, QueuedNext
  <2>3. \A v \in Workers : Carry(v)
    BY <1>3, <1>4 DEF Carry, At
  <2>4. Alone(e)'
    BY <1>1, <1>3, <2>2, <2>3, AloneKept DEF KeptFor
  <2>5. ASSUME Expected(e)' PROVE Kept(e)'
    <3>1. CASE e = d
      <4>1. row'[d].status = "pending" /\ QueuedNext(d) /\ row'[d].attempts = row[d].attempts
        BY <2>1, <2>5, <3>1 DEF Written, Expected, Open
      <4>2. row[d].attempts \in Nat
        BY <1>1, <1>3, Rows, RowFacts
      <4>3. PICK j \in DOMAIN jobs' : j \notin Running /\ j.delivery = d /\ j.attempts = row[d].attempts
        BY <4>1 DEF QueuedNext
      <4> QED
        BY <2>3, <3>1, <4>1, <4>2, <4>3, KeptFresh
    <3>2. CASE e # d
      <4>1. row'[e] = row[e]
        BY <2>1, <3>2
      <4>2. Kept(e)
        BY <1>1, <1>3, <2>5, <4>1, ExpectedBefore DEF KeptFor
      <4> QED
        BY <1>2, <1>3, <2>2, <3>2, <4>1, <4>2, KeptOther
    <3> QED
      BY <3>1, <3>2
  <2> QED
    BY <2>4, <2>5 DEF KeptFor
<1> QED
  BY <1>5, <1>6

\* A job that is deleted was not the kept one, and nobody else runs it; one
\* whose run failed stays.
LEMMA LeaveKeeps ==
    ASSUME KeptInv, NEW w \in Workers, DeleteJob(w) \/ Fails(w), NEW e \in Deliveries
    PROVE  KeptFor(e)'
<1>1. TypeOK /\ KeptFor(e)
  BY DEF KeptInv, TypeInv
<1>2. /\ worker'[w] = Idle /\ \A v \in Workers \ {w} : worker'[v] = worker[v]
      /\ \/ At(w, "answered") /\ DOMAIN jobs' = DOMAIN jobs \ {worker[w].job}
         \/ DOMAIN jobs' = DOMAIN jobs
      /\ endpoint' = endpoint /\ row' = row /\ mishaps' = mishaps
  BY <1>1, LeaveMoves
<1>3. worker'[w].at = "idle"
  BY SMT, <1>2 DEF Idle
<1>4. \A v \in Workers : Carry(v)
  BY <1>2, <1>3 DEF Carry, At
<1>5. CASE DOMAIN jobs' = DOMAIN jobs
  <2>1. Alone(e)'
    BY <1>1, <1>2, <1>4, <1>5, AloneKept DEF KeptFor
  <2>2. ASSUME Expected(e)' PROVE Kept(e)'
    <3>1. Kept(e)
      BY <1>1, <1>2, <2>2, ExpectedBefore DEF KeptFor
    <3> QED
      BY <1>2, <1>3, <1>5, <3>1, KeptOther
  <2> QED
    BY <2>1, <2>2 DEF KeptFor
<1>6. CASE At(w, "answered") /\ DOMAIN jobs' = DOMAIN jobs \ {worker[w].job}
  <2>1. Alone(e)'
    <3> SUFFICES ASSUME <<e, "run twice">> \notin mishaps,
                        NEW v \in Workers, worker'[v].at # "idle", worker'[v].job.delivery = e
                 PROVE  /\ worker'[v].job \in DOMAIN jobs'
                        /\ \A u \in Workers \ {v} : worker'[u].at # "idle" => worker'[u].job # worker'[v].job
      BY <1>2 DEF Alone, At
    <3>1. v # w /\ worker'[v] = worker[v] /\ ~At(v, "idle") /\ ~At(w, "idle")
      BY <1>2, <1>3, <1>6 DEF At
    <3>2. /\ worker[v].job \in DOMAIN jobs
          /\ \A u \in Workers \ {v} : ~At(u, "idle") => worker[u].job # worker[v].job
      BY <1>1, <3>1 DEF KeptFor, Alone
    <3>3. worker[w].job # worker[v].job
      BY <3>1, <3>2
    <3>4. \A u \in Workers \ {v} : worker'[u].at # "idle" => worker'[u].job # worker'[v].job
      BY <1>2, <1>3, <3>1, <3>2 DEF At
    <3> QED
      BY <1>6, <3>1, <3>2, <3>3, <3>4
  <2>2. ASSUME Expected(e)' PROVE Kept(e)'
    <3>1. Kept(e)
      BY <1>1, <1>2, <2>2, ExpectedBefore DEF KeptFor
    <3>2. PICK j \in DOMAIN jobs : Matches(j, e) /\ \A v \in Workers : Spares(v, j)
      BY <3>1 DEF Kept
    <3>3. j # worker[w].job
      BY <1>6, <3>2 DEF Spares, At
    <3>4. Matches(j, e)'
      BY <1>2, <3>2 DEF Matches
    <3>5. \A v \in Workers \ {w} : Spares(v, j)'
      BY <1>2, <3>2 DEF Spares, Working, At
    <3>6. Spares(w, j)'
      BY <1>3 DEF Spares, At
    <3>7. \A v \in Workers : Spares(v, j)'
      BY <3>5, <3>6
    <3> QED
      BY <1>6, <3>2, <3>3, <3>4, <3>7 DEF Kept
  <2> QED
    BY <2>1, <2>2 DEF KeptFor
<1> QED
  BY <1>2, <1>5, <1>6

\* A step of an operator that changes no row and lets the endpoint be.
LEMMA QuietKeeps ==
    ASSUME KeptInv, worker' = worker, row' = row, jobs' = jobs, mishaps' = mishaps,
           endpoint'.active => endpoint.active, NEW e \in Deliveries
    PROVE  KeptFor(e)'
<1>1. KeptFor(e)
  BY DEF KeptInv
<1>2. Alone(e)'
  BY <1>1 DEF KeptFor, Alone, At
<1>3. ASSUME Expected(e)' PROVE Kept(e)'
  <2>1. Kept(e)
    BY <1>1, <1>3, ExpectedBefore DEF KeptFor
  <2> QED
    BY <2>1, KeptQuiet
<1> QED
  BY <1>2, <1>3 DEF KeptFor

\* Save: an endpoint that is turned on gets a job for every delivery that waits.
LEMMA SaveKeeps ==
    ASSUME KeptInv, NEW o \in Operators, Save(o), NEW e \in Deliveries
    PROVE  KeptFor(e)'
<1>1. TypeOK /\ KeptFor(e)
  BY DEF KeptInv, TypeInv
<1>2. /\ \/ (endpoint'.active => endpoint.active) /\ jobs' = jobs
         \/ /\ DOMAIN jobs' = DOMAIN jobs \union Resumed
            /\ \A d \in Waiting : Free(d, row[d].attempts, "scheduled") # {}
      /\ row' = row /\ worker' = worker /\ mishaps' = mishaps
  BY <1>1, SaveMoves
<1>3. CASE (endpoint'.active => endpoint.active) /\ jobs' = jobs
  BY <1>2, <1>3, QuietKeeps
<1>4. CASE /\ DOMAIN jobs' = DOMAIN jobs \union Resumed
           /\ \A d \in Waiting : Free(d, row[d].attempts, "scheduled") # {}
  <2>1. \A v \in Workers : Carry(v)
    BY <1>2 DEF Carry, At
  <2>2. Alone(e)'
    BY <1>1, <1>2, <1>4, <2>1, AloneKept DEF KeptFor
  <2>3. ASSUME Expected(e)' PROVE Kept(e)'
    <3>1. CASE row[e].status = "pending"
      <4>1. e \in Waiting
        BY <3>1 DEF Waiting
      <4>2. PICK j : j = schedule(e, row[e].attempts, "scheduled")
        OBVIOUS
      <4>3. j \notin Running /\ j.delivery = e /\ j.attempts = row[e].attempts
        BY <1>1, <1>4, <4>1, <4>2, ResumedJobs
      <4>4. j \in DOMAIN jobs'
        BY <1>4, <4>1, <4>2 DEF Resumed
      <4>5. row[e].attempts \in Nat
        BY <1>1, Rows, RowFacts
      <4> QED
        BY <1>2, <2>1, <3>1, <4>3, <4>4, <4>5, KeptFresh
    <3>2. CASE row[e].status # "pending"
      <4>1. Expected(e)
        BY <1>2, <2>3, <3>2 DEF Expected, Open, Queued
      <4>2. Kept(e)
        BY <1>1, <4>1 DEF KeptFor
      <4> QED
        BY <1>2, <1>4, <4>2, KeptQuiet
    <3> QED
      BY <3>1, <3>2
  <2> QED
    BY <2>2, <2>3 DEF KeptFor
<1> QED
  BY <1>2, <1>3, <1>4

\* Move queues the attempt of the redelivery.
LEMMA MoveKeeps ==
    ASSUME SetFacts, KeptInv, NEW o \in Operators, Move(o), NEW e \in Deliveries
    PROVE  KeptFor(e)'
<1>1. TypeInv /\ TypeOK /\ KeptFor(e)
  BY DEF KeptInv, TypeInv
<1>2. PICK d : d = operator[o].delivery
  OBVIOUS
<1>3. /\ d \in Deliveries /\ \A f \in Deliveries \ {d} : row'[f] = row[f]
      /\ mishaps \subseteq mishaps' /\ (Moved(o, d) \/ UNCHANGED <<row, jobs, mishaps>>)
      /\ endpoint' = endpoint /\ worker' = worker
  BY <1>1, <1>2, MoveMoves
<1>4. CASE UNCHANGED <<row, jobs, mishaps>>
  BY <1>3, <1>4, QuietKeeps
<1>5. CASE Moved(o, d)
  <2>1. \A v \in Workers : Carry(v)
    BY <1>3 DEF Carry, At
  <2>2. PICK j \in Jobs \ (DOMAIN jobs \union Running) :
           /\ j.delivery = d /\ j.attempts = row[d].attempts
           /\ DOMAIN jobs' = DOMAIN jobs \union {j}
    BY <1>5 DEF Moved, QueuedNext
  <2>3. Alone(e)'
    BY <1>1, <1>3, <2>1, <2>2, AloneKept DEF KeptFor
  <2>4. ASSUME Expected(e)' PROVE Kept(e)'
    <3>1. CASE e = d
      <4>1. row'[d].status = "pending" /\ row'[d].attempts = row[d].attempts
        BY <1>5 DEF Moved
      <4>2. row[d].attempts \in Nat
        BY <1>1, <1>3, Rows, RowFacts
      <4> QED
        BY <2>1, <2>2, <3>1, <4>1, <4>2, KeptFresh
    <3>2. CASE e # d
      <4>1. row'[e] = row[e]
        BY <1>3, <3>2
      <4>2. Kept(e)
        BY <1>1, <1>3, <2>4, <4>1, ExpectedBefore DEF KeptFor
      <4> QED
        BY <1>3, <2>2, <4>1, <4>2, KeptQuiet
    <3> QED
      BY <3>1, <3>2
  <2> QED
    BY <2>3, <2>4 DEF KeptFor
<1> QED
  BY <1>3, <1>4, <1>5

\* A cleaned delivery is over.
LEMMA CleanKeeps ==
    ASSUME KeptInv, NEW d \in Deliveries, Clean(d), NEW e \in Deliveries
    PROVE  KeptFor(e)'
<1>1. TypeOK /\ KeptFor(e)
  BY DEF KeptInv, TypeInv
<1>2. /\ \A f \in Deliveries \ {d} : row'[f] = row[f]
      /\ row'[d].status = "cleaned"
      /\ endpoint' = endpoint /\ jobs' = jobs /\ worker' = worker /\ mishaps' = mishaps
  BY <1>1, CleanMoves
<1>3. Alone(e)'
  BY <1>1, <1>2 DEF KeptFor, Alone, At
<1>4. ASSUME Expected(e)' PROVE Kept(e)'
  <2>1. e # d
    BY <1>2, <1>4 DEF Expected, Open
  <2>2. row'[e] = row[e]
    BY <1>2, <2>1
  <2>3. Kept(e)
    BY <1>1, <1>2, <1>4, <2>2, ExpectedBefore DEF KeptFor
  <2> QED
    BY <1>2, <2>2, <2>3, KeptQuiet
<1> QED
  BY <1>3, <1>4 DEF KeptFor

\* A tick comes when nobody is between a refused claim and the read after it.
LEMMA ElapseKeeps ==
    ASSUME KeptInv, Elapse, NEW e \in Deliveries
    PROVE  KeptFor(e)'
<1>1. TypeOK /\ KeptFor(e)
  BY DEF KeptInv, TypeInv
<1>2. /\ \A d \in Deliveries : /\ row'[d].status = row[d].status /\ row'[d].attempts = row[d].attempts
                               /\ row'[d].token = row[d].token
      /\ \A w \in Workers : /\ worker'[w].at = worker[w].at /\ ~At(w, "unclaimed")
                            /\ ~At(w, "idle") => worker'[w].job = worker[w].job
      /\ DOMAIN jobs' = DOMAIN jobs /\ endpoint' = endpoint /\ mishaps' = mishaps
  BY <1>1, ElapseMoves
<1>3. \A v \in Workers : Carry(v)
  BY <1>2 DEF Carry, At
<1>4. Alone(e)'
  BY <1>1, <1>2, <1>3, AloneKept DEF KeptFor
<1>5. ASSUME Expected(e)' PROVE Kept(e)'
  <2>1. Kept(e)
    BY <1>1, <1>2, <1>5, ExpectedBefore DEF KeptFor
  <2>2. PICK j \in DOMAIN jobs : Matches(j, e) /\ \A v \in Workers : Spares(v, j)
    BY <2>1 DEF Kept
  <2>3. Matches(j, e)' /\ j.delivery = e
    BY <1>2, <2>2 DEF Matches
  <2>4. \A v \in Workers : Spares(v, j)'
    BY <1>2, <2>2, <2>3 DEF Spares, Working, At
  <2> QED
    BY <1>2, <2>2, <2>3, <2>4 DEF Kept
<1> QED
  BY <1>4, <1>5 DEF KeptFor

\* Every step keeps a job for what is open.
LEMMA KeptStep ==
    ASSUME SetFacts
    PROVE  KeptInv /\ [Next]_vars => KeptInv'
<1> SUFFICES ASSUME KeptInv, [Next]_vars, NEW e \in Deliveries PROVE KeptFor(e)'
  BY TypesStep DEF KeptInv
<1>1. TypeOK
  BY DEF KeptInv, TypeInv
<1>2. CASE UNCHANGED vars
  BY <1>2, QuietKeeps DEF vars
<1>3. CASE \E d \in Deliveries, t \in Triggers : Record(d, t)
  BY <1>3, RecordKeeps
<1>4. CASE \E w \in Workers : Step(w) \/ Fails(w) \/ \E j \in DOMAIN jobs \intersect Running : Read(w, j)
  <2>1. PICK w \in Workers : Step(w) \/ Fails(w) \/ \E j \in DOMAIN jobs \intersect Running : Read(w, j)
    BY <1>4
  <2>2. \/ \E j \in DOMAIN jobs : Read(w, j)
        \/ Claim(w) \/ Unclaimed(w) \/ GiveBack(w) \/ Attempt(w) \/ DeleteJob(w) \/ Fails(w)
        \/ \E outcome \in Outcomes : Settle(w, outcome)
    BY <2>1 DEF Step
  <2> QED
    BY <2>2, ReadKeeps, ClaimKeeps, UnclaimedKeeps, GiveBackKeeps, AttemptKeeps, LeaveKeeps, SettleKeeps
<1>5. CASE \E o \in Operators :
              \/ \E on \in BOOLEAN : Toggle(o, on)
              \/ \E d \in Deliveries : Redeliver(o, d)
              \/ Save(o) \/ Move(o)
  <2>1. PICK o \in Operators :
              \/ \E on \in BOOLEAN : Toggle(o, on)
              \/ \E d \in Deliveries : Redeliver(o, d)
              \/ Save(o) \/ Move(o)
    BY <1>5
  <2>2. CASE \E on \in BOOLEAN : Toggle(o, on)
    BY <2>2, QuietKeeps DEF Toggle
  <2>3. CASE \E d \in Deliveries : Redeliver(o, d)
    BY <2>3, QuietKeeps DEF Redeliver
  <2> QED
    BY <2>1, <2>2, <2>3, SaveKeeps, MoveKeeps
<1>6. CASE Delete
  <2>1. ~endpoint'.active /\ UNCHANGED <<row, jobs, worker, mishaps>>
    BY <1>1, <1>6, DeleteMoves
  <2> QED
    BY <2>1, QuietKeeps
<1>7. CASE \E d \in Deliveries : Clean(d)
  BY <1>7, CleanKeeps
<1>8. CASE Elapse
  BY <1>8, ElapseKeeps
<1> QED
  BY <1>2, <1>3, <1>4, <1>5, <1>6, <1>7, <1>8 DEF Next

----------------------------------------------------------------------------
(* The theorems                                                             *)

INSTANCE FiniteSetTheorems

\* The facts about finite sets.
LEMMA SetFactsHold == SetFacts
<1>1. Sized
  BY FS_CardinalityType DEF Sized
<1>2. Adding
  BY FS_AddElement DEF Adding
<1>3. Removing
  BY FS_RemoveElement DEF Removing
<1>4. Emptiness
  BY FS_EmptySet DEF Emptiness
<1> QED
  BY <1>1, <1>2, <1>3, <1>4 DEF SetFacts

\* The types and the plans always hold: a delivery has a token exactly while it
\* is being sent, and no more attempts than its plan and its redeliveries.
THEOREM WebhookTypes == Spec => []TypeOK
<1>1. TypeInv => TypeOK
  BY DEF TypeInv
<1>2. Init => TypeInv
  BY SetFactsHold, TypesInit
<1>3. TypeInv /\ [Next]_vars => TypeInv'
  BY SetFactsHold, TypesStep
<1> QED
  BY <1>1, <1>2, <1>3, PTL DEF Spec

\* No attempt of a delivery is in its history twice, and none is ahead of its
\* count: settle writes under the token of its own claim only.
THEOREM AttemptsSettledOnce == Spec => []SettledOnce
<1>1. HistoryInv => SettledOnce
  BY DEF HistoryInv, Fresh, SettledOnce
<1>2. Init => HistoryInv
  BY SetFactsHold, HistoryInit
<1>3. HistoryInv /\ [Next]_vars => HistoryInv'
  BY SetFactsHold, HistoryStep
<1> QED
  BY <1>1, <1>2, <1>3, PTL DEF Spec

\* Two workers never send the same delivery while both leases run, unless a
\* redelivery overtook the attempt of one of them.
THEOREM OneSenderAtATime == Spec => []OneSender
<1>1. LeaseInv => OneSender
  <2> SUFFICES ASSUME LeaseInv, NEW w \in Workers, NEW v \in Workers, w # v, At(w, "sending"), At(v, "sending"),
                      worker[w].job.delivery = worker[v].job.delivery,
                      <<worker[w].job.delivery, "overtaken">> \notin mishaps
               PROVE  worker[w].left = 0 \/ worker[v].left = 0
    BY DEF OneSender
  <2>1. worker[w].left \in Nat /\ worker[v].left \in Nat
    <3>1. ~At(w, "idle") /\ ~At(v, "idle") /\ TypeOK
      BY DEF At, LeaseInv, TypeInv
    <3> QED
      BY <3>1, Carries
  <2>2. Leased(w) /\ Leased(v) /\ Working(w) /\ Working(v)
    BY DEF LeaseInv, Working
  <2> QED
    BY SMT, <2>1, <2>2 DEF Leased
<1>2. Init => LeaseInv
  BY SetFactsHold, LeaseInit
<1>3. LeaseInv /\ [Next]_vars => LeaseInv'
  BY SetFactsHold, LeaseStep
<1> QED
  BY <1>1, <1>2, <1>3, PTL DEF Spec

\* While the endpoint is on, an open delivery has a job that will attempt it,
\* except one given back after the endpoint was turned on and one whose job two
\* workers ran at once.
THEOREM OpenIsQueued == Spec => []OpenHasJob
<1>1. KeptInv => OpenHasJob
  <2> SUFFICES ASSUME KeptInv, endpoint.active, NEW d \in Deliveries, Open(d), Queued(d) PROVE HasJob(d)
    BY DEF OpenHasJob
  <2>1. Kept(d)
    BY DEF KeptInv, KeptFor, Expected
  <2> QED
    BY <2>1 DEF Kept, Matches, HasJob
<1>2. Init => KeptInv
  BY SetFactsHold, KeptInit
<1>3. KeptInv /\ [Next]_vars => KeptInv'
  BY SetFactsHold, KeptStep
<1> QED
  BY <1>1, <1>2, <1>3, PTL DEF Spec
=============================================================================
