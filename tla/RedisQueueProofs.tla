-------------------------- MODULE RedisQueueProofs --------------------------
(***************************************************************************)
(* The RESP driver: its types, that a job is in one of its sets, that a    *)
(* lease excludes other consumers, that a late command of a consumer whose *)
(* lease ended changes nothing, and that it implements JobLifecycle.       *)
(***************************************************************************)
EXTENDS RedisQueue, TLAPS

(* Zenon is the default backend; the leaves that need arithmetic cite SMT. *)
USE Zenon

-----------------------------------------------------------------------------
(* Types *)

(* The clock starts at one. *)
LEMMA FirstInstant == 1 \in Nat \ {0}
BY SMT

(* The records the model starts from. *)
LEMMA Records ==
  /\ NoTx \in Txs /\ NoTx.op = "none" /\ NoTx.step = "none"
  /\ NoTx.at = 0 /\ NoTx.attempts = 0 /\ NoTx.clean
  /\ NoHold \in Holdings /\ NoHold.attempts = 0 /\ NoHold.until = 0
  /\ Idle \in Pops /\ Idle.step = "idle" /\ Idle.now = 0 /\ Idle.todo = {}
  /\ NoCommand \in Cmds /\ NoCommand.step = "idle" /\ NoCommand.ids = {}
BY FirstInstant DEF NoTx, Txs, Settling, NoHold, Holdings, Idle, Pops, NoCommand, Cmds

(* What the proofs use of the order of instants and of attempt counts. *)
LEMMA Order ==
  /\ NoBody \notin Nat /\ NoBody # 0 /\ 0 <= 1
  /\ \A a \in Nat : a <= a /\ a <= a + 1
  /\ \A a, b \in Nat : a <= b => a < b + 1
  /\ \A a, b \in Nat : a < b => a <= b /\ a # b /\ b # 0
  /\ \A a, b \in Nat : a < b \/ b <= a
  /\ \A a, b \in Nat : a + 1 \in Nat /\ a + b \in Nat /\ (a # 0 => a + b # 0)
  /\ \A a, b, c \in Nat : a <= b /\ b <= c => ~(c < a)
BY SMT DEF NoBody

(* The counts and instants of a transaction, a delivery and a pop. *)
LEMMA Fields ==
  ASSUME TypeOK
  PROVE  /\ \A w \in Workers, i \in Ids :
              /\ tx[w][i].attempts \in Nat
              /\ held[w][i].attempts \in Nat /\ held[w][i].until \in Nat
         /\ \A w \in Workers : pop[w].now \in Nat
BY SMT DEF TypeOK, Txs, Holdings, Pops

(* A transaction that cannot commit any more is otherwise as it was. *)
LEMMA Dirty ==
  ASSUME NEW t \in Txs
  PROVE  LET u == [t EXCEPT !.clean = FALSE]
         IN  u \in Txs /\ u.op = t.op /\ u.step = t.step /\ u.at = t.at
             /\ u.attempts = t.attempts /\ u.clean = FALSE
BY DEF Txs

(* A write ends no transaction; those that watch what it wrote to cannot   *)
(* commit.                                                                 *)
LEMMA TouchedAt ==
  ASSUME tx \in [Workers -> [Ids -> Txs]], NEW keys
  PROVE  /\ Touched(keys) \in [Workers -> [Ids -> Txs]]
         /\ \A v \in Workers, i \in Ids :
              /\ Touched(keys)[v][i].op = tx[v][i].op
              /\ Touched(keys)[v][i].step = tx[v][i].step
              /\ Touched(keys)[v][i].at = tx[v][i].at
              /\ Touched(keys)[v][i].attempts = tx[v][i].attempts
              /\ Touched(keys)[v][i].clean =>
                   tx[v][i].clean /\ Watches(tx[v][i].op) \notin keys
<1>1. \A v \in Workers, i \in Ids :
        Touched(keys)[v][i] = IF Watches(tx[v][i].op) \in keys
                              THEN [tx[v][i] EXCEPT !.clean = FALSE] ELSE tx[v][i]
  BY DEF Touched
<1>2. Touched(keys) \in [Workers -> [Ids -> Txs]]
  BY Dirty DEF Touched
<1>3. ASSUME NEW v \in Workers, NEW i \in Ids
      PROVE  /\ Touched(keys)[v][i].op = tx[v][i].op
             /\ Touched(keys)[v][i].step = tx[v][i].step
             /\ Touched(keys)[v][i].at = tx[v][i].at
             /\ Touched(keys)[v][i].attempts = tx[v][i].attempts
             /\ Touched(keys)[v][i].clean =>
                  tx[v][i].clean /\ Watches(tx[v][i].op) \notin keys
  <2>1. tx[v][i] \in Txs
    OBVIOUS
  <2>2. CASE Watches(tx[v][i].op) \in keys
    <3>1. Touched(keys)[v][i] = [tx[v][i] EXCEPT !.clean = FALSE]
      BY <1>1, <2>2
    <3>2. QED
      BY <2>1, <3>1, Dirty
  <2>3. CASE Watches(tx[v][i].op) \notin keys
    BY <1>1, <2>3
  <2>4. QED
    BY <2>2, <2>3
<1>4. QED
  BY <1>2, <1>3

(* One transaction is begun, goes on or ends. *)
LEMMA TxAt ==
  ASSUME tx \in [Workers -> [Ids -> Txs]], NEW w \in Workers, NEW id \in Ids,
         NEW t \in Txs, tx' = [tx EXCEPT ![w][id] = t]
  PROVE  /\ tx' \in [Workers -> [Ids -> Txs]]
         /\ tx'[w][id] = t
         /\ \A v \in Workers, i \in Ids : (v = w /\ i = id) \/ tx'[v][i] = tx[v][i]
OBVIOUS

(* One transaction commits. *)
LEMMA CommitAt ==
  ASSUME tx \in [Workers -> [Ids -> Txs]], NEW w \in Workers, NEW id \in Ids,
         NEW keys, CommitTx(keys, w, id)
  PROVE  /\ tx' \in [Workers -> [Ids -> Txs]]
         /\ tx'[w][id] = NoTx
         /\ \A v \in Workers, i \in Ids :
              (v = w /\ i = id) \/ tx'[v][i] = Touched(keys)[v][i]
BY TouchedAt, Records, SMT DEF CommitTx

(* A transaction that ends. *)
LEMMA EndAt ==
  ASSUME tx \in [Workers -> [Ids -> Txs]], NEW w \in Workers, NEW id \in Ids,
         EndTx(w, id)
  PROVE  /\ tx' \in [Workers -> [Ids -> Txs]]
         /\ tx'[w][id] = NoTx
         /\ \A v \in Workers, i \in Ids : (v = w /\ i = id) \/ tx'[v][i] = tx[v][i]
BY TxAt, Records, SMT DEF EndTx

(* A transaction of Pop, and one of a settlement, as they begin. *)
LEMMA NewTx ==
  ASSUME NEW op \in Settling \cup {"recover", "claim"},
         NEW step \in {"begin", "read", "exec"}, NEW n \in Nat
  PROVE  /\ LET u == [NoTx EXCEPT !.op = op, !.step = step]
             IN  u \in Txs /\ u.op = op /\ u.step = step
         /\ LET u == [NoTx EXCEPT !.op = op, !.step = step, !.at = n]
             IN  u \in Txs /\ u.op = op /\ u.step = step /\ u.at = n
BY DEF NoTx, Txs

(* A transaction that goes on. *)
LEMMA TxStep ==
  ASSUME NEW t \in Txs, NEW step \in {"begin", "read", "exec"}
  PROVE  LET u == [t EXCEPT !.step = step]
         IN  u \in Txs /\ u.op = t.op /\ u.step = step /\ u.at = t.at
             /\ u.attempts = t.attempts /\ u.clean = t.clean
BY DEF Txs

(* A claim that read the body. *)
LEMMA TxRead ==
  ASSUME NEW t \in Txs, NEW n \in Nat
  PROVE  LET u == [t EXCEPT !.step = "exec", !.attempts = n]
         IN  u \in Txs /\ u.op = t.op /\ u.step = "exec" /\ u.at = t.at
             /\ u.attempts = n /\ u.clean = t.clean
BY DEF Txs

(* A settlement that found the lease. *)
LEMMA TxWatch ==
  ASSUME NEW t \in Txs
  PROVE  LET u == [t EXCEPT !.step = "read", !.clean = TRUE]
         IN  u \in Txs /\ u.op = t.op /\ u.step = "read" /\ u.at = t.at
             /\ u.attempts = t.attempts
BY DEF Txs

(* The initial state has its types. *)
LEMMA TypeInit == Init => TypeOK
BY Records, SMT DEF Init, TypeOK, NoBody, Mishaps

(* Marking a job adds to what befell it. *)
LEMMA MarkedAt ==
  ASSUME mishaps \in [Ids -> SUBSET Mishaps], NEW ids, NEW m \in Mishaps
  PROVE  /\ Marked(ids, m) \in [Ids -> SUBSET Mishaps]
         /\ \A i \in Ids : mishaps[i] \subseteq Marked(ids, m)[i]
         /\ \A i \in Ids : i \in ids => m \in Marked(ids, m)[i]
BY DEF Marked

(* Pop leaves one id behind. *)
LEMMA SkipAt ==
  ASSUME pop \in [Workers -> Pops], NEW w \in Workers, NEW id, Skip(w, id)
  PROVE  /\ pop' \in [Workers -> Pops]
         /\ pop'[w].step = pop[w].step /\ pop'[w].now = pop[w].now
         /\ pop'[w].todo = pop[w].todo \ {id}
         /\ \A v \in Workers : v = w \/ pop'[v] = pop[v]
<1>1. pop[w] \in Pops
  OBVIOUS
<1>2. PICK p : p = [pop[w] EXCEPT !.todo = pop[w].todo \ {id}]
  OBVIOUS
<1>3. /\ p \in Pops /\ p.step = pop[w].step /\ p.now = pop[w].now
      /\ p.todo = pop[w].todo \ {id}
  BY <1>1, <1>2 DEF Pops
<1>4. pop' = [pop EXCEPT ![w] = p]
  BY <1>2 DEF Skip
<1>5. QED
  BY <1>3, <1>4

(* What a worker leaves behind when it dies. *)
LEMMA AbandonAt ==
  ASSUME TypeOK, NEW w \in Workers, Abandon(w)
  PROVE  /\ pop' \in [Workers -> Pops] /\ pop'[w] = Idle
         /\ held' \in [Workers -> [Ids -> Holdings]]
         /\ tx' \in [Workers -> [Ids -> Txs]]
         /\ \A i \in Ids : held'[w][i] = NoHold /\ tx'[w][i] = NoTx
         /\ \A v \in Workers :
              v # w => pop'[v] = pop[v] /\ held'[v] = held[v] /\ tx'[v] = tx[v]
<1>1. PICK h \in [Ids -> Holdings] : h = [id \in Ids |-> NoHold]
  BY Records
<1>2. PICK t \in [Ids -> Txs] : t = [id \in Ids |-> NoTx]
  BY Records
<1>3. /\ pop' = [pop EXCEPT ![w] = Idle] /\ held' = [held EXCEPT ![w] = h]
      /\ tx' = [tx EXCEPT ![w] = t]
  BY <1>1, <1>2 DEF Abandon
<1>4. QED
  BY <1>1, <1>2, <1>3, Records DEF TypeOK

(* What Pop and its transactions write has its type. *)
LEMMA PopTypes ==
  ASSUME TypeOK, NEW w \in Workers, PopStep(w)
  PROVE  TypeOK'
<1>. USE DEF TypeOK, store, ghosts
<1>1. CASE PopStart(w)
  <2>1. [step |-> "recover", now |-> clock,
         todo |-> {id \in Ids : leased[id] # 0 /\ leased[id] <= clock}] \in Pops
    BY DEF Pops
  <2>2. QED
    BY <1>1, <2>1 DEF PopStart
<1>2. CASE PopScan(w)
  <2>1. PICK batch \in SUBSET Ids :
          pop' = [pop EXCEPT ![w] = [pop[w] EXCEPT !.step = "claim", !.todo = batch]]
    BY <1>2 DEF PopScan, Batches
  <2>2. pop[w] \in Pops
    OBVIOUS
  <2>3. [pop[w] EXCEPT !.step = "claim", !.todo = batch] \in Pops
    BY <2>2 DEF Pops
  <2>4. QED
    BY <1>2, <2>1, <2>3 DEF PopScan
<1>3. CASE PopReturn(w)
  BY <1>3, Records DEF PopReturn
<1>5. ASSUME NEW id \in Ids, recoverLeaseWatch(w, id) PROVE TypeOK'
  <2>1. PICK t \in Txs : t = [NoTx EXCEPT !.op = "recover", !.step = "exec"]
    BY NewTx
  <2>2. tx' \in [Workers -> [Ids -> Txs]]
    <3>1. tx' = tx \/ tx' = [tx EXCEPT ![w][id] = t]
      BY <1>5, <2>1 DEF recoverLeaseWatch
    <3>2. QED
      BY <3>1, TxAt
  <2>3. pop' \in [Workers -> Pops]
    BY <1>5, SkipAt DEF recoverLeaseWatch
  <2>4. QED
    BY <1>5, <2>2, <2>3 DEF recoverLeaseWatch
<1>6. ASSUME NEW id \in Ids, recoverLeaseExec(w, id) PROVE TypeOK'
  <2>1. scheduled' \in [Ids -> Nat] /\ leased' \in [Ids -> Nat]
    BY <1>6, SMT DEF recoverLeaseExec, Pops
  <2>2. tx' \in [Workers -> [Ids -> Txs]]
    <3>1. CommitTx({"leased", "scheduled"}, w, id) \/ EndTx(w, id)
      BY <1>6 DEF recoverLeaseExec
    <3>2. QED
      BY <3>1, CommitAt, EndAt
  <2>3. pop' \in [Workers -> Pops]
    BY <1>6, SkipAt DEF recoverLeaseExec
  <2>4. QED
    BY <1>6, <2>1, <2>2, <2>3 DEF recoverLeaseExec
<1>7. ASSUME NEW id \in Ids, claimWatch(w, id) PROVE TypeOK'
  <2>1. PICK t \in Txs : t = [NoTx EXCEPT !.op = "claim", !.step = "read"]
    BY NewTx
  <2>2. tx' \in [Workers -> [Ids -> Txs]]
    <3>1. tx' = tx \/ tx' = [tx EXCEPT ![w][id] = t]
      BY <1>7, <2>1 DEF claimWatch
    <3>2. QED
      BY <3>1, TxAt
  <2>3. pop' \in [Workers -> Pops]
    BY <1>7, SkipAt DEF claimWatch
  <2>4. QED
    BY <1>7, <2>2, <2>3 DEF claimWatch
<1>8. ASSUME NEW id \in Ids, claimRead(w, id) PROVE TypeOK'
  <2>1. CASE bodies[id] = NoBody
    BY <1>8, <2>1, AbandonAt DEF claimRead
  <2>2. CASE bodies[id] # NoBody
    <3>1. bodies[id] + 1 \in Nat
      BY <2>2, SMT
    <3>2. PICK t \in Txs : t = [tx[w][id] EXCEPT !.step = "exec", !.attempts = bodies[id] + 1]
      <4>1. tx[w][id] \in Txs
        BY SMT
      <4>2. QED
        BY <3>1, <4>1, TxRead
    <3>3. tx' = [tx EXCEPT ![w][id] = t]
      BY <1>8, <2>2, <3>2 DEF claimRead
    <3>4. tx' \in [Workers -> [Ids -> Txs]]
      BY <3>3, TxAt
    <3>5. QED
      BY <1>8, <2>2, <3>4 DEF claimRead
  <2>3. QED
    BY <2>1, <2>2
<1>9. ASSUME NEW id \in Ids, claimExec(w, id) PROVE TypeOK'
  <2>1. CASE ~tx[w][id].clean
    <3>1. EndTx(w, id)
      BY <1>9, <2>1 DEF claimExec
    <3>2. QED
      BY <1>9, <2>1, <3>1, EndAt DEF claimExec
  <2>2. CASE tx[w][id].clean
    <3>1. tx[w][id].attempts \in Nat /\ pop[w].now + Lease \in Nat
      BY RedisAssumption, SMT DEF Txs, Pops
    <3>2. [attempts |-> tx[w][id].attempts, until |-> pop[w].now + Lease] \in Holdings
      BY <3>1 DEF Holdings
    <3>3. mishaps' \in [Ids -> SUBSET Mishaps]
      BY <1>9, <2>2, MarkedAt, SMT DEF claimExec, Mishaps
    <3>4. /\ scheduled' = [scheduled EXCEPT ![id] = 0]
          /\ leased' = [leased EXCEPT ![id] = pop[w].now + Lease]
          /\ bodies' = [bodies EXCEPT ![id] = tx[w][id].attempts]
          /\ held' = [held EXCEPT ![w][id] =
               [attempts |-> tx[w][id].attempts, until |-> pop[w].now + Lease]]
      BY <1>9, <2>2 DEF claimExec
    <3>a. /\ scheduled' \in [Ids -> Nat] /\ leased' \in [Ids -> Nat]
          /\ bodies' \in [Ids -> Nat \cup {NoBody}]
      BY <3>1, <3>4
    <3>5. held' \in [Workers -> [Ids -> Holdings]]
      BY <3>2, <3>4
    <3>6. tx' \in [Workers -> [Ids -> Txs]]
      BY <1>9, <2>2, CommitAt DEF claimExec
    <3>7. pop' \in [Workers -> Pops]
      BY <1>9, <2>2, SkipAt DEF claimExec
    <3>8. QED
      BY <1>9, <2>2, <3>3, <3>a, <3>5, <3>6, <3>7, ZenonT(30) DEF claimExec
  <2>3. QED
    BY <2>1, <2>2
<1>10. QED
  BY <1>1, <1>2, <1>3, <1>5, <1>6, <1>7, <1>8, <1>9 DEF PopStep

(* A delivery that is settled is no longer held. *)
LEMMA SettledAt ==
  ASSUME held \in [Workers -> [Ids -> Holdings]],
         NEW w \in Workers, NEW id \in Ids, Settled(w, id)
  PROVE  /\ held' \in [Workers -> [Ids -> Holdings]]
         /\ held'[w][id] = NoHold
         /\ \A v \in Workers, i \in Ids : (v = w /\ i = id) \/ held'[v][i] = held[v][i]
BY Records DEF Settled

(* Another retry under way cannot commit any more. *)
LEMMA TouchParkedAt ==
  ASSUME cmd \in [Operators -> Cmds]
  PROVE  /\ TouchParked \in [Operators -> Cmds]
         /\ \A o \in Operators :
              /\ TouchParked[o].ids = cmd[o].ids /\ TouchParked[o].step = cmd[o].step
              /\ TouchParked[o].step \in {"read", "exec"} => ~TouchParked[o].clean
<1>1. ASSUME NEW c \in Cmds
      PROVE  LET d == [c EXCEPT !.clean = FALSE]
             IN  d \in Cmds /\ d.step = c.step /\ d.ids = c.ids /\ d.clean = FALSE
  BY DEF Cmds
<1>2. TouchParked \in [Operators -> Cmds]
  BY <1>1 DEF TouchParked
<1>3. ASSUME NEW o \in Operators
      PROVE  /\ TouchParked[o].ids = cmd[o].ids /\ TouchParked[o].step = cmd[o].step
             /\ TouchParked[o].step \in {"read", "exec"} => ~TouchParked[o].clean
  <2>1. cmd[o] \in Cmds
    OBVIOUS
  <2>2. CASE cmd[o].step \in {"read", "exec"}
    <3>1. TouchParked[o] = [cmd[o] EXCEPT !.clean = FALSE]
      BY <2>2 DEF TouchParked
    <3>2. QED
      BY <1>1, <2>1, <3>1
  <2>3. CASE cmd[o].step \notin {"read", "exec"}
    BY <2>3 DEF TouchParked
  <2>4. QED
    BY <2>2, <2>3
<1>4. QED
  BY <1>2, <1>3

(* What a settlement writes has its type. *)
LEMMA ProcessTypes ==
  ASSUME TypeOK, NEW w \in Workers, NEW id \in Ids, ProcessStep(w, id)
  PROVE  TypeOK'
<1>. USE DEF TypeOK, store, ghosts
<1>0. /\ tx[w][id] \in Txs /\ held[w][id].attempts \in Nat /\ tx[w][id].at \in Nat
  BY SMT DEF Txs, Holdings
<1>1. ASSUME NEW how \in Settling, Finish(w, id, how) PROVE TypeOK'
  <2>1. PICK n \in Nat : tx' = [tx EXCEPT ![w][id] =
                            [NoTx EXCEPT !.op = how, !.step = "begin", !.at = n]]
    <3>1. PICK delay \in IF how = "release" THEN Delays ELSE {0} :
            tx' = [tx EXCEPT ![w][id] =
                     [NoTx EXCEPT !.op = how, !.step = "begin", !.at = clock + delay]]
      BY <1>1 DEF Finish
    <3>2. clock + delay \in Nat
      BY <3>1, RedisAssumption, SMT DEF Delays
    <3>3. QED
      BY <3>1, <3>2
  <2>2. PICK t \in Txs : t = [NoTx EXCEPT !.op = how, !.step = "begin", !.at = n]
    BY NewTx
  <2>3. tx' \in [Workers -> [Ids -> Txs]]
    BY <2>1, <2>2, TxAt
  <2>4. QED
    BY <1>1, <2>3 DEF Finish
<1>2. CASE settleLeasedWatch(w, id)
  <2>1. CASE leased[id] = 0
    BY <1>2, <2>1, EndAt, SettledAt DEF settleLeasedWatch
  <2>2. CASE leased[id] # 0
    <3>1. PICK t \in Txs : t = [tx[w][id] EXCEPT !.step = "read", !.clean = TRUE]
      BY <1>0, TxWatch
    <3>2. tx' = [tx EXCEPT ![w][id] = t]
      BY <1>2, <2>2, <3>1 DEF settleLeasedWatch
    <3>3. tx' \in [Workers -> [Ids -> Txs]]
      BY <3>2, TxAt
    <3>4. QED
      BY <1>2, <2>2, <3>3 DEF settleLeasedWatch
  <2>3. QED
    BY <2>1, <2>2
<1>3. ASSUME NEW step \in {"begin", "exec"}, tx' = [tx EXCEPT ![w][id].step = step]
      PROVE  tx' \in [Workers -> [Ids -> Txs]]
  <2>1. PICK t \in Txs : t = [tx[w][id] EXCEPT !.step = step]
    BY <1>0, TxStep
  <2>2. tx' = [tx EXCEPT ![w][id] = t]
    BY <1>3, <2>1
  <2>3. QED
    BY <2>2, TxAt
<1>4. CASE settleLeasedRead(w, id)
  <2>1. CASE bodies[id] # held[w][id].attempts
    BY <1>4, <2>1, EndAt, SettledAt DEF settleLeasedRead
  <2>2. CASE bodies[id] = held[w][id].attempts
    BY <1>3, <1>4, <2>2 DEF settleLeasedRead
  <2>3. QED
    BY <2>1, <2>2
<1>5. CASE DeleteJob(w, id)
  <2>1. tx' \in [Workers -> [Ids -> Txs]]
    BY <1>5, CommitAt DEF DeleteJob
  <2>2. held' \in [Workers -> [Ids -> Holdings]]
    BY <1>5, SettledAt DEF DeleteJob, Commits
  <2>3. QED
    BY <1>5, <2>1, <2>2 DEF DeleteJob, Commits
<1>6. CASE ReleaseJob(w, id)
  <2>1. tx' \in [Workers -> [Ids -> Txs]]
    BY <1>6, CommitAt DEF ReleaseJob
  <2>2. held' \in [Workers -> [Ids -> Holdings]]
    BY <1>6, SettledAt DEF ReleaseJob, Commits
  <2>3. QED
    BY <1>0, <1>6, <2>1, <2>2 DEF ReleaseJob, Commits
<1>7. CASE FailJob(w, id)
  <2>1. tx' \in [Workers -> [Ids -> Txs]]
    BY <1>7, CommitAt DEF FailJob
  <2>2. held' \in [Workers -> [Ids -> Holdings]]
    BY <1>7, SettledAt DEF FailJob, Commits
  <2>3. cmd' \in [Operators -> Cmds]
    BY <1>7, TouchParkedAt DEF FailJob
  <2>4. QED
    BY <1>0, <1>7, <2>1, <2>2, <2>3 DEF FailJob, Commits
<1>8. CASE SettleAgain(w, id)
  BY <1>3, <1>8 DEF SettleAgain
<1>9. QED
  BY <1>1, <1>2, <1>4, <1>5, <1>6, <1>7, <1>8 DEF ProcessStep

(* Every write of the two stores that names one id. *)
LEMMA PushTypes ==
  ASSUME TypeOK, NEW id \in Ids, NEW runAt \in Nat, Push(id, runAt)
  PROVE  /\ scheduled' \in [Ids -> Nat] /\ leased' \in [Ids -> Nat]
         /\ bodies' \in [Ids -> Nat \cup {NoBody}]
         /\ tx' \in [Workers -> [Ids -> Txs]]
         /\ parked' = parked
BY TouchedAt DEF TypeOK, Push, Touch

(* A command goes on. *)
LEMMA CmdAt ==
  ASSUME cmd \in [Operators -> Cmds], NEW o \in Operators, NEW c \in Cmds,
         cmd' = [cmd EXCEPT ![o] = c]
  PROVE  /\ cmd' \in [Operators -> Cmds] /\ cmd'[o] = c
         /\ \A p \in Operators : p # o => cmd'[p] = cmd[p]
OBVIOUS

(* What a command may be turned into. *)
LEMMA NewCmd ==
  ASSUME NEW ids \in SUBSET Ids,
         NEW step \in {"begin", "clear scheduled", "clear next", "clear leased"}
  PROVE  /\ [NoCommand EXCEPT !.step = step, !.ids = ids] \in Cmds
         /\ [NoCommand EXCEPT !.step = step, !.ids = ids].step = step
         /\ [NoCommand EXCEPT !.step = step, !.ids = ids].ids = ids
BY FirstInstant DEF NoCommand, Cmds

(* A command that goes on. *)
LEMMA CmdStep ==
  ASSUME NEW c \in Cmds, NEW step \in {"begin", "exec"}
  PROVE  LET d == [c EXCEPT !.step = step]
         IN  d \in Cmds /\ d.step = step /\ d.ids = c.ids /\ d.clean = c.clean
BY DEF Cmds

(* A retry that read the job. *)
LEMMA CmdRead ==
  ASSUME NEW c \in Cmds, NEW now \in Nat \ {0}
  PROVE  LET d == [c EXCEPT !.step = "exec", !.at = now]
         IN  d \in Cmds /\ d.step = "exec" /\ d.ids = c.ids /\ d.clean = c.clean
BY DEF Cmds

(* A command that begins to watch. *)
LEMMA CmdWatch ==
  ASSUME NEW c \in Cmds, NEW step \in {"read", "rebuild"}
  PROVE  LET d == [c EXCEPT !.step = step, !.clean = TRUE]
         IN  d \in Cmds /\ d.step = step /\ d.ids = c.ids
BY DEF Cmds

(* How an operator's step changes the commands.  A retry that can commit   *)
(* has the id it found in the parked set.                                  *)
CmdMove(o) ==
  \/ cmd'[o].ids = {}
  \/ /\ cmd'[o].ids = cmd[o].ids
     /\ \/ cmd'[o].step \notin {"read", "exec"}
        \/ ~cmd'[o].clean
        \/ /\ parked' = parked
           /\ \/ cmd[o].ids \subseteq parked
              \/ cmd[o].step \in {"read", "exec"} /\ cmd[o].clean
  \/ /\ cmd'[o].ids \subseteq recorded \cup {id \in Ids : OnQueue(id)}
     /\ cmd'[o].step \notin {"read", "exec"}

(* What commands write has its type, and how they go on. *)
LEMMA RetryTypes ==
  ASSUME TypeOK, NEW o \in Operators, NEW id \in Ids,
         \/ RetryFind(o, id) \/ RetryWatch(o, id) \/ RetryRead(o, id)
         \/ RetryExec(o, id) \/ Rebuild(o, id)
  PROVE  TypeOK' /\ \A p \in Operators : CmdMove(p)
<1>. USE DEF TypeOK, store, ghosts, Quiet
<1>0. cmd[o] \in Cmds
  OBVIOUS
<1>a. ASSUME parked' = parked, NEW p \in Operators, cmd'[p] = cmd[p] PROVE CmdMove(p)
  BY <1>a DEF CmdMove
<1>1. CASE RetryFind(o, id)
  <2>0. PICK ids \in SUBSET Ids : ids = {id}
    OBVIOUS
  <2>1. PICK c \in Cmds : c = [NoCommand EXCEPT !.step = "begin", !.ids = ids]
    BY NewCmd
  <2>2. c.step = "begin" /\ c.ids = {id}
    BY <2>0, <2>1, NewCmd
  <2>3. cmd' = [cmd EXCEPT ![o] = c] /\ parked' = parked /\ id \in recorded
    BY <1>1, <2>0, <2>1 DEF RetryFind
  <2>4. TypeOK'
    BY <1>1, <2>3, SMT DEF RetryFind, Incident
  <2>5. CmdMove(o)
    BY <2>2, <2>3, ZenonT(30) DEF CmdMove
  <2>6. QED
    BY <1>a, <2>3, <2>4, <2>5
<1>2. CASE RetryWatch(o, id)
  <2>1. PICK step \in {"read", "rebuild"} : step = IF id \in parked THEN "read" ELSE "rebuild"
    OBVIOUS
  <2>2. PICK c \in Cmds : c = [cmd[o] EXCEPT !.step = step, !.clean = TRUE]
    BY <1>0, CmdWatch
  <2>3. c.step = step /\ c.ids = cmd[o].ids
    BY <1>0, <2>2, CmdWatch
  <2>4. cmd' = [cmd EXCEPT ![o] = c] /\ parked' = parked /\ cmd[o].ids = {id}
    BY <1>2, <2>1, <2>2 DEF RetryWatch, Of
  <2>5. TypeOK'
    BY <1>2, <2>4, ZenonT(30) DEF RetryWatch
  <2>6. CmdMove(o)
    BY <2>1, <2>3, <2>4 DEF CmdMove
  <2>7. QED
    BY <1>a, <2>4, <2>5, <2>6
<1>3. CASE RetryRead(o, id)
  <2>0. clock \in Nat \ {0}
    OBVIOUS
  <2>1. PICK c \in Cmds : c = [cmd[o] EXCEPT !.step = "exec", !.at = clock]
    BY <1>0, <2>0, CmdRead
  <2>2. c.step = "exec" /\ c.ids = cmd[o].ids /\ c.clean = cmd[o].clean
    BY <1>0, <2>0, <2>1, CmdRead
  <2>3. /\ cmd' = [cmd EXCEPT ![o] = c] \/ cmd' = [cmd EXCEPT ![o] = NoCommand]
        /\ parked' = parked /\ cmd[o].step = "read"
    BY <1>3, <2>1 DEF RetryRead, Done, At
  <2>4. TypeOK'
    BY <1>3, <2>3, Records, ZenonT(30) DEF RetryRead
  <2>5. CmdMove(o)
    BY <2>2, <2>3, Records DEF CmdMove
  <2>6. \A p \in Operators : p # o => cmd'[p] = cmd[p]
    BY <2>3
  <2>7. QED
    BY <1>a, <2>3, <2>4, <2>5, <2>6
<1>4. CASE RetryExec(o, id) /\ ~cmd[o].clean
  <2>1. PICK c \in Cmds : c = [cmd[o] EXCEPT !.step = "begin"]
    BY <1>0, CmdStep
  <2>2. c.step = "begin" /\ c.ids = cmd[o].ids
    BY <1>0, <2>1, CmdStep
  <2>3. cmd' = [cmd EXCEPT ![o] = c] /\ parked' = parked
    BY <1>4, <2>1 DEF RetryExec, To
  <2>4. TypeOK'
    BY <1>4, <2>3, ZenonT(30) DEF RetryExec
  <2>5. CmdMove(o)
    BY <2>2, <2>3 DEF CmdMove
  <2>6. QED
    BY <1>a, <2>3, <2>4, <2>5
<1>5. CASE RetryExec(o, id) /\ cmd[o].clean
  <2>1. /\ bodies' = [bodies EXCEPT ![id] = 0] /\ parked' = parked \ {id}
        /\ scheduled' = [scheduled EXCEPT ![id] = cmd[o].at]
        /\ tx' = Touched({"scheduled"})
        /\ cmd' = [TouchParked EXCEPT ![o] = NoCommand]
        /\ mishaps' = Marked({id}, "reset")
    BY <1>5 DEF RetryExec, ResetAttempts, Touch
  <2>2. tx' \in [Workers -> [Ids -> Txs]]
    BY <2>1, TouchedAt
  <2>3. cmd' \in [Operators -> Cmds]
    BY <2>1, TouchParkedAt, Records
  <2>4. mishaps' \in [Ids -> SUBSET Mishaps]
    BY <2>1, MarkedAt DEF Mishaps
  <2>a. cmd[o].at \in Nat
    BY <1>0 DEF Cmds
  <2>5. TypeOK'
    BY <1>5, <2>1, <2>2, <2>3, <2>4, <2>a DEF RetryExec
  <2>6. ASSUME NEW p \in Operators PROVE CmdMove(p)
    <3>1. CASE p = o
      BY <2>1, <3>1, TouchParkedAt, Records DEF CmdMove
    <3>2. CASE p # o
      <4>1. cmd'[p] = TouchParked[p]
        BY <2>1, <3>2, TouchParkedAt
      <4>2. /\ cmd'[p].ids = cmd[p].ids
            /\ cmd'[p].step \in {"read", "exec"} => ~cmd'[p].clean
        <5>1. cmd \in [Operators -> Cmds]
          OBVIOUS
        <5>2. /\ TouchParked[p].ids = cmd[p].ids
              /\ TouchParked[p].step \in {"read", "exec"} => ~TouchParked[p].clean
          BY <5>1, TouchParkedAt
        <5>3. QED
          BY <4>1, <5>2
      <4>3. QED
        BY <4>2 DEF CmdMove
    <3>3. QED
      BY <3>1, <3>2
  <2>7. QED
    BY <2>5, <2>6
<1>6. CASE Rebuild(o, id)
  <2>1. /\ scheduled' \in [Ids -> Nat] /\ leased' \in [Ids -> Nat]
        /\ bodies' \in [Ids -> Nat \cup {NoBody}]
        /\ tx' \in [Workers -> [Ids -> Txs]]
        /\ parked' = parked
    BY <1>6, PushTypes DEF Rebuild
  <2>2. mishaps' \in [Ids -> SUBSET Mishaps]
    BY <1>6, SMT DEF Rebuild, Mishaps
  <2>3. cmd' = [cmd EXCEPT ![o] = NoCommand]
    BY <1>6 DEF Rebuild, Done
  <2>4. TypeOK'
    BY <1>6, <2>1, <2>2, <2>3, Records DEF Rebuild
  <2>5. CmdMove(o)
    BY <2>3, Records DEF CmdMove
  <2>6. QED
    BY <1>a, <2>1, <2>3, <2>4, <2>5
<1>7. QED
  BY <1>1, <1>2, <1>3, <1>4, <1>5, <1>6

(* The same of Clear. *)
LEMMA ClearTypes ==
  ASSUME TypeOK, NEW o \in Operators,
         \/ ClearScheduledList(o) \/ ClearScheduled(o)
         \/ ClearLeasedList(o) \/ ClearLeased(o)
  PROVE  TypeOK' /\ \A p \in Operators : CmdMove(p)
<1>. USE DEF TypeOK, store, ghosts, Quiet
<1>a. ASSUME parked' = parked, NEW p \in Operators, cmd'[p] = cmd[p] PROVE CmdMove(p)
  BY <1>a DEF CmdMove
<1>1. ASSUME NEW set \in {"clear scheduled", "clear leased"}, NEW next \in {"clear next", "idle"},
             NEW members \in SUBSET Ids, \A id \in members : OnQueue(id),
             ClearList(o, set, members, next), incidents' \in Nat
      PROVE  TypeOK' /\ \A p \in Operators : CmdMove(p)
  <2>1. PICK c \in Cmds :
          /\ cmd' = [cmd EXCEPT ![o] = c]
          /\ c.ids = {} \/ (c.ids = members /\ c.step = set)
    <3>1. CASE members = {} /\ next = "idle"
      <4>1. cmd' = [cmd EXCEPT ![o] = NoCommand]
        BY <1>1, <3>1 DEF ClearList
      <4>2. QED
        BY <4>1, Records
    <3>2. CASE members = {} /\ next # "idle"
      <4>1. PICK c \in Cmds : c = [NoCommand EXCEPT !.step = "clear next", !.ids = members]
        BY NewCmd
      <4>2. c.ids = members
        BY <4>1, NewCmd
      <4>3. cmd' = [cmd EXCEPT ![o] = c]
        BY <1>1, <3>2, <4>1 DEF ClearList
      <4>4. QED
        BY <3>2, <4>2, <4>3
    <3>3. CASE members # {}
      <4>1. PICK c \in Cmds : c = [NoCommand EXCEPT !.step = set, !.ids = members]
        BY NewCmd
      <4>2. c.ids = members
        BY <4>1 DEF NoCommand
      <4>a. c.step = set
        BY <4>1 DEF NoCommand
      <4>3. cmd' = [cmd EXCEPT ![o] = c]
        BY <1>1, <3>3, <4>1 DEF ClearList
      <4>4. QED
        BY <4>2, <4>a, <4>3
    <3>4. QED
      BY <3>1, <3>2, <3>3
  <2>2. TypeOK'
    BY <1>1, <2>1 DEF ClearList
  <2>3. CmdMove(o)
    BY <1>1, <2>1 DEF CmdMove
  <2>4. parked' = parked
    BY <1>1 DEF ClearList
  <2>5. QED
    BY <1>a, <2>1, <2>2, <2>3, <2>4
<1>2. CASE ClearScheduledList(o)
  <2>1. \A id \in {i \in Ids : scheduled[i] # 0} : OnQueue(id)
    BY DEF OnQueue
  <2>2. incidents' \in Nat
    <3>1. incidents' = incidents + 1
      BY <1>2 DEF ClearScheduledList, Incident
    <3>2. QED
      BY <3>1, SMT
  <2>3. QED
    BY <1>1, <1>2, <2>1, <2>2 DEF ClearScheduledList
<1>3. CASE ClearLeasedList(o)
  <2>1. \A id \in {i \in Ids : leased[i] # 0} : OnQueue(id)
    BY DEF OnQueue
  <2>2. incidents' \in Nat
    BY <1>3 DEF ClearLeasedList
  <2>3. QED
    BY <1>1, <1>3, <2>1, <2>2 DEF ClearLeasedList
<1>4. ASSUME NEW members \in SUBSET Ids, NEW others, Cleared(o, members, others)
      PROVE  /\ bodies' \in [Ids -> Nat \cup {NoBody}] /\ removed' \subseteq Ids
             /\ mishaps' \in [Ids -> SUBSET Mishaps]
             /\ UNCHANGED <<parked, pushed, finished, recorded, clock, pop, held, incidents, owner>>
  <2>1. mishaps' \in [Ids -> SUBSET Mishaps]
    BY <1>4, MarkedAt DEF Cleared, Mishaps
  <2>2. QED
    BY <1>4, <2>1 DEF Cleared
<1>5. CASE ClearScheduled(o)
  <2>1. tx' \in [Workers -> [Ids -> Txs]]
    BY <1>5, TouchedAt DEF ClearScheduled, Touch
  <2>2. PICK c \in Cmds : cmd' = [cmd EXCEPT ![o] = c] /\ c.ids = {}
    <3>1. /\ [NoCommand EXCEPT !.step = "clear next"] \in Cmds
          /\ [NoCommand EXCEPT !.step = "clear next"].ids = {}
      BY FirstInstant DEF NoCommand, Cmds
    <3>2. QED
      BY <1>5, <3>1 DEF ClearScheduled
  <2>3. Cleared(o, {id \in Ids : scheduled[id] # 0}, leased) /\ scheduled' \in [Ids -> Nat] /\ leased' = leased
    BY <1>5 DEF ClearScheduled
  <2>4. CmdMove(o)
    BY <2>2 DEF CmdMove
  <2>5. QED
    BY <1>4, <1>a, <2>1, <2>2, <2>3, <2>4
<1>6. CASE ClearLeased(o)
  <2>1. tx' \in [Workers -> [Ids -> Txs]]
    BY <1>6, TouchedAt DEF ClearLeased, Touch
  <2>2. cmd' = [cmd EXCEPT ![o] = NoCommand]
    BY <1>6 DEF ClearLeased, Done
  <2>3. Cleared(o, {id \in Ids : leased[id] # 0}, scheduled) /\ leased' \in [Ids -> Nat] /\ scheduled' = scheduled
    BY <1>6 DEF ClearLeased
  <2>4. CmdMove(o)
    BY <2>2, Records DEF CmdMove
  <2>5. QED
    BY <1>4, <1>a, <2>1, <2>2, <2>3, <2>4, Records
<1>7. QED
  BY <1>2, <1>3, <1>5, <1>6

(* Every step keeps the types. *)
LEMMA TypeStep == TypeOK /\ [Next]_vars => TypeOK'
<1>. SUFFICES ASSUME TypeOK, [Next]_vars PROVE TypeOK'
  OBVIOUS
<1>1. CASE Tick
  <2>1. mishaps' \in [Ids -> SUBSET Mishaps]
    BY <1>1, MarkedAt DEF Tick, TypeOK, Mishaps
  <2>2. clock' \in Nat \ {0}
    BY <1>1, SMT DEF Tick, TypeOK
  <2>3. QED
    BY <1>1, <2>1, <2>2 DEF Tick, TypeOK, store
<1>2. ASSUME NEW id \in Ids, PushJob(id) PROVE TypeOK'
  <2>1. PICK delay \in Delays : Push(id, clock + delay)
    BY <1>2 DEF PushJob
  <2>2. clock + delay \in Nat
    BY RedisAssumption, SMT DEF Delays, TypeOK
  <2>3. QED
    BY <1>2, <2>1, <2>2, PushTypes DEF PushJob, TypeOK
<1>3. ASSUME NEW w \in Workers, Crash(w) PROVE TypeOK'
  <2>1. incidents' \in Nat
    BY <1>3, SMT DEF Crash, Incident, TypeOK
  <2>2. QED
    BY <1>3, <2>1, AbandonAt DEF Crash, TypeOK, store, ghosts
<1>4. ASSUME NEW w \in Workers, NEW id \in Ids, SettleError(w, id) PROVE TypeOK'
  <2>1. incidents' \in Nat
    BY <1>4, SMT DEF SettleError, Incident, TypeOK
  <2>2. QED
    BY <1>4, <2>1, EndAt, SettledAt DEF SettleError, TypeOK, store, ghosts
<1>5. CASE UNCHANGED vars
  BY <1>5 DEF vars, TypeOK
<1>6. ASSUME NEW o \in Operators, OperatorStep(o) PROVE TypeOK'
  BY <1>6, RetryTypes, ClearTypes DEF OperatorStep
<1>7. QED
  BY <1>1, <1>2, <1>3, <1>4, <1>5, <1>6, PopTypes, ProcessTypes DEF Next

(* What the driver stores and what workers and commands remember has its   *)
(* type: no attempt count below zero, no transaction in a step it does not *)
(* have.                                                                   *)
THEOREM RedisTypes == Spec => []TypeOK
BY TypeInit, TypeStep, PTL DEF Spec

-----------------------------------------------------------------------------
(* What a step of the RESP driver, its workers or an operator may do to a  *)
(* transaction, to a Pop and to a job.  Every action makes one of a few    *)
(* moves, and the invariants of RedisQueueRefinement are proved of the     *)
(* moves: here those of transactions and of Pop, there those of a job.     *)

(* A transaction of Pop belongs to an id that Pop has yet to come to, in   *)
(* the phase it is in; a settlement to a job that is held.                 *)
Belongs ==
  /\ \A w \in Workers :
       pop[w].now <= clock /\ (pop[w].step # "idle" => pop[w].now # 0)
  /\ \A w \in Workers, id \in Ids :
       /\ tx[w][id].op \in {"recover", "claim"} =>
            pop[w].step = tx[w][id].op /\ id \in pop[w].todo
       /\ tx[w][id].op \in Settling => Holds(w, id) /\ tx[w][id].at # 0
       /\ tx[w][id].op = "delete" => id \in finished

(* What a transaction that can still commit looked up is still so. *)
Found(w, id) ==
  LET t == tx[w][id]
  IN  t.clean =>
        /\ t.op = "claim" => scheduled[id] # 0
        /\ t.op = "recover" => leased[id] # 0 /\ leased[id] <= pop[w].now
        /\ t.op \in Settling /\ t.step \in {"read", "exec"} => leased[id] # 0

(* The same of every transaction, those of Retry included, which watch the *)
(* parked set.                                                             *)
Watched ==
  /\ \A w \in Workers, id \in Ids : Found(w, id)
  /\ \A o \in Operators :
       cmd[o].step \in {"read", "exec"} /\ cmd[o].clean => cmd[o].ids \subseteq parked

(* Only a pushed job is anywhere. *)
Known ==
  /\ \A id \in Ids \ pushed :
       ~OnQueue(id) /\ id \notin parked /\ \A w \in Workers : ~Holds(w, id)
  /\ recorded \subseteq pushed
  /\ \A o \in Operators : cmd[o].ids \subseteq pushed

-----------------------------------------------------------------------------
(* What a step does to one transaction *)

(* It is over. *)
Over(w, i) == tx'[w][i] = NoTx

(* It stands where it stood, and can commit only if nothing was written to *)
(* the set it watches.                                                     *)
Kept(w, i) ==
  /\ tx'[w][i].op = tx[w][i].op /\ tx'[w][i].step = tx[w][i].step
  /\ tx'[w][i].at = tx[w][i].at /\ tx'[w][i].attempts = tx[w][i].attempts
  /\ tx'[w][i].clean => tx[w][i].clean
  /\ tx'[w][i].clean /\ Watches(tx[w][i].op) = "scheduled" => scheduled' = scheduled
  /\ tx'[w][i].clean /\ Watches(tx[w][i].op) = "leased" => leased' = leased
  /\ tx[w][i].op \in {"recover", "claim"} =>
       /\ pop'[w].step = pop[w].step /\ pop'[w].now = pop[w].now
       /\ i \in pop'[w].todo
  /\ tx[w][i].op \in Settling => held'[w][i] = held[w][i]

(* It begins, or reads the next of what it needs; nothing is written. *)
Reads(w, i) ==
  /\ UNCHANGED <<scheduled, leased, bodies, owner>>
  /\ pop'[w] = pop[w] /\ held'[w][i] = held[w][i]
  /\ \/ /\ tx'[w][i].op = "recover" /\ pop[w].step = "recover" /\ i \in pop[w].todo
        /\ leased[i] # 0 /\ leased[i] <= pop[w].now
     \/ /\ tx'[w][i].op = "claim" /\ pop[w].step = "claim" /\ i \in pop[w].todo
        /\ tx'[w][i].step = "read" /\ scheduled[i] # 0
     \/ /\ tx'[w][i].op = "claim" /\ tx[w][i].op = "claim"
        /\ tx'[w][i].step = "exec" /\ tx'[w][i].clean = tx[w][i].clean
        /\ bodies[i] # NoBody /\ tx'[w][i].attempts = bodies[i] + 1
     \/ /\ tx'[w][i].op \in Settling /\ Holds(w, i) /\ tx'[w][i].at # 0
        /\ tx'[w][i].op = "delete" => i \in finished'
        /\ \/ tx'[w][i].step = "begin"
           \/ tx'[w][i].step = "read" /\ leased[i] # 0
           \/ /\ tx'[w][i].step = "exec" /\ tx'[w][i].clean = tx[w][i].clean
              /\ tx[w][i].op \in Settling /\ tx[w][i].step = "read"
              /\ bodies[i] = held[w][i].attempts

(* Every move of a transaction. *)
TxMove(w, i) == Over(w, i) \/ Kept(w, i) \/ Reads(w, i)

(* And to the Pop a worker is in. *)
PopMove(w) ==
  \/ pop'[w].now = pop[w].now /\ (pop'[w].step # "idle" => pop[w].step # "idle")
  \/ pop'[w].now = 0 /\ pop'[w].step = "idle"
  \/ pop'[w].now = clock

(* A transaction that is written to by others. *)
LEMMA TouchKept ==
  ASSUME TypeOK, Belongs, NEW keys, NEW w \in Workers, NEW i \in Ids,
         tx'[w][i] = Touched(keys)[w][i],
         "scheduled" \in keys \/ scheduled' = scheduled,
         "leased" \in keys \/ leased' = leased,
         pop'[w].step = pop[w].step, pop'[w].now = pop[w].now,
         i \in pop[w].todo => i \in pop'[w].todo,
         held'[w][i] = held[w][i]
  PROVE  Kept(w, i)
<1>1. tx \in [Workers -> [Ids -> Txs]]
  BY DEF TypeOK
<1>2. /\ tx'[w][i].op = tx[w][i].op /\ tx'[w][i].step = tx[w][i].step
      /\ tx'[w][i].at = tx[w][i].at /\ tx'[w][i].attempts = tx[w][i].attempts
      /\ tx'[w][i].clean => tx[w][i].clean /\ Watches(tx[w][i].op) \notin keys
  BY <1>1, TouchedAt, SMT
<1>3. tx[w][i].op \in {"recover", "claim"} => i \in pop[w].todo
  BY DEF Belongs
<1>4. QED
  BY <1>2, <1>3 DEF Kept

(* A transaction that a step has nothing to do with. *)
LEMMA SameKept ==
  ASSUME TypeOK, Belongs, NEW w \in Workers, NEW i \in Ids,
         tx'[w][i] = tx[w][i], scheduled' = scheduled, leased' = leased,
         tx[w][i].op \in {"recover", "claim"} =>
           /\ pop'[w].step = pop[w].step /\ pop'[w].now = pop[w].now
           /\ i \in pop'[w].todo,
         tx[w][i].op \in Settling => held'[w][i] = held[w][i]
  PROVE  Kept(w, i)
BY DEF Kept

(* The moves keep what is said of transactions. *)
LEMMA BelongsKept ==
  ASSUME TypeOK, TypeOK', Belongs, clock <= clock', finished \subseteq finished',
         \A w \in Workers : PopMove(w),
         \A w \in Workers, i \in Ids : TxMove(w, i)
  PROVE  Belongs'
<1>0. \A w \in Workers : pop[w].now \in Nat /\ pop'[w].now \in Nat
  BY DEF TypeOK, Pops
<1>1. ASSUME NEW w \in Workers
      PROVE  pop'[w].now <= clock' /\ (pop'[w].step # "idle" => pop'[w].now # 0)
  <2>1. /\ clock \in Nat \ {0} /\ clock' \in Nat \ {0}
        /\ pop[w].now <= clock /\ (pop[w].step # "idle" => pop[w].now # 0)
    BY DEF TypeOK, Belongs
  <2>2. PICK m \in Nat, n \in Nat : m = pop[w].now /\ n = pop'[w].now
    BY <1>0
  <2>3. QED
    BY <2>1, <2>2, SMT DEF PopMove
<1>2. ASSUME NEW w \in Workers, NEW i \in Ids
      PROVE  /\ tx'[w][i].op \in {"recover", "claim"} =>
                  pop'[w].step = tx'[w][i].op /\ i \in pop'[w].todo
             /\ tx'[w][i].op \in Settling => held'[w][i] # NoHold /\ tx'[w][i].at # 0
             /\ tx'[w][i].op = "delete" => i \in finished'
  <2>0. "delete" \in Settling /\ "none" \notin Settling
        /\ "recover" \notin Settling /\ "claim" \notin Settling
    BY DEF Settling
  <2>1. CASE Over(w, i)
    BY <2>0, <2>1, Records DEF Over
  <2>2. CASE Kept(w, i)
    BY <2>0, <2>2 DEF Kept, Belongs, Holds
  <2>3. CASE Reads(w, i)
    BY <2>0, <2>3 DEF Reads, Belongs, Holds
  <2>4. QED
    BY <2>1, <2>2, <2>3 DEF TxMove
<1>3. QED
  BY <1>1, <1>2 DEF Belongs, Holds

(* And what those that can commit found. *)
LEMMA FoundKept ==
  ASSUME TypeOK, TypeOK', Belongs, NEW w \in Workers, NEW i \in Ids,
         Found(w, i), TxMove(w, i)
  PROVE  Found(w, i)'
<1>0. /\ Watches("claim") = "scheduled" /\ Watches("recover") = "leased"
      /\ \A op \in Settling : Watches(op) = "leased"
  BY DEF Watches, Settling
<1>1. CASE Over(w, i)
  BY <1>1, Records DEF Over, Found, Settling
<1>2. CASE Kept(w, i)
  BY <1>0, <1>2 DEF Kept, Found
<1>3. CASE Reads(w, i)
  BY <1>3 DEF Reads, Found, Settling
<1>4. QED
  BY <1>1, <1>2, <1>3 DEF TxMove

(* Every transaction and every Pop makes one of the moves. *)
PopsMove == \A w \in Workers : PopMove(w)
TxsMove == \A w \in Workers, i \in Ids : TxMove(w, i)

(* A step that leaves the workers alone and tells who watches what it      *)
(* wrote to.                                                               *)
LEMMA TouchMoves ==
  ASSUME TypeOK, Belongs, NEW keys, tx' = Touched(keys), UNCHANGED <<pop, held>>,
         "scheduled" \in keys \/ scheduled' = scheduled,
         "leased" \in keys \/ leased' = leased
  PROVE  PopsMove /\ TxsMove
<1>1. \A w \in Workers, i \in Ids : Kept(w, i)
  BY TouchKept
<1>2. QED
  BY <1>1 DEF PopsMove, TxsMove, PopMove, TxMove

(* A step that leaves workers and sets alone. *)
LEMMA SameMoves ==
  ASSUME TypeOK, Belongs, UNCHANGED <<scheduled, leased, pop, held, tx>>
  PROVE  PopsMove /\ TxsMove
<1>1. ASSUME NEW w \in Workers, NEW i \in Ids PROVE Kept(w, i)
  <2>1. tx[w][i].op \in {"recover", "claim"} => i \in pop'[w].todo
    BY DEF Belongs
  <2>2. QED
    BY <2>1, SameKept
<1>2. QED
  BY <1>1 DEF PopsMove, TxsMove, PopMove, TxMove

(* A worker that dies, and one that begins, goes on with or ends a Pop     *)
(* without a transaction under way.                                        *)
LEMMA PopMoves ==
  ASSUME TypeOK, Belongs, NEW w \in Workers, UNCHANGED <<scheduled, leased, tx, held>>,
         NEW p \in Pops, pop' = [pop EXCEPT ![w] = p],
         \A i \in Ids : tx[w][i].op \notin {"recover", "claim"},
         \/ p.now = pop[w].now /\ (p.step # "idle" => pop[w].step # "idle")
         \/ p.now = 0 /\ p.step = "idle"
         \/ p.now = clock
  PROVE  PopsMove /\ TxsMove
<1>1. pop'[w] = p /\ \A v \in Workers : v # w => pop'[v] = pop[v]
  BY DEF TypeOK
<1>2. PopsMove
  BY <1>1 DEF PopsMove, PopMove
<1>3. ASSUME NEW v \in Workers, NEW i \in Ids PROVE Kept(v, i)
  <2>1. tx[v][i].op \in {"recover", "claim"} => pop'[v] = pop[v] /\ i \in pop'[v].todo
    BY <1>1 DEF Belongs
  <2>2. QED
    BY <2>1, SameKept
<1>4. QED
  BY <1>2, <1>3 DEF TxsMove, TxMove

(* A Pop that fails or a worker that dies ends its transactions and leaves *)
(* the others alone.                                                       *)
LEMMA AbandonMoves ==
  ASSUME TypeOK, Belongs, NEW w \in Workers, Abandon(w), UNCHANGED <<scheduled, leased>>
  PROVE  PopsMove /\ TxsMove
<1>1. PopsMove
  BY AbandonAt, Records DEF PopsMove, PopMove
<1>2. ASSUME NEW v \in Workers, NEW i \in Ids PROVE TxMove(v, i)
  <2>1. CASE v = w
    BY <2>1, AbandonAt DEF TxMove, Over
  <2>2. CASE v # w
    <3>1. pop'[v] = pop[v] /\ held'[v] = held[v] /\ tx'[v] = tx[v]
      BY <2>2, AbandonAt
    <3>2. tx[v][i].op \in {"recover", "claim"} => i \in pop'[v].todo
      BY <3>1 DEF Belongs
    <3>3. QED
      BY <3>1, <3>2, SameKept DEF TxMove
  <2>3. QED
    BY <2>1, <2>2
<1>3. QED
  BY <1>1, <1>2 DEF TxsMove

(* One transaction moves; its worker may settle the delivery or leave the  *)
(* id behind with it.                                                      *)
LEMMA OneMoves ==
  ASSUME TypeOK, Belongs, NEW w \in Workers, NEW id \in Ids,
         UNCHANGED <<scheduled, leased>>,
         \A v \in Workers, i \in Ids : (v = w /\ i = id) \/ tx'[v][i] = tx[v][i],
         \A v \in Workers, i \in Ids : (v = w /\ i = id) \/ held'[v][i] = held[v][i],
         pop' = pop \/ Skip(w, id),
         TxMove(w, id)
  PROVE  PopsMove /\ TxsMove
<1>1. pop \in [Workers -> Pops]
  BY DEF TypeOK
<1>2. \A v \in Workers :
        /\ pop'[v].step = pop[v].step /\ pop'[v].now = pop[v].now
        /\ pop[v].todo \ {id} \subseteq pop'[v].todo
        /\ v # w => pop'[v] = pop[v]
  BY <1>1, SkipAt, ZenonT(30)
<1>3. ASSUME NEW v \in Workers, NEW i \in Ids, ~(v = w /\ i = id) PROVE Kept(v, i)
  <2>1. tx[v][i].op \in {"recover", "claim"} => i \in pop'[v].todo
    BY <1>2, <1>3 DEF Belongs
  <2>2. QED
    BY <1>2, <1>3, <2>1, SameKept
<1>4. QED
  BY <1>2, <1>3 DEF PopsMove, PopMove, TxsMove, TxMove

(* One transaction commits. *)
LEMMA CommitMoves ==
  ASSUME TypeOK, Belongs, NEW w \in Workers, NEW id \in Ids, NEW keys,
         CommitTx(keys, w, id),
         "scheduled" \in keys \/ scheduled' = scheduled,
         "leased" \in keys \/ leased' = leased,
         \A v \in Workers, i \in Ids : (v = w /\ i = id) \/ held'[v][i] = held[v][i],
         pop' = pop \/ Skip(w, id)
  PROVE  PopsMove /\ TxsMove
<1>1. pop \in [Workers -> Pops] /\ tx \in [Workers -> [Ids -> Txs]]
  BY DEF TypeOK
<1>2. \A v \in Workers :
        /\ pop'[v].step = pop[v].step /\ pop'[v].now = pop[v].now
        /\ pop[v].todo \ {id} \subseteq pop'[v].todo
        /\ v # w => pop'[v] = pop[v]
  BY <1>1, SkipAt, ZenonT(30)
<1>3. ASSUME NEW v \in Workers, NEW i \in Ids, ~(v = w /\ i = id) PROVE Kept(v, i)
  <2>1. i \in pop[v].todo => i \in pop'[v].todo
    BY <1>2, <1>3
  <2>2. tx'[v][i] = Touched(keys)[v][i]
    BY <1>1, <1>3, CommitAt, SMT
  <2>3. held'[v][i] = held[v][i]
    BY <1>3
  <2>4. QED
    BY <1>2, <2>1, <2>2, <2>3, TouchKept, ZenonT(30)
<1>4. Over(w, id)
  BY <1>1, CommitAt DEF Over
<1>5. QED
  BY <1>2, <1>3, <1>4 DEF PopsMove, PopMove, TxsMove, TxMove

(* The steps of Pop. *)
LEMMA PopStepMoves ==
  ASSUME TypeOK, Belongs, NEW w \in Workers, PopStep(w)
  PROVE  PopsMove /\ TxsMove
<1>. USE DEF store, ghosts
<1>0. /\ tx \in [Workers -> [Ids -> Txs]] /\ pop \in [Workers -> Pops]
      /\ clock \in Nat /\ pop[w] \in Pops
  BY DEF TypeOK
<1>1. CASE PopStart(w)
  <2>1. PICK p \in Pops : /\ pop' = [pop EXCEPT ![w] = p]
                          /\ p.now = clock
    <3>1. PICK ids \in SUBSET Ids : ids = {id \in Ids : leased[id] # 0 /\ leased[id] <= clock}
      OBVIOUS
    <3>2. PICK p : p = [step |-> "recover", now |-> clock, todo |-> ids]
      OBVIOUS
    <3>3. p \in Pops /\ p.now = clock
      BY <1>0, <3>2 DEF Pops
    <3>4. pop' = [pop EXCEPT ![w] = p]
      BY <1>1, <3>1, <3>2, ZenonT(30) DEF PopStart
    <3>5. QED
      BY <3>3, <3>4
  <2>2. \A i \in Ids : tx[w][i].op \notin {"recover", "claim"}
    BY <1>1, Records DEF PopStart, Belongs
  <2>3. UNCHANGED <<scheduled, leased, tx, held>>
    BY <1>1 DEF PopStart
  <2>4. QED
    BY <2>1, <2>2, <2>3, PopMoves
<1>2. CASE PopScan(w)
  <2>1. PICK batch \in SUBSET Ids :
          pop' = [pop EXCEPT ![w] = [pop[w] EXCEPT !.step = "claim", !.todo = batch]]
    BY <1>2 DEF PopScan, Batches
  <2>2. PICK p : p = [pop[w] EXCEPT !.step = "claim", !.todo = batch]
    OBVIOUS
  <2>3. p \in Pops /\ p.now = pop[w].now
    BY <1>0, <2>2 DEF Pops
  <2>4. \A i \in Ids : tx[w][i].op \notin {"recover", "claim"}
    BY <1>2 DEF PopScan, Belongs
  <2>5. UNCHANGED <<scheduled, leased, tx, held>> /\ pop[w].step # "idle"
    BY <1>2 DEF PopScan
  <2>6. QED
    BY <2>1, <2>2, <2>3, <2>4, <2>5, PopMoves
<1>3. CASE PopReturn(w)
  <2>1. \A i \in Ids : tx[w][i].op \notin {"recover", "claim"}
    BY <1>3 DEF PopReturn, Belongs
  <2>2. UNCHANGED <<scheduled, leased, tx, held>> /\ pop' = [pop EXCEPT ![w] = Idle]
    BY <1>3 DEF PopReturn
  <2>3. QED
    BY <2>1, <2>2, PopMoves, Records
<1>4. ASSUME NEW id \in Ids, recoverLeaseWatch(w, id) PROVE PopsMove /\ TxsMove
  <2>0. /\ UNCHANGED <<scheduled, leased, bodies, owner, held>>
        /\ pop[w].step = "recover" /\ id \in pop[w].todo /\ tx[w][id] = NoTx
    BY <1>4 DEF recoverLeaseWatch, NoTxOf
  <2>1. CASE leased[id] = 0 \/ leased[id] > pop[w].now
    <3>1. Skip(w, id) /\ tx' = tx
      BY <1>4, <2>1 DEF recoverLeaseWatch
    <3>2. Over(w, id)
      BY <2>0, <3>1 DEF Over
    <3>3. QED
      BY <2>0, <3>1, <3>2, OneMoves DEF TxMove
  <2>2. CASE ~(leased[id] = 0 \/ leased[id] > pop[w].now)
    <3>1. PICK t \in Txs : t = [NoTx EXCEPT !.op = "recover", !.step = "exec"]
      BY NewTx
    <3>2. t.op = "recover"
      BY <3>1, NewTx
    <3>3. tx' = [tx EXCEPT ![w][id] = t] /\ pop' = pop
      BY <1>4, <2>2, <3>1 DEF recoverLeaseWatch
    <3>4. leased[id] # 0 /\ leased[id] <= pop[w].now
      BY <1>0, <2>2, SMT DEF TypeOK, Pops
    <3>5. /\ tx'[w][id] = t
          /\ \A v \in Workers, i \in Ids : (v = w /\ i = id) \/ tx'[v][i] = tx[v][i]
      BY <1>0, <3>3, TxAt, ZenonT(30)
    <3>6. tx'[w][id].op = "recover" /\ pop'[w] = pop[w] /\ held'[w][id] = held[w][id]
      BY <2>0, <3>2, <3>3, <3>5
    <3>7. TxMove(w, id)
      BY <2>0, <3>4, <3>6 DEF Reads, TxMove
    <3>8. QED
      BY <2>0, <3>3, <3>5, <3>7, OneMoves
  <2>3. QED
    BY <2>1, <2>2
<1>5. ASSUME NEW id \in Ids, recoverLeaseExec(w, id) PROVE PopsMove /\ TxsMove
  <2>0. held' = held
    BY <1>5 DEF recoverLeaseExec
  <2>1. CASE tx[w][id].clean
    <3>1. CommitTx({"leased", "scheduled"}, w, id) /\ Skip(w, id)
      BY <1>5, <2>1 DEF recoverLeaseExec
    <3>2. QED
      BY <2>0, <3>1, CommitMoves
  <2>2. CASE ~tx[w][id].clean
    <3>1. EndTx(w, id) /\ UNCHANGED <<leased, scheduled, pop>>
      BY <1>5, <2>2 DEF recoverLeaseExec
    <3>2. QED
      BY <1>0, <2>0, <3>1, EndAt, OneMoves DEF TxMove, Over
  <2>3. QED
    BY <2>1, <2>2
<1>6. ASSUME NEW id \in Ids, claimWatch(w, id) PROVE PopsMove /\ TxsMove
  <2>0. /\ UNCHANGED <<scheduled, leased, bodies, owner, held>>
        /\ pop[w].step = "claim" /\ id \in pop[w].todo /\ tx[w][id] = NoTx
    BY <1>6 DEF claimWatch, NoTxOf
  <2>1. CASE scheduled[id] = 0 \/ scheduled[id] > pop[w].now
    <3>1. Skip(w, id) /\ tx' = tx
      BY <1>6, <2>1 DEF claimWatch
    <3>2. Over(w, id)
      BY <2>0, <3>1 DEF Over
    <3>3. QED
      BY <2>0, <3>1, <3>2, OneMoves DEF TxMove
  <2>2. CASE ~(scheduled[id] = 0 \/ scheduled[id] > pop[w].now)
    <3>1. PICK t \in Txs : t = [NoTx EXCEPT !.op = "claim", !.step = "read"]
      BY NewTx
    <3>2. t.op = "claim" /\ t.step = "read"
      BY <3>1, NewTx
    <3>3. tx' = [tx EXCEPT ![w][id] = t] /\ pop' = pop
      BY <1>6, <2>2, <3>1 DEF claimWatch
    <3>4. /\ tx'[w][id] = t
          /\ \A v \in Workers, i \in Ids : (v = w /\ i = id) \/ tx'[v][i] = tx[v][i]
      BY <1>0, <3>3, TxAt, ZenonT(30)
    <3>5. /\ tx'[w][id].op = "claim" /\ tx'[w][id].step = "read"
          /\ pop'[w] = pop[w] /\ held'[w][id] = held[w][id]
      BY <2>0, <3>2, <3>3, <3>4
    <3>6. TxMove(w, id)
      BY <2>0, <2>2, <3>5 DEF Reads, TxMove
    <3>7. QED
      BY <2>0, <3>3, <3>4, <3>6, OneMoves
  <2>3. QED
    BY <2>1, <2>2
<1>7. ASSUME NEW id \in Ids, claimRead(w, id) PROVE PopsMove /\ TxsMove
  <2>0. UNCHANGED <<scheduled, leased, bodies, owner>> /\ tx[w][id].op = "claim"
    BY <1>7 DEF claimRead
  <2>1. CASE bodies[id] = NoBody
    BY <1>7, <2>0, <2>1, AbandonMoves DEF claimRead
  <2>2. CASE bodies[id] # NoBody
    <3>1. bodies[id] + 1 \in Nat /\ tx[w][id] \in Txs
      BY <1>0, <2>2, SMT DEF TypeOK
    <3>2. PICK t \in Txs : t = [tx[w][id] EXCEPT !.step = "exec", !.attempts = bodies[id] + 1]
      BY <3>1, TxRead
    <3>3. /\ t.op = tx[w][id].op /\ t.step = "exec" /\ t.attempts = bodies[id] + 1
          /\ t.clean = tx[w][id].clean
      BY <3>1, <3>2, TxRead
    <3>4. tx' = [tx EXCEPT ![w][id] = t] /\ UNCHANGED <<pop, held>>
      BY <1>7, <2>2, <3>2 DEF claimRead
    <3>5. Reads(w, id)
      BY <1>0, <2>0, <2>2, <3>3, <3>4, TxAt, ZenonT(30) DEF Reads
    <3>6. QED
      BY <1>0, <2>0, <3>4, <3>5, TxAt, OneMoves, SMT DEF TxMove
  <2>3. QED
    BY <2>1, <2>2
<1>8. ASSUME NEW id \in Ids, claimExec(w, id) PROVE PopsMove /\ TxsMove
  <2>1. CASE tx[w][id].clean
    <3>1. CommitTx({"leased", "scheduled"}, w, id) /\ Skip(w, id)
      BY <1>8, <2>1 DEF claimExec
    <3>2. held' = [held EXCEPT ![w][id] =
                     [attempts |-> tx[w][id].attempts, until |-> pop[w].now + Lease]]
      BY <1>8, <2>1 DEF claimExec
    <3>3. \A v \in Workers, i \in Ids : (v = w /\ i = id) \/ held'[v][i] = held[v][i]
      BY <3>2 DEF TypeOK
    <3>4. QED
      BY <3>1, <3>3, CommitMoves
  <2>2. CASE ~tx[w][id].clean
    <3>1. EndTx(w, id) /\ UNCHANGED <<leased, scheduled, pop, held>>
      BY <1>8, <2>2 DEF claimExec
    <3>2. QED
      BY <1>0, <3>1, EndAt, OneMoves DEF TxMove, Over
  <2>3. QED
    BY <2>1, <2>2
<1>9. QED
  BY <1>1, <1>2, <1>3, <1>4, <1>5, <1>6, <1>7, <1>8 DEF PopStep

(* The steps of a settlement. *)
LEMMA ProcessMoves ==
  ASSUME TypeOK, Belongs, NEW w \in Workers, NEW id \in Ids,
         ProcessStep(w, id) \/ SettleError(w, id)
  PROVE  PopsMove /\ TxsMove
<1>. USE DEF store, ghosts
<1>0. /\ tx \in [Workers -> [Ids -> Txs]] /\ held \in [Workers -> [Ids -> Holdings]]
      /\ clock \in Nat \ {0} /\ tx[w][id] \in Txs
  BY ZenonT(30) DEF TypeOK
<1>a. ASSUME EndTx(w, id), Settled(w, id), UNCHANGED <<scheduled, leased, pop>>
      PROVE  PopsMove /\ TxsMove
  BY <1>0, <1>a, EndAt, SettledAt, OneMoves DEF TxMove, Over
<1>b. ASSUME NEW keys, CommitTx(keys, w, id), Settled(w, id), pop' = pop, "leased" \in keys,
             "scheduled" \in keys \/ scheduled' = scheduled
      PROVE  PopsMove /\ TxsMove
  BY <1>0, <1>b, SettledAt, CommitMoves
<1>1. ASSUME NEW how \in Settling, Finish(w, id, how) PROVE PopsMove /\ TxsMove
  <2>1. PICK n \in Nat \ {0} : tx' = [tx EXCEPT ![w][id] =
                            [NoTx EXCEPT !.op = how, !.step = "begin", !.at = n]]
    <3>1. PICK delay \in IF how = "release" THEN Delays ELSE {0} :
            tx' = [tx EXCEPT ![w][id] =
                     [NoTx EXCEPT !.op = how, !.step = "begin", !.at = clock + delay]]
      BY <1>1 DEF Finish
    <3>2. clock + delay \in Nat \ {0}
      BY <1>0, <3>1, RedisAssumption, SMT DEF Delays
    <3>3. QED
      BY <3>1, <3>2
  <2>2. PICK t \in Txs : t = [NoTx EXCEPT !.op = how, !.step = "begin", !.at = n]
    BY NewTx
  <2>3. t.op = how /\ t.step = "begin" /\ t.at = n
    BY <2>2 DEF NoTx
  <2>4. /\ UNCHANGED <<scheduled, leased, bodies, owner, pop, held>> /\ Holds(w, id)
        /\ how = "delete" => id \in finished'
    BY <1>1 DEF Finish
  <2>5. tx' = [tx EXCEPT ![w][id] = t]
    BY <2>1, <2>2
  <2>6. Reads(w, id)
    BY <1>0, <2>3, <2>4, <2>5, TxAt, ZenonT(30) DEF Reads
  <2>7. QED
    BY <1>0, <2>4, <2>5, <2>6, TxAt, OneMoves, SMT DEF TxMove
<1>2. CASE settleLeasedWatch(w, id)
  <2>1. CASE leased[id] = 0
    BY <1>2, <1>a, <2>1 DEF settleLeasedWatch
  <2>2. CASE leased[id] # 0
    <3>1. PICK t \in Txs : t = [tx[w][id] EXCEPT !.step = "read", !.clean = TRUE]
      BY <1>0, TxWatch
    <3>2. t.op = tx[w][id].op /\ t.step = "read" /\ t.at = tx[w][id].at
      BY <1>0, <3>1, TxWatch
    <3>3. /\ tx' = [tx EXCEPT ![w][id] = t] /\ tx[w][id].op \in Settling
          /\ UNCHANGED <<scheduled, leased, bodies, owner, pop, held, finished>>
      BY <1>2, <2>2, <3>1 DEF settleLeasedWatch
    <3>4. /\ Holds(w, id) /\ tx[w][id].at # 0
          /\ tx[w][id].op = "delete" => id \in finished
      BY <3>3 DEF Belongs
    <3>5. Reads(w, id)
      BY <1>0, <2>2, <3>2, <3>3, <3>4, TxAt DEF Reads
    <3>6. QED
      BY <1>0, <3>3, <3>5, TxAt, OneMoves, SMT DEF TxMove
  <2>3. QED
    BY <2>1, <2>2
<1>3. ASSUME NEW step \in {"begin", "exec"}, tx' = [tx EXCEPT ![w][id].step = step],
             tx[w][id].op \in Settling,
             step = "exec" => tx[w][id].step = "read" /\ bodies[id] = held[w][id].attempts,
             UNCHANGED <<scheduled, leased, bodies, owner, pop, held, finished>>
      PROVE  PopsMove /\ TxsMove
  <2>1. PICK t \in Txs : t = [tx[w][id] EXCEPT !.step = step]
    BY <1>0, TxStep
  <2>2. t.op = tx[w][id].op /\ t.step = step /\ t.at = tx[w][id].at /\ t.clean = tx[w][id].clean
    BY <1>0, <2>1, TxStep, SMT
  <2>3. tx' = [tx EXCEPT ![w][id] = t]
    BY <1>3, <2>1
  <2>4. /\ Holds(w, id) /\ tx[w][id].at # 0
        /\ tx[w][id].op = "delete" => id \in finished
    BY <1>3 DEF Belongs
  <2>5. Reads(w, id)
    BY <1>0, <1>3, <2>2, <2>3, <2>4, TxAt, SMT DEF Reads
  <2>6. QED
    BY <1>0, <1>3, <2>3, <2>5, TxAt, OneMoves, SMT DEF TxMove
<1>4. CASE settleLeasedRead(w, id)
  <2>1. CASE bodies[id] # held[w][id].attempts
    BY <1>4, <1>a, <2>1 DEF settleLeasedRead
  <2>2. CASE bodies[id] = held[w][id].attempts
    BY <1>3, <1>4, <2>2 DEF settleLeasedRead
  <2>3. QED
    BY <2>1, <2>2
<1>5. CASE DeleteJob(w, id) \/ FailJob(w, id)
  BY <1>5, <1>b DEF DeleteJob, FailJob, Commits
<1>6. CASE ReleaseJob(w, id)
  BY <1>6, <1>b, SMT DEF ReleaseJob, Commits
<1>7. CASE SettleAgain(w, id)
  BY <1>3, <1>7 DEF SettleAgain
<1>8. CASE SettleError(w, id)
  BY <1>8, <1>a DEF SettleError
<1>9. QED
  BY <1>1, <1>2, <1>4, <1>5, <1>6, <1>7, <1>8 DEF ProcessStep

(* A command leaves the workers alone and fails the transactions that      *)
(* watch what it wrote to.                                                 *)
LEMMA OperatorMoves ==
  ASSUME TypeOK, Belongs, NEW o \in Operators, OperatorStep(o)
  PROVE  PopsMove /\ TxsMove
<1>. USE DEF store, ghosts, Quiet
<1>1. ASSUME NEW id \in Ids, RetryFind(o, id) \/ RetryWatch(o, id) \/ RetryRead(o, id)
      PROVE  PopsMove /\ TxsMove
  BY <1>1, SameMoves DEF RetryFind, RetryWatch, RetryRead
<1>2. ASSUME NEW id \in Ids, RetryExec(o, id) PROVE PopsMove /\ TxsMove
  <2>1. UNCHANGED <<pop, held, leased>>
    BY <1>2 DEF RetryExec
  <2>2. CASE cmd[o].clean
    BY <1>2, <2>1, <2>2, TouchMoves DEF RetryExec, Touch
  <2>3. CASE ~cmd[o].clean
    BY <1>2, <2>1, <2>3, SameMoves DEF RetryExec
  <2>4. QED
    BY <2>2, <2>3
<1>3. ASSUME NEW id \in Ids, Rebuild(o, id) PROVE PopsMove /\ TxsMove
  <2>1. UNCHANGED <<pop, held>>
    BY <1>3 DEF Rebuild
  <2>2. CASE "rebuild" \in Commands
    BY <1>3, <2>1, <2>2, TouchMoves DEF Rebuild, Push, Touch
  <2>3. CASE "rebuild" \notin Commands
    BY <1>3, <2>1, <2>3, SameMoves DEF Rebuild
  <2>4. QED
    BY <2>2, <2>3
<1>4. CASE ClearScheduledList(o) \/ ClearLeasedList(o)
  <2>1. UNCHANGED <<scheduled, leased, pop, held, tx>>
    BY <1>4 DEF ClearScheduledList, ClearLeasedList, ClearList
  <2>2. QED
    BY <2>1, SameMoves
<1>5. CASE ClearScheduled(o)
  <2>1. UNCHANGED <<pop, held, leased>>
    BY <1>5 DEF ClearScheduled, Cleared
  <2>2. PICK keys : /\ tx' = Touched(keys)
                    /\ "scheduled" \in keys \/ scheduled' = scheduled
    BY <1>5 DEF ClearScheduled, Touch
  <2>3. QED
    BY <2>1, <2>2, TouchMoves
<1>6. CASE ClearLeased(o)
  <2>1. UNCHANGED <<pop, held, scheduled>>
    BY <1>6 DEF ClearLeased, Cleared
  <2>2. PICK keys : /\ tx' = Touched(keys)
                    /\ "leased" \in keys \/ leased' = leased
    BY <1>6 DEF ClearLeased, Touch
  <2>3. QED
    BY <2>1, <2>2, TouchMoves
<1>7. QED
  BY <1>1, <1>2, <1>3, <1>4, <1>5, <1>6 DEF OperatorStep

(* Every step. *)
LEMMA AllMove ==
  ASSUME TypeOK, Belongs, [Next]_vars
  PROVE  PopsMove /\ TxsMove /\ clock <= clock' /\ finished \subseteq finished'
<1>. USE DEF store, ghosts
<1>0. clock \in Nat
  BY DEF TypeOK
<1>1. CASE Tick \/ UNCHANGED vars
  <2>1. /\ UNCHANGED <<scheduled, leased, pop, held, tx, finished>>
        /\ clock' = clock \/ clock' = clock + 1
    BY <1>1 DEF Tick, vars
  <2>2. QED
    BY <1>0, <2>1, SameMoves, Order
<1>2. ASSUME NEW id \in Ids, PushJob(id)
      PROVE  PopsMove /\ TxsMove /\ clock <= clock' /\ finished \subseteq finished'
  <2>1. PICK delay \in Delays : Push(id, clock + delay)
    BY <1>2 DEF PushJob
  <2>2. UNCHANGED <<pop, held, clock, finished>>
    BY <1>2 DEF PushJob
  <2>3. QED
    BY <1>0, <2>1, <2>2, TouchMoves, SMT DEF Push, Touch
<1>3. ASSUME NEW w \in Workers, PopStep(w)
      PROVE  clock' = clock /\ finished' = finished
  BY <1>3 DEF PopStep, PopStart, PopScan, PopReturn, recoverLeaseWatch, recoverLeaseExec,
     claimWatch, claimRead, claimExec
<1>4. ASSUME NEW w \in Workers, Crash(w)
      PROVE  PopsMove /\ TxsMove /\ clock <= clock' /\ finished \subseteq finished'
  BY <1>0, <1>4, AbandonMoves, SMT DEF Crash
<1>5. ASSUME NEW w \in Workers, NEW id \in Ids, ProcessStep(w, id) \/ SettleError(w, id)
      PROVE  clock' = clock /\ finished \subseteq finished'
  BY <1>5 DEF ProcessStep, SettleError, Finish, settleLeasedWatch, settleLeasedRead,
     DeleteJob, ReleaseJob, FailJob, SettleAgain, Commits
<1>6. ASSUME NEW o \in Operators, OperatorStep(o)
      PROVE  clock' = clock /\ finished' = finished
  BY <1>6 DEF OperatorStep, RetryFind, RetryWatch, RetryRead, RetryExec, Rebuild, Quiet,
     ClearScheduledList, ClearScheduled, ClearLeasedList, ClearLeased, ClearList, Cleared
<1>7. QED
  BY <1>0, <1>1, <1>2, <1>3, <1>4, <1>5, <1>6, PopStepMoves, ProcessMoves, OperatorMoves, SMT
     DEF Next

-----------------------------------------------------------------------------
(* What a step does to one job *)

(* What a move leaves alone. *)
HeldSame(i) == \A v \in Workers : held'[v][i] = held[v][i]
HeldBut(w, i) == \A v \in Workers : v # w => held'[v][i] = held[v][i]
MishapsGrow(i) == mishaps[i] \subseteq mishaps'[i]
ParkedSame(i) == i \in parked' <=> i \in parked
PushedSame(i) == i \in pushed' <=> i \in pushed

(* Nothing, or time passes it by, or a worker drops it. *)
Stays(i) ==
  /\ scheduled'[i] = scheduled[i] /\ leased'[i] = leased[i]
  /\ bodies'[i] = bodies[i] /\ owner'[i] = owner[i]
  /\ ParkedSame(i) /\ PushedSame(i) /\ MishapsGrow(i)
  /\ \A v \in Workers :
       /\ held'[v][i] = held[v][i] \/ held'[v][i] = NoHold
       /\ \/ clock' = clock
          \/ ~Holds(v, i) \/ clock' < held[v][i].until \/ "overrun" \in mishaps'[i]

(* It is pushed, for the first time or by queue:retry. *)
IsPushed(i) ==
  /\ scheduled'[i] # 0 /\ leased'[i] = leased[i]
  /\ bodies'[i] = 0 /\ owner'[i] = owner[i]
  /\ ParkedSame(i) /\ i \in pushed' /\ MishapsGrow(i) /\ HeldSame(i) /\ clock' = clock
  /\ \/ i \notin pushed
     \/ /\ "reset" \in mishaps'[i]
        /\ OnQueue(i) \/ i \in parked => "doubled" \in mishaps'[i]

(* A parked job is put back. *)
IsRetried(i) ==
  /\ i \in parked /\ i \notin parked'
  /\ scheduled'[i] # 0 /\ leased'[i] = leased[i]
  /\ bodies'[i] = 0 /\ owner'[i] = owner[i]
  /\ PushedSame(i) /\ MishapsGrow(i) /\ HeldSame(i) /\ clock' = clock
  /\ "reset" \in mishaps'[i]

(* Clear deletes the body, or the entry in one of the two sets. *)
IsCleared(i) ==
  /\ scheduled'[i] = scheduled[i] \/ scheduled'[i] = 0
  /\ leased'[i] = leased[i] \/ leased'[i] = 0
  /\ bodies'[i] = bodies[i] \/ bodies'[i] = NoBody
  /\ owner'[i] = owner[i] /\ ParkedSame(i) /\ PushedSame(i)
  /\ MishapsGrow(i) /\ HeldSame(i) /\ clock' = clock
  /\ \/ "cleared" \in mishaps'[i]
     \/ /\ scheduled'[i] = scheduled[i] /\ leased'[i] = leased[i]
        /\ bodies'[i] = bodies[i]

(* The transaction of w for i is about to commit. *)
Committing(w, i, op) ==
  /\ tx[w][i].op = op /\ tx[w][i].clean
  /\ op # "recover" => tx[w][i].step = "exec"

(* An expired lease is ended. *)
IsRecovered(w, i) ==
  /\ Committing(w, i, "recover")
  /\ scheduled'[i] = pop[w].now /\ leased'[i] = 0
  /\ bodies'[i] = bodies[i] /\ owner'[i] = owner[i]
  /\ ParkedSame(i) /\ PushedSame(i) /\ MishapsGrow(i) /\ HeldSame(i) /\ clock' = clock

(* A worker claims it. *)
IsClaimed(w, i) ==
  /\ Committing(w, i, "claim")
  /\ scheduled'[i] = 0 /\ leased'[i] = pop[w].now + Lease
  /\ bodies'[i] = tx[w][i].attempts /\ owner'[i] = w
  /\ held'[w][i].attempts = tx[w][i].attempts
  /\ held'[w][i].until = pop[w].now + Lease
  /\ ParkedSame(i) /\ PushedSame(i) /\ MishapsGrow(i) /\ HeldBut(w, i) /\ clock' = clock
  /\ clock < pop[w].now + Lease \/ "overrun" \in mishaps'[i]

(* The worker that holds it settles it. *)
IsSettled(w, i) ==
  /\ tx[w][i].op \in Settling /\ Committing(w, i, tx[w][i].op)
  /\ leased'[i] = 0 /\ held'[w][i] = NoHold /\ owner'[i] = owner[i]
  /\ PushedSame(i) /\ MishapsGrow(i) /\ HeldBut(w, i) /\ clock' = clock
  /\ \/ /\ tx[w][i].op = "delete" /\ ParkedSame(i)
        /\ scheduled'[i] = scheduled[i] /\ bodies'[i] = NoBody
     \/ /\ tx[w][i].op = "release" /\ ParkedSame(i)
        /\ scheduled'[i] = tx[w][i].at /\ bodies'[i] = held[w][i].attempts
     \/ /\ tx[w][i].op = "fail" /\ i \in parked'
        /\ scheduled'[i] = scheduled[i] /\ bodies'[i] = held[w][i].attempts

(* One of the moves of a single job. *)
OneMove(i) ==
  \/ IsPushed(i) \/ IsRetried(i)
  \/ \E w \in Workers : IsRecovered(w, i) \/ IsClaimed(w, i) \/ IsSettled(w, i)

JobMove(i) == Stays(i) \/ IsCleared(i) \/ OneMove(i)

(* A step moves no job, one job, or clears one of the sets. *)
NoneMoves ==
  /\ \A i \in Ids : Stays(i)
  /\ removed' = removed
  /\ finished' = finished \/ \E i \in Ids : finished' = finished \cup {i}
OnlyMoves(id) ==
  /\ OneMove(id) /\ \A i \in Ids : i # id => Stays(i)
  /\ UNCHANGED <<finished, removed>>
SetCleared ==
  /\ \A i \in Ids : IsCleared(i)
  /\ finished' = finished
  /\ \E ids \in SUBSET Ids :
       /\ removed' = removed \cup ids
       /\ \A i \in ids : i \notin parked /\ scheduled'[i] = 0 /\ leased'[i] = 0
       /\ \A i \in Ids \ ids :
            \/ i \in parked
            \/ OnQueue(i) <=> scheduled'[i] # 0 \/ leased'[i] # 0
JobsMove == NoneMoves \/ (\E id \in Ids : OnlyMoves(id)) \/ SetCleared

(* A step that writes nothing to the store and drops nothing but           *)
(* deliveries.                                                             *)
LEMMA DropsStay ==
  ASSUME TypeOK, UNCHANGED <<scheduled, leased, bodies, parked, owner, pushed, mishaps, clock>>,
         \A v \in Workers, i \in Ids : held'[v][i] = held[v][i] \/ held'[v][i] = NoHold
  PROVE  \A i \in Ids : Stays(i)
BY DEF Stays, ParkedSame, PushedSame, MishapsGrow

(* A step that writes to one id. *)
LEMMA OthersStay ==
  ASSUME TypeOK, NEW id \in Ids, clock' = clock, NEW a, NEW b, NEW c, NEW d,
         scheduled' = scheduled \/ scheduled' = [scheduled EXCEPT ![id] = a],
         leased' = leased \/ leased' = [leased EXCEPT ![id] = b],
         bodies' = bodies \/ bodies' = [bodies EXCEPT ![id] = c],
         owner' = owner \/ owner' = [owner EXCEPT ![id] = d],
         \A i \in Ids : i # id => (i \in parked' <=> i \in parked),
         \A i \in Ids : i # id => (i \in pushed' <=> i \in pushed),
         \A i \in Ids : mishaps[i] \subseteq mishaps'[i],
         \A v \in Workers, i \in Ids : i # id => held'[v][i] = held[v][i]
  PROVE  \A i \in Ids : i # id => Stays(i)
<1>1. ASSUME NEW i \in Ids, i # id
      PROVE  /\ scheduled'[i] = scheduled[i] /\ leased'[i] = leased[i]
             /\ bodies'[i] = bodies[i] /\ owner'[i] = owner[i]
  BY <1>1 DEF TypeOK
<1>2. QED
  BY <1>1 DEF Stays, ParkedSame, PushedSame, MishapsGrow

(* Pop moves a job by a recovery or a claim that commits. *)
LEMMA PopJobs ==
  ASSUME TypeOK, NEW w \in Workers, PopStep(w)
  PROVE  JobsMove
<1>. USE DEF store, ghosts
<1>0. held \in [Workers -> [Ids -> Holdings]] /\ mishaps \in [Ids -> SUBSET Mishaps]
  BY DEF TypeOK
<1>1. CASE \/ PopStart(w) \/ PopScan(w) \/ PopReturn(w)
           \/ \E id \in Ids : recoverLeaseWatch(w, id) \/ claimWatch(w, id)
  <2>1. /\ UNCHANGED <<scheduled, leased, bodies, parked, owner, pushed, mishaps, clock,
                        finished, removed>>
        /\ held' = held
    BY <1>1 DEF PopStart, PopScan, PopReturn, recoverLeaseWatch, claimWatch
  <2>2. QED
    BY <2>1, DropsStay DEF JobsMove, NoneMoves
<1>2. ASSUME NEW id \in Ids, claimRead(w, id) PROVE JobsMove
  <2>1. /\ UNCHANGED <<scheduled, leased, bodies, parked, owner, pushed, mishaps, clock,
                        finished, removed>>
        /\ held' = held \/ Abandon(w)
    BY <1>2 DEF claimRead
  <2>2. \A v \in Workers, i \in Ids : held'[v][i] = held[v][i] \/ held'[v][i] = NoHold
    BY <2>1, AbandonAt
  <2>3. QED
    BY <2>1, <2>2, DropsStay DEF JobsMove, NoneMoves
<1>3. ASSUME NEW id \in Ids, recoverLeaseExec(w, id) PROVE JobsMove
  <2>0. UNCHANGED <<bodies, parked, owner, pushed, mishaps, clock, held, finished, removed>>
    BY <1>3, ZenonT(30) DEF recoverLeaseExec
  <2>1. CASE ~tx[w][id].clean
    BY <1>3, <2>0, <2>1, DropsStay DEF JobsMove, NoneMoves, recoverLeaseExec
  <2>2. CASE tx[w][id].clean
    <3>1. /\ leased' = [leased EXCEPT ![id] = 0]
          /\ scheduled' = [scheduled EXCEPT ![id] = pop[w].now]
          /\ tx[w][id].op = "recover"
      BY <1>3, <2>2 DEF recoverLeaseExec
    <3>2. IsRecovered(w, id)
      BY <2>0, <2>2, <3>1
         DEF IsRecovered, Committing, ParkedSame, PushedSame, MishapsGrow, HeldSame, TypeOK
    <3>3. \A i \in Ids : i # id => Stays(i)
      BY <2>0, <3>1, OthersStay
    <3>4. QED
      BY <3>2, <3>3, <2>0 DEF JobsMove, OnlyMoves, OneMove
  <2>3. QED
    BY <2>1, <2>2
<1>4. ASSUME NEW id \in Ids, claimExec(w, id) PROVE JobsMove
  <2>0. UNCHANGED <<parked, pushed, clock, finished, removed>>
    BY <1>4 DEF claimExec
  <2>1. CASE ~tx[w][id].clean
    BY <1>4, <2>0, <2>1, DropsStay DEF JobsMove, NoneMoves, claimExec
  <2>2. CASE tx[w][id].clean
    <3>0. PICK until : until = pop[w].now + Lease
      OBVIOUS
    <3>1. /\ bodies' = [bodies EXCEPT ![id] = tx[w][id].attempts]
          /\ scheduled' = [scheduled EXCEPT ![id] = 0]
          /\ leased' = [leased EXCEPT ![id] = until]
          /\ held' = [held EXCEPT ![w][id] = [attempts |-> tx[w][id].attempts, until |-> until]]
          /\ owner' = [owner EXCEPT ![id] = w]
          /\ mishaps' = Marked(IF until <= clock THEN {id} ELSE {}, "overrun")
          /\ tx[w][id].op = "claim" /\ tx[w][id].step = "exec"
      BY <1>4, <2>2, <3>0 DEF claimExec
    <3>2. /\ \A i \in Ids : MishapsGrow(i)
          /\ until <= clock => "overrun" \in mishaps'[id]
      BY <1>0, <3>1, MarkedAt DEF MishapsGrow, Mishaps
    <3>3. /\ held'[w][id].attempts = tx[w][id].attempts /\ held'[w][id].until = until
          /\ \A v \in Workers, i \in Ids : (v = w /\ i = id) \/ held'[v][i] = held[v][i]
      BY <1>0, <3>1
    <3>4. until \in Nat /\ clock \in Nat
      BY <3>0, RedisAssumption, Fields, Order DEF TypeOK
    <3>5. /\ scheduled'[id] = 0 /\ leased'[id] = until
          /\ bodies'[id] = tx[w][id].attempts /\ owner'[id] = w
      BY <3>1 DEF TypeOK
    <3>6. IsClaimed(w, id)
      BY <2>0, <2>2, <3>0, <3>1, <3>2, <3>3, <3>4, <3>5, Order, ZenonT(30)
         DEF IsClaimed, Committing, ParkedSame, PushedSame, HeldBut
    <3>7. \A i \in Ids : i # id => Stays(i)
      BY <2>0, <3>1, <3>2, <3>3, OthersStay DEF MishapsGrow
    <3>8. QED
      BY <3>6, <3>7, <2>0 DEF JobsMove, OnlyMoves, OneMove
  <2>3. QED
    BY <2>1, <2>2
<1>5. QED
  BY <1>1, <1>2, <1>3, <1>4 DEF PopStep

(* A settlement moves the job when it commits. *)
LEMMA ProcessJobs ==
  ASSUME TypeOK, NEW w \in Workers, NEW id \in Ids, ProcessStep(w, id) \/ SettleError(w, id)
  PROVE  JobsMove
<1>. USE DEF store, ghosts
<1>0. held \in [Workers -> [Ids -> Holdings]]
  BY DEF TypeOK
<1>1. CASE \/ \E how \in Settling : Finish(w, id, how)
           \/ settleLeasedWatch(w, id) \/ settleLeasedRead(w, id)
           \/ SettleAgain(w, id) \/ SettleError(w, id)
  <2>1. /\ UNCHANGED <<scheduled, leased, bodies, parked, owner, pushed, mishaps, clock,
                        removed>>
        /\ held' = held \/ Settled(w, id)
        /\ finished' = finished \/ finished' = finished \cup {id}
    BY <1>1 DEF Finish, settleLeasedWatch, settleLeasedRead, SettleAgain, SettleError
  <2>2. \A v \in Workers, i \in Ids : held'[v][i] = held[v][i] \/ held'[v][i] = NoHold
    BY <1>0, <2>1, SettledAt
  <2>3. QED
    BY <2>1, <2>2, DropsStay DEF JobsMove, NoneMoves
<1>2. ASSUME NEW op \in Settling, Commits(w, id, op), NEW a, NEW c,
             scheduled' = scheduled \/ scheduled' = [scheduled EXCEPT ![id] = a],
             bodies' = [bodies EXCEPT ![id] = c],
             \A i \in Ids : i # id => (i \in parked' <=> i \in parked),
             \/ op = "delete" /\ scheduled' = scheduled /\ c = NoBody /\ parked' = parked
             \/ /\ op = "release" /\ scheduled'[id] = tx[w][id].at
                /\ c = held[w][id].attempts /\ parked' = parked
             \/ /\ op = "fail" /\ scheduled' = scheduled
                /\ c = held[w][id].attempts /\ id \in parked'
      PROVE  JobsMove
  <2>1. /\ tx[w][id].op = op /\ tx[w][id].step = "exec" /\ tx[w][id].clean
        /\ leased' = [leased EXCEPT ![id] = 0] /\ Settled(w, id)
        /\ UNCHANGED <<clock, pushed, mishaps, owner, finished, removed>>
    BY <1>2 DEF Commits
  <2>2. /\ held'[w][id] = NoHold
        /\ \A v \in Workers, i \in Ids : (v = w /\ i = id) \/ held'[v][i] = held[v][i]
    BY <1>0, <2>1, SettledAt
  <2>3. leased'[id] = 0 /\ bodies'[id] = c
    BY <1>2, <2>1 DEF TypeOK
  <2>4. IsSettled(w, id)
    BY <1>2, <2>1, <2>2, <2>3
       DEF IsSettled, Committing, ParkedSame, PushedSame, MishapsGrow, HeldBut
  <2>5. \A i \in Ids : i # id => Stays(i)
    BY <1>2, <2>1, <2>2, OthersStay
  <2>6. QED
    BY <2>4, <2>5, <2>1 DEF JobsMove, OnlyMoves, OneMove
<1>3. CASE DeleteJob(w, id)
  BY <1>2, <1>3 DEF DeleteJob, Settling
<1>4. CASE ReleaseJob(w, id)
  <2>1. scheduled'[id] = tx[w][id].at
    BY <1>4 DEF ReleaseJob, TypeOK
  <2>2. QED
    BY <1>2, <1>4, <2>1 DEF ReleaseJob, Settling
<1>5. CASE FailJob(w, id)
  BY <1>2, <1>5 DEF FailJob, Settling
<1>6. QED
  BY <1>1, <1>3, <1>4, <1>5 DEF ProcessStep

(* queue:retry puts back or pushes one job, queue:clear deletes a set. *)
LEMMA OperatorJobs ==
  ASSUME TypeOK, Watched, Known, NEW o \in Operators, OperatorStep(o)
  PROVE  JobsMove
<1>. USE DEF store, ghosts, Quiet
<1>0. mishaps \in [Ids -> SUBSET Mishaps] /\ clock \in Nat \ {0}
  BY DEF TypeOK
<1>1. CASE \/ \E id \in Ids : RetryFind(o, id) \/ RetryWatch(o, id) \/ RetryRead(o, id)
           \/ ClearScheduledList(o) \/ ClearLeasedList(o)
  <2>1. UNCHANGED <<scheduled, leased, bodies, parked, owner, pushed, mishaps, clock, held,
                  finished, removed>>
    BY <1>1 DEF RetryFind, RetryWatch, RetryRead, ClearScheduledList, ClearLeasedList, ClearList
  <2>2. QED
    BY <2>1, DropsStay DEF JobsMove, NoneMoves
<1>2. ASSUME NEW id \in Ids, RetryExec(o, id) PROVE JobsMove
  <2>0. /\ UNCHANGED <<leased, owner, pushed, clock, held, finished, removed>>
        /\ cmd[o].ids = {id} /\ cmd[o].step = "exec"
    BY <1>2 DEF RetryExec, At, Of
  <2>1. CASE ~cmd[o].clean
    BY <1>2, <2>0, <2>1, DropsStay DEF JobsMove, NoneMoves, RetryExec
  <2>2. CASE cmd[o].clean
    <3>1. /\ bodies' = [bodies EXCEPT ![id] = 0]
          /\ parked' = parked \ {id}
          /\ scheduled' = [scheduled EXCEPT ![id] = cmd[o].at]
          /\ mishaps' = Marked({id}, "reset")
      BY <1>2, <2>2 DEF RetryExec, ResetAttempts
    <3>2. id \in parked
      BY <2>0, <2>2 DEF Watched
    <3>3. (\A i \in Ids : MishapsGrow(i)) /\ "reset" \in mishaps'[id]
      BY <1>0, <3>1, MarkedAt DEF MishapsGrow, Mishaps
    <3>a. cmd[o].at # 0
      BY <1>0 DEF TypeOK, Cmds
    <3>4. bodies'[id] = 0 /\ scheduled'[id] # 0
      BY <1>0, <3>1, <3>a DEF TypeOK
    <3>5. IsRetried(id)
      BY <2>0, <3>1, <3>2, <3>3, <3>4 DEF IsRetried, PushedSame, HeldSame
    <3>6. \A i \in Ids : i # id => Stays(i)
      BY <2>0, <3>1, <3>3, OthersStay DEF MishapsGrow
    <3>7. QED
      BY <3>5, <3>6, <2>0 DEF JobsMove, OnlyMoves, OneMove
  <2>3. QED
    BY <2>1, <2>2
<1>3. ASSUME NEW id \in Ids, Rebuild(o, id) PROVE JobsMove
  <2>0. /\ UNCHANGED <<leased, parked, owner, pushed, clock, held, finished, removed>>
        /\ cmd[o].ids = {id}
    BY <1>3 DEF Rebuild, Of, Push
  <2>1. CASE "rebuild" \notin Commands
    BY <1>3, <2>0, <2>1, DropsStay DEF JobsMove, NoneMoves, Rebuild
  <2>2. CASE "rebuild" \in Commands
    <3>0. PICK more : more = {"reset"} \cup
               IF scheduled[id] # 0 \/ leased[id] # 0 \/ id \in parked
               THEN {"doubled"} ELSE {}
      OBVIOUS
    <3>1. /\ bodies' = [bodies EXCEPT ![id] = 0]
          /\ scheduled' = [scheduled EXCEPT ![id] = clock]
          /\ mishaps' = [mishaps EXCEPT ![id] = mishaps[id] \cup more]
      BY <1>3, <2>2, <3>0 DEF Rebuild, Push
    <3>2. id \in pushed
      BY <2>0 DEF Known
    <3>3. \A i \in Ids : MishapsGrow(i)
      BY <1>0, <3>1 DEF MishapsGrow
    <3>4. /\ "reset" \in mishaps'[id]
          /\ OnQueue(id) \/ id \in parked => "doubled" \in mishaps'[id]
      BY <1>0, <3>0, <3>1 DEF OnQueue
    <3>5. bodies'[id] = 0 /\ scheduled'[id] # 0
      BY <1>0, <3>1 DEF TypeOK
    <3>6. IsPushed(id)
      BY <2>0, <3>2, <3>3, <3>4, <3>5 DEF IsPushed, ParkedSame, HeldSame
    <3>7. \A i \in Ids : i # id => Stays(i)
      BY <2>0, <3>1, <3>3, OthersStay DEF MishapsGrow
    <3>8. QED
      BY <3>6, <3>7, <2>0 DEF JobsMove, OnlyMoves, OneMove
  <2>3. QED
    BY <2>1, <2>2
<1>4. ASSUME NEW members \in SUBSET Ids, NEW others, Cleared(o, members, others),
             \/ /\ leased' = leased /\ scheduled' = [id \in Ids |-> 0] /\ others = leased
                /\ members = {id \in Ids : scheduled[id] # 0}
             \/ /\ scheduled' = scheduled /\ leased' = [id \in Ids |-> 0] /\ others = scheduled
                /\ members = {id \in Ids : leased[id] # 0}
      PROVE  JobsMove
  <2>0. \A i \in Ids \ members : scheduled'[i] = scheduled[i] /\ leased'[i] = leased[i]
    BY <1>4
  <2>1. /\ bodies' = [i \in Ids |-> IF i \in cmd[o].ids THEN NoBody ELSE bodies[i]]
        /\ mishaps' = Marked(cmd[o].ids \cup members, "cleared")
        /\ UNCHANGED <<parked, pushed, owner, clock, held, finished>>
        /\ removed' = removed \cup {i \in members : others[i] = 0 /\ i \notin parked}
    BY <1>4, ZenonT(30) DEF Cleared
  <2>2. ASSUME NEW i \in Ids
        PROVE  MishapsGrow(i) /\ (i \in cmd[o].ids \cup members => "cleared" \in mishaps'[i])
    BY <1>0, <2>1, MarkedAt DEF MishapsGrow, Mishaps
  <2>3. ASSUME NEW i \in Ids PROVE IsCleared(i)
    <3>1. /\ scheduled'[i] = scheduled[i] \/ scheduled'[i] = 0
          /\ leased'[i] = leased[i] \/ leased'[i] = 0
      BY <1>4
    <3>2. bodies'[i] = IF i \in cmd[o].ids THEN NoBody ELSE bodies[i]
      BY <2>1
    <3>3. QED
      BY <2>0, <2>1, <2>2, <3>1, <3>2 DEF IsCleared, ParkedSame, PushedSame, HeldSame
  <2>4. PICK ids \in SUBSET Ids : ids = {i \in members : others[i] = 0 /\ i \notin parked}
    OBVIOUS
  <2>5. \A i \in ids : i \notin parked /\ scheduled'[i] = 0 /\ leased'[i] = 0
    BY <1>4, <2>4
  <2>6. ASSUME NEW i \in Ids \ ids
        PROVE  i \in parked \/ (OnQueue(i) <=> scheduled'[i] # 0 \/ leased'[i] # 0)
    BY <1>4, <2>0, <2>4 DEF OnQueue
  <2>7. QED
    BY <2>1, <2>3, <2>4, <2>5, <2>6 DEF JobsMove, SetCleared
<1>5. CASE ClearScheduled(o)
  <2>1. PICK members \in SUBSET Ids : members = {id \in Ids : scheduled[id] # 0}
    OBVIOUS
  <2>2. Cleared(o, members, leased) /\ leased' = leased /\ scheduled' = [id \in Ids |-> 0]
    BY <1>5, <2>1 DEF ClearScheduled
  <2>3. QED
    BY <1>4, <2>1, <2>2
<1>6. CASE ClearLeased(o)
  <2>1. PICK members \in SUBSET Ids : members = {id \in Ids : leased[id] # 0}
    OBVIOUS
  <2>2. Cleared(o, members, scheduled) /\ scheduled' = scheduled /\ leased' = [id \in Ids |-> 0]
    BY <1>6, <2>1 DEF ClearLeased
  <2>3. QED
    BY <1>4, <2>1, <2>2
<1>7. QED
  BY <1>1, <1>2, <1>3, <1>5, <1>6 DEF OperatorStep

(* Every step. *)
LEMMA AllJobs ==
  ASSUME TypeOK, Watched, Known, [Next]_vars
  PROVE  JobsMove
<1>. USE DEF store, ghosts
<1>0. /\ mishaps \in [Ids -> SUBSET Mishaps] /\ clock \in Nat \ {0}
      /\ held \in [Workers -> [Ids -> Holdings]]
  BY DEF TypeOK
<1>1. CASE UNCHANGED vars
  BY <1>1, DropsStay DEF vars, JobsMove, NoneMoves
<1>2. CASE Tick
  <2>1. /\ clock' = clock + 1
        /\ UNCHANGED <<scheduled, leased, bodies, parked, owner, pushed, held, finished, removed>>
        /\ mishaps' = Marked({id \in Ids : \E w \in Workers :
                          Holds(w, id) /\ held[w][id].until <= clock + 1}, "overrun")
    BY <1>2 DEF Tick
  <2>2. ASSUME NEW i \in Ids PROVE Stays(i)
    <3>1. MishapsGrow(i)
      BY <1>0, <2>1, MarkedAt, ZenonT(30) DEF MishapsGrow, Mishaps
    <3>2. ASSUME NEW v \in Workers
          PROVE  ~Holds(v, i) \/ clock' < held[v][i].until \/ "overrun" \in mishaps'[i]
      <4>1. held[v][i].until \in Nat
        BY <1>0 DEF Holdings
      <4>2. Holds(v, i) /\ held[v][i].until <= clock + 1 => "overrun" \in mishaps'[i]
        BY <1>0, <2>1, MarkedAt DEF Mishaps
      <4>3. QED
        BY <1>0, <2>1, <4>1, <4>2, Order
    <3>3. QED
      BY <2>1, <3>1, <3>2 DEF Stays, ParkedSame, PushedSame
  <2>3. QED
    BY <2>1, <2>2 DEF JobsMove, NoneMoves
<1>3. ASSUME NEW id \in Ids, PushJob(id) PROVE JobsMove
  <2>1. PICK delay \in Nat : Push(id, clock + delay)
    BY <1>3, RedisAssumption DEF PushJob, Delays
  <2>2. /\ UNCHANGED <<clock, held, mishaps, owner, leased, parked, finished, removed>>
        /\ pushed' = pushed \cup {id} /\ id \notin pushed
        /\ bodies' = [bodies EXCEPT ![id] = 0]
        /\ scheduled' = [scheduled EXCEPT ![id] = clock + delay]
    BY <1>3, <2>1 DEF PushJob, Push
  <2>3. bodies'[id] = 0 /\ scheduled'[id] # 0
    BY <1>0, <2>2, Order, ZenonT(30) DEF TypeOK
  <2>4. IsPushed(id)
    BY <2>2, <2>3 DEF IsPushed, ParkedSame, HeldSame, MishapsGrow
  <2>5. \A i \in Ids : i # id => Stays(i)
    BY <2>2, OthersStay
  <2>6. QED
    BY <2>4, <2>5, <2>2 DEF JobsMove, OnlyMoves, OneMove
<1>4. ASSUME NEW w \in Workers, Crash(w) PROVE JobsMove
  <2>1. \A v \in Workers, i \in Ids : held'[v][i] = held[v][i] \/ held'[v][i] = NoHold
    BY <1>4, AbandonAt DEF Crash
  <2>2. QED
    BY <1>4, <2>1, DropsStay DEF Crash, JobsMove, NoneMoves
<1>5. QED
  BY <1>1, <1>2, <1>3, <1>4, PopJobs, ProcessJobs, OperatorJobs DEF Next

-----------------------------------------------------------------------------
(* The invariants *)

(* OneSet and BodyKept of one job. *)
OneSetAt(id) ==
  Spared(id, {"doubled"}) =>
    /\ ~(scheduled[id] # 0 /\ leased[id] # 0)
    /\ id \in parked => ~OnQueue(id)
BodyKeptAt(id) ==
  Spared(id, {"doubled", "cleared"}) /\ (OnQueue(id) \/ id \in parked)
    => bodies[id] # NoBody

(* What keeps an id in one set: a transaction that can commit still finds  *)
(* it in the set it takes it out of.                                       *)
SetInv == TypeOK /\ Belongs /\ Watched /\ Known /\ OneSet /\ BodyKept

(* An undisturbed delivery has time left. *)
InTime ==
  \A w \in Workers, id \in Ids :
    Holds(w, id) /\ Spared(id, {"overrun"}) => clock < held[w][id].until

(* What keeps a worker alone with its job. *)
LeaseInv == SetInv /\ InTime /\ HeldUnderLease

(* The attempts of a job are the generation of its delivery: those in the  *)
(* body are not behind any delivery's, and a lease with the attempts of a  *)
(* delivery is that delivery's; a claim that can commit brings a newer     *)
(* generation, a settlement that can commit is of the newest.              *)
Newest(id, n) == \A v \in Workers : Holds(v, id) => held[v][id].attempts <= n
GenerationsAt(id) ==
  /\ bodies[id] # NoBody => Newest(id, bodies[id])
  /\ \A w \in Workers :
       /\ Holds(w, id) /\ leased[id] # 0 /\ bodies[id] = held[w][id].attempts
            => owner[id] = w
       /\ tx[w][id].op = "claim" /\ tx[w][id].step = "exec" /\ tx[w][id].clean
            => \A v \in Workers : Holds(v, id) => held[v][id].attempts < tx[w][id].attempts
       /\ tx[w][id].op \in Settling /\ tx[w][id].step = "exec" /\ tx[w][id].clean
            => owner[id] = w /\ Newest(id, held[w][id].attempts)
Generations == \A id \in Ids : Spared(id, {"reset"}) => GenerationsAt(id)

-----------------------------------------------------------------------------
(* The sets *)

(* How a step changes the commands under way, and what is known of. *)
LEMMA AllCommands ==
  ASSUME TypeOK, Belongs, Known, [Next]_vars
  PROVE  /\ \A p \in Operators : CmdMove(p)
         /\ pushed \subseteq pushed' /\ recorded' \subseteq recorded \cup pushed
<1>. USE DEF store, ghosts
<1>0. ASSUME UNCHANGED <<cmd, parked>> PROVE \A p \in Operators : CmdMove(p)
  BY <1>0, ZenonT(30) DEF CmdMove
<1>1. CASE UNCHANGED vars \/ Tick
  BY <1>0, <1>1 DEF vars, Tick
<1>2. ASSUME NEW id \in Ids, PushJob(id)
      PROVE  UNCHANGED <<cmd, parked, recorded>> /\ pushed \subseteq pushed'
  BY <1>2 DEF PushJob, Push
<1>3. ASSUME NEW w \in Workers, PopStep(w) \/ Crash(w)
      PROVE  UNCHANGED <<cmd, parked, recorded, pushed>>
  BY <1>3 DEF PopStep, Crash, PopStart, PopScan, PopReturn, recoverLeaseWatch,
     recoverLeaseExec, claimWatch, claimRead, claimExec
<1>4. ASSUME NEW w \in Workers, NEW id \in Ids, ProcessStep(w, id) \/ SettleError(w, id)
      PROVE  UNCHANGED <<cmd, parked, recorded, pushed>> \/ FailJob(w, id)
  BY <1>4 DEF ProcessStep, SettleError, Finish, settleLeasedWatch, settleLeasedRead,
     DeleteJob, ReleaseJob, SettleAgain, Commits
<1>5. ASSUME NEW w \in Workers, NEW id \in Ids, FailJob(w, id)
      PROVE  /\ \A p \in Operators : CmdMove(p)
             /\ pushed \subseteq pushed' /\ recorded' \subseteq recorded \cup pushed
  <2>1. /\ cmd' = TouchParked /\ pushed' = pushed /\ recorded' = recorded \cup {id}
        /\ tx[w][id].op \in Settling
    BY <1>5 DEF FailJob, Commits, Settling
  <2>2. id \in pushed
    BY <2>1, ZenonT(30) DEF Belongs, Known
  <2>3. \A p \in Operators : CmdMove(p)
    BY <2>1, TouchParkedAt DEF CmdMove, TypeOK
  <2>4. QED
    BY <2>1, <2>2, <2>3
<1>6. ASSUME NEW o \in Operators, OperatorStep(o)
      PROVE  /\ \A p \in Operators : CmdMove(p)
             /\ UNCHANGED <<pushed, recorded>>
  <2>1. UNCHANGED <<pushed, recorded>>
    BY <1>6 DEF OperatorStep, RetryFind, RetryWatch, RetryRead, RetryExec, Rebuild,
       ClearScheduledList, ClearScheduled, ClearLeasedList, ClearLeased, ClearList, Cleared
  <2>2. QED
    BY <1>6, <2>1, RetryTypes, ClearTypes DEF OperatorStep
<1>7. QED
  BY <1>0, <1>1, <1>2, <1>3, <1>4, <1>5, <1>6 DEF Next

(* What a committing transaction took its id out of. *)
LEMMA Took ==
  ASSUME TypeOK, Belongs, Watched, NEW w \in Workers, NEW i \in Ids
  PROVE  /\ IsRecovered(w, i) =>
              /\ leased[i] # 0 /\ leased[i] <= pop[w].now
              /\ pop[w].now # 0 /\ pop[w].now <= clock
         /\ IsClaimed(w, i) =>
              scheduled[i] # 0 /\ pop[w].now # 0 /\ pop[w].now <= clock
         /\ IsSettled(w, i) => leased[i] # 0 /\ Holds(w, i) /\ tx[w][i].at # 0
<1>0. "recover" \notin Settling /\ "claim" \notin Settling
  BY DEF Settling
<1>1. Found(w, i)
  BY DEF Watched
<1>2. /\ tx[w][i].op \in {"recover", "claim"} => pop[w].step = tx[w][i].op
      /\ pop[w].now <= clock /\ (pop[w].step # "idle" => pop[w].now # 0)
      /\ tx[w][i].op \in Settling => Holds(w, i) /\ tx[w][i].at # 0
  BY DEF Belongs
<1>3. CASE IsRecovered(w, i)
  <2>1. tx[w][i].op = "recover" /\ tx[w][i].clean
    BY <1>3 DEF IsRecovered, Committing
  <2>2. QED
    BY <1>0, <1>1, <1>2, <2>1 DEF Found, IsClaimed, IsSettled, Committing
<1>4. CASE IsClaimed(w, i)
  <2>1. tx[w][i].op = "claim" /\ tx[w][i].clean
    BY <1>4 DEF IsClaimed, Committing
  <2>2. QED
    BY <1>0, <1>1, <1>2, <2>1 DEF Found, IsRecovered, IsSettled, Committing
<1>5. CASE IsSettled(w, i)
  <2>1. tx[w][i].op \in Settling /\ tx[w][i].clean /\ tx[w][i].step = "exec"
    BY <1>0, <1>5 DEF IsSettled, Committing
  <2>2. QED
    BY <1>0, <1>1, <1>2, <2>1 DEF Found, IsRecovered, IsClaimed, Committing
<1>6. QED
  BY <1>3, <1>4, <1>5

(* Whatever a step does, each job makes one move. *)
LEMMA EachMoves ==
  ASSUME JobsMove
  PROVE  \A i \in Ids : JobMove(i)
BY DEF JobsMove, JobMove, NoneMoves, OnlyMoves, SetCleared

(* Whatever move a job makes, the mishaps that spare it spared it before. *)
LEMMA SparedBefore ==
  ASSUME NEW i \in Ids, JobMove(i), NEW what, mishaps'[i] \cap what = {}
  PROVE  Spared(i, what)
<1>1. MishapsGrow(i)
  BY DEF JobMove, OneMove, Stays, IsPushed, IsRetried, IsCleared, IsRecovered, IsClaimed,
     IsSettled
<1>2. QED
  BY <1>1 DEF MishapsGrow, Spared

(* A job that was not pushed stays nowhere. *)
LEMMA KnownAt ==
  ASSUME TypeOK, TypeOK', Belongs, Watched, Known, NEW i \in Ids, JobMove(i),
         i \notin pushed', i \notin pushed
  PROVE  /\ scheduled'[i] = 0 /\ leased'[i] = 0 /\ i \notin parked'
         /\ \A v \in Workers : held'[v][i] = NoHold
<1>1. /\ scheduled[i] = 0 /\ leased[i] = 0 /\ i \notin parked
      /\ \A v \in Workers : held[v][i] = NoHold
  BY DEF Known, OnQueue, Holds
<1>2. CASE Stays(i)
  BY <1>1, <1>2 DEF Stays, ParkedSame
<1>3. CASE IsCleared(i)
  BY <1>1, <1>3 DEF IsCleared, ParkedSame, HeldSame
<1>4. CASE IsPushed(i) \/ IsRetried(i)
  BY <1>1, <1>4 DEF IsPushed, IsRetried
<1>5. ASSUME NEW w \in Workers, IsRecovered(w, i) \/ IsClaimed(w, i) \/ IsSettled(w, i)
      PROVE  FALSE
  BY <1>1, <1>5, Took DEF Holds
<1>6. QED
  BY <1>2, <1>3, <1>4, <1>5 DEF JobMove, OneMove

(* Every move keeps a job in one set. *)
LEMMA OneSetStep ==
  ASSUME TypeOK, TypeOK', Belongs, Watched, Known, NEW i \in Ids, JobMove(i),
         OneSetAt(i), mishaps'[i] \cap {"doubled"} = {}
  PROVE  /\ ~(scheduled'[i] # 0 /\ leased'[i] # 0)
         /\ i \in parked' => scheduled'[i] = 0 /\ leased'[i] = 0
<1>1. /\ ~(scheduled[i] # 0 /\ leased[i] # 0)
      /\ i \in parked => scheduled[i] = 0 /\ leased[i] = 0
  BY SparedBefore, ZenonT(30) DEF OneSetAt, OnQueue
<1>2. CASE Stays(i)
  BY <1>1, <1>2 DEF Stays, ParkedSame
<1>3. CASE IsCleared(i)
  BY <1>1, <1>3 DEF IsCleared, ParkedSame
<1>4. CASE IsPushed(i)
  <2>1. ~OnQueue(i) /\ i \notin parked
    BY <1>4 DEF IsPushed, Known
  <2>2. QED
    BY <1>4, <2>1 DEF IsPushed, ParkedSame, OnQueue
<1>5. CASE IsRetried(i)
  BY <1>1, <1>5 DEF IsRetried
<1>6. ASSUME NEW w \in Workers, IsRecovered(w, i)
      PROVE  leased'[i] = 0 /\ i \notin parked'
  BY <1>1, <1>6, Took DEF IsRecovered, ParkedSame
<1>7. ASSUME NEW w \in Workers, IsClaimed(w, i)
      PROVE  scheduled'[i] = 0 /\ i \notin parked'
  BY <1>1, <1>7, Took DEF IsClaimed, ParkedSame
<1>8. ASSUME NEW w \in Workers, IsSettled(w, i)
      PROVE  leased'[i] = 0 /\ (i \in parked' => scheduled'[i] = 0)
  BY <1>1, <1>8, Took DEF IsSettled, ParkedSame
<1>9. QED
  BY <1>2, <1>3, <1>4, <1>5, <1>6, <1>7, <1>8 DEF JobMove, OneMove

(* And keeps its body. *)
LEMMA BodyKeptStep ==
  ASSUME TypeOK, TypeOK', Belongs, Watched, Known, NEW i \in Ids, JobMove(i),
         OneSetAt(i), BodyKeptAt(i), mishaps'[i] \cap {"doubled", "cleared"} = {},
         scheduled'[i] # 0 \/ leased'[i] # 0 \/ i \in parked'
  PROVE  bodies'[i] # NoBody
<1>0. NoBody \notin Nat /\ 0 # NoBody
  BY Order
<1>1. Spared(i, {"doubled"}) /\ Spared(i, {"doubled", "cleared"})
  BY SparedBefore DEF Spared
<1>2. /\ ~(scheduled[i] # 0 /\ leased[i] # 0)
      /\ i \in parked => scheduled[i] = 0 /\ leased[i] = 0
      /\ scheduled[i] # 0 \/ leased[i] # 0 \/ i \in parked => bodies[i] # NoBody
  BY <1>1 DEF OneSetAt, BodyKeptAt, OnQueue
<1>3. CASE Stays(i)
  BY <1>2, <1>3 DEF Stays, ParkedSame
<1>4. CASE IsCleared(i)
  BY <1>2, <1>4 DEF IsCleared, ParkedSame
<1>5. CASE IsPushed(i) \/ IsRetried(i)
  BY <1>0, <1>5 DEF IsPushed, IsRetried
<1>6. ASSUME NEW w \in Workers, IsRecovered(w, i) PROVE bodies'[i] # NoBody
  BY <1>2, <1>6, Took DEF IsRecovered
<1>7. ASSUME NEW w \in Workers, IsClaimed(w, i) PROVE bodies'[i] # NoBody
  <2>1. tx[w][i].attempts \in Nat
    BY Fields
  <2>2. QED
    BY <1>0, <1>7, <2>1, ZenonT(30) DEF IsClaimed
<1>8. ASSUME NEW w \in Workers, IsSettled(w, i) PROVE bodies'[i] # NoBody
  <2>1. held[w][i].attempts \in Nat
    BY Fields
  <2>2. leased[i] # 0
    BY <1>8, Took
  <2>3. QED
    BY <1>0, <1>2, <1>8, <2>1, <2>2, ZenonT(30) DEF IsSettled, ParkedSame
<1>9. QED
  BY <1>3, <1>4, <1>5, <1>6, <1>7, <1>8, ZenonT(30) DEF JobMove, OneMove

(* An empty store is in order. *)
LEMMA SetInit == Init => SetInv
<1>1. SUFFICES ASSUME Init PROVE SetInv
  OBVIOUS
<1>2. /\ \A w \in Workers : pop[w] = Idle
      /\ \A w \in Workers, i \in Ids : tx[w][i] = NoTx /\ held[w][i] = NoHold
      /\ \A o \in Operators : cmd[o] = NoCommand
      /\ \A i \in Ids : scheduled[i] = 0 /\ leased[i] = 0
      /\ parked = {} /\ pushed = {} /\ recorded = {} /\ clock = 1
  BY <1>1 DEF Init
<1>3. Belongs
  <2>1. \A w \in Workers : pop[w].step = "idle" /\ pop[w].now <= clock
    <3>1. 0 <= 1
      BY Order
    <3>2. QED
      BY <1>2, <3>1, Records
  <2>2. \A w \in Workers, i \in Ids : tx[w][i].op = "none"
    BY <1>2, Records
  <2>3. QED
    BY <2>1, <2>2 DEF Belongs, Settling
<1>4. Watched
  BY <1>2, Records DEF Watched, Found, Settling, NoCommand
<1>5. Known
  BY <1>2, Records DEF Known, OnQueue, Holds, NoCommand
<1>6. OneSet /\ BodyKept
  BY <1>2 DEF OneSet, BodyKept, OnQueue
<1>7. QED
  BY <1>1, <1>3, <1>4, <1>5, <1>6, TypeInit DEF SetInv

(* Every step keeps the sets in order. *)
LEMMA SetStep ==
  ASSUME SetInv, [Next]_vars
  PROVE  SetInv'
<1>1. /\ TypeOK /\ Belongs /\ Watched /\ Known
      /\ \A i \in Ids : OneSetAt(i) /\ BodyKeptAt(i)
  BY DEF SetInv, OneSet, BodyKept, OneSetAt, BodyKeptAt
<1>2. TypeOK'
  BY <1>1, TypeStep
<1>3. /\ PopsMove /\ TxsMove /\ clock <= clock' /\ finished \subseteq finished'
      /\ \A i \in Ids : JobMove(i)
  BY <1>1, AllMove, AllJobs, EachMoves
<1>4. /\ \A p \in Operators : CmdMove(p)
      /\ pushed \subseteq pushed' /\ recorded' \subseteq recorded \cup pushed
  BY <1>1, AllCommands
<1>5. Belongs'
  BY <1>1, <1>2, <1>3, BelongsKept DEF PopsMove, TxsMove
<1>6. \A w \in Workers, i \in Ids : Found(w, i)'
  BY <1>1, <1>2, <1>3, FoundKept DEF TxsMove, Watched
<1>7. ASSUME NEW o \in Operators
      PROVE  /\ cmd'[o].step \in {"read", "exec"} /\ cmd'[o].clean => cmd'[o].ids \subseteq parked'
             /\ cmd'[o].ids \subseteq pushed'
  <2>1. /\ cmd[o].step \in {"read", "exec"} /\ cmd[o].clean => cmd[o].ids \subseteq parked
        /\ cmd[o].ids \subseteq pushed /\ recorded \subseteq pushed
        /\ \A i \in Ids : OnQueue(i) => i \in pushed
    BY <1>1 DEF Watched, Known
  <2>2. QED
    BY <1>4, <2>1 DEF CmdMove
<1>8. Watched'
  BY <1>6, <1>7 DEF Watched
<1>9. Known'
  <2>1. recorded' \subseteq pushed'
    BY <1>1, <1>4 DEF Known
  <2>2. ASSUME NEW i \in Ids, i \notin pushed'
        PROVE  /\ scheduled'[i] = 0 /\ leased'[i] = 0 /\ i \notin parked'
               /\ \A v \in Workers : held'[v][i] = NoHold
    BY <1>1, <1>2, <1>3, <1>4, <2>2, KnownAt
  <2>3. QED
    BY <1>7, <2>1, <2>2 DEF Known, OnQueue, Holds
<1>10. OneSet'
  BY <1>1, <1>2, <1>3, OneSetStep, ZenonT(30) DEF OneSet, Spared, OnQueue
<1>11. BodyKept'
  BY <1>1, <1>2, <1>3, BodyKeptStep DEF BodyKept, Spared, OnQueue
<1>12. QED
  BY <1>2, <1>5, <1>8, <1>9, <1>10, <1>11, ZenonT(30) DEF SetInv

(* The sets are always in order. *)
LEMMA SetInvariant == Spec => []SetInv
<1>1. SetInv /\ UNCHANGED vars => SetInv'
  BY SetStep
<1>2. QED
  BY <1>1, SetInit, SetStep, PTL DEF Spec

(* For any jobs, workers and operators, an id is in one of the sorted sets *)
(* unless queue:retry pushed the job beside a copy of itself: a            *)
(* transaction that watches one set can move an id between three.          *)
THEOREM OneSetKept == Spec => []OneSet
<1>1. SetInv => OneSet
  BY DEF SetInv
<1>2. QED
  BY <1>1, SetInvariant, PTL

(* And it has a body, although no transaction watches the bodies, unless a *)
(* Clear took it.                                                          *)
THEOREM BodiesKept == Spec => []BodyKept
<1>1. SetInv => BodyKept
  BY DEF SetInv
<1>2. QED
  BY <1>1, SetInvariant, PTL

-----------------------------------------------------------------------------
(* The lease *)

(* Every move leaves a delivery that is not overrun some time. *)
LEMMA InTimeStep ==
  ASSUME TypeOK, TypeOK', InTime, NEW i \in Ids, JobMove(i), NEW v \in Workers,
         held'[v][i] # NoHold, mishaps'[i] \cap {"overrun"} = {}
  PROVE  clock' < held'[v][i].until
<1>1. Holds(v, i) => clock < held[v][i].until
  BY SparedBefore DEF InTime
<1>2. CASE Stays(i)
  BY <1>1, <1>2 DEF Stays, Holds
<1>3. CASE IsPushed(i) \/ IsRetried(i) \/ IsCleared(i)
  BY <1>1, <1>3 DEF IsPushed, IsRetried, IsCleared, HeldSame, Holds
<1>4. ASSUME NEW w \in Workers, IsRecovered(w, i) PROVE clock' < held'[v][i].until
  BY <1>1, <1>4 DEF IsRecovered, HeldSame, Holds
<1>5. ASSUME NEW w \in Workers, IsClaimed(w, i) PROVE clock' < held'[v][i].until
  BY <1>1, <1>5 DEF IsClaimed, HeldBut, Holds
<1>6. ASSUME NEW w \in Workers, IsSettled(w, i) PROVE clock' < held'[v][i].until
  BY <1>1, <1>6 DEF IsSettled, HeldBut, Holds
<1>7. QED
  BY <1>2, <1>3, <1>4, <1>5, <1>6 DEF JobMove, OneMove

(* A job that is held in time is leased, so that no other transaction than *)
(* its holder's can take it.                                               *)
LEMMA HeldStep ==
  ASSUME LeaseInv, TypeOK', NEW i \in Ids, JobMove(i), NEW v \in Workers,
         held'[v][i] # NoHold,
         mishaps'[i] \cap {"overrun", "cleared", "doubled"} = {}
  PROVE  /\ owner'[i] = v
         /\ leased'[i] = held'[v][i].until
         /\ bodies'[i] = held'[v][i].attempts
<1>0. /\ TypeOK /\ Belongs /\ Watched /\ Known /\ OneSet /\ InTime /\ HeldUnderLease
      /\ clock \in Nat \ {0}
  BY DEF LeaseInv, SetInv, TypeOK
<1>1. Spared(i, {"overrun", "cleared", "doubled"})
  BY SparedBefore
<1>2. Spared(i, {"overrun"}) /\ Spared(i, {"doubled"})
  BY <1>1 DEF Spared
<1>3. ~(scheduled[i] # 0 /\ leased[i] # 0) /\ (i \in parked => leased[i] = 0)
  BY <1>0, <1>2 DEF OneSet, OnQueue
<1>4. ASSUME NEW u \in Workers, Holds(u, i)
      PROVE  /\ owner[i] = u /\ leased[i] = held[u][i].until
             /\ bodies[i] = held[u][i].attempts
             /\ clock < leased[i] /\ leased[i] # 0 /\ leased[i] \in Nat
  <2>1. /\ owner[i] = u /\ leased[i] = held[u][i].until
        /\ bodies[i] = held[u][i].attempts /\ clock < leased[i]
    BY <1>0, <1>1, <1>2, <1>4, ZenonT(30) DEF HeldUnderLease, InTime
  <2>2. leased[i] \in Nat
    BY <1>0 DEF TypeOK
  <2>3. QED
    BY <1>0, <2>1, <2>2, Order
<1>5. CASE Stays(i)
  BY <1>4, <1>5 DEF Stays, Holds
<1>6. CASE IsCleared(i)
  BY <1>4, <1>6 DEF IsCleared, HeldSame, Holds
<1>7. CASE IsPushed(i)
  <2>1. Holds(v, i) /\ ~OnQueue(i)
    BY <1>0, <1>7 DEF IsPushed, HeldSame, Holds, Known
  <2>2. QED
    BY <1>4, <2>1 DEF OnQueue
<1>8. CASE IsRetried(i)
  <2>1. Holds(v, i) /\ leased[i] = 0
    BY <1>3, <1>8 DEF IsRetried, HeldSame, Holds
  <2>2. QED
    BY <1>4, <2>1
<1>9. ASSUME NEW w \in Workers, IsRecovered(w, i) PROVE FALSE
  <2>1. Holds(v, i)
    BY <1>9 DEF IsRecovered, HeldSame, Holds
  <2>2. pop[w].now \in Nat
    BY <1>0 DEF TypeOK, Pops
  <2>3. leased[i] <= pop[w].now /\ pop[w].now <= clock
    BY <1>0, <1>9, Took
  <2>4. QED
    BY <1>0, <1>4, <2>1, <2>2, <2>3, Order
<1>10. ASSUME NEW w \in Workers, IsClaimed(w, i)
       PROVE  /\ owner'[i] = v
              /\ leased'[i] = held'[v][i].until
              /\ bodies'[i] = held'[v][i].attempts
  <2>1. leased[i] = 0
    BY <1>0, <1>3, <1>10, Took
  <2>2. v = w
    BY <1>4, <1>10, <2>1 DEF IsClaimed, HeldBut, Holds
  <2>3. QED
    BY <1>10, <2>2 DEF IsClaimed
<1>11. ASSUME NEW w \in Workers, IsSettled(w, i) PROVE FALSE
  <2>1. Holds(w, i) /\ Holds(v, i) /\ v # w
    BY <1>0, <1>11, Took DEF IsSettled, HeldBut, Holds
  <2>2. QED
    BY <1>4, <2>1
<1>12. QED
  BY <1>5, <1>6, <1>7, <1>8, <1>9, <1>10, <1>11 DEF JobMove, OneMove

(* Nothing is held at first. *)
LEMMA LeaseInit == Init => LeaseInv
<1>1. Init => SetInv
  BY SetInit
<1>2. ASSUME Init PROVE \A w \in Workers, i \in Ids : held[w][i] = NoHold
  BY <1>2 DEF Init
<1>3. QED
  BY <1>1, <1>2 DEF LeaseInv, InTime, HeldUnderLease, Holds

(* Every step keeps the leases. *)
LEMMA LeaseStep ==
  ASSUME LeaseInv, [Next]_vars
  PROVE  LeaseInv'
<1>1. SetInv /\ TypeOK /\ Watched /\ Known /\ InTime
  BY DEF LeaseInv, SetInv
<1>2. SetInv' /\ TypeOK'
  BY <1>1, SetStep DEF SetInv
<1>3. \A i \in Ids : JobMove(i)
  BY <1>1, AllJobs, EachMoves
<1>4. InTime'
  BY <1>1, <1>2, <1>3, InTimeStep DEF InTime, Holds, Spared
<1>5. HeldUnderLease'
  BY <1>2, <1>3, HeldStep DEF HeldUnderLease, Holds, Spared
<1>6. QED
  BY <1>2, <1>4, <1>5 DEF LeaseInv

(* A worker within its lease owns the lease and the attempt count, and is  *)
(* therefore the only one to hold the job, however many race for it.       *)
THEOREM LeaseExcludes == Spec => []HeldUnderLease
<1>1. LeaseInv /\ UNCHANGED vars => LeaseInv'
  BY LeaseStep
<1>2. LeaseInv => HeldUnderLease
  BY DEF LeaseInv
<1>3. QED
  BY <1>1, <1>2, LeaseInit, LeaseStep, PTL DEF Spec

-----------------------------------------------------------------------------
(* The attempt count as a fence *)

(* A second copy of a job starts from zero attempts. *)
CopiesReset == \A i \in Ids : "doubled" \in mishaps[i] => "reset" \in mishaps[i]

(* Only a push by queue:retry makes a copy, and it resets. *)
LEMMA CopiesStep ==
  ASSUME TypeOK, CopiesReset, [Next]_vars
  PROVE  CopiesReset'
<1>. USE DEF store, ghosts
<1>0. mishaps \in [Ids -> SUBSET Mishaps]
  BY DEF TypeOK
<1>1. ASSUME NEW ids, NEW m, m # "doubled", mishaps' = Marked(ids, m) PROVE CopiesReset'
  BY <1>0, <1>1 DEF Marked, CopiesReset
<1>2. CASE mishaps' = mishaps
  BY <1>2 DEF CopiesReset
<1>3. CASE Tick
  BY <1>1, <1>3 DEF Tick
<1>4. ASSUME NEW w \in Workers, PopStep(w)
      PROVE  mishaps' = mishaps \/ \E ids : mishaps' = Marked(ids, "overrun")
  BY <1>4 DEF PopStep, PopStart, PopScan, PopReturn, recoverLeaseWatch,
     recoverLeaseExec, claimWatch, claimRead, claimExec
<1>5. ASSUME NEW w \in Workers, NEW id \in Ids, ProcessStep(w, id) \/ SettleError(w, id)
      PROVE  mishaps' = mishaps
  BY <1>5 DEF ProcessStep, SettleError, Finish, settleLeasedWatch, settleLeasedRead,
     DeleteJob, ReleaseJob, FailJob, SettleAgain, Commits
<1>6. ASSUME NEW o \in Operators, NEW id \in Ids, Rebuild(o, id) PROVE CopiesReset'
  <2>1. CASE mishaps' = mishaps
    BY <1>2, <2>1
  <2>2. CASE mishaps' # mishaps
    <3>1. PICK more : /\ mishaps' = [mishaps EXCEPT ![id] = mishaps[id] \cup {"reset"} \cup more]
      BY <1>6, <2>2 DEF Rebuild
    <3>2. QED
      BY <1>0, <3>1 DEF CopiesReset
  <2>3. QED
    BY <2>1, <2>2
<1>7. ASSUME NEW o \in Operators, OperatorStep(o), \A id \in Ids : ~Rebuild(o, id)
      PROVE  \/ mishaps' = mishaps
             \/ \E ids : mishaps' = Marked(ids, "reset") \/ mishaps' = Marked(ids, "cleared")
  BY <1>7 DEF OperatorStep, RetryFind, RetryWatch, RetryRead, RetryExec,
     ClearScheduledList, ClearScheduled, ClearLeasedList, ClearLeased, ClearList, Cleared
<1>8. CASE UNCHANGED vars \/ (\E id \in Ids : PushJob(id)) \/ (\E w \in Workers : Crash(w))
  <2>1. mishaps' = mishaps
    BY <1>8 DEF vars, PushJob, Crash
  <2>2. QED
    BY <1>2, <2>1
<1>9. ASSUME NEW w \in Workers, PopStep(w) PROVE CopiesReset'
  BY <1>1, <1>2, <1>4, <1>9
<1>10. ASSUME NEW o \in Operators, OperatorStep(o) PROVE CopiesReset'
  BY <1>1, <1>2, <1>6, <1>7, <1>10
<1>11. QED
  BY <1>2, <1>3, <1>5, <1>8, <1>9, <1>10 DEF Next

(* Deliveries of a job end, unless a worker claims it. *)
LEMMA NoNewHolder ==
  ASSUME NEW i \in Ids, JobMove(i), \A u \in Workers : ~IsClaimed(u, i)
  PROVE  /\ \A v \in Workers : held'[v][i] = held[v][i] \/ held'[v][i] = NoHold
         /\ owner'[i] = owner[i]
<1>1. CASE Stays(i) \/ IsPushed(i) \/ IsRetried(i) \/ IsCleared(i)
  BY <1>1 DEF Stays, IsPushed, IsRetried, IsCleared, HeldSame
<1>2. ASSUME NEW w \in Workers, IsRecovered(w, i)
      PROVE  HeldSame(i) /\ owner'[i] = owner[i]
  BY <1>2 DEF IsRecovered
<1>3. ASSUME NEW w \in Workers, IsSettled(w, i)
      PROVE  /\ \A v \in Workers : held'[v][i] = held[v][i] \/ held'[v][i] = NoHold
             /\ owner'[i] = owner[i]
  BY <1>3 DEF IsSettled, HeldBut
<1>4. QED
  BY <1>1, <1>2, <1>3 DEF JobMove, OneMove, HeldSame

(* The stored attempts are never behind those of a delivery, and a lease   *)
(* with the attempts of a delivery is that delivery's.                     *)
LEMMA BodyGenerations ==
  ASSUME SetInv, TypeOK', NEW i \in Ids, JobMove(i), GenerationsAt(i),
         mishaps'[i] \cap {"reset"} = {}, NEW v \in Workers, held'[v][i] # NoHold
  PROVE  /\ bodies'[i] # NoBody => held'[v][i].attempts <= bodies'[i]
         /\ leased'[i] # 0 /\ bodies'[i] = held'[v][i].attempts => owner'[i] = v
<1>0. /\ TypeOK /\ Belongs /\ Watched /\ Known
      /\ "reset" \notin mishaps'[i]
  BY DEF SetInv
<1>1. \A u \in Workers : held[u][i].attempts \in Nat
  BY <1>0, Fields
<1>2. NoBody \notin Nat
  BY Order
<1>3. ASSUME NEW u \in Workers, Holds(u, i)
      PROVE  /\ bodies[i] # NoBody => held[u][i].attempts <= bodies[i]
             /\ leased[i] # 0 /\ bodies[i] = held[u][i].attempts => owner[i] = u
  BY <1>3 DEF GenerationsAt, Newest
<1>4. CASE Stays(i)
  BY <1>3, <1>4 DEF Stays, Holds
<1>5. CASE IsCleared(i)
  BY <1>1, <1>2, <1>3, <1>5 DEF IsCleared, HeldSame, Holds
<1>6. CASE IsPushed(i) \/ IsRetried(i)
  BY <1>0, <1>6 DEF IsPushed, IsRetried, HeldSame, Known, Holds
<1>7. ASSUME NEW w \in Workers, IsRecovered(w, i)
      PROVE  /\ bodies'[i] # NoBody => held'[v][i].attempts <= bodies'[i]
             /\ leased'[i] = 0
  BY <1>3, <1>7 DEF IsRecovered, HeldSame, Holds
<1>8. ASSUME NEW w \in Workers, IsClaimed(w, i)
      PROVE  /\ held'[v][i].attempts <= bodies'[i]
             /\ bodies'[i] = held'[v][i].attempts => owner'[i] = v
  <2>0. tx[w][i].attempts \in Nat
    BY <1>0, Fields
  <2>1. tx[w][i].op = "claim" /\ tx[w][i].step = "exec" /\ tx[w][i].clean
    BY <1>8 DEF IsClaimed, Committing
  <2>2. \A u \in Workers : Holds(u, i) => held[u][i].attempts < tx[w][i].attempts
    BY <2>1 DEF GenerationsAt
  <2>3. CASE v = w
    <3>1. held'[w][i].attempts = tx[w][i].attempts /\ bodies'[i] = tx[w][i].attempts /\ owner'[i] = w
      BY <1>8 DEF IsClaimed
    <3>2. QED
      BY <2>0, <2>3, <3>1, Order
  <2>4. CASE v # w
    <3>1. held'[v][i] = held[v][i] /\ bodies'[i] = tx[w][i].attempts
      BY <1>8, <2>4 DEF IsClaimed, HeldBut
    <3>2. held[v][i].attempts < tx[w][i].attempts
      BY <2>2, <3>1 DEF Holds
    <3>3. QED
      BY <1>1, <2>0, <3>1, <3>2, Order
  <2>5. QED
    BY <2>3, <2>4, ZenonT(30)
<1>9. ASSUME NEW w \in Workers, IsSettled(w, i)
      PROVE  /\ bodies'[i] # NoBody => held'[v][i].attempts <= bodies'[i]
             /\ leased'[i] = 0
  <2>1. tx[w][i].op \in Settling /\ tx[w][i].step = "exec" /\ tx[w][i].clean
    BY <1>9 DEF IsSettled, Committing, Settling
  <2>2. \A u \in Workers : Holds(u, i) => held[u][i].attempts <= held[w][i].attempts
    BY <2>1 DEF GenerationsAt, Newest
  <2>3. Holds(v, i) /\ held'[v][i] = held[v][i]
    BY <1>9 DEF IsSettled, HeldBut, Holds
  <2>4. leased'[i] = 0 /\ (bodies'[i] = NoBody \/ bodies'[i] = held[w][i].attempts)
    BY <1>9 DEF IsSettled
  <2>5. QED
    BY <2>2, <2>3, <2>4
<1>10. QED
  BY <1>4, <1>5, <1>6, <1>7, <1>8, <1>9 DEF JobMove, OneMove

(* A claim that can commit has read a count above every delivery's, and a  *)
(* settlement that can commit is that of the latest delivery.              *)
LEMMA TxGenerations ==
  ASSUME SetInv, SetInv', CopiesReset, NEW i \in Ids, JobMove(i), GenerationsAt(i),
         mishaps'[i] \cap {"reset"} = {}, NEW w \in Workers, TxMove(w, i),
         tx'[w][i].step = "exec", tx'[w][i].clean
  PROVE  /\ tx'[w][i].op = "claim" => \A v \in Workers :
              held'[v][i] # NoHold => held'[v][i].attempts < tx'[w][i].attempts
         /\ tx'[w][i].op \in Settling =>
              /\ owner'[i] = w
              /\ \A v \in Workers :
                   held'[v][i] # NoHold => held'[v][i].attempts <= held'[w][i].attempts
<1>0. /\ TypeOK /\ Belongs /\ Watched /\ OneSet /\ Found(w, i) /\ Found(w, i)'
      /\ "claim" \notin Settling /\ "none" \notin Settling /\ "recover" \notin Settling
  BY DEF SetInv, Watched, Settling
<1>1. /\ \A u \in Workers : held[u][i].attempts \in Nat
      /\ bodies[i] \in Nat \cup {NoBody} /\ NoBody \notin Nat
  <2>1. TypeOK
    BY <1>0
  <2>2. \A u \in Workers : held[u][i].attempts \in Nat
    BY <2>1, ZenonT(30) DEF TypeOK, Holdings
  <2>3. bodies[i] \in Nat \cup {NoBody} /\ NoBody \notin Nat
    BY <2>1, Order DEF TypeOK
  <2>4. QED
    BY <2>2, <2>3
<1>2. Spared(i, {"reset"}) /\ Spared(i, {"doubled"})
  <2>1. Spared(i, {"reset"})
    BY SparedBefore DEF Spared
  <2>2. QED
    BY <2>1 DEF Spared, CopiesReset
<1>3. ~(scheduled[i] # 0 /\ leased[i] # 0)
  BY <1>0, <1>2 DEF OneSet
<1>4. ASSUME NEW u \in Workers, IsClaimed(u, i)
      PROVE  scheduled[i] # 0 /\ scheduled'[i] = 0 /\ leased[i] = 0
  BY <1>0, <1>3, <1>4, Took DEF IsClaimed
<1>5. ASSUME \A u \in Workers : ~IsClaimed(u, i)
      PROVE  /\ \A v \in Workers : held'[v][i] = held[v][i] \/ held'[v][i] = NoHold
             /\ owner'[i] = owner[i]
  BY <1>5, NoNewHolder
<1>6. CASE Over(w, i)
  BY <1>0, <1>6, Records DEF Over
<1>7. CASE Kept(w, i)
  <2>1. /\ tx'[w][i].op = tx[w][i].op /\ tx[w][i].step = "exec"
        /\ tx'[w][i].attempts = tx[w][i].attempts /\ tx[w][i].clean
    BY <1>7 DEF Kept
  <2>2. CASE tx[w][i].op = "claim"
    <3>1. scheduled' = scheduled
      BY <1>7, <2>2 DEF Kept, Watches, Settling
    <3>2. \A u \in Workers : ~IsClaimed(u, i)
      BY <1>4, <3>1
    <3>3. \A v \in Workers : Holds(v, i) => held[v][i].attempts < tx[w][i].attempts
      BY <2>1, <2>2 DEF GenerationsAt
    <3>4. QED
      BY <1>0, <1>5, <2>1, <2>2, <3>2, <3>3 DEF Holds
  <2>3. CASE tx[w][i].op \in Settling
    <3>1. leased[i] # 0 /\ held'[w][i] = held[w][i]
      BY <1>0, <1>7, <2>1, <2>3 DEF Kept, Found
    <3>2. \A u \in Workers : ~IsClaimed(u, i)
      BY <1>4, <3>1
    <3>3. /\ owner[i] = w
          /\ \A v \in Workers : Holds(v, i) => held[v][i].attempts <= held[w][i].attempts
      BY <2>1, <2>3 DEF GenerationsAt, Newest
    <3>4. QED
      BY <1>0, <1>5, <2>1, <2>3, <3>1, <3>2, <3>3 DEF Holds
  <2>4. QED
    BY <2>1, <2>2, <2>3
<1>8. CASE Reads(w, i)
  <2>1. scheduled' = scheduled /\ held'[w][i] = held[w][i]
    BY <1>8 DEF Reads
  <2>2. \A u \in Workers : ~IsClaimed(u, i)
    BY <1>4, <2>1
  <2>3. CASE tx'[w][i].op = "claim"
    <3>1. bodies[i] # NoBody /\ tx'[w][i].attempts = bodies[i] + 1
      BY <1>0, <1>8, <2>3 DEF Reads
    <3>2. \A v \in Workers : Holds(v, i) => held[v][i].attempts <= bodies[i]
      BY <3>1 DEF GenerationsAt, Newest
    <3>3. \A v \in Workers : Holds(v, i) => held[v][i].attempts < bodies[i] + 1
      BY <1>1, <3>1, <3>2, Order
    <3>4. QED
      BY <1>0, <1>5, <2>2, <2>3, <3>1, <3>3 DEF Holds
  <2>4. CASE tx'[w][i].op \in Settling
    <3>1. /\ Holds(w, i) /\ tx[w][i].clean /\ bodies[i] = held[w][i].attempts
          /\ tx[w][i].op \in Settling /\ tx[w][i].step = "read"
      BY <1>0, <1>8, <2>4 DEF Reads
    <3>2. leased[i] # 0
      BY <1>0, <3>1 DEF Found
    <3>3. owner[i] = w
      BY <3>1, <3>2 DEF GenerationsAt
    <3>4. \A v \in Workers : Holds(v, i) => held[v][i].attempts <= held[w][i].attempts
      <4>1. bodies[i] # NoBody
        BY <1>1, <3>1
      <4>2. Newest(i, bodies[i])
        BY <4>1 DEF GenerationsAt
      <4>3. QED
        BY <3>1, <4>2 DEF Newest
    <3>5. QED
      BY <1>0, <1>5, <2>1, <2>2, <2>4, <3>3, <3>4 DEF Holds
  <2>5. QED
    BY <2>3, <2>4
<1>9. QED
  BY <1>6, <1>7, <1>8 DEF TxMove

(* What makes the attempts a fence. *)
FenceInv == SetInv /\ CopiesReset /\ Generations

(* No generation has begun. *)
LEMMA FenceInit == Init => FenceInv
<1>1. SUFFICES ASSUME Init PROVE FenceInv
  OBVIOUS
<1>2. /\ \A i \in Ids : mishaps[i] = {} /\ bodies[i] = NoBody
      /\ \A w \in Workers, i \in Ids : held[w][i] = NoHold /\ tx[w][i] = NoTx
  BY <1>1 DEF Init
<1>3. CopiesReset
  BY <1>2 DEF CopiesReset
<1>4. Generations
  BY <1>2, Records DEF Generations, GenerationsAt, Newest, Holds, Settling
<1>5. QED
  BY <1>1, <1>3, <1>4, SetInit DEF FenceInv

(* Every step keeps the generations. *)
LEMMA FenceStep ==
  ASSUME FenceInv, [Next]_vars
  PROVE  FenceInv'
<1>1. SetInv /\ CopiesReset /\ TypeOK /\ Belongs /\ Watched /\ Known
  BY DEF FenceInv, SetInv
<1>2. SetInv' /\ TypeOK' /\ CopiesReset'
  BY <1>1, SetStep, CopiesStep DEF SetInv
<1>3. /\ \A i \in Ids : JobMove(i)
      /\ \A w \in Workers, i \in Ids : TxMove(w, i)
  BY <1>1, AllMove, AllJobs, EachMoves DEF TxsMove
<1>4. ASSUME NEW i \in Ids, mishaps'[i] \cap {"reset"} = {}
      PROVE  GenerationsAt(i)'
  <2>1. GenerationsAt(i)
    BY <1>3, <1>4, SparedBefore DEF FenceInv, Generations, GenerationsAt
  <2>2. ASSUME NEW v \in Workers, held'[v][i] # NoHold
        PROVE  /\ bodies'[i] # NoBody => held'[v][i].attempts <= bodies'[i]
               /\ leased'[i] # 0 /\ bodies'[i] = held'[v][i].attempts => owner'[i] = v
    BY <1>1, <1>2, <1>3, <1>4, <2>1, <2>2, BodyGenerations
  <2>3. ASSUME NEW w \in Workers, tx'[w][i].step = "exec", tx'[w][i].clean
        PROVE  /\ tx'[w][i].op = "claim" => \A v \in Workers :
                    held'[v][i] # NoHold => held'[v][i].attempts < tx'[w][i].attempts
               /\ tx'[w][i].op \in Settling =>
                    /\ owner'[i] = w
                    /\ \A v \in Workers :
                         held'[v][i] # NoHold => held'[v][i].attempts <= held'[w][i].attempts
    BY <1>1, <1>2, <1>3, <1>4, <2>1, <2>3, TxGenerations
  <2>4. QED
    BY <2>2, <2>3 DEF GenerationsAt, Newest, Holds
<1>5. Generations'
  BY <1>4 DEF Generations, GenerationsAt, Spared
<1>6. QED
  BY <1>1, <1>2, <1>5 DEF FenceInv

(* settleLeased's comparison of attempts does what its comment claims, as  *)
(* long as Retry has not set them back: whoever ends a lease made it.      *)
THEOREM Fenced == Spec => FencedByAttempts
<1>1. FenceInv /\ UNCHANGED vars => FenceInv'
  BY FenceStep
<1>2. FenceInv => \A w \in Workers, id \in Ids :
                    Settles(w, id) /\ Spared(id, {"reset"}) => owner[id] = w
  BY DEF FenceInv, Generations, GenerationsAt, Settles
<1>3. QED
  BY <1>1, <1>2, FenceInit, FenceStep, PTL DEF Spec, FencedByAttempts

-----------------------------------------------------------------------------
(* The refinement *)

(* The status of a job in the lifecycle, before and after a step. *)
Status(i) == IF i \in parked THEN "parked" ELSE IF OnQueue(i) THEN "live" ELSE "none"
StatusNext(i) ==
  IF i \in parked' THEN "parked"
  ELSE IF scheduled'[i] # 0 \/ leased'[i] # 0 THEN "live" ELSE "none"

(* A job that stays keeps its status. *)
LEMMA StaysStatus ==
  ASSUME NEW i \in Ids, Stays(i)
  PROVE  StatusNext(i) = Status(i)
BY DEF Stays, ParkedSame, StatusNext, Status, OnQueue

(* A job that moves alone is accepted, deleted when done, parked, put back *)
(* or stays where it is.                                                   *)
LEMMA OneStatus ==
  ASSUME SetInv, NEW i \in Ids, OneMove(i)
  PROVE  \/ StatusNext(i) = Status(i)
         \/ Status(i) = "none" /\ StatusNext(i) = "live"
         \/ i \in finished /\ StatusNext(i) = "none"
         \/ Status(i) = "live" /\ StatusNext(i) = "parked"
         \/ Status(i) = "parked" /\ StatusNext(i) = "live"
<1>0. TypeOK /\ Belongs /\ Watched
  BY DEF SetInv
<1>1. CASE IsPushed(i)
  BY <1>1 DEF IsPushed, ParkedSame, Status, StatusNext
<1>2. CASE IsRetried(i)
  BY <1>2 DEF IsRetried, Status, StatusNext
<1>3. ASSUME NEW w \in Workers, IsRecovered(w, i) PROVE StatusNext(i) = Status(i)
  <2>1. leased[i] # 0 /\ pop[w].now # 0
    BY <1>0, <1>3, Took
  <2>2. QED
    BY <1>3, <2>1 DEF IsRecovered, ParkedSame, Status, StatusNext, OnQueue
<1>4. ASSUME NEW w \in Workers, IsClaimed(w, i) PROVE StatusNext(i) = Status(i)
  <2>1. scheduled[i] # 0 /\ pop[w].now # 0
    BY <1>0, <1>4, Took
  <2>2. pop[w].now + Lease # 0
    <3>1. pop[w].now \in Nat
      BY <1>0 DEF TypeOK, Pops
    <3>2. QED
      BY <2>1, <3>1, RedisAssumption, Order
  <2>3. QED
    BY <1>4, <2>1, <2>2 DEF IsClaimed, ParkedSame, Status, StatusNext, OnQueue
<1>5. ASSUME NEW w \in Workers, IsSettled(w, i)
      PROVE  \/ StatusNext(i) = Status(i)
             \/ i \in finished /\ StatusNext(i) = "none"
             \/ Status(i) = "live" /\ StatusNext(i) = "parked"
  <2>1. leased[i] # 0 /\ tx[w][i].at # 0
    BY <1>0, <1>5, Took
  <2>2. tx[w][i].op = "delete" => i \in finished
    BY <1>0 DEF Belongs
  <2>3. QED
    BY <1>5, <2>1, <2>2 DEF IsSettled, ParkedSame, Status, StatusNext, OnQueue
<1>6. QED
  BY <1>1, <1>2, <1>3, <1>4, <1>5 DEF OneMove

(* Every step maps to a step of the lifecycle or to a stutter. *)
LEMMA LifecycleStep ==
  ASSUME SetInv, [Next]_vars
  PROVE  [Lifecycle!Next]_Lifecycle!vars
<1>. DEFINE st == [id \in Ids |-> IF id \in parked THEN "parked"
                                  ELSE IF OnQueue(id) THEN "live" ELSE "none"]
            st2 == [id \in Ids |-> IF id \in parked' THEN "parked"
                                   ELSE IF OnQueue(id)' THEN "live" ELSE "none"]
<1>1. /\ \A i \in Ids : st[i] = Status(i) /\ st2[i] = StatusNext(i)
      /\ st = [i \in Ids |-> st[i]] /\ st2 = [i \in Ids |-> st2[i]]
  BY DEF Status, StatusNext, OnQueue
<1>2. JobsMove
  BY AllJobs DEF SetInv
<1>3. CASE NoneMoves
  <2>1. st2 = st /\ removed' = removed
    BY <1>1, <1>3, StaysStatus DEF NoneMoves
  <2>2. CASE finished' = finished
    BY <2>1, <2>2 DEF Lifecycle!vars
  <2>3. ASSUME NEW id \in Ids, finished' = finished \cup {id}
        PROVE  [Lifecycle!Next]_Lifecycle!vars
    <3>1. Lifecycle!Finish(id)
      BY <2>1, <2>3 DEF Lifecycle!Finish
    <3>2. QED
      BY <3>1 DEF Lifecycle!Next
  <2>4. QED
    BY <1>3, <2>2, <2>3 DEF NoneMoves
<1>4. ASSUME NEW id \in Ids, OnlyMoves(id) PROVE [Lifecycle!Next]_Lifecycle!vars
  <2>1. /\ \A i \in Ids : i # id => st2[i] = st[i]
        /\ UNCHANGED <<finished, removed>>
    BY <1>1, <1>4, StaysStatus DEF OnlyMoves
  <2>2. \/ st2[id] = st[id]
        \/ st[id] = "none" /\ st2[id] = "live"
        \/ id \in finished /\ st2[id] = "none"
        \/ st[id] = "live" /\ st2[id] = "parked"
        \/ st[id] = "parked" /\ st2[id] = "live"
    BY <1>1, <1>4, OneStatus DEF OnlyMoves
  <2>3. st2 = [st EXCEPT ![id] = st2[id]]
    BY <1>1, <2>1
  <2>4. \/ st2 = st \/ Lifecycle!Accept(id) \/ Lifecycle!Delete(id)
        \/ Lifecycle!FailJob(id) \/ Lifecycle!Retry(id)
    <3>1. /\ Lifecycle!Accept(id) = (/\ st[id] = "none" /\ st2 = [st EXCEPT ![id] = "live"]
                                     /\ UNCHANGED <<finished, removed>>)
          /\ Lifecycle!Delete(id) = (/\ id \in finished /\ st2 = [st EXCEPT ![id] = "none"]
                                     /\ UNCHANGED <<finished, removed>>)
          /\ Lifecycle!FailJob(id) = (/\ st[id] = "live" /\ st2 = [st EXCEPT ![id] = "parked"]
                                      /\ UNCHANGED <<finished, removed>>)
          /\ Lifecycle!Retry(id) = (/\ st[id] = "parked" /\ st2 = [st EXCEPT ![id] = "live"]
                                    /\ UNCHANGED <<finished, removed>>)
      BY DEF Lifecycle!Accept, Lifecycle!Delete, Lifecycle!FailJob, Lifecycle!Retry,
             Lifecycle!Move
    <3>. HIDE DEF st, st2
    <3>2. QED
      BY <1>1, <2>1, <2>2, <2>3, <3>1
  <2>5. QED
    BY <2>1, <2>4 DEF Lifecycle!Next, Lifecycle!vars
<1>5. CASE SetCleared
  <2>1. PICK ids \in SUBSET Ids :
          /\ removed' = removed \cup ids
          /\ \A i \in ids : i \notin parked /\ scheduled'[i] = 0 /\ leased'[i] = 0
          /\ \A i \in Ids \ ids :
               \/ i \in parked
               \/ OnQueue(i) <=> scheduled'[i] # 0 \/ leased'[i] # 0
    BY <1>5 DEF SetCleared
  <2>2. \A i \in Ids : StatusNext(i) = IF i \in ids THEN "none" ELSE Status(i)
    BY <1>5, <2>1 DEF SetCleared, IsCleared, ParkedSame, StatusNext, Status
  <2>3. st2 = [i \in Ids |-> IF i \in ids THEN "none" ELSE st[i]]
    BY <1>1, <2>2
  <2>4. Lifecycle!Remove(ids)
    BY <1>5, <2>1, <2>3 DEF Lifecycle!Remove, SetCleared
  <2>5. QED
    BY <2>4 DEF Lifecycle!Next
<1>6. QED
  BY <1>2, <1>3, <1>4, <1>5, ZenonT(30) DEF JobsMove

(* The RESP driver implements the contract of a queue driver, whatever     *)
(* crashes, collides, is retried or cleared: a job leaves its queue only   *)
(* done, given up or removed, and the dead letters only by Retry, or when  *)
(* a copy of it is done.                                                   *)
THEOREM RedisRefinement == Spec => ImplementsLifecycle
<1>1. Init => Lifecycle!Init
  BY DEF Init, Lifecycle!Init, OnQueue
<1>2. QED
  BY <1>1, SetInvariant, LifecycleStep, PTL
     DEF Spec, ImplementsLifecycle, Lifecycle!Spec

=============================================================================
