-------------------------- MODULE SchedulerProofs --------------------------
(* What the scheduler's locks guarantee, for any number of replicas, console *)
(* processes and tenants, any ttl and any length of the day: runs under      *)
(* WithoutOverlapping never overlap, and a window that has one winner is     *)
(* run by one process.                                                       *)
EXTENDS Scheduler, FiniteSetTheorems, TLAPS

----------------------------------------------------------------------------
(* Types                                                                    *)

Steps ==
    {"asleep", "idle", "filter", "probing", "claim", "create", "start", "running", "repeat"}

Passes ==
    [at: Steps, job: {"tick", "test", "clear"}, window: Minutes, tenant: Tenants,
     mine: {"unasked", "yes", "no"}]

LockType == [owner: (Procs \X {"run", "probe"}) \union {None}, left: Nat]

RunType == [by: Procs, tenant: Tenants, background: BOOLEAN, left: Nat]

Types ==
    /\ setup \in Setups /\ minute \in Minutes
    /\ mutex \in LockType
    /\ claims \in [Names -> Nat]
    /\ proc \in [Procs -> Passes]
    /\ \A p \in Procs : held[p] \in {None, <<p, "run">>}
    /\ DOMAIN held = Procs
    /\ runs \subseteq RunType
    /\ ran \in [Minutes -> SUBSET (Procs \X Tenants)]
    /\ late \subseteq Minutes /\ overwrote \in BOOLEAN

\* A replica only ever makes passes, and gets to the run of an event that is
\* declared OnOneServer only with the claim of the window.
Passing ==
    \A p \in Replicas :
        /\ proc[p].job = "tick"
        /\ setup.server /\ proc[p].at \in {"create", "start", "running"} => proc[p].mine = "yes"

\* The process goes on to one of the steps in its pass, or is done.
Goes(p, steps) ==
    /\ proc' \in [Procs -> Passes]
    /\ \A q \in Procs : q # p => proc'[q] = proc[q]
    /\ \/ proc'[p] = Rest
       \/ /\ proc'[p].at \in steps
          /\ proc'[p].job = proc[p].job /\ proc'[p].window = proc[p].window
          /\ proc'[p].mine = proc[p].mine

\* The constants.
LEMMA Constants ==
    /\ Day \in Nat \ {0} /\ MutexTtl \in Nat \ {0} /\ ClaimTtl \in Nat \ {0}
    /\ ClaimTtl < Day /\ 0 \in Minutes /\ Minutes \subseteq Nat
    /\ \A p \in Replicas : p \notin Operators
    /\ \A s \in Setups : s \in SetupType
    /\ \A s \in Setups : s.singleton => ~s.overlap /\ ~s.server
BY SchedulerAssumption DEF Minutes

\* The tenants an event may be expanded for.
LEMMA TenantsOf ==
    ASSUME NEW s \in Setups, NEW n \in Nat, 1 <= n, n <= s.tenants
    PROVE  n \in Tenants
<1>1. s.tenants \in Nat
  BY Constants DEF SetupType
<1>2. n \in 1..s.tenants
  BY <1>1
<1>3. QED
  BY <1>2 DEF Tenants

\* A process at rest.
LEMMA RestPass ==
    ASSUME setup \in Setups
    PROVE  /\ Rest \in Passes /\ Rest.at = "asleep" /\ Rest.job = "tick" /\ Rest.mine = "unasked"
           /\ Idle \in Passes /\ Idle.at = "idle" /\ Idle.job = "tick" /\ Idle.mine = "unasked"
<1>1. 1 \in Tenants
  <2>1. setup.tenants \in Nat \ {0}
    BY Constants DEF SetupType
  <2>2. QED
    BY <2>1, TenantsOf
<1>2. QED
  BY <1>1, Constants DEF Rest, Idle, Passes, Steps

\* Handles of different processes, and probes, are different tokens.
LEMMA Tokens ==
    /\ \A p : <<p, "run">> # None /\ <<p, "probe">> # None
    /\ \A p, q : <<p, "run">> # <<q, "probe">>
    /\ \A p, q : <<p, "run">> = <<q, "run">> => p = q
BY DEF None

----------------------------------------------------------------------------
(* What a step does to the pass of its process                              *)

\* Goto moves one pass and leaves its other fields alone.
LEMMA GotoGoes ==
    ASSUME Types, NEW p \in Procs, NEW step \in Steps, Goto(p, step)
    PROVE  Goes(p, {step})
<1>1. proc \in [Procs -> Passes]
  BY DEF Types
<1>2. QED
  BY <1>1 DEF Goto, Goes, Passes

\* Done ends one.
LEMMA DoneGoes ==
    ASSUME Types, NEW p \in Procs, Done(p)
    PROVE  Goes(p, {}) /\ proc'[p] = Rest
<1>1. proc \in [Procs -> Passes] /\ Rest \in Passes
  BY RestPass DEF Types
<1>2. QED
  BY <1>1 DEF Done, Goes

\* After a tenant's run the pass goes on to the next tenant or round, or ends.
LEMMA AfterRunGoes ==
    ASSUME Types, NEW p \in Procs, AfterRun(p)
    PROVE  Goes(p, {"create", "repeat"})
<1>1. proc \in [Procs -> Passes] /\ Rest \in Passes /\ setup \in Setups /\ 1 \in Tenants
  BY RestPass DEF Types, Rest, Idle, Passes
<1>2. PICK pass \in Passes : pass = proc[p]
  BY <1>1
<1>3. CASE pass.job = "tick" /\ pass.tenant < setup.tenants
  <2>1. proc' = [proc EXCEPT ![p] = [pass EXCEPT !.at = "create", !.tenant = pass.tenant + 1]]
    BY <1>2, <1>3 DEF AfterRun
  <2>2. pass.tenant + 1 \in Tenants
    <3>1. PICK s \in Setups : pass.tenant \in 1..s.tenants
      BY DEF Passes, Tenants
    <3>2. s.tenants \in Nat /\ setup.tenants \in Nat
      BY <1>1, Constants DEF SetupType
    <3>3. pass.tenant \in Nat /\ 1 <= pass.tenant + 1 /\ pass.tenant + 1 <= setup.tenants
      BY <1>3, <3>1, <3>2
    <3>4. QED
      BY <1>1, <3>3, TenantsOf
  <2>3. [pass EXCEPT !.at = "create", !.tenant = pass.tenant + 1] \in Passes
    BY Zenon, <2>2 DEF Passes, Steps
  <2>4. QED
    BY <1>1, <1>2, <2>1, <2>3 DEF Goes, Passes
<1>4. CASE ~(pass.job = "tick" /\ pass.tenant < setup.tenants) /\ pass.job = "tick" /\ setup.repeat
  <2>1. proc' = [proc EXCEPT ![p] = [pass EXCEPT !.at = "repeat", !.tenant = 1]]
    BY <1>2, <1>4 DEF AfterRun
  <2>2. [pass EXCEPT !.at = "repeat", !.tenant = 1] \in Passes
    BY Zenon, <1>1 DEF Passes, Steps
  <2>3. QED
    BY <1>1, <1>2, <2>1, <2>2 DEF Goes, Passes
<1>5. CASE ~(pass.job = "tick" /\ pass.tenant < setup.tenants) /\ ~(pass.job = "tick" /\ setup.repeat)
  <2>1. proc' = [proc EXCEPT ![p] = Rest]
    BY Zenon, <1>2, <1>5 DEF AfterRun
  <2>2. QED
    BY <1>1, <2>1 DEF Goes
<1>6. QED
  BY <1>3, <1>4, <1>5

\* A skipped pass goes on to the next round, or ends.
LEMMA SkipGoes ==
    ASSUME Types, NEW p \in Procs, Skip(p)
    PROVE  Goes(p, {"repeat"})
<1>1. CASE Goto(p, "repeat")
  BY <1>1, GotoGoes DEF Steps
<1>2. CASE Done(p)
  BY <1>2, DoneGoes DEF Goes
<1>3. QED
  BY <1>1, <1>2 DEF Skip


\* What a step of a pass leaves of Passing.
LEMMA PassingGoes ==
    ASSUME Types, Passing, NEW p \in Procs, NEW steps, Goes(p, steps), setup' = setup,
           \/ steps \intersect {"create", "start", "running"} = {}
           \/ p \in Replicas /\ setup.server => proc[p].mine = "yes"
    PROVE  Passing'
<1>1. Replicas \subseteq Procs
  BY DEF Procs
<1>2. ASSUME NEW q \in Replicas, q # p
      PROVE  proc'[q] = proc[q]
  BY <1>1, <1>2 DEF Goes
<1>3. CASE proc'[p] = Rest
  <2>1. Rest.job = "tick" /\ Rest.at = "asleep"
    BY RestPass DEF Types
  <2>2. QED
    BY <1>2, <1>3, <2>1 DEF Passing
<1>4. CASE /\ proc'[p].at \in steps /\ proc'[p].job = proc[p].job
           /\ proc'[p].mine = proc[p].mine
  BY <1>2, <1>4 DEF Passing
<1>5. QED
  BY <1>3, <1>4 DEF Goes

\* A new pass has asked for nothing yet.
LEMMA PassingNew ==
    ASSUME Types, Passing, NEW p \in Procs, NEW pass \in Passes, setup' = setup,
           proc' = [proc EXCEPT ![p] = pass],
           p \in Replicas => pass.job = "tick" /\ pass.at = "filter"
    PROVE  proc' \in [Procs -> Passes] /\ Passing'
<1>1. Replicas \subseteq Procs /\ proc \in [Procs -> Passes]
  BY DEF Procs, Types
<1>2. QED
  BY <1>1 DEF Passing

\* The values a lock takes.
LEMMA LockTypes ==
    ASSUME Types, NEW p \in Procs
    PROVE  /\ Absent \in LockType
           /\ Taken(<<p, "run">>, MutexTtl) \in LockType
           /\ Taken(<<p, "probe">>, MutexTtl) \in LockType
           /\ \A t : ReleasedBy(mutex, t) \in LockType
<1>1. Absent \in LockType
  BY DEF Absent, LockType
<1>2. Taken(<<p, "run">>, MutexTtl) \in LockType /\ Taken(<<p, "probe">>, MutexTtl) \in LockType
  BY Constants DEF Taken, LockType
<1>3. \A t : ReleasedBy(mutex, t) \in LockType
  BY <1>1 DEF ReleasedBy, Types
<1>4. QED
  BY <1>1, <1>2, <1>3

\* removeMutex gives back at most the process's own lock.
LEMMA ForgetTypes ==
    ASSUME Types, NEW p \in Procs, Forget(p)
    PROVE  /\ mutex' \in LockType
           /\ DOMAIN held' = Procs /\ \A q \in Procs : held'[q] \in {None, <<q, "run">>}
<1>1. mutex' \in LockType
  BY Zenon, LockTypes DEF Forget, Types
<1>2. /\ DOMAIN held = Procs /\ (\A q \in Procs : held[q] \in {None, <<q, "run">>})
      /\ held' = [held EXCEPT ![p] = None]
  BY DEF Forget, Types
<1>3. QED
  BY <1>1, <1>2

\* Where the steps of a pass lead.
LEMMA FilterGoes ==
    ASSUME Types, NEW p \in Procs, Filter(p)
    PROVE  Goes(p, {"claim", "repeat", "probing"})
<1>1. CASE Goto(p, "claim") \/ Goto(p, "probing")
  <2>1. Goes(p, {"claim"}) \/ Goes(p, {"probing"})
    BY <1>1, GotoGoes DEF Steps
  <2>2. QED
    BY <2>1 DEF Goes
<1>2. CASE Skip(p)
  <2>1. Goes(p, {"repeat"})
    BY <1>2, SkipGoes
  <2>2. QED
    BY <2>1 DEF Goes
<1>3. QED
  BY <1>1, <1>2 DEF Filter

\* The same for the end of a probe.
LEMMA UnprobeGoes ==
    ASSUME Types, NEW p \in Procs, Unprobe(p)
    PROVE  Goes(p, {"claim"})
<1>1. CASE Goto(p, "claim")
  BY <1>1, GotoGoes DEF Steps
<1>2. CASE Done(p)
  <2>1. Goes(p, {})
    BY <1>2, DoneGoes
  <2>2. QED
    BY <2>1 DEF Goes
<1>3. QED
  BY <1>1, <1>2 DEF Unprobe

\* The same for repeatEvents.
LEMMA RepeatGoes ==
    ASSUME Types, NEW p \in Procs, Repeat(p)
    PROVE  Goes(p, {"filter"})
<1>1. CASE Goto(p, "filter")
  BY <1>1, GotoGoes DEF Steps
<1>2. CASE Done(p)
  <2>1. Goes(p, {})
    BY <1>2, DoneGoes
  <2>2. QED
    BY <2>1 DEF Goes
<1>3. QED
  BY <1>1, <1>2 DEF Repeat

\* The same for a failed call of the store: only a pass that got past the claim
\* asks for another tenant.
LEMMA StoreFailsGoes ==
    ASSUME Types, NEW p \in Procs, StoreFails(p)
    PROVE  /\ ~Resting(p)
           /\ Goes(p, {"create", "repeat"})
           /\ At(p, "create") \/ At(p, "start") \/ Goes(p, {"repeat"})
<1>1. CASE Skip(p) /\ ~Resting(p)
  <2>1. Goes(p, {"repeat"})
    BY <1>1, SkipGoes
  <2>2. QED
    BY <1>1, <2>1 DEF Goes
<1>2. CASE (At(p, "create") \/ At(p, "start")) /\ AfterRun(p)
  <2>1. Goes(p, {"create", "repeat"})
    BY <1>2, AfterRunGoes
  <2>2. QED
    BY <1>2, <2>1 DEF Resting, At
<1>3. QED
  BY <1>1, <1>2 DEF StoreFails, At, Resting

\* The same for Create.
LEMMA CreateGoes ==
    ASSUME Types, NEW p \in Procs, Create(p)
    PROVE  /\ Goes(p, {"start", "create", "repeat"})
           /\ setup.overlap /\ Live(mutex) => Goes(p, {"create", "repeat"})
<1>1. CASE Goto(p, "start") /\ ~(setup.overlap /\ Live(mutex))
  <2>1. Goes(p, {"start"})
    BY <1>1, GotoGoes DEF Steps
  <2>2. QED
    BY <1>1, <2>1 DEF Goes
<1>2. CASE AfterRun(p)
  <2>1. Goes(p, {"create", "repeat"})
    BY <1>2, AfterRunGoes
  <2>2. QED
    BY <2>1 DEF Goes
<1>3. QED
  BY <1>1, <1>2 DEF Create

\* The same for the start of a run.
LEMMA StartGoes ==
    ASSUME Types, NEW p \in Procs, Start(p)
    PROVE  Goes(p, {"running", "create", "repeat"})
<1>1. CASE Goto(p, "running")
  <2>1. Goes(p, {"running"})
    BY <1>1, GotoGoes DEF Steps
  <2>2. QED
    BY <2>1 DEF Goes
<1>2. CASE AfterRun(p)
  <2>1. Goes(p, {"create", "repeat"})
    BY <1>2, AfterRunGoes
  <2>2. QED
    BY <2>1 DEF Goes
<1>3. QED
  BY <1>1, <1>2 DEF Start, Started

\* The claim: the pass that takes it remembers that it did, the others that
\* they did not.
LEMMA ClaimGoes ==
    ASSUME Types, NEW p \in Procs, Claim(p)
    PROVE  /\ proc' \in [Procs -> Passes]
           /\ \A q \in Procs : q # p => proc'[q] = proc[q]
           /\ proc'[p].job = "tick" \/ proc'[p].job = proc[p].job
           /\ \/ /\ UNCHANGED <<claims, late>>
                 /\ proc'[p] = Rest \/ proc'[p].mine = "no" \/ Goes(p, {"create"})
                 /\ proc'[p].at = "create" /\ setup.server => proc'[p].mine = "yes"
              \/ /\ setup.server /\ claims[<<proc[p].window, Server>>] = 0
                 /\ TakeClaim(<<proc[p].window, Server>>)
                 /\ proc'[p].mine = "yes" /\ proc'[p].window = proc[p].window
           /\ proc'[p].at \in {"create", "repeat", "asleep"}
<1>1. /\ proc \in [Procs -> Passes] /\ Rest \in Passes
      /\ Rest.at = "asleep" /\ Rest.job = "tick" /\ Rest.mine = "unasked"
  BY RestPass DEF Types
<1>2. CASE Goto(p, "create") /\ UNCHANGED <<claims, late>> /\ (~setup.server \/ proc[p].mine = "yes")
  <2>1. Goes(p, {"create"})
    BY <1>2, GotoGoes DEF Steps
  <2>2. proc'[p].at = "create" /\ proc'[p].mine = proc[p].mine /\ proc'[p].job = proc[p].job
    BY <1>1, <1>2 DEF Goto, Passes
  <2>3. QED
    BY <1>2, <2>1, <2>2 DEF Goes
<1>3. CASE /\ setup.server /\ claims[<<proc[p].window, Server>>] = 0
           /\ TakeClaim(<<proc[p].window, Server>>)
           /\ proc' = [proc EXCEPT ![p] = [@ EXCEPT !.at = "create", !.mine = "yes"]]
  <2>1. PICK pass \in Passes : pass = proc[p]
    BY <1>1
  <2>2. PICK new : new = [pass EXCEPT !.at = "create", !.mine = "yes"]
    OBVIOUS
  <2>3. /\ new \in Passes /\ new.at = "create" /\ new.mine = "yes"
        /\ new.job = pass.job /\ new.window = pass.window
    BY Zenon, <2>2 DEF Passes, Steps
  <2>4. proc' = [proc EXCEPT ![p] = new]
    BY <1>3, <2>1, <2>2
  <2>5. proc'[p] = new /\ proc' \in [Procs -> Passes] /\ \A q \in Procs : q # p => proc'[q] = proc[q]
    BY <1>1, <2>3, <2>4
  <2>6. QED
    BY <1>3, <2>1, <2>3, <2>5
<1>4. CASE /\ UNCHANGED <<claims, late>>
           /\ proc' = [proc EXCEPT ![p] = IF setup.repeat THEN [@ EXCEPT !.at = "repeat", !.mine = "no"] ELSE Rest]
  <2>1. PICK pass \in Passes : pass = proc[p]
    BY <1>1
  <2>2. PICK new : new = IF setup.repeat THEN [pass EXCEPT !.at = "repeat", !.mine = "no"] ELSE Rest
    OBVIOUS
  <2>3. /\ new \in Passes /\ new.at \in {"repeat", "asleep"} /\ (new = Rest \/ new.mine = "no")
        /\ new.job = "tick" \/ new.job = pass.job
    BY Zenon, <1>1, <2>2 DEF Passes, Steps
  <2>4. proc' = [proc EXCEPT ![p] = new]
    BY <1>4, <2>1, <2>2
  <2>5. proc'[p] = new /\ proc' \in [Procs -> Passes] /\ \A q \in Procs : q # p => proc'[q] = proc[q]
    BY <1>1, <2>3, <2>4
  <2>6. QED
    BY <1>4, <2>1, <2>3, <2>5
<1>5. QED
  BY <1>2, <1>3, <1>4 DEF Claim

----------------------------------------------------------------------------
(* The type invariant                                                       *)

\* A claim is a number of minutes, and late a set of windows.
LEMMA ClaimTypes ==
    ASSUME Types, NEW n \in Names, TakeClaim(n)
    PROVE  claims' \in [Names -> Nat] /\ late' \subseteq Minutes
<1>1. n[1] \in Minutes /\ claims \in [Names -> Nat] /\ late \subseteq Minutes
  BY DEF Names, Types
<1>2. QED
  BY Zenon, <1>1, Constants DEF TakeClaim, NewClaim

\* The names a pass claims under.
LEMMA ClaimNames ==
    ASSUME Types, NEW p \in Procs
    PROVE  /\ <<proc[p].window, Server>> \in Names
           /\ <<proc[p].window, proc[p].tenant>> \in Names
           /\ proc[p].window \in Minutes /\ proc[p].tenant \in Tenants
<1>1. proc[p].window \in Minutes /\ proc[p].tenant \in Tenants
  BY DEF Types, Passes
<1>2. QED
  BY <1>1 DEF Names

\* A started run, and who ran.
LEMMA RunTypes ==
    ASSUME Types, NEW p \in Procs, Started(p)
    PROVE  /\ runs' \subseteq RunType
           /\ ran' \in [Minutes -> SUBSET (Procs \X Tenants)]
<1>1. proc[p].window \in Minutes /\ proc[p].tenant \in Tenants
  BY Zenon, ClaimNames
<1>2. mutex.left \in Nat /\ setup.background \in BOOLEAN
  BY Constants DEF Types, LockType, SetupType
<1>3. Background(p) \in BOOLEAN
  BY DEF Background
<1>4. Run(p) \in RunType
  BY <1>1, <1>2, <1>3 DEF Run, RunType
<1>5. ran' \in [Minutes -> SUBSET (Procs \X Tenants)]
  <2>1. <<p, proc[p].tenant>> \in Procs \X Tenants
    BY <1>1
  <2>2. ran \in [Minutes -> SUBSET (Procs \X Tenants)]
    BY DEF Types
  <2>3. QED
    BY <1>1, <2>1, <2>2 DEF Started
<1>6. QED
  BY <1>4, <1>5 DEF Types, Started

\* The steps of a pass keep Types and Passing.
LEMMA StepTypes ==
    ASSUME Types, Passing, NEW p \in Procs, Step(p)
    PROVE  Types' /\ Passing'
<1>1. CASE Tick(p)
  <2>1. PICK pass : pass = [Idle EXCEPT !.at = "filter", !.window = minute]
    OBVIOUS
  <2>2. pass \in Passes /\ pass.job = "tick" /\ pass.at = "filter"
    <3>1. Idle \in Passes /\ Idle.job = "tick" /\ minute \in Minutes
      BY RestPass DEF Types
    <3>2. QED
      BY Zenon, <2>1, <3>1 DEF Passes, Steps
  <2>3. proc' = [proc EXCEPT ![p] = pass] /\ setup' = setup
    BY <1>1, <2>1 DEF Tick
  <2>4. proc' \in [Procs -> Passes] /\ Passing'
    BY Zenon, <2>2, <2>3, PassingNew
  <2>5. QED
    BY <1>1, <2>4 DEF Tick, Types
<1>2. CASE Filter(p)
  <2>1. Goes(p, {"claim", "repeat", "probing"}) /\ setup' = setup
    BY <1>2, FilterGoes DEF Filter
  <2>2. Passing'
    BY <2>1, PassingGoes
  <2>3. mutex' \in LockType
    BY Zenon, <1>2, LockTypes DEF Filter, Types
  <2>4. QED
    BY <1>2, <2>1, <2>2, <2>3 DEF Filter, Types, Goes
<1>3. CASE Unprobe(p)
  <2>1. Goes(p, {"claim"}) /\ setup' = setup
    BY <1>3, UnprobeGoes DEF Unprobe
  <2>2. Passing'
    BY <2>1, PassingGoes
  <2>3. mutex' \in LockType
    BY Zenon, <1>3, LockTypes DEF Unprobe
  <2>4. QED
    BY <1>3, <2>1, <2>2, <2>3 DEF Unprobe, Types, Goes
<1>4. CASE Claim(p)
  <2>1. proc' \in [Procs -> Passes]
    BY Zenon, <1>4, ClaimGoes
  <2>2. claims' \in [Names -> Nat] /\ late' \subseteq Minutes
    <3>1. CASE UNCHANGED <<claims, late>>
      BY <3>1 DEF Types
    <3>2. CASE TakeClaim(<<proc[p].window, Server>>)
      BY Zenon, <3>2, ClaimTypes, ClaimNames
    <3>3. QED
      BY <1>4, <3>1, <3>2 DEF Claim
  <2>3. Passing'
    <3>1. /\ \A q \in Procs : q # p => proc'[q] = proc[q]
          /\ proc'[p].job = "tick" \/ proc'[p].job = proc[p].job
          /\ proc'[p].at \in {"create", "repeat", "asleep"}
          /\ proc'[p].at = "create" /\ setup.server => proc'[p].mine = "yes"
      BY Zenon, <1>4, ClaimGoes
    <3>2. Replicas \subseteq Procs /\ setup' = setup
      BY <1>4 DEF Claim, Procs
    <3>3. QED
      BY <3>1, <3>2 DEF Passing
  <2>4. QED
    BY <1>4, <2>1, <2>2, <2>3 DEF Claim, Types
<1>5. CASE Create(p)
  <2>1. Goes(p, {"start", "create", "repeat"}) /\ setup' = setup
    BY <1>5, CreateGoes DEF Create
  <2>2. p \in Replicas /\ setup.server => proc[p].mine = "yes"
    BY <1>5 DEF Create, Passing, At
  <2>3. Passing'
    BY <2>1, <2>2, PassingGoes
  <2>4. mutex' \in LockType
    BY Zenon, <1>5, LockTypes DEF Create, Types
  <2>5. /\ \A q \in Procs : held'[q] \in {None, <<q, "run">>}
        /\ DOMAIN held' = Procs /\ overwrote' \in BOOLEAN
    BY Zenon, <1>5 DEF Create, Types
  <2>6. QED
    BY <1>5, <2>1, <2>3, <2>4, <2>5 DEF Create, Types, Goes
<1>6. CASE Start(p)
  <2>1. Goes(p, {"running", "create", "repeat"}) /\ setup' = setup
    BY <1>6, StartGoes DEF Start
  <2>2. p \in Replicas /\ setup.server => proc[p].mine = "yes"
    BY <1>6 DEF Start, Passing, At
  <2>3. Passing'
    BY <2>1, <2>2, PassingGoes
  <2>4. claims' \in [Names -> Nat] /\ late' \subseteq Minutes
    <3>1. CASE UNCHANGED <<claims, late>>
      BY <3>1 DEF Types
    <3>2. CASE TakeClaim(<<proc[p].window, proc[p].tenant>>)
      BY Zenon, <3>2, ClaimTypes, ClaimNames
    <3>3. QED
      BY <1>6, <3>1, <3>2 DEF Start
  <2>5. /\ runs' \subseteq RunType
        /\ ran' \in [Minutes -> SUBSET (Procs \X Tenants)]
    <3>1. CASE UNCHANGED <<runs, ran>>
      BY <3>1 DEF Types
    <3>2. CASE Started(p)
      BY <3>2, RunTypes
    <3>3. QED
      BY <1>6, <3>1, <3>2 DEF Start
  <2>6. QED
    BY <1>6, <2>1, <2>3, <2>4, <2>5 DEF Start, Types, Goes
<1>7. CASE Finish(p)
  <2>1. Goes(p, {"create", "repeat"}) /\ setup' = setup
    BY <1>7, AfterRunGoes DEF Finish
  <2>2. p \in Replicas /\ setup.server => proc[p].mine = "yes"
    BY <1>7 DEF Finish, Passing, At
  <2>3. Passing'
    BY <2>1, <2>2, PassingGoes
  <2>4. /\ mutex' \in LockType
        /\ DOMAIN held' = Procs /\ \A q \in Procs : held'[q] \in {None, <<q, "run">>}
    BY <1>7, ForgetTypes DEF Finish
  <2>5. QED
    BY <1>7, <2>1, <2>3, <2>4 DEF Finish, Types, Goes
<1>8. CASE Repeat(p)
  <2>1. Goes(p, {"filter"}) /\ setup' = setup
    BY <1>8, RepeatGoes DEF Repeat
  <2>2. Passing'
    BY <2>1, PassingGoes
  <2>3. QED
    BY <1>8, <2>1, <2>2 DEF Repeat, Types, Goes
<1>9. QED
  BY <1>1, <1>2, <1>3, <1>4, <1>5, <1>6, <1>7, <1>8 DEF Step

\* So do failures and crashes, the commands and the end of a background run.
LEMMA OtherTypes ==
    ASSUME Types, Passing,
           \/ \E p \in Procs : StartFails(p) \/ StoreFails(p) \/ ReleaseFails(p) \/ Crash(p)
           \/ \E r \in runs : FinishInBackground(r)
           \/ \E o \in Operators : ScheduleTest(o) \/ ScheduleClearCache(o)
    PROVE  Types' /\ Passing'
<1>1. ASSUME NEW p \in Procs, StartFails(p)
      PROVE  Types' /\ Passing'
  <2>1. Goes(p, {"create", "repeat"}) /\ setup' = setup
    BY <1>1, AfterRunGoes DEF StartFails
  <2>2. p \in Replicas /\ setup.server => proc[p].mine = "yes"
    BY Zenon, <1>1 DEF StartFails, Passing, At
  <2>3. Passing'
    BY <2>1, <2>2, PassingGoes
  <2>4. /\ mutex' \in LockType
        /\ DOMAIN held' = Procs /\ \A q \in Procs : held'[q] \in {None, <<q, "run">>}
    BY Zenon, <1>1, ForgetTypes DEF StartFails
  <2>5. QED
    BY Zenon, <1>1, <2>1, <2>3, <2>4 DEF StartFails, Types, Goes
<1>2. ASSUME NEW p \in Procs, StoreFails(p)
      PROVE  Types' /\ Passing'
  <2>1. /\ Goes(p, {"create", "repeat"}) /\ setup' = setup
        /\ At(p, "create") \/ At(p, "start") \/ Goes(p, {"repeat"})
    BY Zenon, <1>2, StoreFailsGoes DEF StoreFails
  <2>2. CASE At(p, "create") \/ At(p, "start")
    <3>1. p \in Replicas /\ setup.server => proc[p].mine = "yes"
      BY Zenon, <2>2 DEF Passing, At
    <3>2. QED
      BY Zenon, <1>2, <2>1, <3>1, PassingGoes DEF StoreFails, Types, Goes
  <2>3. CASE Goes(p, {"repeat"})
    <3>1. Passing'
      BY <2>1, <2>3, PassingGoes
    <3>2. QED
      BY Zenon, <1>2, <2>3, <3>1 DEF StoreFails, Types, Goes
  <2>4. QED
    BY <2>1, <2>2, <2>3
<1>3. ASSUME NEW p \in Procs, Crash(p)
      PROVE  Types' /\ Passing'
  <2>1. Goes(p, {}) /\ setup' = setup
    BY Zenon, <1>3, DoneGoes DEF Crash
  <2>2. Passing'
    BY <2>1, PassingGoes
  <2>3. DOMAIN held' = Procs /\ \A q \in Procs : held'[q] \in {None, <<q, "run">>}
    BY <1>3 DEF Crash, Types
  <2>4. QED
    BY Zenon, <1>3, <2>1, <2>2, <2>3 DEF Crash, Types, Goes
<1>4. ASSUME NEW r \in runs, FinishInBackground(r)
      PROVE  Types' /\ Passing'
  <2>1. r.by \in Procs
    BY DEF Types, RunType
  <2>2. /\ mutex' \in LockType
        /\ DOMAIN held' = Procs /\ \A q \in Procs : held'[q] \in {None, <<q, "run">>}
    BY Zenon, <1>4, <2>1, ForgetTypes DEF FinishInBackground
  <2>3. Passing'
    BY Zenon, <1>4 DEF FinishInBackground, Passing
  <2>4. QED
    BY Zenon, <1>4, <2>2, <2>3 DEF FinishInBackground, Types
<1>5. ASSUME NEW o \in Operators, NEW job \in {"test", "clear"}, NEW step \in {"create", "filter"},
             Command(o, job, step)
      PROVE  Types' /\ Passing'
  <2>1. PICK pass : pass = [Idle EXCEPT !.at = step, !.job = job, !.window = minute]
    OBVIOUS
  <2>2. Idle \in Passes /\ minute \in Minutes
    BY RestPass DEF Types
  <2>3. pass \in Passes
    BY Zenon, <2>1, <2>2 DEF Passes, Steps
  <2>4. o \in Procs /\ o \notin Replicas
    BY Constants DEF Procs
  <2>5. proc' = [proc EXCEPT ![o] = pass] /\ setup' = setup
    BY Zenon, <1>5, <2>1 DEF Command
  <2>6. proc' \in [Procs -> Passes] /\ Passing'
    BY Zenon, <2>3, <2>4, <2>5, PassingNew
  <2>7. QED
    BY Zenon, <1>5, <2>6 DEF Command, Types
<1>6. ASSUME NEW p \in Procs, ReleaseFails(p)
      PROVE  Types' /\ Passing'
  <2>1. /\ DOMAIN held' = Procs /\ \A q \in Procs : held'[q] \in {None, <<q, "run">>}
        /\ runs' \subseteq runs /\ setup' = setup
    <3>1. held' = [held EXCEPT ![p] = None]
      BY Zenon, <1>6 DEF ReleaseFails
    <3>2. DOMAIN held' = Procs /\ \A q \in Procs : held'[q] \in {None, <<q, "run">>}
      BY <3>1 DEF Types
    <3>3. runs' \subseteq runs /\ setup' = setup
      BY Zenon, <1>6 DEF ReleaseFails
    <3>4. QED
      BY <3>2, <3>3
  <2>2. proc' \in [Procs -> Passes] /\ Passing'
    <3>1. CASE UNCHANGED proc
      BY Zenon, <2>1, <3>1 DEF Types, Passing
    <3>2. CASE (At(p, "running") \/ At(p, "start")) /\ AfterRun(p)
      <4>1. Goes(p, {"create", "repeat"})
        BY <3>2, AfterRunGoes
      <4>2. p \in Replicas /\ setup.server => proc[p].mine = "yes"
        BY Zenon, <3>2 DEF Passing, At
      <4>3. Passing'
        BY <2>1, <4>1, <4>2, PassingGoes
      <4>4. QED
        BY <4>1, <4>3 DEF Goes
    <3>3. QED
      BY Zenon, <1>6, <3>1, <3>2 DEF ReleaseFails
  <2>3. QED
    BY Zenon, <1>6, <2>1, <2>2 DEF ReleaseFails, Types
<1>7. QED
  BY <1>1, <1>2, <1>3, <1>4, <1>5, <1>6 DEF ScheduleTest, ScheduleClearCache

\* And so does a minute that passes.
LEMMA ElapseTypes ==
    ASSUME Types, Passing, Elapse
    PROVE  Types' /\ Passing'
<1>1. minute' \in Minutes
  BY Constants DEF Elapse, Types, Minutes
<1>2. mutex' \in LockType
  BY DEF Elapse, Elapsed, Types, LockType
<1>3. claims' \in [Names -> Nat]
  <2>1. claims \in [Names -> Nat] /\ claims' = [n \in Names |-> IF claims[n] > 0 THEN claims[n] - 1 ELSE 0]
    BY Zenon DEF Elapse, Types
  <2>2. QED
    BY <2>1
<1>4. runs' \subseteq RunType
  <2>1. runs \subseteq RunType
    BY DEF Types
  <2>2. runs' = {[r EXCEPT !.left = IF @ > 0 THEN @ - 1 ELSE 0] : r \in runs}
    BY Zenon DEF Elapse
  <2>3. \A r \in RunType : [r EXCEPT !.left = IF @ > 0 THEN @ - 1 ELSE 0] \in RunType
    BY DEF RunType
  <2>4. QED
    BY <2>1, <2>2, <2>3
<1>5. ran' \in [Minutes -> SUBSET (Procs \X Tenants)]
  <2>1. PICK open : ran' = [w \in Minutes |-> IF w \in open THEN ran[w] ELSE {}]
    BY Zenon DEF Elapse
  <2>2. ran \in [Minutes -> SUBSET (Procs \X Tenants)]
    BY DEF Types
  <2>3. QED
    BY <2>1, <2>2
<1>6. late' \subseteq Minutes
  BY Zenon DEF Elapse, Types
<1>7. /\ proc' \in [Procs -> Passes]
      /\ \A p \in Procs : proc'[p] = Idle \/ proc'[p] = proc[p]
      /\ Idle.job = "tick" /\ Idle.at = "idle"
  <2>1. proc' = [p \in Procs |-> IF At(p, "asleep") THEN Idle ELSE proc[p]]
    BY Zenon DEF Elapse
  <2>2. proc \in [Procs -> Passes] /\ Idle \in Passes /\ Idle.job = "tick" /\ Idle.at = "idle"
    BY RestPass DEF Types
  <2>3. QED
    BY Zenon, <2>1, <2>2
<1>8. Passing'
  <2>1. Replicas \subseteq Procs /\ setup' = setup
    BY Zenon DEF Procs, Elapse
  <2>2. QED
    BY <1>7, <2>1 DEF Passing
<1>9. QED
  BY Zenon, <1>1, <1>2, <1>3, <1>4, <1>5, <1>6, <1>7, <1>8 DEF Elapse, Types

----------------------------------------------------------------------------
(* Runs under WithoutOverlapping                                            *)

\* A process keeps the handle of the one run it has in progress, from Create
\* until the run is over, and a run that has time left still has the mutex.
Owned ==
    /\ \A r \in runs : held[r.by] = <<r.by, "run">>
    /\ \A r, s \in runs : r.by = s.by => r = s
    /\ \A p \in Procs : At(p, "start") => held[p] # None /\ \A r \in runs : r.by # p
    /\ \A r \in runs : At(r.by, "running") => ~r.background
    /\ \A r \in runs : r.left > 0 => mutex.owner = <<r.by, "run">> /\ mutex.left = r.left

\* (As long as no handle was stored over another.)
OwnRuns == setup.overlap /\ ~overwrote => Owned

\* Steps that start or end no run keep OwnRuns when they leave the mutex of a
\* run alone.
LEMMA OwnKept ==
    ASSUME Types, OwnRuns, UNCHANGED <<setup, overwrote, held, runs>>,
           \A q \in Procs : proc'[q].at \in {"start", "running"} => proc'[q].at = proc[q].at,
           \A r \in runs : r.left > 0 /\ mutex.owner = <<r.by, "run">> /\ mutex.left = r.left => mutex' = mutex
    PROVE  OwnRuns'
<1>1. \A r \in runs : r.by \in Procs
  BY DEF Types, RunType
<1>2. QED
  BY Zenon, <1>1 DEF OwnRuns, Owned, At

\* Where a pass that goes on is not.
LEMMA GoesAside ==
    ASSUME NEW p \in Procs, NEW steps, steps \intersect {"start", "running"} = {}, Goes(p, steps),
           setup \in Setups
    PROVE  /\ \A q \in Procs : proc'[q].at \in {"start", "running"} => proc'[q].at = proc[q].at
           /\ proc'[p].at \notin {"start", "running"}
<1>1. Rest.at = "asleep"
  BY RestPass
<1>2. proc'[p].at = "asleep" \/ proc'[p].at \in steps
  BY Zenon, <1>1 DEF Goes
<1>3. proc'[p].at \notin {"start", "running"}
  BY <1>2
<1>4. QED
  BY Zenon, <1>3 DEF Goes

\* A probe is only made of a free mutex, and gives back only itself.
LEMMA ProbeOwn ==
    ASSUME Types, OwnRuns, NEW p \in Procs, Filter(p) \/ Unprobe(p)
    PROVE  OwnRuns'
<1>1. setup \in Setups
  BY DEF Types
<1>2. CASE Filter(p)
  <2>1. Goes(p, {"claim", "repeat", "probing"})
    BY Zenon, <1>2, FilterGoes
  <2>2. \A q \in Procs : proc'[q].at \in {"start", "running"} => proc'[q].at = proc[q].at
    BY <1>1, <2>1, GoesAside
  <2>3. ASSUME NEW r \in runs, r.left > 0, mutex.left = r.left, mutex.owner = <<r.by, "run">>
        PROVE  mutex' = mutex
    <3>1. Live(mutex)
      BY Zenon, <2>3, Tokens DEF Live, Present
    <3>2. QED
      BY Zenon, <1>2, <3>1 DEF Filter
  <2>4. QED
    BY Zenon, <1>2, <2>2, <2>3, OwnKept DEF Filter
<1>3. CASE Unprobe(p)
  <2>1. Goes(p, {"claim"})
    BY Zenon, <1>3, UnprobeGoes
  <2>2. \A q \in Procs : proc'[q].at \in {"start", "running"} => proc'[q].at = proc[q].at
    BY <1>1, <2>1, GoesAside
  <2>3. ASSUME NEW r \in runs, mutex.owner = <<r.by, "run">>
        PROVE  mutex' = mutex
    BY Zenon, <1>3, <2>3, Tokens DEF Unprobe, ReleasedBy, Holder
  <2>4. QED
    BY Zenon, <1>3, <2>2, <2>3, OwnKept DEF Unprobe
<1>4. QED
  BY <1>2, <1>3

\* Create takes the mutex only when no run has time left, and for a process
\* without a handle, which has no run.
LEMMA CreateOwn ==
    ASSUME Types, OwnRuns, NEW p \in Procs, Create(p)
    PROVE  OwnRuns'
<1>1. setup \in Setups
  BY DEF Types
<1>2. CASE setup.overlap /\ Live(mutex)
  <2>1. Goes(p, {"create", "repeat"})
    BY Zenon, <1>2, CreateGoes
  <2>2. \A q \in Procs : proc'[q].at \in {"start", "running"} => proc'[q].at = proc[q].at
    BY <1>1, <2>1, GoesAside
  <2>3. UNCHANGED <<setup, overwrote, held, runs, mutex>>
    BY Zenon, <1>2 DEF Create
  <2>4. QED
    BY Zenon, <2>2, <2>3, OwnKept
<1>3. CASE ~setup.overlap
  BY Zenon, <1>3 DEF Create, OwnRuns
<1>4. CASE setup.overlap /\ ~Live(mutex)
  <2>1. /\ overwrote' = (overwrote \/ held[p] # None)
        /\ held' = [held EXCEPT ![p] = <<p, "run">>]
        /\ Goto(p, "start") /\ UNCHANGED <<setup, runs>>
    BY Zenon, <1>4 DEF Create
  <2>2. CASE overwrote \/ held[p] # None
    BY Zenon, <2>1, <2>2 DEF OwnRuns
  <2>3. CASE ~overwrote /\ held[p] = None
    <3>1. \A r \in runs : r.by \in Procs /\ r.left \in Nat
      BY DEF Types, RunType
    <3>2. \A r \in runs : r.by # p /\ ~(r.left > 0)
      <4>1. ASSUME NEW r \in runs, r.left > 0
            PROVE  FALSE
        <5>1. mutex.left = r.left /\ mutex.owner = <<r.by, "run">>
          BY Zenon, <1>4, <2>3, <4>1 DEF OwnRuns, Owned
        <5>2. QED
          BY Zenon, <1>4, <4>1, <5>1, Tokens DEF Live, Present
      <4>2. QED
        BY Zenon, <1>4, <2>3, <4>1, Tokens DEF OwnRuns, Owned
    <3>3. DOMAIN held = Procs /\ held'[p] = <<p, "run">> /\ \A q \in Procs : q # p => held'[q] = held[q]
      BY <2>1 DEF Types
    <3>4. Goes(p, {"start"}) /\ Rest.at = "asleep"
      BY <1>1, <2>1, GotoGoes, RestPass DEF Steps
    <3>5. proc'[p].at # "running" /\ \A q \in Procs : q # p => proc'[q] = proc[q]
      BY <3>4 DEF Goes
    <3>6. Owned
      BY Zenon, <1>4, <2>3 DEF OwnRuns
    <3>7. Owned'
      BY Zenon, <2>1, <3>1, <3>2, <3>3, <3>5, <3>6, Tokens DEF Owned, At
    <3>8. QED
      BY Zenon, <3>7 DEF OwnRuns
  <2>4. QED
    BY <2>2, <2>3
<1>5. QED
  BY <1>2, <1>3, <1>4

\* A run that starts is the only one of its process, and has of the mutex what
\* is left of it.
LEMMA StartOwn ==
    ASSUME Types, OwnRuns, NEW p \in Procs, Start(p)
    PROVE  OwnRuns'
<1>1. setup \in Setups /\ UNCHANGED <<setup, overwrote, held, mutex>>
  BY Zenon DEF Types, Start
<1>2. CASE ~(setup.overlap /\ ~overwrote)
  BY Zenon, <1>1, <1>2 DEF OwnRuns
<1>3. CASE setup.overlap /\ ~overwrote
  <2>1. ~setup.singleton
    BY Zenon, <1>1, <1>3, Constants
  <2>2. Started(p) /\ At(p, "start")
    BY Zenon, <2>1 DEF Start
  <2>3. Owned
    BY Zenon, <1>3 DEF OwnRuns
  <2>4. PICK run : run = Run(p)
    OBVIOUS
  <2>5. /\ run.by = p /\ run.background = Background(p)
        /\ run.left = IF Holder(mutex) = <<p, "run">> THEN mutex.left ELSE 0
    BY Zenon, <2>4 DEF Run
  <2>6. runs' = runs \union {run}
    BY Zenon, <2>2, <2>4 DEF Started
  <2>7. run.left > 0 => mutex.owner = <<p, "run">> /\ mutex.left = run.left
    <3>1. ~(0 > 0)
      BY SMT
    <3>2. QED
      BY Zenon, <2>5, <3>1, Tokens DEF Holder
  <2>8. held[p] = <<p, "run">> /\ \A r \in runs : r.by # p /\ r.by \in Procs
    <3>1. \A r \in runs : r.by \in Procs
      BY DEF Types, RunType
    <3>2. held[p] \in {None, <<p, "run">>}
      BY Zenon DEF Types
    <3>3. QED
      BY Zenon, <2>2, <2>3, <3>1, <3>2 DEF Owned
  <2>9. /\ \A q \in Procs : q # p => proc'[q] = proc[q]
        /\ proc'[p].at # "start"
        /\ proc'[p].at = "running" => ~run.background
    <3>1. CASE Background(p)
      <4>1. Goes(p, {"create", "repeat"})
        BY Zenon, <2>2, <3>1, AfterRunGoes DEF Started
      <4>2. proc'[p].at \notin {"start", "running"}
        BY <1>1, <4>1, GoesAside
      <4>3. QED
        BY Zenon, <4>1, <4>2 DEF Goes
    <3>2. CASE ~Background(p)
      <4>1. Goto(p, "running")
        BY Zenon, <2>2, <3>2 DEF Started
      <4>2. Goes(p, {"running"})
        BY Zenon, <4>1, GotoGoes DEF Steps
      <4>3. proc'[p].at # "start"
        <5>1. Rest.at = "asleep"
          BY <1>1, RestPass
        <5>2. QED
          BY Zenon, <4>2, <5>1 DEF Goes
      <4>4. QED
        BY Zenon, <2>5, <3>2, <4>2, <4>3 DEF Goes
    <3>3. QED
      BY <3>1, <3>2
  <2>10. Owned'
    <3>1. \A r \in runs' : held'[r.by] = <<r.by, "run">>
      BY Zenon, <1>1, <2>3, <2>5, <2>6, <2>8 DEF Owned
    <3>2. \A r, s \in runs' : r.by = s.by => r = s
      BY Zenon, <2>3, <2>5, <2>6, <2>8 DEF Owned
    <3>3. \A q \in Procs : At(q, "start")' => held'[q] # None /\ \A r \in runs' : r.by # q
      BY Zenon, <1>1, <2>3, <2>5, <2>6, <2>9 DEF Owned, At
    <3>4. \A r \in runs' : At(r.by, "running")' => ~r.background
      BY Zenon, <2>3, <2>5, <2>6, <2>8, <2>9 DEF Owned, At
    <3>5. \A r \in runs' : r.left > 0 => mutex'.owner = <<r.by, "run">> /\ mutex'.left = r.left
      BY Zenon, <1>1, <2>3, <2>5, <2>6, <2>7 DEF Owned
    <3>6. QED
      BY Zenon, <3>1, <3>2, <3>3, <3>4, <3>5 DEF Owned, At
  <2>11. QED
    BY Zenon, <2>10 DEF OwnRuns
<1>4. QED
  BY <1>2, <1>3

\* Whatever ends the run of a process drops its handle, and with it at most the
\* mutex of that run.
LEMMA EndOwn ==
    ASSUME Types, OwnRuns, NEW p \in Procs, UNCHANGED <<setup, overwrote>>,
           held' = [held EXCEPT ![p] = None],
           mutex' = mutex \/ (held[p] # None /\ mutex' = ReleasedBy(mutex, held[p])),
           runs' \subseteq runs, setup.overlap /\ ~overwrote => \A r \in runs' : r.by # p,
           \A q \in Procs : q # p => proc'[q] = proc[q],
           setup.overlap /\ ~overwrote => proc'[p].at # "start"
    PROVE  OwnRuns'
<1>1. CASE ~(setup.overlap /\ ~overwrote)
  BY Zenon, <1>1 DEF OwnRuns
<1>2. CASE setup.overlap /\ ~overwrote
  <2>1. Owned
    BY Zenon, <1>2 DEF OwnRuns
  <2>2. \A r \in runs : r.by \in Procs
    BY DEF Types, RunType
  <2>3. \A q \in Procs : q # p => held'[q] = held[q]
    BY DEF Types
  <2>4. \A r \in runs' : held'[r.by] = <<r.by, "run">>
    BY Zenon, <1>2, <2>1, <2>2, <2>3 DEF Owned
  <2>5. \A r, s \in runs' : r.by = s.by => r = s
    BY Zenon, <2>1 DEF Owned
  <2>6. \A q \in Procs : At(q, "start")' => held'[q] # None /\ \A r \in runs' : r.by # q
    BY Zenon, <1>2, <2>1, <2>3 DEF Owned, At
  <2>7. \A r \in runs' : At(r.by, "running")' => ~r.background
    BY Zenon, <1>2, <2>1, <2>2 DEF Owned, At
  <2>8. \A r \in runs' : r.left > 0 => mutex'.owner = <<r.by, "run">> /\ mutex'.left = r.left
    <3>1. SUFFICES ASSUME NEW r \in runs', r.left > 0
                   PROVE  mutex' = mutex
      BY Zenon, <2>1 DEF Owned
    <3>2. mutex.owner = <<r.by, "run">> /\ r.by # p
      BY Zenon, <1>2, <2>1, <3>1 DEF Owned
    <3>3. held[p] \in {None, <<p, "run">>}
      BY Zenon DEF Types
    <3>4. QED
      BY Zenon, <3>2, <3>3, Tokens DEF ReleasedBy
  <2>9. QED
    BY Zenon, <2>4, <2>5, <2>6, <2>7, <2>8 DEF OwnRuns, Owned, At
<1>3. QED
  BY <1>1, <1>2

\* removeMutex, as EndOwn needs it.
LEMMA ForgetOwn ==
    ASSUME NEW p, Forget(p)
    PROVE  /\ held' = [held EXCEPT ![p] = None]
           /\ mutex' = mutex \/ (held[p] # None /\ mutex' = ReleasedBy(mutex, held[p]))
BY Zenon DEF Forget

\* A foreground run ends, or failed to start.
LEMMA FinishOwn ==
    ASSUME Types, OwnRuns, NEW p \in Procs, Finish(p) \/ StartFails(p)
    PROVE  OwnRuns'
<1>1. Goes(p, {"create", "repeat"}) /\ setup \in Setups
  BY Zenon, AfterRunGoes DEF Finish, StartFails, Types
<1>2. proc'[p].at # "start" /\ \A q \in Procs : q # p => proc'[q] = proc[q]
  <2>1. proc'[p].at \notin {"start", "running"}
    BY <1>1, GoesAside
  <2>2. QED
    BY Zenon, <1>1, <2>1 DEF Goes
<1>3. Forget(p) /\ UNCHANGED <<setup, overwrote>> /\ runs' \subseteq runs
  BY Zenon DEF Finish, StartFails
<1>4. ASSUME setup.overlap /\ ~overwrote, NEW r \in runs'
      PROVE  r.by # p
  <2>1. Owned
    BY Zenon, <1>4 DEF OwnRuns
  <2>2. CASE Finish(p)
    BY Zenon, <1>4, <2>1, <2>2 DEF Finish, Owned
  <2>3. CASE StartFails(p)
    BY Zenon, <1>4, <2>1, <2>3 DEF StartFails, Owned
  <2>4. QED
    BY <2>2, <2>3
<1>5. QED
  BY Zenon, <1>2, <1>3, <1>4, ForgetOwn, EndOwn

\* A background run ends.
LEMMA BackgroundOwn ==
    ASSUME Types, OwnRuns, NEW r \in runs, FinishInBackground(r)
    PROVE  OwnRuns'
<1>1. PICK p \in Procs : p = r.by
  BY DEF Types, RunType
<1>2. Forget(p) /\ UNCHANGED <<setup, overwrote, proc>> /\ runs' = runs \ {r}
  BY Zenon, <1>1 DEF FinishInBackground
<1>3. ASSUME setup.overlap /\ ~overwrote
      PROVE  proc'[p].at # "start" /\ \A s \in runs' : s.by # p
  BY Zenon, <1>1, <1>2, <1>3 DEF OwnRuns, Owned, At
<1>4. runs' \subseteq runs
  BY Zenon, <1>2
<1>5. \A q \in Procs : q # p => proc'[q] = proc[q]
  BY Zenon, <1>2
<1>6. QED
  BY Zenon, <1>2, <1>3, <1>4, <1>5, ForgetOwn, EndOwn

\* A run ends and its Release fails: the mutex stays, the handle does not.
LEMMA ReleaseFailsOwn ==
    ASSUME Types, OwnRuns, NEW p \in Procs, ReleaseFails(p)
    PROVE  OwnRuns'
<1>1. /\ UNCHANGED <<setup, overwrote, mutex>> /\ held' = [held EXCEPT ![p] = None]
      /\ runs' \subseteq runs
  BY Zenon DEF ReleaseFails
<1>2. CASE UNCHANGED proc /\ \E r \in runs : r.by = p /\ r.background /\ runs' = runs \ {r}
  <2>1. PICK r \in runs : r.by = p /\ r.background /\ runs' = runs \ {r}
    BY Zenon, <1>2
  <2>2. ASSUME setup.overlap /\ ~overwrote
        PROVE  proc'[p].at # "start" /\ \A s \in runs' : s.by # p
    BY Zenon, <1>2, <2>1, <2>2 DEF OwnRuns, Owned, At
  <2>3. \A q \in Procs : q # p => proc'[q] = proc[q]
    BY Zenon, <1>2
  <2>4. QED
    BY Zenon, <1>1, <2>2, <2>3, EndOwn
<1>3. CASE /\ AfterRun(p)
           /\ \/ At(p, "running") /\ runs' = {r \in runs : r.by # p \/ r.background}
              \/ At(p, "start") /\ UNCHANGED runs
  <2>1. Goes(p, {"create", "repeat"}) /\ setup \in Setups
    BY Zenon, <1>3, AfterRunGoes DEF Types
  <2>2. proc'[p].at # "start" /\ \A q \in Procs : q # p => proc'[q] = proc[q]
    <3>1. proc'[p].at \notin {"start", "running"}
      BY <2>1, GoesAside
    <3>2. QED
      BY Zenon, <2>1, <3>1 DEF Goes
  <2>3. ASSUME setup.overlap /\ ~overwrote, NEW r \in runs'
        PROVE  r.by # p
    <3>1. Owned
      BY Zenon, <2>3 DEF OwnRuns
    <3>2. QED
      BY Zenon, <1>3, <2>3, <3>1 DEF Owned
  <2>4. QED
    BY Zenon, <1>1, <2>2, <2>3, EndOwn
<1>4. QED
  BY Zenon, <1>2, <1>3 DEF ReleaseFails

\* A process dies: the mutex of its run stays until it expires.
LEMMA CrashOwn ==
    ASSUME Types, OwnRuns, NEW p \in Procs, Crash(p)
    PROVE  OwnRuns'
<1>1. Goes(p, {}) /\ proc'[p] = Rest /\ Rest.at = "asleep"
  BY Zenon, DoneGoes, RestPass DEF Crash, Types
<1>2. proc'[p].at # "start" /\ \A q \in Procs : q # p => proc'[q] = proc[q]
  BY Zenon, <1>1 DEF Goes
<1>3. /\ UNCHANGED <<setup, overwrote, mutex>> /\ held' = [held EXCEPT ![p] = None]
      /\ runs' \subseteq runs /\ \A r \in runs' : r.by # p
  BY Zenon DEF Crash
<1>4. QED
  BY Zenon, <1>2, <1>3, EndOwn

\* A minute passes for the mutex and for the runs under it.
LEMMA ElapseOwn ==
    ASSUME Types, OwnRuns, Elapse
    PROVE  OwnRuns'
<1>1. CASE ~(setup.overlap /\ ~overwrote)
  BY Zenon, <1>1 DEF OwnRuns, Elapse
<1>2. CASE setup.overlap /\ ~overwrote
  <2>1. Owned
    BY Zenon, <1>2 DEF OwnRuns
  <2>2. ASSUME NEW s \in runs'
        PROVE  \E r \in runs : /\ s = [r EXCEPT !.left = IF @ > 0 THEN @ - 1 ELSE 0]
                               /\ r \in RunType /\ s.by = r.by /\ s.background = r.background
                               /\ s.left > 0 => r.left > 0 /\ s.left = r.left - 1
    <3>1. PICK r \in runs : s = [r EXCEPT !.left = IF @ > 0 THEN @ - 1 ELSE 0]
      BY Zenon DEF Elapse
    <3>2. r \in RunType
      BY DEF Types
    <3>3. QED
      BY <3>1, <3>2 DEF RunType
  <2>11. \A s \in runs' : \E r \in runs : r.by \in Procs /\ s.by = r.by /\ s.background = r.background
    <3>1. SUFFICES ASSUME NEW s \in runs'
                   PROVE  \E r \in runs : r.by \in Procs /\ s.by = r.by /\ s.background = r.background
      OBVIOUS
    <3>2. PICK r \in runs : r \in RunType /\ s.by = r.by /\ s.background = r.background
      BY Zenon, <2>2
    <3>3. r.by \in Procs
      BY <3>2 DEF RunType
    <3>4. QED
      BY Zenon, <3>2, <3>3
  <2>3. \A q \in Procs : proc'[q].at \in {"start", "running"} => proc'[q].at = proc[q].at
    <3>1. \A q \in Procs : proc'[q] = Idle \/ proc'[q] = proc[q]
      BY Zenon DEF Elapse
    <3>2. Idle.at = "idle"
      BY RestPass DEF Types
    <3>3. QED
      BY <3>1, <3>2
  <2>4. UNCHANGED <<held, setup, overwrote>>
    BY Zenon DEF Elapse
  <2>5. \A s \in runs' : s.by \in Procs /\ held'[s.by] = <<s.by, "run">>
    <3>1. SUFFICES ASSUME NEW s \in runs'
                   PROVE  s.by \in Procs /\ held'[s.by] = <<s.by, "run">>
      OBVIOUS
    <3>2. PICK r \in runs : r.by \in Procs /\ s.by = r.by
      BY Zenon, <2>11
    <3>3. held[r.by] = <<r.by, "run">>
      BY Zenon, <2>1 DEF Owned
    <3>4. QED
      BY <2>4, <3>2, <3>3
  <2>6. \A r, s \in runs' : r.by = s.by => r = s
    <3>1. SUFFICES ASSUME NEW s1 \in runs', NEW s2 \in runs', s1.by = s2.by
                   PROVE  s1 = s2
      OBVIOUS
    <3>2. PICK r1 \in runs : /\ s1 = [r1 EXCEPT !.left = IF @ > 0 THEN @ - 1 ELSE 0]
                             /\ s1.by = r1.by
      BY Zenon, <2>2
    <3>3. PICK r2 \in runs : /\ s2 = [r2 EXCEPT !.left = IF @ > 0 THEN @ - 1 ELSE 0]
                             /\ s2.by = r2.by
      BY Zenon, <2>2
    <3>4. r1 = r2
      BY Zenon, <2>1, <3>1, <3>2, <3>3 DEF Owned
    <3>5. QED
      BY Zenon, <3>2, <3>3, <3>4
  <2>7. \A q \in Procs : At(q, "start")' => held'[q] # None /\ \A s \in runs' : s.by # q
    <3>1. SUFFICES ASSUME NEW q \in Procs, At(q, "start")'
                   PROVE  held'[q] # None /\ \A s \in runs' : s.by # q
      OBVIOUS
    <3>2. At(q, "start")
      BY <2>3, <3>1 DEF At
    <3>3. held[q] # None /\ \A r \in runs : r.by # q
      BY Zenon, <2>1, <3>2 DEF Owned
    <3>4. QED
      BY <2>4, <2>11, <3>3
  <2>8. \A s \in runs' : At(s.by, "running")' => ~s.background
    <3>1. SUFFICES ASSUME NEW s \in runs', At(s.by, "running")'
                   PROVE  ~s.background
      OBVIOUS
    <3>2. PICK r \in runs : r.by \in Procs /\ s.by = r.by /\ s.background = r.background
      BY Zenon, <2>11
    <3>3. At(r.by, "running")
      BY Zenon, <2>3, <3>1, <3>2 DEF At
    <3>4. QED
      BY Zenon, <2>1, <3>2, <3>3 DEF Owned
  <2>9. \A s \in runs' : s.left > 0 => mutex'.owner = <<s.by, "run">> /\ mutex'.left = s.left
    <3>1. SUFFICES ASSUME NEW s \in runs', s.left > 0
                   PROVE  mutex'.owner = <<s.by, "run">> /\ mutex'.left = s.left
      OBVIOUS
    <3>2. PICK r \in runs : r \in RunType /\ s.by = r.by /\ r.left > 0 /\ s.left = r.left - 1
      BY Zenon, <2>2, <3>1
    <3>3. mutex.owner = <<r.by, "run">> /\ mutex.left = r.left /\ mutex \in LockType
      BY Zenon, <2>1, <3>2 DEF Owned, Types
    <3>4. mutex' = [mutex EXCEPT !.left = IF @ > 0 THEN @ - 1 ELSE 0]
      BY Zenon DEF Elapse, Elapsed
    <3>5. QED
      BY <3>2, <3>3, <3>4 DEF LockType
  <2>10. QED
    BY Zenon, <2>5, <2>6, <2>7, <2>8, <2>9 DEF OwnRuns, Owned, At
<1>3. QED
  BY <1>1, <1>2

\* The rest leaves runs, handles and the mutex alone.
LEMMA QuietOwn ==
    ASSUME Types, OwnRuns,
           \/ \E p \in Procs : Tick(p) \/ Claim(p) \/ Repeat(p) \/ StoreFails(p)
           \/ \E o \in Operators : ScheduleTest(o) \/ ScheduleClearCache(o)
    PROVE  OwnRuns'
<1>1. /\ UNCHANGED <<setup, overwrote, held, runs, mutex>> /\ setup \in Setups
      /\ proc \in [Procs -> Passes] /\ Idle \in Passes
  BY Zenon, RestPass DEF Tick, Claim, Repeat, StoreFails, ScheduleTest, ScheduleClearCache, Command, Types
<1>2. ASSUME NEW p \in Procs, NEW pass, proc' = [proc EXCEPT ![p] = pass],
             pass.at \in {"filter", "create"}
      PROVE  \A q \in Procs : proc'[q].at \in {"start", "running"} => proc'[q].at = proc[q].at
  BY <1>1, <1>2
<1>3. \A q \in Procs : proc'[q].at \in {"start", "running"} => proc'[q].at = proc[q].at
  <2>1. ASSUME NEW p \in Procs, Tick(p)
        PROVE  <1>3!:
    <3>1. PICK pass : pass = [Idle EXCEPT !.at = "filter", !.window = minute]
      OBVIOUS
    <3>2. pass.at = "filter"
      BY <1>1, <3>1 DEF Passes
    <3>3. QED
      BY <1>2, <2>1, <3>1, <3>2 DEF Tick
  <2>2. ASSUME NEW p \in Procs, Claim(p)
        PROVE  <1>3!:
    <3>1. /\ \A q \in Procs : q # p => proc'[q] = proc[q]
          /\ proc'[p].at \in {"create", "repeat", "asleep"}
      BY Zenon, <2>2, ClaimGoes
    <3>2. QED
      BY <3>1
  <2>3. ASSUME NEW p \in Procs, Repeat(p)
        PROVE  <1>3!:
    <3>1. Goes(p, {"filter"})
      BY Zenon, <2>3, RepeatGoes
    <3>2. QED
      BY <1>1, <3>1, GoesAside
  <2>4. ASSUME NEW p \in Procs, StoreFails(p)
        PROVE  <1>3!:
    <3>1. Goes(p, {"create", "repeat"})
      BY Zenon, <2>4, StoreFailsGoes
    <3>2. QED
      BY <1>1, <3>1, GoesAside
  <2>5. ASSUME NEW o \in Operators, NEW job, NEW step \in {"create", "filter"}, Command(o, job, step)
        PROVE  <1>3!:
    <3>1. PICK pass : pass = [Idle EXCEPT !.at = step, !.job = job, !.window = minute]
      OBVIOUS
    <3>2. pass.at = step /\ o \in Procs
      BY <1>1, <3>1 DEF Passes, Procs
    <3>3. proc' = [proc EXCEPT ![o] = pass]
      BY Zenon, <2>5, <3>1 DEF Command
    <3>4. QED
      BY <1>2, <3>2, <3>3
  <2>6. QED
    BY <2>1, <2>2, <2>3, <2>4, <2>5 DEF ScheduleTest, ScheduleClearCache
<1>4. QED
  BY Zenon, <1>1, <1>3, OwnKept

----------------------------------------------------------------------------
(* The window of OnOneServer and the occurrence of a singleton task         *)

\* The replica won the window and is in it, or has run it.
Winner(p, w) ==
    \/ ~Resting(p) /\ proc[p].window = w /\ proc[p].mine = "yes"
    \/ \E t \in Tenants : <<p, t>> \in ran[w]

\* A window has one winner, whose claim lasts until the window is ClaimTtl old.
OneWinner ==
    setup.server => \A w \in Minutes \ late :
        /\ \A p, q \in Replicas : Winner(p, w) /\ Winner(q, w) => p = q
        /\ \A p \in Replicas : Winner(p, w) => claims[<<w, Server>>] + Age(w) >= ClaimTtl

\* So has an occurrence, which whoever runs it claims for one tenant.
OneRunner ==
    setup.singleton => \A w \in Minutes \ late, t \in Tenants, p, q \in Procs :
        <<p, t>> \in ran[w] =>
            /\ claims[<<w, t>>] + Age(w) >= ClaimTtl
            /\ <<q, t>> \in ran[w] => p = q

\* The age of a window, now and a minute later.
LEMMA Ages ==
    ASSUME minute \in Minutes, NEW w \in Minutes
    PROVE  /\ Age(w) \in Nat
           /\ minute' = (IF minute = Day - 1 THEN 0 ELSE minute + 1) /\ w # minute' => Age(w)' = Age(w) + 1
BY SMT, Constants DEF Age, Minutes

\* Steps that claim nothing and make no winner.
LEMMA WinnersKept ==
    ASSUME OneWinner, OneRunner, UNCHANGED <<setup, minute, claims, late, ran>>,
           \A p \in Replicas : ~Resting(p)' /\ proc'[p].mine = "yes" =>
               ~Resting(p) /\ proc[p].mine = "yes" /\ proc'[p].window = proc[p].window
    PROVE  OneWinner' /\ OneRunner'
<1>1. ASSUME NEW p \in Replicas, NEW w, Winner(p, w)'
      PROVE  Winner(p, w)
  BY Zenon, <1>1 DEF Winner
<1>2. \A w : Age(w)' = Age(w)
  BY Zenon DEF Age
<1>3. OneWinner'
  BY Zenon, <1>1, <1>2 DEF OneWinner
<1>4. OneRunner'
  BY Zenon, <1>2 DEF OneRunner
<1>5. QED
  BY <1>3, <1>4

\* A pass that goes on keeps its window and what it knows of the claim.
LEMMA GoesWinners ==
    ASSUME setup \in Setups, NEW p \in Procs, NEW steps, Goes(p, steps), ~Resting(p)
    PROVE  \A q \in Replicas : ~Resting(q)' /\ proc'[q].mine = "yes" =>
               ~Resting(q) /\ proc[q].mine = "yes" /\ proc'[q].window = proc[q].window
<1>1. Replicas \subseteq Procs /\ Rest.at = "asleep"
  BY RestPass DEF Procs
<1>2. \A q \in Replicas : q # p => proc'[q] = proc[q]
  BY Zenon, <1>1 DEF Goes
<1>3. proc'[p] = Rest => Resting(p)'
  BY <1>1 DEF Resting
<1>4. ~Resting(p)' => proc'[p].mine = proc[p].mine /\ proc'[p].window = proc[p].window
  BY Zenon, <1>3 DEF Goes
<1>5. QED
  BY Zenon, <1>2, <1>4 DEF Resting

\* A pass that starts has no winner yet.
LEMMA NewWinners ==
    ASSUME NEW p \in Procs, NEW pass, pass.mine = "unasked", DOMAIN proc = Procs,
           proc' = [proc EXCEPT ![p] = pass]
    PROVE  \A q \in Replicas : ~Resting(q)' /\ proc'[q].mine = "yes" =>
               ~Resting(q) /\ proc[q].mine = "yes" /\ proc'[q].window = proc[q].window
<1>1. Replicas \subseteq Procs
  BY DEF Procs
<1>2. \A q \in Replicas : q # p => proc'[q] = proc[q]
  BY Zenon, <1>1
<1>3. proc'[p] = pass
  BY Zenon
<1>4. QED
  BY Zenon, <1>2, <1>3 DEF Resting

\* Everything but a claim, a start and the time.
LEMMA QuietWinners ==
    ASSUME Types, OneWinner, OneRunner,
           \/ \E p \in Procs : \/ Tick(p) \/ Filter(p) \/ Unprobe(p) \/ Create(p) \/ Finish(p)
                               \/ Repeat(p) \/ StartFails(p) \/ StoreFails(p) \/ ReleaseFails(p) \/ Crash(p)
           \/ \E r \in runs : FinishInBackground(r)
           \/ \E o \in Operators : ScheduleTest(o) \/ ScheduleClearCache(o)
    PROVE  OneWinner' /\ OneRunner'
<1> DEFINE Kept == \A q \in Replicas : ~Resting(q)' /\ proc'[q].mine = "yes" =>
                       ~Resting(q) /\ proc[q].mine = "yes" /\ proc'[q].window = proc[q].window
<1>1. UNCHANGED <<setup, minute, claims, late, ran>>
  BY Zenon DEF Tick, Filter, Unprobe, Create, Finish, Repeat, StartFails, StoreFails, ReleaseFails, Crash,
               FinishInBackground, ScheduleTest, ScheduleClearCache, Command
<1>2. setup \in Setups /\ DOMAIN proc = Procs /\ Idle \in Passes /\ Idle.mine = "unasked"
  BY RestPass DEF Types
<1>3. ASSUME NEW p \in Procs, Tick(p)
      PROVE  Kept
  <2>1. PICK pass : pass = [Idle EXCEPT !.at = "filter", !.window = minute]
    OBVIOUS
  <2>2. pass.mine = "unasked"
    BY Zenon, <1>2, <2>1 DEF Passes
  <2>3. proc' = [proc EXCEPT ![p] = pass]
    BY Zenon, <1>3, <2>1 DEF Tick
  <2>4. QED
    BY Zenon, <1>2, <2>2, <2>3, NewWinners
<1>4. ASSUME NEW o \in Operators, NEW job, NEW step, Command(o, job, step)
      PROVE  Kept
  <2>1. PICK pass : pass = [Idle EXCEPT !.at = step, !.job = job, !.window = minute]
    OBVIOUS
  <2>2. pass.mine = "unasked" /\ o \in Procs
    BY Zenon, <1>2, <2>1 DEF Passes, Procs
  <2>3. proc' = [proc EXCEPT ![o] = pass]
    BY Zenon, <1>4, <2>1 DEF Command
  <2>4. QED
    BY Zenon, <1>2, <2>2, <2>3, NewWinners
<1>5. ASSUME NEW p \in Procs, Filter(p) \/ Unprobe(p) \/ Create(p) \/ Finish(p) \/ Repeat(p)
                              \/ StartFails(p) \/ StoreFails(p)
      PROVE  Kept
  <2>1. ~Resting(p)
    <3>1. CASE StoreFails(p)
      BY ZenonT(60), <3>1, StoreFailsGoes
    <3>2. CASE Filter(p) \/ Unprobe(p) \/ Create(p) \/ Finish(p) \/ Repeat(p) \/ StartFails(p)
      BY <3>2 DEF Filter, Unprobe, Create, Finish, Repeat, StartFails, At, Resting
    <3>3. QED
      BY <1>5, <3>1, <3>2
  <2>2. PICK steps : Goes(p, steps)
    BY Zenon, <1>5, FilterGoes, UnprobeGoes, CreateGoes, AfterRunGoes, RepeatGoes, StoreFailsGoes
       DEF Finish, StartFails
  <2>3. QED
    BY <1>2, <2>1, <2>2, GoesWinners
<1>6. ASSUME NEW p \in Procs, Crash(p)
      PROVE  Kept
  <2>1. proc'[p] = Rest /\ Rest.at = "asleep" /\ \A q \in Procs : q # p => proc'[q] = proc[q]
    BY Zenon, <1>2, <1>6, DoneGoes, RestPass DEF Crash, Goes
  <2>2. Resting(p)'
    BY Zenon, <2>1 DEF Resting
  <2>3. QED
    BY Zenon, <2>1, <2>2 DEF Resting, Procs
<1>7. ASSUME NEW r \in runs, FinishInBackground(r)
      PROVE  Kept
  BY Zenon, <1>7 DEF FinishInBackground, Resting
<1>8. ASSUME NEW p \in Procs, ReleaseFails(p)
      PROVE  Kept
  <2>1. CASE UNCHANGED proc
    BY Zenon, <2>1 DEF Resting
  <2>2. CASE (At(p, "running") \/ At(p, "start")) /\ AfterRun(p)
    <3>1. ~Resting(p) /\ Goes(p, {"create", "repeat"})
      BY <2>2, AfterRunGoes DEF At, Resting
    <3>2. QED
      BY <1>2, <3>1, GoesWinners
  <2>3. QED
    BY Zenon, <1>8, <2>1, <2>2 DEF ReleaseFails
<1>9. Kept
  BY Zenon, <1>3, <1>4, <1>5, <1>6, <1>7, <1>8 DEF ScheduleTest, ScheduleClearCache
<1>10. QED
  BY <1>1, <1>9, WinnersKept

\* A claim taken in time is the first of its window: one before it would not
\* have expired yet.
LEMMA ClaimTaken ==
    ASSUME Types, NEW w \in Minutes, NEW x \in Tenants \union {Server}, TakeClaim(<<w, x>>)
    PROVE  /\ claims'[<<w, x>>] = ClaimTtl
           /\ \A n \in Names : n # <<w, x>> => claims'[n] = claims[n]
           /\ late \subseteq late'
           /\ w \notin late' /\ claims[<<w, x>>] = 0 => ~(claims[<<w, x>>] + Age(w) >= ClaimTtl)
<1>1. claims \in [Names -> Nat] /\ <<w, x>> \in Names /\ <<w, x>>[1] = w /\ minute \in Minutes
  BY DEF Types, Names
<1>2. claims' = [claims EXCEPT ![<<w, x>>] = ClaimTtl]
  BY Zenon DEF TakeClaim, NewClaim
<1>3. late' = IF Age(w) >= ClaimTtl THEN late \union {w} ELSE late
  BY Zenon, <1>1 DEF TakeClaim
<1>4. Age(w) \in Nat
  BY <1>1, Ages
<1>5. ASSUME w \notin late', claims[<<w, x>>] = 0
      PROVE  ~(claims[<<w, x>>] + Age(w) >= ClaimTtl)
  <2>1. ~(Age(w) >= ClaimTtl)
    BY Zenon, <1>3, <1>5
  <2>2. QED
    BY SMT, <1>4, <1>5, <2>1
<1>6. QED
  BY ZenonT(60), <1>1, <1>2, <1>3, <1>5

\* A claim of one's own is long enough whatever the age of the window.
LEMMA OwnClaim ==
    ASSUME Types, NEW w \in Minutes
    PROVE  ClaimTtl + Age(w) >= ClaimTtl
<1>1. Age(w) \in Nat
  BY Ages DEF Types
<1>2. QED
  BY SMT, <1>1, Constants

\* ServerShouldRun makes the first to ask the winner, and nobody else.
LEMMA ClaimWinners ==
    ASSUME Types, OneWinner, OneRunner, NEW p \in Procs, Claim(p)
    PROVE  OneWinner' /\ OneRunner'
<1>1. UNCHANGED <<setup, minute, ran>> /\ setup \in Setups /\ At(p, "claim")
  BY Zenon DEF Claim, Types
<1>2. ~Resting(p) /\ Rest.at = "asleep" /\ Replicas \subseteq Procs
  BY <1>1, RestPass DEF At, Resting, Procs
<1>3. CASE /\ UNCHANGED <<claims, late>>
           /\ proc'[p] = Rest \/ proc'[p].mine = "no" \/ Goes(p, {"create"})
  <2>1. CASE Goes(p, {"create"})
    <3>1. \A q \in Replicas : ~Resting(q)' /\ proc'[q].mine = "yes" =>
              ~Resting(q) /\ proc[q].mine = "yes" /\ proc'[q].window = proc[q].window
      BY <1>1, <1>2, <2>1, GoesWinners
    <3>2. QED
      BY Zenon, <1>1, <1>3, <3>1, WinnersKept
  <2>2. CASE proc'[p] = Rest \/ proc'[p].mine = "no"
    <3>1. Resting(p)' \/ proc'[p].mine # "yes"
      BY <1>2, <2>2 DEF Resting
    <3>2. \A q \in Procs : q # p => proc'[q] = proc[q]
      BY Zenon, ClaimGoes
    <3>3. \A q \in Replicas : ~Resting(q)' /\ proc'[q].mine = "yes" =>
              ~Resting(q) /\ proc[q].mine = "yes" /\ proc'[q].window = proc[q].window
      BY Zenon, <1>2, <3>1, <3>2 DEF Resting
    <3>4. QED
      BY Zenon, <1>1, <1>3, <3>3, WinnersKept
  <2>3. QED
    BY <1>3, <2>1, <2>2
<1>4. CASE /\ setup.server /\ claims[<<proc[p].window, Server>>] = 0
           /\ TakeClaim(<<proc[p].window, Server>>)
           /\ proc'[p].mine = "yes" /\ proc'[p].window = proc[p].window
  <2>1. PICK w \in Minutes : w = proc[p].window
    BY Zenon, ClaimNames
  <2>2. OneRunner'
    BY Zenon, <1>1, <1>4, Constants DEF OneRunner
  <2>3. /\ claims'[<<w, Server>>] = ClaimTtl
        /\ \A n \in Names : n # <<w, Server>> => claims'[n] = claims[n]
        /\ late \subseteq late'
        /\ w \notin late' => ~(claims[<<w, Server>>] + Age(w) >= ClaimTtl)
    BY Zenon, <1>4, <2>1, ClaimTaken
  <2>4. \A q \in Procs : q # p => proc'[q] = proc[q]
    BY Zenon, ClaimGoes
  <2>5. ASSUME NEW q \in Replicas, NEW v, Winner(q, v)'
        PROVE  Winner(q, v) \/ (q = p /\ v = w)
    BY Zenon, <1>1, <1>2, <1>4, <2>1, <2>4, <2>5 DEF Winner, Resting
  <2>6. \A v : Age(v)' = Age(v)
    BY Zenon, <1>1 DEF Age
  <2>7. SUFFICES ASSUME NEW v \in Minutes \ late'
                 PROVE  /\ \A q, s \in Replicas : Winner(q, v)' /\ Winner(s, v)' => q = s
                        /\ \A q \in Replicas : Winner(q, v)' => claims'[<<v, Server>>] + Age(v) >= ClaimTtl
    BY Zenon, <2>2, <2>6 DEF OneWinner
  <2>8. v \in Minutes \ late /\ <<v, Server>> \in Names
    BY <2>3 DEF Names
  <2>9. CASE v = w
    <3>1. \A q \in Replicas : ~Winner(q, w)
      BY Zenon, <1>4, <2>3, <2>8, <2>9 DEF OneWinner
    <3>2. \A q \in Replicas : Winner(q, v)' => q = p
      BY Zenon, <2>5, <2>9, <3>1
    <3>3. claims'[<<v, Server>>] + Age(v) >= ClaimTtl
      BY Zenon, <2>3, <2>9, OwnClaim
    <3>4. QED
      BY Zenon, <3>2, <3>3
  <2>10. CASE v # w
    <3>1. \A q \in Replicas : Winner(q, v)' => Winner(q, v)
      BY Zenon, <2>5, <2>10
    <3>2. <<v, Server>> # <<w, Server>>
      BY <2>10
    <3>3. claims'[<<v, Server>>] = claims[<<v, Server>>]
      BY Zenon, <2>3, <2>8, <3>2
    <3>4. QED
      BY Zenon, <1>4, <2>8, <3>1, <3>3 DEF OneWinner
  <2>11. QED
    BY <2>9, <2>10
<1>5. QED
  BY Zenon, <1>3, <1>4, ClaimGoes

\* A replica that starts a run of a window had won it, and a task that runs has
\* just claimed its occurrence.
LEMMA StartWinners ==
    ASSUME Types, Passing, OneWinner, OneRunner, NEW p \in Procs, Start(p)
    PROVE  OneWinner' /\ OneRunner'
<1>1. UNCHANGED <<setup, minute>> /\ setup \in Setups /\ At(p, "start")
  BY Zenon DEF Start, Types
<1>2. ~Resting(p) /\ Replicas \subseteq Procs
  BY <1>1 DEF At, Resting, Procs
<1>3. \A q \in Replicas : ~Resting(q)' /\ proc'[q].mine = "yes" =>
          ~Resting(q) /\ proc[q].mine = "yes" /\ proc'[q].window = proc[q].window
  <2>1. PICK steps : Goes(p, steps)
    BY Zenon, StartGoes
  <2>2. QED
    BY <1>1, <1>2, <2>1, GoesWinners
<1>4. CASE UNCHANGED <<claims, late, ran>>
  BY Zenon, <1>1, <1>3, <1>4, WinnersKept
<1>5. PICK w \in Minutes, t \in Tenants : w = proc[p].window /\ t = proc[p].tenant
  BY Zenon, ClaimNames
<1>6. \A v : Age(v)' = Age(v)
  BY Zenon, <1>1 DEF Age
<1>7. ASSUME ran' # ran
      PROVE  \A v \in Minutes : ran'[v] = ran[v] \/ (v = w /\ ran'[v] = ran[v] \union {<<p, t>>})
  <2>1. ran' = [ran EXCEPT ![w] = @ \union {<<p, t>>}] /\ DOMAIN ran = Minutes
    BY Zenon, <1>5, <1>7 DEF Start, Started, Types
  <2>2. QED
    BY <2>1
<1>8. CASE setup.server
  <2>1. ~setup.singleton /\ UNCHANGED <<claims, late>>
    BY Zenon, <1>1, <1>8, Constants DEF Start
  <2>2. CASE ran' = ran
    BY Zenon, <1>4, <2>1, <2>2
  <2>3. CASE ran' # ran
    <3>1. ASSUME NEW q \in Replicas, NEW v \in Minutes, Winner(q, v)'
          PROVE  Winner(q, v)
      <4>1. CASE ~Resting(q)' /\ proc'[q].window = v /\ proc'[q].mine = "yes"
        BY Zenon, <1>3, <4>1 DEF Winner
      <4>2. ASSUME NEW u \in Tenants, <<q, u>> \in ran'[v]
            PROVE  Winner(q, v)
        <5>1. CASE <<q, u>> \in ran[v]
          BY Zenon, <5>1 DEF Winner
        <5>2. CASE v = w /\ <<q, u>> = <<p, t>>
          <6>1. q = p
            BY <5>2
          <6>2. proc[p].mine = "yes"
            BY Zenon, <1>1, <1>8, <6>1 DEF Passing, At
          <6>3. QED
            BY Zenon, <1>2, <1>5, <5>2, <6>1, <6>2 DEF Winner
        <5>3. QED
          <6>1. ran'[v] = ran[v] \/ (v = w /\ ran'[v] = ran[v] \union {<<p, t>>})
            BY Zenon, <1>7, <2>3
          <6>2. QED
            BY Zenon, <4>2, <5>1, <5>2, <6>1
      <4>3. QED
        BY Zenon, <3>1, <4>1, <4>2 DEF Winner
    <3>2. OneWinner'
      BY Zenon, <1>1, <1>6, <2>1, <3>1 DEF OneWinner
    <3>3. QED
      BY Zenon, <1>1, <2>1, <3>2 DEF OneRunner
  <2>4. QED
    BY <2>2, <2>3
<1>9. CASE ~setup.server /\ ~UNCHANGED <<claims, late, ran>>
  <2>1. OneWinner'
    BY Zenon, <1>1, <1>9 DEF OneWinner
  <2>2. CASE ~setup.singleton
    BY Zenon, <1>1, <2>1, <2>2 DEF OneRunner
  <2>3. CASE setup.singleton
    <3>1. /\ TakeClaim(<<w, t>>) /\ ~(claims[<<w, t>>] > 0)
          /\ ran' = [ran EXCEPT ![w] = @ \union {<<p, t>>}]
      BY Zenon, <1>5, <1>9, <2>3 DEF Start, Started, Claimed
    <3>2. claims[<<w, t>>] = 0
      <4>1. claims[<<w, t>>] \in Nat
        BY DEF Types, Names
      <4>2. QED
        BY SMT, <3>1, <4>1
    <3>3. /\ claims'[<<w, t>>] = ClaimTtl
          /\ \A n \in Names : n # <<w, t>> => claims'[n] = claims[n]
          /\ late \subseteq late'
          /\ w \notin late' => ~(claims[<<w, t>>] + Age(w) >= ClaimTtl)
      BY Zenon, <3>1, <3>2, ClaimTaken
    <3>4. ran \in [Minutes -> SUBSET (Procs \X Tenants)]
      BY Zenon DEF Types
    <3>5. ASSUME NEW v \in Minutes \ late', NEW u \in Tenants, NEW q \in Procs, <<q, u>> \in ran'[v]
          PROVE  /\ claims'[<<v, u>>] + Age(v) >= ClaimTtl
                 /\ \A s \in Procs : <<s, u>> \in ran'[v] => q = s
      <4>1. v \in Minutes \ late /\ <<v, u>> \in Names
        BY <3>3 DEF Names
      <4>2. CASE v = w /\ u = t
        <5>1. \A s \in Procs : <<s, t>> \notin ran[w]
          BY Zenon, <2>3, <3>3, <4>1, <4>2 DEF OneRunner
        <5>2. \A s \in Procs : <<s, t>> \in ran'[w] => s = p
          BY <3>1, <3>4, <5>1
        <5>3. claims'[<<v, u>>] + Age(v) >= ClaimTtl
          BY Zenon, <3>3, <4>2, OwnClaim
        <5>4. QED
          BY Zenon, <3>5, <4>2, <5>2, <5>3
      <4>3. CASE ~(v = w /\ u = t)
        <5>1. <<v, u>> # <<w, t>>
          BY <4>3
        <5>2. claims'[<<v, u>>] = claims[<<v, u>>]
          BY Zenon, <3>3, <4>1, <5>1
        <5>3. \A s \in Procs : <<s, u>> \in ran'[v] => <<s, u>> \in ran[v]
          BY <3>1, <3>4, <4>3
        <5>4. QED
          BY Zenon, <2>3, <3>5, <4>1, <5>2, <5>3 DEF OneRunner
      <4>4. QED
        BY <4>2, <4>3
    <3>6. OneRunner'
      BY Zenon, <1>6, <3>5 DEF OneRunner
    <3>7. QED
      BY <2>1, <3>6
  <2>4. QED
    BY <2>2, <2>3
<1>10. QED
  BY <1>4, <1>8, <1>9

\* A minute passes: the claim of a window somebody is still in loses what the
\* window gains in age, and a window nobody is in is forgotten.
LEMMA ElapseWinners ==
    ASSUME Types, OneWinner, OneRunner, Elapse
    PROVE  OneWinner' /\ OneRunner'
<1>1. PICK next, open :
         /\ next = (IF minute = Day - 1 THEN 0 ELSE minute + 1)
         /\ open = {proc[p].window : p \in {q \in Procs : ~Resting(q)}}
         /\ \A p \in Procs : Resting(p) \/ proc[p].window # next
         /\ minute' = next
         /\ claims' = [n \in Names |-> IF claims[n] > 0 THEN claims[n] - 1 ELSE 0]
         /\ ran' = [w \in Minutes |-> IF w \in open THEN ran[w] ELSE {}]
         /\ late' = late \intersect open
         /\ proc' = [p \in Procs |-> IF At(p, "asleep") THEN Idle ELSE proc[p]]
         /\ setup' = setup
  BY Zenon DEF Elapse
<1>2. \A p \in Procs : Resting(p)' \/ (proc'[p] = proc[p] /\ ~Resting(p))
  <2>1. Idle.at = "idle"
    BY RestPass DEF Types
  <2>2. SUFFICES ASSUME NEW p \in Procs
                 PROVE  Resting(p)' \/ (proc'[p] = proc[p] /\ ~Resting(p))
    OBVIOUS
  <2>3. CASE At(p, "asleep")
    <3>1. proc'[p] = Idle
      BY Zenon, <1>1, <2>3
    <3>2. QED
      BY Zenon, <2>1, <3>1 DEF Resting
  <2>4. CASE ~At(p, "asleep")
    <3>1. proc'[p] = proc[p]
      BY Zenon, <1>1, <2>4
    <3>2. QED
      BY Zenon, <3>1 DEF Resting
  <2>5. QED
    BY <2>3, <2>4
<1>3. ASSUME NEW w \in Minutes \ late', NEW x \in Tenants \union {Server}, w \in open,
             claims[<<w, x>>] + Age(w) >= ClaimTtl
      PROVE  claims'[<<w, x>>] + Age(w)' >= ClaimTtl
  <2>1. w # minute'
    BY Zenon, <1>1, <1>3
  <2>2. Age(w) \in Nat /\ Age(w)' = Age(w) + 1
    BY Zenon, <1>1, <2>1, Ages DEF Types
  <2>3. <<w, x>> \in Names /\ claims[<<w, x>>] \in Nat
    BY DEF Types, Names
  <2>4. claims'[<<w, x>>] = IF claims[<<w, x>>] > 0 THEN claims[<<w, x>>] - 1 ELSE 0
    BY Zenon, <1>1, <2>3
  <2>5. QED
    BY SMT, <1>3, <2>2, <2>3, <2>4, Constants
<1>4. ASSUME NEW w \in Minutes \ late', NEW p \in Procs, NEW t \in Tenants, <<p, t>> \in ran'[w]
      PROVE  w \in open /\ w \in Minutes \ late /\ ran'[w] = ran[w]
  BY Zenon, <1>1, <1>4
<1>5. ASSUME NEW w \in Minutes \ late', NEW p \in Replicas, Winner(p, w)'
      PROVE  w \in open /\ w \in Minutes \ late /\ Winner(p, w)
  <2>1. p \in Procs
    BY Zenon DEF Procs
  <2>2. CASE ~Resting(p)' /\ proc'[p].window = w /\ proc'[p].mine = "yes"
    <3>1. ~Resting(p) /\ proc[p].window = w /\ proc[p].mine = "yes"
      BY Zenon, <1>2, <2>1, <2>2
    <3>2. w \in open
      BY Zenon, <1>1, <2>1, <3>1
    <3>3. QED
      BY Zenon, <1>1, <3>1, <3>2 DEF Winner
  <2>3. CASE \E t \in Tenants : <<p, t>> \in ran'[w]
    BY Zenon, <1>4, <2>1, <2>3 DEF Winner
  <2>4. QED
    BY Zenon, <1>5, <2>2, <2>3 DEF Winner
<1>6. OneWinner'
  BY Zenon, <1>1, <1>3, <1>5 DEF OneWinner
<1>7. OneRunner'
  <2>1. SUFFICES ASSUME setup.singleton, NEW w \in Minutes \ late', NEW t \in Tenants,
                        NEW p \in Procs, NEW q \in Procs, <<p, t>> \in ran'[w]
                 PROVE  /\ claims'[<<w, t>>] + Age(w)' >= ClaimTtl
                        /\ <<q, t>> \in ran'[w] => p = q
    BY Zenon, <1>1 DEF OneRunner
  <2>2. w \in open /\ w \in Minutes \ late /\ ran'[w] = ran[w]
    BY Zenon, <1>4, <2>1
  <2>3. /\ claims[<<w, t>>] + Age(w) >= ClaimTtl
        /\ <<q, t>> \in ran[w] => p = q
    BY Zenon, <2>1, <2>2 DEF OneRunner
  <2>4. QED
    BY Zenon, <1>3, <2>2, <2>3
<1>8. QED
  BY <1>6, <1>7

----------------------------------------------------------------------------
(* The theorems                                                             *)

SchedulerInv == Types /\ Passing /\ OwnRuns /\ OneWinner /\ OneRunner

\* The inductive invariant holds at the start.
LEMMA SchedulerInit ==
    ASSUME Init
    PROVE  SchedulerInv
<1>1. setup \in Setups /\ 0 \in Minutes
  BY Zenon, Constants DEF Init
<1>2. Rest \in Passes /\ Rest.at = "asleep" /\ Rest.job = "tick" /\ Rest.mine = "unasked"
  BY Zenon, <1>1, RestPass
<1>3. proc = [p \in Procs |-> Rest] /\ proc \in [Procs -> Passes] /\ Replicas \subseteq Procs
  BY Zenon, <1>2 DEF Init, Procs
<1>4. Types
  <2>1. mutex \in LockType
    BY DEF Init, LockType, Absent
  <2>2. claims \in [Names -> Nat] /\ ran \in [Minutes -> SUBSET (Procs \X Tenants)]
    BY DEF Init
  <2>3. DOMAIN held = Procs /\ \A p \in Procs : held[p] \in {None, <<p, "run">>}
    BY Zenon DEF Init
  <2>4. QED
    BY Zenon, <1>1, <1>3, <2>1, <2>2, <2>3 DEF Types, Init
<1>5. Passing
  BY <1>2, <1>3 DEF Passing
<1>6. \A p \in Procs : proc[p] = Rest
  BY Zenon, <1>3
<1>7. OwnRuns
  <2>1. \A p \in Procs : ~At(p, "start")
    BY <1>2, <1>6 DEF At
  <2>2. QED
    BY Zenon, <2>1 DEF OwnRuns, Owned, Init
<1>8. OneWinner /\ OneRunner
  <2>1. \A w \in Minutes : ran[w] = {}
    BY Zenon DEF Init
  <2>2. \A p \in Procs : Resting(p)
    BY <1>2, <1>6 DEF Resting
  <2>3. \A p \in Replicas : \A w \in Minutes : ~Winner(p, w)
    BY Zenon, <1>3, <2>1, <2>2 DEF Winner
  <2>4. OneWinner
    BY Zenon, <2>3 DEF OneWinner
  <2>5. OneRunner
    BY Zenon, <2>1 DEF OneRunner
  <2>6. QED
    BY <2>4, <2>5
<1>9. QED
  BY <1>4, <1>5, <1>7, <1>8 DEF SchedulerInv

\* Every step keeps it.
LEMMA SchedulerStep ==
    ASSUME SchedulerInv, [Next]_vars
    PROVE  SchedulerInv'
<1>1. Types /\ Passing /\ OwnRuns /\ OneWinner /\ OneRunner
  BY DEF SchedulerInv
<1>2. CASE UNCHANGED vars
  <2>1. \A w : Age(w)' = Age(w)
    BY Zenon, <1>2 DEF vars, Age
  <2>2. \A p, w : Winner(p, w)' <=> Winner(p, w)
    BY Zenon, <1>2 DEF vars, Winner, Resting
  <2>3. OneWinner' /\ OneRunner'
    BY Zenon, <1>1, <1>2, <2>1, <2>2 DEF vars, OneWinner, OneRunner
  <2>4. Types' /\ Passing' /\ OwnRuns'
    BY Zenon, <1>1, <1>2 DEF vars, Types, Passing, OwnRuns, Owned, At
  <2>5. QED
    BY <2>3, <2>4 DEF SchedulerInv
<1>3. ASSUME NEW p \in Procs, Step(p)
      PROVE  SchedulerInv'
  <2>1. Types' /\ Passing'
    BY Zenon, <1>1, <1>3, StepTypes
  <2>2. OwnRuns'
    BY Zenon, <1>1, <1>3, QuietOwn, ProbeOwn, CreateOwn, StartOwn, FinishOwn DEF Step
  <2>3. OneWinner' /\ OneRunner'
    BY Zenon, <1>1, <1>3, QuietWinners, ClaimWinners, StartWinners DEF Step
  <2>4. QED
    BY <2>1, <2>2, <2>3 DEF SchedulerInv
<1>4. CASE \/ \E p \in Procs : StartFails(p) \/ StoreFails(p) \/ ReleaseFails(p) \/ Crash(p)
           \/ \E r \in runs : FinishInBackground(r)
           \/ \E o \in Operators : ScheduleTest(o) \/ ScheduleClearCache(o)
  <2>1. Types' /\ Passing'
    BY Zenon, <1>1, <1>4, OtherTypes
  <2>2. OwnRuns'
    BY Zenon, <1>1, <1>4, QuietOwn, FinishOwn, ReleaseFailsOwn, CrashOwn, BackgroundOwn
  <2>3. OneWinner' /\ OneRunner'
    BY Zenon, <1>1, <1>4, QuietWinners
  <2>4. QED
    BY <2>1, <2>2, <2>3 DEF SchedulerInv
<1>5. CASE Elapse
  BY Zenon, <1>1, <1>5, ElapseTypes, ElapseOwn, ElapseWinners DEF SchedulerInv
<1>6. QED
  BY Zenon, <1>2, <1>3, <1>4, <1>5 DEF Next

\* WithoutOverlapping, whatever crashes, fails or is late: of the runs in
\* progress at most one has time left of the mutex it was started under.
THEOREM RunsNeverOverlap == Spec => []NoOverlap
<1>1. ASSUME SchedulerInv
      PROVE  NoOverlap
  <2>1. SUFFICES ASSUME setup.overlap, ~overwrote
                 PROVE  Cardinality({r \in runs : r.left > 0}) <= 1
    BY Zenon DEF NoOverlap
  <2>2. Owned
    BY Zenon, <1>1, <2>1 DEF SchedulerInv, OwnRuns
  <2>3. \A r, s \in runs : r.left > 0 /\ s.left > 0 => r = s
    <3>1. SUFFICES ASSUME NEW r \in runs, NEW s \in runs, r.left > 0, s.left > 0
                   PROVE  r = s
      OBVIOUS
    <3>2. mutex.owner = <<r.by, "run">> /\ mutex.owner = <<s.by, "run">>
      BY Zenon, <2>2, <3>1 DEF Owned
    <3>3. r.by = s.by
      BY Zenon, <3>2, Tokens
    <3>4. QED
      BY Zenon, <2>2, <3>3 DEF Owned
  <2>4. CASE {r \in runs : r.left > 0} = {}
    BY <2>4, FS_EmptySet
  <2>5. CASE {r \in runs : r.left > 0} # {}
    <3>1. PICK r \in runs : r.left > 0
      BY Zenon, <2>5
    <3>2. {s \in runs : s.left > 0} = {r}
      BY Zenon, <2>3, <3>1
    <3>3. Cardinality({r}) = 1
      BY Zenon, FS_Singleton
    <3>4. QED
      BY <3>2, <3>3
  <2>6. QED
    BY <2>4, <2>5
<1>2. QED
  BY <1>1, SchedulerInit, SchedulerStep, PTL DEF Spec

\* OnOneServer and the singleton claim: a window is run by one replica and an
\* occurrence by one process per tenant, unless somebody asked for the window
\* when the claim of it had its whole ttl behind it.
THEOREM WindowsRunOnce == Spec => []OncePerWindow
<1>1. ASSUME SchedulerInv
      PROVE  OncePerWindow
  <2>1. SUFFICES ASSUME NEW w \in Minutes \ late, NEW x \in ran[w], NEW y \in ran[w]
                 PROVE  /\ setup.server /\ {x[1], y[1]} \subseteq Replicas => x[1] = y[1]
                        /\ setup.singleton /\ x[2] = y[2] => x[1] = y[1]
    BY Zenon DEF OncePerWindow
  <2>2. ran[w] \subseteq Procs \X Tenants
    BY Zenon, <1>1 DEF SchedulerInv, Types
  <2>3. PICK p \in Procs, t \in Tenants : x = <<p, t>>
    BY <2>2
  <2>4. PICK q \in Procs, u \in Tenants : y = <<q, u>>
    BY <2>2
  <2>5. x[1] = p /\ x[2] = t /\ y[1] = q /\ y[2] = u
    BY <2>3, <2>4
  <2>6. ASSUME setup.server, p \in Replicas, q \in Replicas
        PROVE  p = q
    <3>1. Winner(p, w) /\ Winner(q, w)
      BY Zenon, <2>3, <2>4 DEF Winner
    <3>2. QED
      BY Zenon, <1>1, <2>6, <3>1 DEF SchedulerInv, OneWinner
  <2>7. ASSUME setup.singleton, t = u
        PROVE  p = q
    BY Zenon, <1>1, <2>3, <2>4, <2>7 DEF SchedulerInv, OneRunner
  <2>8. QED
    BY <2>5, <2>6, <2>7
<1>2. QED
  BY <1>1, SchedulerInit, SchedulerStep, PTL DEF Spec
=============================================================================
