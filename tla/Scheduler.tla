----------------------------- MODULE Scheduler -----------------------------
(* One scheduled event on several replicas of an application: the runner's  *)
(* pass over a minute (filters, the one-server claim, the run), the overlap *)
(* mutex with its per-process handles, background runs, the occurrence      *)
(* claim of TaskScheduler, and the operator's commands.  The locks are the  *)
(* one-step locks LockStore shows its atomic stores to implement.           *)
EXTENDS Lease, Integers, FiniteSets

CONSTANTS
    Replicas,       \* processes running schedule:work or TaskScheduler
    Operators,      \* one console process each, used by one command at a time
    Setups,         \* the declarations under check, a subset of SetupType
    Day,            \* minutes until a window's name (HHMM) comes round again
    MutexTtl,       \* expiresAt, in minutes
    ClaimTtl        \* schedulingMutexTTL and the ttl of an occurrence claim

\* overlap: WithoutOverlapping; server: OnOneServer; background: RunInBackground;
\* repeat: a sub-minute event; singleton: a task of TaskScheduler that claims
\* its occurrence; tenants: how many times PerTenant expands it.  The bounds of
\* a behaviour: incidents, its crashes and failures; commands, its console runs.
SetupType == [overlap: BOOLEAN, server: BOOLEAN, background: BOOLEAN,
              repeat: BOOLEAN, singleton: BOOLEAN, tenants: Nat \ {0},
              incidents: Nat, commands: Nat]

ASSUME SchedulerAssumption ==
    /\ Setups \subseteq SetupType
    \* A closure is never backgrounded, and a task has neither mutex.
    /\ \A s \in Setups : s.singleton => ~(s.overlap \/ s.server \/ s.background \/ s.repeat)
    /\ {Day, MutexTtl, ClaimTtl} \subseteq Nat \ {0}
    /\ ClaimTtl < Day
    \* A command runs in a process of its own.
    /\ Replicas \intersect Operators = {}

VARIABLES
    setup,      \* how the event was declared, chosen once
    minute,     \* the wall clock, by the minute of the day
    mutex,      \* the lock under MutexName
    claims,     \* what is left of the locks under schedulingMutexName and
                \* TaskOccurrenceName; nobody asks who took them
    proc,       \* what each process is doing
    held,       \* CacheEventMutex.held of each process: its handle, or None
    runs,       \* the runs in progress
    ran,        \* per window that has one winner, who ran the event for whom
    late,       \* windows somebody claimed ClaimTtl or more minutes after they began
    probed,     \* windows whose claimer was refused by a probe of the mutex
    overwrote,  \* a handle was stored over one whose run is not over
    spent       \* incidents and commands so far

vars == <<setup, minute, mutex, claims, proc, held, runs, ran, late, probed, overwrote, spent>>

Minutes == 0..(Day - 1)
Procs == Replicas \union Operators
Tenants == UNION {1..s.tenants : s \in Setups}

\* A window is claimed once for the event, an occurrence once per tenant.
Server == 0
Names == Minutes \X (Tenants \union {Server})

Idle == [at |-> "idle", job |-> "tick", window |-> 0, tenant |-> 1, mine |-> "unasked"]

\* The process is done and sleeps until the top of the next minute.
Rest == [Idle EXCEPT !.at = "asleep"]

Init ==
    /\ setup \in Setups
    /\ minute = 0
    /\ mutex = Absent
    /\ claims = [n \in Names |-> 0]
    /\ proc = [p \in Procs |-> Rest]
    /\ held = [p \in Procs |-> None]
    /\ runs = {}
    /\ ran = [w \in Minutes |-> {}]
    /\ late = {} /\ probed = {}
    /\ overwrote = FALSE
    /\ spent = [incidents |-> 0, commands |-> 0]

At(p, step) == proc[p].at = step

Resting(p) == proc[p].at \in {"asleep", "idle"}

Goto(p, step) == proc' = [proc EXCEPT ![p].at = step]

Done(p) == proc' = [proc EXCEPT ![p] = Rest]

\* After one tenant's run: the next tenant, then the repeat loop, then the end.
AfterRun(p) ==
    LET pass == proc[p] IN
    proc' = [proc EXCEPT ![p] =
        IF pass.job = "tick" /\ pass.tenant < setup.tenants
        THEN [pass EXCEPT !.at = "create", !.tenant = pass.tenant + 1]
        ELSE IF pass.job = "tick" /\ setup.repeat
        THEN [pass EXCEPT !.at = "repeat", !.tenant = 1]
        ELSE Rest]

\* Skipped by a filter or by the claim: no tenant runs in this pass.
Skip(p) ==
    IF proc[p].job = "tick" /\ setup.repeat THEN Goto(p, "repeat") ELSE Done(p)

Incident ==
    /\ spent.incidents < setup.incidents
    /\ spent' = [spent EXCEPT !.incidents = @ + 1]

\* A release by name: whoever holds the lock by now loses it.
ForgetByName(p) ==
    /\ mutex' = IF held[p] = None THEN mutex ELSE Absent
    /\ held' = [held EXCEPT ![p] = None]

\* removeMutex: Forget drops the handle this process holds and releases with
\* it; a lock of another process is left alone.
Forget(p) ==
    /\ mutex' = IF held[p] = None THEN mutex ELSE ReleasedBy(mutex, held[p])
    /\ held' = [held EXCEPT ![p] = None]

----------------------------------------------------------------------------
(* The runner                                                               *)

\* The loop woke at the top of a minute: what ServerShouldRun remembered is
\* forgotten and the event is due.
Tick(p) ==
    /\ p \in Replicas
    /\ At(p, "idle")
    /\ proc' = [proc EXCEPT ![p] = [Idle EXCEPT !.at = "filter", !.window = minute]]
    /\ UNCHANGED <<setup, minute, mutex, claims, held, runs, ran, late, probed, overwrote, spent>>

\* The filter WithoutOverlapping registers asks Exists, and Exists takes the
\* mutex to see whether it can.
Filter(p) ==
    /\ At(p, "filter")
    /\ IF ~setup.overlap THEN Goto(p, "claim") /\ UNCHANGED mutex
       ELSE IF held[p] # None \/ Live(mutex)
       \* schedule:clear-cache calls Forget here, which has no handle to release.
       THEN Skip(p) /\ UNCHANGED mutex
       ELSE /\ mutex' = Taken(<<p, "probe">>, MutexTtl)
            /\ Goto(p, "probing")
    /\ UNCHANGED <<setup, minute, claims, held, runs, ran, late, probed, overwrote, spent>>

\* A probe that is never given back.
KeepProbe(p) ==
    /\ At(p, "probing")
    /\ IF proc[p].job = "clear" THEN Done(p) ELSE Goto(p, "claim")
    /\ UNCHANGED <<setup, minute, mutex, claims, held, runs, ran, late, probed, overwrote, spent>>

\* ... and gives it back.
Unprobe(p) ==
    /\ At(p, "probing")
    /\ mutex' = ReleasedBy(mutex, <<p, "probe">>)
    /\ IF proc[p].job = "clear" THEN Done(p) ELSE Goto(p, "claim")
    /\ UNCHANGED <<setup, minute, claims, held, runs, ran, late, probed, overwrote, spent>>

\* How many minutes ago a window began.
Age(w) == IF minute >= w THEN minute - w ELSE minute + Day - w

\* A claim that does not outlive its minute.
ShortClaim == ClaimTtl - 1

\* Nobody releases a claim: its expiry is the end of the window.
NewClaim == ClaimTtl

TakeClaim(n) ==
    /\ claims' = [claims EXCEPT ![n] = NewClaim]
    /\ late' = IF Age(n[1]) >= ClaimTtl THEN late \union {n[1]} ELSE late

\* claimed and ServerShouldRun: the answer is kept for the rest of the pass.
Claim(p) ==
    LET n == <<proc[p].window, Server>> IN
    /\ At(p, "claim")
    /\ \/ /\ ~setup.server \/ proc[p].mine = "yes"
          /\ Goto(p, "create")
          /\ UNCHANGED <<claims, late>>
       \/ /\ setup.server /\ proc[p].mine = "unasked" /\ claims[n] = 0
          /\ TakeClaim(n)
          /\ proc' = [proc EXCEPT ![p] = [@ EXCEPT !.at = "create", !.mine = "yes"]]
       \/ /\ setup.server /\ proc[p].mine # "yes" /\ (proc[p].mine = "unasked" => claims[n] > 0)
          /\ proc' = [proc EXCEPT ![p] = IF setup.repeat THEN [@ EXCEPT !.at = "repeat", !.mine = "no"] ELSE Rest]
          /\ UNCHANGED <<claims, late>>
    /\ UNCHANGED <<setup, minute, mutex, held, runs, ran, probed, overwrote, spent>>

\* ShouldSkipDueToOverlapping: Create takes the mutex and keeps the handle, or
\* finds it taken and the run is skipped without a word.
Create(p) ==
    /\ At(p, "create")
    /\ \/ /\ ~setup.overlap
          /\ Goto(p, "start")
          /\ UNCHANGED <<mutex, held, probed, overwrote>>
       \/ /\ setup.overlap /\ Live(mutex)
          /\ probed' = IF mutex.owner[2] = "probe" /\ proc[p].mine = "yes" THEN probed \union {proc[p].window} ELSE probed
          /\ AfterRun(p)
          /\ UNCHANGED <<mutex, held, overwrote>>
       \/ /\ setup.overlap /\ ~Live(mutex)
          /\ mutex' = Taken(<<p, "run">>, MutexTtl)
          /\ overwrote' = (overwrote \/ held[p] # None)
          /\ held' = [held EXCEPT ![p] = <<p, "run">>]
          /\ Goto(p, "start")
          /\ UNCHANGED probed
    /\ UNCHANGED <<setup, minute, claims, runs, ran, late, spent>>

\* schedule:test runs in the foreground whatever the event says.
Background(p) == setup.background /\ proc[p].job = "tick"

\* A run in progress, and how long the mutex it was started under has left.
Run(p) ==
    [by |-> p, tenant |-> proc[p].tenant, background |-> Background(p),
     left |-> IF Holder(mutex) = <<p, "run">> THEN mutex.left ELSE 0]

\* A window of the event has one winner; who ran it is worth remembering.
Claimed == setup.server \/ setup.singleton

Started(p) ==
    /\ runs' = runs \union {Run(p)}
    /\ ran' = IF Claimed THEN [ran EXCEPT ![proc[p].window] = @ \union {<<p, proc[p].tenant>>}] ELSE ran
    /\ IF Background(p) THEN AfterRun(p) ELSE Goto(p, "running")

\* start and execute: the command is started, or the closure of a singleton
\* task claims its occurrence and runs, or does nothing when it is claimed.
Start(p) ==
    LET n == <<proc[p].window, proc[p].tenant>> IN
    /\ At(p, "start")
    /\ IF setup.singleton /\ claims[n] > 0
       THEN AfterRun(p) /\ UNCHANGED <<claims, late, runs, ran>>
       ELSE /\ IF setup.singleton THEN TakeClaim(n) ELSE UNCHANGED <<claims, late>>
            /\ Started(p)
    /\ UNCHANGED <<setup, minute, mutex, held, probed, overwrote, spent>>

\* A before callback or the command fails on the way in: the mutex is removed.
StartFails(p) ==
    /\ At(p, "start") /\ ~setup.singleton
    /\ Incident
    /\ Forget(p)
    /\ AfterRun(p)
    /\ UNCHANGED <<setup, minute, claims, runs, ran, late, probed, overwrote>>

\* Finish of a foreground run: the after callbacks, then the mutex.
Finish(p) ==
    /\ At(p, "running")
    /\ runs' = {r \in runs : r.by # p \/ r.background}
    /\ Forget(p)
    /\ AfterRun(p)
    /\ UNCHANGED <<setup, minute, claims, ran, late, probed, overwrote, spent>>

\* finishInBackground, in a goroutine beside the loop.
FinishInBackground(r) ==
    /\ r \in runs /\ r.background
    /\ runs' = runs \ {r}
    /\ Forget(r.by)
    /\ UNCHANGED <<setup, minute, claims, proc, ran, late, probed, overwrote, spent>>

\* repeatEvents: again while the minute lasts.
Repeat(p) ==
    /\ At(p, "repeat")
    /\ IF minute = proc[p].window THEN Goto(p, "filter") ELSE Done(p)
    /\ UNCHANGED <<setup, minute, mutex, claims, held, runs, ran, late, probed, overwrote, spent>>

----------------------------------------------------------------------------
(* Operators, accidents and time                                            *)

Command(o, job, step) ==
    /\ o \in Operators /\ Resting(o)
    /\ spent.commands < setup.commands
    /\ spent' = [spent EXCEPT !.commands = @ + 1]
    /\ proc' = [proc EXCEPT ![o] = [Idle EXCEPT !.at = step, !.job = job, !.window = minute]]
    /\ UNCHANGED <<setup, minute, mutex, claims, held, runs, ran, late, probed, overwrote>>

\* schedule:test, and TaskScheduler.RunNow: the event's Run, without the pass.
ScheduleTest(o) == Command(o, "test", "create")

\* schedule:clear-cache: Exists, and Forget when it says yes, in a process
\* that holds no handle.  (schedule:finish is Forget in such a process too, and
\* changes nothing here.)
ScheduleClearCache(o) == setup.overlap /\ Command(o, "clear", "filter")

\* The store fails a call: a probe that cannot be made counts as held, one that
\* cannot be given back stays, a claim or a mutex that cannot be asked for is
\* not taken.  clear-cache returns the error.
StoreFails(p) ==
    /\ Incident
    /\ \/ At(p, "filter") /\ setup.overlap /\ Skip(p)
       \/ At(p, "probing") /\ Skip(p)
       \/ At(p, "claim") /\ setup.server /\ proc[p].mine = "unasked" /\ Skip(p)
       \/ At(p, "create") /\ setup.overlap /\ AfterRun(p)
       \/ At(p, "start") /\ setup.singleton /\ AfterRun(p)
    /\ UNCHANGED <<setup, minute, mutex, claims, held, runs, ran, late, probed, overwrote>>

\* removeMutex ignores a Release that fails: the handle is gone, and the mutex
\* stays until it expires.  The run it ends is a foreground one, one that failed
\* to start, or one in the background.
ReleaseFails(p) ==
    /\ Incident
    /\ held[p] # None /\ held' = [held EXCEPT ![p] = None]
    /\ \/ At(p, "running") /\ runs' = {r \in runs : r.by # p \/ r.background} /\ AfterRun(p)
       \/ At(p, "start") /\ AfterRun(p) /\ UNCHANGED runs
       \/ \E r \in runs : r.by = p /\ r.background /\ runs' = runs \ {r} /\ UNCHANGED proc
    /\ UNCHANGED <<setup, minute, mutex, claims, ran, late, probed, overwrote>>

\* The process dies, its runs and its handle with it; it starts again and waits
\* for the next minute.
Crash(p) ==
    /\ Incident
    /\ ~Resting(p) \/ \E r \in runs : r.by = p
    /\ Done(p)
    /\ held' = [held EXCEPT ![p] = None]
    /\ runs' = {r \in runs : r.by # p}
    /\ UNCHANGED <<setup, minute, mutex, claims, ran, late, probed, overwrote>>

\* A minute passes.  No pass is a whole day behind (the bound of the model), and
\* what is remembered of a window is forgotten once nobody is in it.
Elapse ==
    LET next == IF minute = Day - 1 THEN 0 ELSE minute + 1
        open == {proc[p].window : p \in {q \in Procs : ~Resting(q)}}
    IN
    /\ \A p \in Procs : Resting(p) \/ proc[p].window # next
    /\ minute' = next
    /\ mutex' = Elapsed(mutex)
    /\ claims' = [n \in Names |-> IF claims[n] > 0 THEN claims[n] - 1 ELSE 0]
    /\ runs' = {[r EXCEPT !.left = IF @ > 0 THEN @ - 1 ELSE 0] : r \in runs}
    /\ ran' = [w \in Minutes |-> IF w \in open THEN ran[w] ELSE {}]
    /\ late' = late \intersect open /\ probed' = probed \intersect open
    /\ proc' = [p \in Procs |-> IF At(p, "asleep") THEN Idle ELSE proc[p]]
    /\ UNCHANGED <<setup, held, overwrote, spent>>

\* What a process does by itself once it started.
Step(p) ==
    \/ Tick(p) \/ Filter(p) \/ Unprobe(p) \/ Claim(p) \/ Create(p) \/ Start(p)
    \/ Finish(p) \/ Repeat(p)

Next ==
    \/ \E p \in Procs : Step(p) \/ StartFails(p) \/ StoreFails(p) \/ ReleaseFails(p) \/ Crash(p)
    \/ \E r \in runs : FinishInBackground(r)
    \/ \E o \in Operators : ScheduleTest(o) \/ ScheduleClearCache(o)
    \/ Elapse

Spec == Init /\ [][Next]_vars

\* Every process keeps running, every run ends and time passes.
FairSpec ==
    /\ Spec
    /\ \A p \in Procs : WF_vars(Step(p)) /\ WF_vars(\E r \in runs : r.by = p /\ FinishInBackground(r))
    /\ WF_vars(Elapse)

----------------------------------------------------------------------------
(* Properties                                                               *)

\* OnOneServer: one replica runs a window, and a singleton task runs once per
\* tenant and occurrence whoever asked for it, however late the others are,
\* unless somebody asked for the window after the claim's whole ttl.
OncePerWindow ==
    \A w \in Minutes \ late : \A x, y \in ran[w] :
        /\ setup.server /\ {x[1], y[1]} \subseteq Replicas => x[1] = y[1]
        /\ setup.singleton /\ x[2] = y[2] => x[1] = y[1]

\* WithoutOverlapping: two runs are never in progress at once while the mutex
\* of both has time left, unless one process stored a second handle over the
\* first (a per-tenant background event whose mutex expired between tenants).
NoOverlap ==
    setup.overlap /\ ~overwrote => Cardinality({r \in runs : r.left > 0}) <= 1

\* A process is between its probe of the mutex and its Create.
Between(p) == proc[p].at \in {"probing", "claim", "create"}

\* Whatever crashed or failed, the event goes on being run: a mutex left behind
\* expires, and a window another replica lost is followed by one it may win.
\* Assumed: replicas do not for ever take a minute from the probe to Create.
\* (Not with OnOneServer and WithoutOverlapping together: see WindowRuns.)
KeepsRunning ==
    ~(setup.server /\ setup.overlap) =>
        \/ []<><<\E p \in Procs : Start(p) /\ runs' # runs>>_vars
        \/ []<><<Elapse /\ \E p \in Procs : Between(p)>>_vars

\* A window whose run was refused is run by somebody all the same: "the first
\* replica to claim the window runs it".
WindowRuns ==
    \A w \in probed : (\A p \in Procs : Resting(p) \/ proc[p].window # w) => ran[w] # {}

\* schedule:clear-cache leaves no mutex behind: when it found one and goes on,
\* having said it deleted it, the mutex is free.
ClearCacheFrees ==
    [][\A o \in Operators :
          At(o, "filter") /\ proc[o].job = "clear" /\ proc'[o] = Rest /\ UNCHANGED spent
              => ~Live(mutex')]_vars
=============================================================================
