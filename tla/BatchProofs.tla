---------------------------- MODULE BatchProofs ----------------------------
(* What a batch's counters, callbacks and chain guarantee, for any number of *)
(* jobs, workers, links and deliveries.                                      *)
EXTENDS Batch, TLAPS

\* Zenon is the prover of a leaf that names none.
USE Zenon

----------------------------------------------------------------------------
(* Finite sets                                                              *)

\* The facts about finite sets that the lemmas below take as a hypothesis.
\* FiniteSetTheorems proves them: SetFactsHold, at the end.
Subsets == \A S : IsFiniteSet(S) =>
    \A T \in SUBSET S : /\ IsFiniteSet(T) /\ Cardinality(T) <= Cardinality(S)
                        /\ Cardinality(S) = Cardinality(T) => S = T
Enumerated == \A S : IsFiniteSet(S) =>
    Cardinality(S) \in Nat /\ ExistsBijection(1..Cardinality(S), S)
Adding == \A S, x : IsFiniteSet(S) =>
    /\ IsFiniteSet(S \cup {x})
    /\ Cardinality(S \cup {x}) = IF x \in S THEN Cardinality(S) ELSE Cardinality(S) + 1
Removing == \A S, x : IsFiniteSet(S) =>
    /\ IsFiniteSet(S \ {x})
    /\ Cardinality(S \ {x}) = IF x \in S THEN Cardinality(S) - 1 ELSE Cardinality(S)
Uniting == \A S, T : IsFiniteSet(S) /\ IsFiniteSet(T) =>
    Cardinality(S \cup T) = Cardinality(S) + Cardinality(T) - Cardinality(S \cap T)
Emptiness == Cardinality({}) = 0 /\ \A S : IsFiniteSet(S) => (Cardinality(S) = 0 <=> S = {})
Intervals == \A a \in Int, b \in Int : IsFiniteSet(a..b)
SetFacts == Subsets /\ Enumerated /\ Adding /\ Removing /\ Uniting /\ Emptiness /\ Intervals

----------------------------------------------------------------------------
(* Lists of calls                                                           *)

Elems(s) == {s[i] : i \in 1..Len(s)}
Distinct(s) == \A i, j \in 1..Len(s) : s[i] = s[j] => i = j

\* What is left of a list when its first call is made.
LEMMA TailOf ==
    ASSUME NEW S, NEW s \in Seq(S), s # <<>>
    PROVE  /\ Head(s) \in S /\ Tail(s) \in Seq(S)
           /\ Head(s) = s[1] /\ 1 \in 1..Len(s)
           /\ \A i \in 1..Len(Tail(s)) : i + 1 \in 1..Len(s) /\ i + 1 # 1 /\ Tail(s)[i] = s[i + 1]
BY SMT

\* The elements of it.
LEMMA TailElems ==
    ASSUME NEW S, NEW s \in Seq(S), s # <<>>
    PROVE  /\ Head(s) \in Elems(s) /\ Elems(Tail(s)) \subseteq Elems(s)
           /\ Distinct(s) => Distinct(Tail(s)) /\ Head(s) \notin Elems(Tail(s))
<1>1. Head(s) \in Elems(s) /\ Elems(Tail(s)) \subseteq Elems(s)
  BY SMT, TailOf DEF Elems
<1>2. ASSUME Distinct(s)
      PROVE  Distinct(Tail(s)) /\ Head(s) \notin Elems(Tail(s))
  <2>1. Head(s) \notin Elems(Tail(s))
    BY SMT, <1>2, TailOf DEF Elems, Distinct
  <2>2. ASSUME NEW i \in 1..Len(Tail(s)), NEW j \in 1..Len(Tail(s)), Tail(s)[i] = Tail(s)[j]
        PROVE  i = j
    <3>1. i + 1 \in 1..Len(s) /\ j + 1 \in 1..Len(s) /\ s[i + 1] = s[j + 1]
      BY <2>2, TailOf
    <3>2. i + 1 = j + 1
      BY <1>2, <3>1 DEF Distinct
    <3>3. QED
      BY SMT, <3>2
  <2>3. QED
    BY <2>1, <2>2 DEF Distinct
<1>3. QED
  BY <1>1, <1>2

\* Two lists, one after the other.
LEMMA ConcatElems ==
    ASSUME NEW S, NEW s \in Seq(S), NEW t \in Seq(S)
    PROVE  /\ s \o t \in Seq(S)
           /\ Elems(s \o t) \subseteq Elems(s) \cup Elems(t)
           /\ Distinct(s) /\ Distinct(t) /\ Elems(s) \cap Elems(t) = {} => Distinct(s \o t)
<1>1. /\ s \o t \in Seq(S) /\ Len(s \o t) = Len(s) + Len(t) /\ Len(s) \in Nat /\ Len(t) \in Nat
      /\ \A i \in 1..Len(s \o t) : (s \o t)[i] = IF i <= Len(s) THEN s[i] ELSE t[i - Len(s)]
  BY SMT
<1>2. \A i \in 1..Len(s \o t) :
        \/ i \in 1..Len(s) /\ (s \o t)[i] = s[i]
        \/ i - Len(s) \in 1..Len(t) /\ (s \o t)[i] = t[i - Len(s)]
  BY SMT, <1>1
<1>3. Elems(s \o t) \subseteq Elems(s) \cup Elems(t)
  BY <1>2 DEF Elems
<1>4. ASSUME Distinct(s), Distinct(t), Elems(s) \cap Elems(t) = {},
             NEW i \in 1..Len(s \o t), NEW j \in 1..Len(s \o t), (s \o t)[i] = (s \o t)[j]
      PROVE  i = j
  <2>1. CASE i \in 1..Len(s) /\ (s \o t)[i] = s[i]
    <3>1. s[i] \in Elems(s) /\ s[i] \notin Elems(t)
      BY <1>4, <2>1 DEF Elems
    <3>2. j \in 1..Len(s) /\ (s \o t)[j] = s[j]
      BY <1>2, <1>4, <2>1, <3>1 DEF Elems
    <3>3. QED
      BY <1>4, <2>1, <3>2 DEF Distinct
  <2>2. CASE i - Len(s) \in 1..Len(t) /\ (s \o t)[i] = t[i - Len(s)]
    <3>1. t[i - Len(s)] \in Elems(t) /\ t[i - Len(s)] \notin Elems(s)
      BY <1>4, <2>2 DEF Elems
    <3>2. j - Len(s) \in 1..Len(t) /\ (s \o t)[j] = t[j - Len(s)]
      BY <1>2, <1>4, <2>2, <3>1 DEF Elems
    <3>3. i - Len(s) = j - Len(s)
      BY <1>4, <2>2, <3>2 DEF Distinct
    <3>4. QED
      BY SMT, <1>1, <3>3
  <2>3. QED
    BY <1>2, <2>1, <2>2
<1>5. QED
  BY <1>1, <1>3, <1>4 DEF Distinct

\* Short lists.
LEMMA ShortElems ==
    /\ \A S : \A s \in Seq(S) : DOMAIN s = 1..Len(s) /\ Len(s) \in Nat
    /\ \A x : \A i \in 1..Len(<<x>>) : i = 1
    /\ \A S : <<>> \in Seq(S) /\ Elems(<<>>) = {} /\ Distinct(<<>>)
    /\ 1..Len(<<>>) = {}
    /\ \A S : \A x \in S : <<x>> \in Seq(S) /\ Elems(<<x>>) = {x} /\ Distinct(<<x>>)
    /\ \A S : \A x, y \in S : x # y =>
         <<x, y>> \in Seq(S) /\ Elems(<<x, y>>) = {x, y} /\ Distinct(<<x, y>>)
<1>0. \A x : \A i \in 1..Len(<<x>>) : i = 1
  BY SMT
<1>1. \A S : <<>> \in Seq(S) /\ Elems(<<>>) = {} /\ Distinct(<<>>)
  BY SMT DEF Elems, Distinct
<1>2. \A S : \A x \in S : <<x>> \in Seq(S) /\ Elems(<<x>>) = {x} /\ Distinct(<<x>>)
  BY SMT DEF Elems, Distinct
<1>3. \A S : \A x, y \in S : x # y =>
         <<x, y>> \in Seq(S) /\ Elems(<<x, y>>) = {x, y} /\ Distinct(<<x, y>>)
  BY SMT DEF Elems, Distinct
<1>4. 1..Len(<<>>) = {}
  BY SMT
<1>5. ASSUME NEW S, NEW s \in Seq(S)
      PROVE  DOMAIN s = 1..Len(s) /\ Len(s) \in Nat
  BY SMT
<1>6. QED
  BY <1>0, <1>1, <1>2, <1>3, <1>4, <1>5

\* Sums.
LEMMA Sums ==
    /\ \A a, b \in Nat : /\ a + b \in Nat /\ a + 1 \in Nat /\ a + 0 = a /\ a + 1 # a
                        /\ (a + 1) + b = (a + b) + 1 /\ a + (b + 1) = (a + b) + 1
    /\ \A a, b \in Nat : a >= a /\ (a >= b /\ b >= a => a = b)
    /\ \A n \in Nat : 1..n \subseteq Nat
BY SMT

----------------------------------------------------------------------------
(* Types                                                                    *)

CallType ==
    ({"raise"} \X Nat)
    \cup ({"store", "finish", "cancel", "delete", "push", "callback", "link"}
            \X ({"none"} \cup Jobs \cup Callbacks \cup Nat))

CountType == [pending : Int, failed : SUBSET Jobs]

RowType == [exists : BOOLEAN, total : Nat, pending : Int, failed : SUBSET Jobs,
            finished : BOOLEAN, cancelled : BOOLEAN]

ProcType ==
    [step : {"idle", "dispatch", "respond", "terminate", "add", "done", "find", "write", "report"},
     msg : Messages \cup {"none"}, try : Nat, failing : BOOLEAN, before : CountType,
     todo : Seq(CallType), erred : BOOLEAN]

Types ==
    /\ setup \in Setups
    /\ row \in RowType
    /\ status \in [Messages -> {"none", "queued", "held", "parked", "done"}]
    /\ attempts \in [Messages -> Nat]
    /\ DOMAIN holder = Messages
    /\ proc \in [Procs -> ProcType]
    /\ fired \in [Callbacks -> Nat]
    /\ reports \in [Jobs -> {"none", "failed", "success"}]

\* The constants.
LEMMA Constants ==
    /\ IsFiniteSet(Jobs) /\ IsFiniteSet(Workers)
    /\ Request \notin Workers /\ "none" \notin Procs
    /\ \A m \in LinkMessages : m \notin Jobs
    /\ Len(Links) \in Nat /\ MaxTries \in Nat /\ MaxCopies \in Nat
    /\ Workers \subseteq Procs /\ Request \in Procs /\ \A p \in Procs : p = Request \/ p \in Workers
<1>1. Len(Links) \in Nat
  BY SMT, BatchAssumption
<1>2. QED
  BY <1>1, BatchAssumption DEF Procs, LinkMessages

\* A set of jobs is counted.
LEMMA JobSets ==
    ASSUME SetFacts, NEW S \in SUBSET Jobs
    PROVE  IsFiniteSet(S) /\ Cardinality(S) \in Nat
<1>1. IsFiniteSet(S)
  BY Constants DEF SetFacts, Subsets
<1>2. QED
  BY <1>1 DEF SetFacts, Enumerated

\* Sets of workers.
LEMMA WorkerSets ==
    ASSUME SetFacts, NEW S \in SUBSET Workers
    PROVE  /\ IsFiniteSet(S) /\ Cardinality(S) \in Nat
           /\ \A T : T \subseteq S => Cardinality(T) \in Nat /\ Cardinality(T) <= Cardinality(S)
           /\ \A w \in S : \A T : T \subseteq S \ {w} => Cardinality(T) \in Nat /\ Cardinality(T) + 1 <= Cardinality(S)
           /\ \A w \in Workers : \A T : T \subseteq S \cup {w} =>
                Cardinality(T) \in Nat /\ Cardinality(T) <= Cardinality(S) + 1
<1>1. IsFiniteSet(S) /\ Cardinality(S) \in Nat
  BY Constants DEF SetFacts, Subsets, Enumerated
<1>2. ASSUME NEW R, IsFiniteSet(R), NEW T, T \subseteq R
      PROVE  Cardinality(T) \in Nat /\ Cardinality(T) <= Cardinality(R)
  <2>1. IsFiniteSet(T) /\ Cardinality(T) <= Cardinality(R)
    BY <1>2 DEF SetFacts, Subsets
  <2>2. QED
    BY <2>1 DEF SetFacts, Enumerated
<1>3. ASSUME NEW w \in S, NEW T, T \subseteq S \ {w}
      PROVE  Cardinality(T) \in Nat /\ Cardinality(T) + 1 <= Cardinality(S)
  <2>1. IsFiniteSet(S \ {w}) /\ Cardinality(S \ {w}) = Cardinality(S) - 1
    BY <1>1, <1>3 DEF SetFacts, Removing
  <2>2. Cardinality(T) \in Nat /\ Cardinality(T) <= Cardinality(S \ {w})
    BY <1>2, <1>3, <2>1
  <2>3. QED
    BY SMT, <1>1, <2>1, <2>2
<1>4. ASSUME NEW w \in Workers, NEW T, T \subseteq S \cup {w}
      PROVE  Cardinality(T) \in Nat /\ Cardinality(T) <= Cardinality(S) + 1
  <2>1. /\ IsFiniteSet(S \cup {w})
        /\ Cardinality(S \cup {w}) = IF w \in S THEN Cardinality(S) ELSE Cardinality(S) + 1
    BY <1>1 DEF SetFacts, Adding
  <2>2. Cardinality(T) \in Nat /\ Cardinality(T) <= Cardinality(S \cup {w})
    BY <1>2, <1>4, <2>1
  <2>3. QED
    BY SMT, <1>1, <2>1, <2>2
<1>5. QED
  BY <1>1, <1>2, <1>3, <1>4

\* Sets of jobs.
LEMMA JobCounts ==
    ASSUME SetFacts, NEW S \in SUBSET Jobs
    PROVE  /\ \A j \in Jobs : j \notin S => Cardinality(S \cup {j}) = Cardinality(S) + 1
           /\ \A j \in Jobs : Cardinality(S \cup {j}) = Cardinality(S) => j \in S
           /\ \A T : T \subseteq S /\ Cardinality(S) <= Cardinality(T) => T = S
<1>1. IsFiniteSet(S) /\ Cardinality(S) \in Nat
  BY JobSets
<1>2. \A j \in Jobs : j \notin S => Cardinality(S \cup {j}) = Cardinality(S) + 1
  BY <1>1 DEF SetFacts, Adding
<1>3. \A n \in Nat : n + 1 # n
  BY SMT
<1>4. ASSUME NEW T, T \subseteq S, Cardinality(S) <= Cardinality(T)
      PROVE  T = S
  <2>1. /\ IsFiniteSet(T) /\ Cardinality(T) <= Cardinality(S)
        /\ Cardinality(S) = Cardinality(T) => S = T
    BY <1>1, <1>4 DEF SetFacts, Subsets
  <2>2. Cardinality(T) \in Nat
    BY <2>1 DEF SetFacts, Enumerated
  <2>3. Cardinality(S) = Cardinality(T)
    BY SMT, <1>1, <1>4, <2>1, <2>2
  <2>4. QED
    BY <2>1, <2>3
<1>5. QED
  BY <1>1, <1>2, <1>3, <1>4

\* Two sets of jobs that share none.
LEMMA Disjoint ==
    ASSUME SetFacts, NEW S \in SUBSET Jobs, NEW T \in SUBSET Jobs, S \cap T = {}
    PROVE  Cardinality(S \cup T) = Cardinality(S) + Cardinality(T)
<1>1. IsFiniteSet(S) /\ IsFiniteSet(T) /\ Cardinality(S) \in Nat /\ Cardinality(T) \in Nat
  BY JobSets
<1>2. Cardinality(S \cup T) = Cardinality(S) + Cardinality(T) - Cardinality(S \cap T)
  BY <1>1 DEF SetFacts, Uniting
<1>3. Cardinality(S \cap T) = 0
  BY DEF SetFacts, Emptiness
<1>4. QED
  BY SMT, <1>1, <1>2, <1>3

\* Counters: one more, one less, nothing left.
LEMMA Tallies ==
    /\ \A a \in Nat, b \in Nat, c \in Nat : c >= a /\ c <= b => a <= b
    /\ \A t \in Nat, a \in Nat : (t - a) - 1 = t - (a + 1)
    /\ \A t \in Nat, a \in Nat : t - a = 0 => t <= a
    /\ \A t \in Nat, a \in Nat, b \in Nat : (t - a) - b = 0 => t <= a + b
    /\ \A p \in Int : p - 1 # p /\ (p - 1 = 0 => p > 0 /\ ~(p - 1 > 0)) /\ (p - 1 > 0 => p > 0)
    /\ \A p \in Int, n \in Nat : /\ (p - 1) - n = 0 => p > n /\ ~(p - 1 > n)
                                 /\ p - (n + 1) = 0 => p > n /\ ~(p > n + 1)
                                 /\ (p - 1 > n => p > n) /\ (p > n + 1 => p > n)
    /\ \A n \in Nat : n + 1 = 1 => n = 0
    /\ 0 # 1
BY SMT

\* Calls made, calls being made and calls that are left, within a limit.
Bounded(made, making, left, limit) == made + making + left <= limit
Fewer(made2, making2, made, making) == made2 + making2 <= made + making

Bit == {0, 1}

\* Such a bound holds at first, and is kept
LEMMA BoundStored == \A c \in Bit : Bounded(0, 0, c, 1)
BY SMT DEF Bounded, Bit

\* when a call is made,
LEMMA BoundCalled ==
    ASSUME NEW a \in Nat, NEW b \in Nat, NEW a2 \in Nat, NEW b2 \in Nat, NEW c \in Nat, NEW l \in Nat,
           Bounded(a, b, c, l), Fewer(a2, b2, a, b)
    PROVE  Bounded(a2, b2, c, l)
BY SMT DEF Bounded, Fewer

\* when the counters are raised, and with them the limit,
LEMMA BoundRaised ==
    ASSUME NEW a \in Nat, NEW b \in Nat, NEW c \in Nat, NEW d \in Bit, Bounded(a, b, c, 1)
    PROVE  Bounded(a, b, d, 2)
BY SMT DEF Bounded, Bit

\* when a report has the call made that was left, and when it leaves it.
LEMMA BoundReported ==
    ASSUME NEW a \in Nat, NEW b \in Nat, NEW b2 \in Nat, NEW l \in Nat
    PROVE  /\ Bounded(a, b, 1, l) /\ b2 <= b + 1 => Bounded(a, b2, 0, l)
           /\ \A c \in Nat : Bounded(a, b, c, l) /\ b2 <= b => Bounded(a, b2, c, l) /\ Bounded(a, b2, 0, l)
BY SMT DEF Bounded

\* It bounds the calls made.
LEMMA BoundMade ==
    ASSUME NEW a \in Nat, NEW b \in Nat, NEW c \in Nat, NEW l \in Nat, Bounded(a, b, c, l)
    PROVE  a <= l
BY SMT DEF Bounded

\* A worker is given the call that was left, or the call is still left.
Trades(w, T, c, c2) == (w \in T => c = 1 /\ c2 = 0) /\ (c = 0 => c2 = 0)

\* A report keeps the bound: the call it has made was left before.
LEMMA ReportBound ==
    ASSUME SetFacts,
           NEW w \in Workers, NEW S \in SUBSET Workers, NEW T \in SUBSET Workers, T \subseteq S \cup {w},
           NEW a \in Nat, NEW l \in Nat, NEW c \in Bit, NEW c2 \in Bit, Trades(w, T, c, c2),
           Bounded(a, Cardinality(S), c, l)
    PROVE  Bounded(a, Cardinality(T), c2, l)
<1>1. Cardinality(S) \in Nat /\ Cardinality(T) \in Nat /\ Cardinality(T) <= Cardinality(S) + 1
  BY WorkerSets
<1>2. CASE w \in T
  <2>1. c = 1 /\ c2 = 0
    BY <1>2 DEF Trades
  <2>2. QED
    BY SMT, <1>1, <2>1 DEF Bounded
<1>3. CASE w \notin T
  <2>1. T \subseteq S
    BY <1>3
  <2>2. Cardinality(T) <= Cardinality(S)
    BY <2>1, WorkerSets
  <2>3. c2 <= c
    BY SMT DEF Trades, Bit
  <2>4. QED
    BY SMT, <1>1, <2>2, <2>3 DEF Bounded, Bit
<1>4. QED
  BY <1>2, <1>3

\* A worker makes a call, and no longer has it to make.
LEMMA MadeOnce ==
    ASSUME SetFacts,
           NEW S \in SUBSET Workers, NEW T \in SUBSET Workers, T \subseteq S, NEW a \in Nat, NEW a2 \in Nat,
           a2 = a \/ (a2 = a + 1 /\ \E w \in S : w \notin T)
    PROVE  Cardinality(S) \in Nat /\ Cardinality(T) \in Nat /\ Fewer(a2, Cardinality(T), a, Cardinality(S))
<1>1. Cardinality(S) \in Nat /\ Cardinality(T) \in Nat /\ Cardinality(T) <= Cardinality(S)
  BY WorkerSets
<1>2. CASE a2 = a
  BY SMT, <1>1, <1>2 DEF Fewer
<1>3. CASE a2 = a + 1 /\ \E w \in S : w \notin T
  <2>1. PICK w \in S : T \subseteq S \ {w}
    BY <1>3
  <2>2. Cardinality(T) + 1 <= Cardinality(S)
    BY <2>1, WorkerSets
  <2>3. QED
    BY SMT, <1>1, <1>3, <2>2 DEF Fewer
<1>4. QED
  BY <1>2, <1>3

\* Nothing was called, or the limit was kept: it is raised, or stays as the
\* calls that are left do.
Limits(made, making, left, limit, left2, limit2) ==
    \/ made = 0 /\ making = {} /\ limit2 = 1
    \/ Bounded(made, Cardinality(making), left, limit) /\ limit = 1 /\ limit2 = 2
    \/ Bounded(made, Cardinality(making), left, limit) /\ limit2 = limit /\ left2 = left

\* A call is made within its limit.
LEMMA CallBound ==
    ASSUME SetFacts,
           NEW S \in SUBSET Workers, NEW T \in SUBSET Workers, T \subseteq S, NEW a \in Nat, NEW a2 \in Nat,
           a2 = a \/ (a2 = a + 1 /\ \E w \in S : w \notin T),
           NEW c \in Bit, NEW c2 \in Bit, NEW l \in Nat, NEW l2 \in Nat,
           Limits(a, S, c, l, c2, l2)
    PROVE  Bounded(a2, Cardinality(T), c2, l2)
<1>1. Cardinality(S) \in Nat /\ Cardinality(T) \in Nat /\ Fewer(a2, Cardinality(T), a, Cardinality(S))
  BY MadeOnce
<1>2. c \in Nat
  BY SMT DEF Bit
<1>3. CASE a = 0 /\ S = {} /\ l2 = 1
  <2>1. a2 = 0 /\ Cardinality(T) = 0
    BY <1>3 DEF SetFacts, Emptiness
  <2>2. Bounded(0, 0, c2, 1)
    BY BoundStored
  <2>3. QED
    BY <1>3, <2>1, <2>2
<1>4. CASE Bounded(a, Cardinality(S), c, l)
  <2>1. Bounded(a2, Cardinality(T), c, l)
    BY <1>1, <1>2, <1>4, BoundCalled
  <2>2. CASE l = 1 /\ l2 = 2
    <3>1. Bounded(a2, Cardinality(T), c, 1)
      BY <2>1, <2>2
    <3>2. Bounded(a2, Cardinality(T), c2, 2)
      BY <1>1, <1>2, <3>1, BoundRaised
    <3>3. QED
      BY <2>2, <3>2
  <2>3. CASE l2 = l /\ c2 = c
    BY <2>1, <2>3
  <2>4. QED
    BY <1>3, <2>2, <2>3 DEF Limits
<1>5. QED
  BY <1>3, <1>4 DEF Limits

\* What a batch is described with.
LEMMA SetupFacts ==
    ASSUME SetFacts, setup \in Setups
    PROVE  /\ Described \subseteq Jobs /\ Extra \subseteq Jobs /\ Described \cap Extra = {}
           /\ IsFiniteSet(Described) /\ IsFiniteSet(Extra)
           /\ Cardinality(Described) \in Nat \ {0} /\ Cardinality(Extra) \in Nat
           /\ Extra # {} => Cardinality(Extra) # 0
<1>1. /\ Described \subseteq Jobs /\ Extra \subseteq Jobs /\ Described \cap Extra = {}
      /\ Described # {}
  BY BatchAssumption DEF SetupType, Described, Extra
<1>2. /\ IsFiniteSet(Described) /\ IsFiniteSet(Extra)
      /\ Cardinality(Described) \in Nat /\ Cardinality(Extra) \in Nat
  BY <1>1, JobSets
<1>3. Cardinality(Described) # 0 /\ (Extra # {} => Cardinality(Extra) # 0)
  BY <1>1, <1>2 DEF SetFacts, Emptiness
<1>4. QED
  BY <1>1, <1>2, <1>3

\* The pushes of a set of jobs.
LEMMA PushesOf ==
    ASSUME SetFacts, NEW jobs \in SUBSET Jobs
    PROVE  /\ Pushes(jobs) \in Seq(CallType)
           /\ \A i \in 1..Len(Pushes(jobs)) : \E j \in jobs : Pushes(jobs)[i] = Push(j)
<1>1. IsFiniteSet(jobs) /\ Cardinality(jobs) \in Nat
  BY JobSets
<1>2. InOrder(jobs) \in [1..Cardinality(jobs) -> jobs]
  <2>1. ExistsBijection(1..Cardinality(jobs), jobs)
    BY <1>1 DEF SetFacts, Enumerated
  <2>2. \E f \in Injection(1..Cardinality(jobs), jobs) : TRUE
    BY <2>1 DEF ExistsBijection, Bijection
  <2>3. InOrder(jobs) \in Injection(1..Cardinality(jobs), jobs)
    BY <2>2 DEF InOrder
  <2>4. QED
    BY <2>3 DEF Injection
<1>3. \A j \in Jobs : Push(j) \in CallType
  BY DEF Push, CallType
<1>4. \A n \in 1..Cardinality(jobs) : Push(InOrder(jobs)[n]) \in CallType
  BY <1>2, <1>3
<1>5. Pushes(jobs) \in Seq(CallType) /\ Len(Pushes(jobs)) = Cardinality(jobs)
  BY SMT, <1>1, <1>4 DEF Pushes
<1>6. \A i \in 1..Cardinality(jobs) : Pushes(jobs)[i] = Push(InOrder(jobs)[i])
  BY DEF Pushes
<1>7. QED
  BY <1>2, <1>5, <1>6

\* The calls there are, and that they differ.
LEMMA CallTypes ==
    /\ Call("store") \in CallType /\ Call("finish") \in CallType /\ Call("cancel") \in CallType
    /\ Call("delete") \in CallType /\ \A n \in Nat : <<"raise", n>> \in CallType /\ <<"link", n>> \in CallType
    /\ \A c \in Callbacks : Callback(c) \in CallType
    /\ FinallyCall \in CallType
    /\ Call("finish") # Callback("Then") /\ Call("cancel") # Callback("Catch")
    /\ FinallyCall \notin {Call("finish"), Call("cancel"), Callback("Then"), Callback("Catch")}
BY SMT DEF Call, Callback, FinallyCall, CallType, Callbacks

\* What a report has called is told apart.
LEMMA CallsDiffer ==
    /\ Call("finish") # Callback("Catch") /\ Call("finish") # Call("cancel") /\ Callback("Then") # Callback("Catch")
    /\ Callback("Then") # Call("cancel") /\ FinallyCall # Call("finish") /\ FinallyCall # Callback("Then")
    /\ FinallyCall # Callback("Catch")
BY SMT DEF Call, Callback, FinallyCall

\* What a call is named.
LEMMA CallNames ==
    /\ \A op : Call(op)[1] = op
    /\ \A j : Push(j)[1] = "push" /\ Push(j)[2] = j
    /\ \A c \in CallType : c = <<c[1], c[2]>>
    /\ \A c : Callback(c)[1] = "callback"
    /\ \A n : <<"link", n>>[1] = "link" /\ <<"link", n>>[2] = n
    /\ \A n : <<"raise", n>>[1] = "raise" /\ <<"raise", n>>[2] = n
<1>1. \A c \in CallType : c = <<c[1], c[2]>>
  BY SMT DEF CallType
<1>2. QED
  BY <1>1 DEF Call, Push, Callback

\* A call, then pushes.
LEMMA Prefixed ==
    ASSUME SetFacts, NEW c \in CallType, NEW jobs \in SUBSET Jobs
    PROVE  /\ <<c>> \o Pushes(jobs) \in Seq(CallType)
           /\ (<<c>> \o Pushes(jobs))[1] = c
           /\ \A i \in 1..Len(<<c>> \o Pushes(jobs)) :
                i # 1 => \E j \in jobs : (<<c>> \o Pushes(jobs))[i] = Push(j)
<1>1. PICK t \in Seq(CallType) : t = Pushes(jobs) /\ \A i \in 1..Len(t) : \E j \in jobs : t[i] = Push(j)
  BY PushesOf
<1>2. <<c>> \in Seq(CallType) /\ Len(<<c>>) = 1 /\ <<c>>[1] = c /\ Len(t) \in Nat
  BY SMT, <1>1
<1>3. /\ <<c>> \o t \in Seq(CallType) /\ Len(<<c>> \o t) = Len(<<c>>) + Len(t)
      /\ \A i \in 1..Len(<<c>>) + Len(t) :
           (<<c>> \o t)[i] = IF i <= Len(<<c>>) THEN <<c>>[i] ELSE t[i - Len(<<c>>)]
  BY SMT, <1>1, <1>2
<1>4. (<<c>> \o t)[1] = c
  BY SMT, <1>2, <1>3
<1>5. \A i \in 1..Len(<<c>> \o t) : i # 1 => i - 1 \in 1..Len(t) /\ (<<c>> \o t)[i] = t[i - 1]
  BY SMT, <1>2, <1>3
<1>6. \A i \in 1..Len(<<c>> \o t) : i # 1 => \E j \in jobs : (<<c>> \o t)[i] = Push(j)
  BY <1>1, <1>5
<1>7. QED
  BY <1>1, <1>3, <1>4, <1>6

\* A list that is made on a condition.
LEMMA WhenElems ==
    ASSUME NEW condition \in BOOLEAN, NEW S, NEW s \in Seq(S), Distinct(s)
    PROVE  /\ When(condition, s) \in Seq(S) /\ Distinct(When(condition, s))
           /\ Elems(When(condition, s)) \subseteq Elems(s)
           /\ ~condition => Elems(When(condition, s)) = {}
BY ShortElems DEF When

\* What a success triggers, and after which counters.
LEMMA SuccessCalls ==
    ASSUME NEW counts
    PROVE  /\ RecordSuccessfulJob(counts) \in Seq(CallType)
           /\ Distinct(RecordSuccessfulJob(counts))
           /\ Elems(RecordSuccessfulJob(counts)) \subseteq {Call("finish"), Callback("Then"), FinallyCall}
           /\ Call("finish") \in Elems(RecordSuccessfulJob(counts)) => counts.pending = 0
           /\ Callback("Then") \in Elems(RecordSuccessfulJob(counts)) => counts.pending = 0
           /\ FinallyCall \in Elems(RecordSuccessfulJob(counts)) => AllJobsHaveRanExactlyOnce(counts)
<1>1. /\ <<Call("finish"), Callback("Then")>> \in Seq(CallType)
      /\ Elems(<<Call("finish"), Callback("Then")>>) = {Call("finish"), Callback("Then")}
      /\ Distinct(<<Call("finish"), Callback("Then")>>)
  <2>1. PICK x \in CallType : x = Call("finish")
    BY CallTypes
  <2>2. PICK y \in CallType : y = Callback("Then") /\ y # x
    BY <2>1, CallTypes DEF Callbacks
  <2>3. <<x, y>> \in Seq(CallType) /\ Elems(<<x, y>>) = {x, y} /\ Distinct(<<x, y>>)
    BY SMT, <2>2 DEF Elems, Distinct
  <2>4. QED
    BY <2>1, <2>2, <2>3
<1>2. <<FinallyCall>> \in Seq(CallType) /\ Elems(<<FinallyCall>>) = {FinallyCall} /\ Distinct(<<FinallyCall>>)
  BY ShortElems, CallTypes
<1>3. PICK s : s = When(counts.pending = 0, <<Call("finish"), Callback("Then")>>)
  OBVIOUS
<1>4. PICK t : t = When(AllJobsHaveRanExactlyOnce(counts), <<FinallyCall>>)
  OBVIOUS
<1>5. /\ s \in Seq(CallType) /\ Distinct(s) /\ Elems(s) \subseteq {Call("finish"), Callback("Then")}
      /\ counts.pending # 0 => Elems(s) = {}
  BY <1>1, <1>3, WhenElems
<1>6. /\ t \in Seq(CallType) /\ Distinct(t) /\ Elems(t) \subseteq {FinallyCall}
      /\ ~AllJobsHaveRanExactlyOnce(counts) => Elems(t) = {}
  <2>1. AllJobsHaveRanExactlyOnce(counts) \in BOOLEAN
    BY DEF AllJobsHaveRanExactlyOnce
  <2>2. QED
    BY <1>2, <1>4, <2>1, WhenElems
<1>7. Elems(s) \cap Elems(t) = {}
  BY <1>5, <1>6, CallTypes
<1>8. /\ s \o t \in Seq(CallType) /\ Distinct(s \o t) /\ Elems(s \o t) \subseteq Elems(s) \cup Elems(t)
  BY <1>5, <1>6, <1>7, ConcatElems
<1>9. RecordSuccessfulJob(counts) = s \o t
  BY <1>3, <1>4 DEF RecordSuccessfulJob
<1>10. QED
  BY <1>5, <1>6, <1>8, <1>9, CallTypes

\* What a failure triggers.
LEMMA FailureCalls ==
    ASSUME NEW counts
    PROVE  /\ RecordFailedJob(counts) \in Seq(CallType)
           /\ Distinct(RecordFailedJob(counts))
           /\ Elems(RecordFailedJob(counts)) \subseteq {Call("cancel"), Callback("Catch"), FinallyCall}
           /\ Callback("Catch") \in Elems(RecordFailedJob(counts)) => FirstFailure(counts)
           /\ FinallyCall \in Elems(RecordFailedJob(counts)) => AllJobsHaveRanExactlyOnce(counts)
<1>1. \A c \in {Call("cancel"), Callback("Catch"), FinallyCall} :
         <<c>> \in Seq(CallType) /\ Elems(<<c>>) = {c} /\ Distinct(<<c>>)
  BY ShortElems, CallTypes DEF Callbacks
<1>2. PICK r : r = When(FirstFailure(counts) /\ ~setup.allowFailures, <<Call("cancel")>>)
  OBVIOUS
<1>3. PICK s : s = When(FirstFailure(counts), <<Callback("Catch")>>)
  OBVIOUS
<1>4. PICK t : t = When(AllJobsHaveRanExactlyOnce(counts), <<FinallyCall>>)
  OBVIOUS
<1>5. FirstFailure(counts) \in BOOLEAN /\ AllJobsHaveRanExactlyOnce(counts) \in BOOLEAN
  BY DEF FirstFailure, AllJobsHaveRanExactlyOnce
<1>6. r \in Seq(CallType) /\ Distinct(r) /\ Elems(r) \subseteq {Call("cancel")}
  <2>1. (FirstFailure(counts) /\ ~setup.allowFailures) \in BOOLEAN
    OBVIOUS
  <2>2. QED
    BY <1>1, <1>2, <2>1, WhenElems
<1>7. /\ s \in Seq(CallType) /\ Distinct(s) /\ Elems(s) \subseteq {Callback("Catch")}
      /\ ~FirstFailure(counts) => Elems(s) = {}
  BY <1>1, <1>3, <1>5, WhenElems
<1>8. /\ t \in Seq(CallType) /\ Distinct(t) /\ Elems(t) \subseteq {FinallyCall}
      /\ ~AllJobsHaveRanExactlyOnce(counts) => Elems(t) = {}
  BY <1>1, <1>4, <1>5, WhenElems
<1>9. r \o s \in Seq(CallType) /\ Distinct(r \o s) /\ Elems(r \o s) \subseteq Elems(r) \cup Elems(s)
  <2>1. Elems(r) \cap Elems(s) = {}
    BY <1>6, <1>7, CallTypes
  <2>2. QED
    BY <1>6, <1>7, <2>1, ConcatElems
<1>10. /\ (r \o s) \o t \in Seq(CallType) /\ Distinct((r \o s) \o t)
       /\ Elems((r \o s) \o t) \subseteq Elems(r \o s) \cup Elems(t)
  <2>1. Elems(r \o s) \cap Elems(t) = {}
    BY <1>6, <1>7, <1>8, <1>9, CallTypes
  <2>2. QED
    BY <1>8, <1>9, <2>1, ConcatElems
<1>11. RecordFailedJob(counts) = (r \o s) \o t
  BY <1>2, <1>3, <1>4 DEF RecordFailedJob
<1>12. QED
  BY <1>6, <1>7, <1>8, <1>9, <1>10, <1>11, CallTypes

----------------------------------------------------------------------------
(* What the steps do to a process                                           *)

\* Only process p changes, and becomes new.
Becomes(p, new) ==
    /\ proc' \in [Procs -> ProcType] /\ proc'[p] = new
    /\ \A q \in Procs : q # p => proc'[q] = proc[q]

\* An assignment to one process.
LEMMA BecomesBy ==
    ASSUME Types, NEW p \in Procs, NEW new \in ProcType, proc' = [proc EXCEPT ![p] = new]
    PROVE  Becomes(p, new)
<1>1. proc \in [Procs -> ProcType]
  BY DEF Types
<1>2. QED
  BY <1>1 DEF Becomes

\* An idle worker.
LEMMA IdleIs ==
    /\ Idle \in ProcType /\ Idle.step = "idle" /\ Idle.todo = <<>> /\ Idle.before = NoCounts
    /\ NoCounts \in CountType
<1>1. NoCounts \in CountType
  <2>1. 0 \in Int
    BY SMT
  <2>2. QED
    BY <2>1 DEF NoCounts, CountType
<1>2. <<>> \in Seq(CallType) /\ 0 \in Nat
  BY SMT
<1>3. QED
  BY <1>1, <1>2 DEF Idle, ProcType

\* The steps that are lists of calls.
ListSteps == {"idle", "dispatch", "respond", "terminate", "add", "done", "report"}

\* A process at the start of a list.
LEMMA BeginIs ==
    ASSUME NEW step \in ListSteps,
           NEW calls \in Seq(CallType)
    PROVE  /\ Begin(step, calls) \in ProcType
           /\ Begin(step, calls).step = step /\ Begin(step, calls).todo = calls
<1>1. Idle \in ProcType
  BY IdleIs
<1>2. QED
  BY <1>1 DEF Begin, ProcType, ListSteps

\* A process that goes on with another list, in the same step.
LEMMA TodoIs ==
    ASSUME NEW me \in ProcType, NEW calls \in Seq(CallType), NEW erred \in BOOLEAN
    PROVE  /\ [me EXCEPT !.todo = calls] \in ProcType
           /\ [me EXCEPT !.todo = calls].todo = calls /\ [me EXCEPT !.todo = calls].step = me.step
           /\ [me EXCEPT !.todo = calls].msg = me.msg
           /\ [me EXCEPT !.erred = erred, !.todo = calls] \in ProcType
           /\ [me EXCEPT !.erred = erred, !.todo = calls].todo = calls
           /\ [me EXCEPT !.erred = erred, !.todo = calls].step = me.step
           /\ [me EXCEPT !.erred = erred, !.todo = calls].msg = me.msg
BY DEF ProcType

\* A call is made: the first of the list.
LEMMA MakeCallIs ==
    ASSUME Types, NEW p \in Procs, MakeCall(p)
    PROVE  \E call \in CallType, new \in ProcType :
             /\ proc[p].todo \in Seq(CallType) /\ proc[p].todo # <<>> /\ call = Head(proc[p].todo)
             /\ ~Refused(call) /\ row' = RowAfter(call)
             /\ status' = [m \in Messages |-> IF Queues(call, m) THEN "queued" ELSE status[m]]
             /\ fired' = [c \in Callbacks |-> fired[c] + IF call = Callback(c) THEN 1 ELSE 0]
             /\ mishaps' = mishaps \cup (IF Overtakes(call) THEN {"overtaken"} ELSE {})
             /\ UNCHANGED <<setup, attempts, holder, incidents, reports>>
             /\ Becomes(p, new) /\ new.todo = Tail(proc[p].todo)
             /\ new.step = proc[p].step /\ new.msg = proc[p].msg
<1>1. PICK me \in ProcType : me = proc[p]
  BY DEF Types
<1>2. me.todo \in Seq(CallType) /\ me.todo # <<>>
  BY <1>1 DEF ProcType, MakeCall
<1>3. PICK call \in CallType : call = Head(me.todo)
  BY <1>2, TailOf
<1>4. Tail(me.todo) \in Seq(CallType)
  BY <1>2, TailOf
<1>5. PICK new \in ProcType : new = [me EXCEPT !.todo = Tail(me.todo)]
  BY <1>4, TodoIs
<1>6. new.todo = Tail(me.todo) /\ new.step = me.step /\ new.msg = me.msg
  BY <1>4, <1>5, TodoIs
<1>7. proc' = [proc EXCEPT ![p] = new]
  BY <1>1, <1>5 DEF MakeCall
<1>8. Becomes(p, new)
  BY <1>7, BecomesBy
<1>9. WITNESS call \in CallType, new \in ProcType
<1>10. QED
  BY <1>1, <1>2, <1>3, <1>6, <1>8 DEF MakeCall

\* A call that returns an error is followed by none, by the rest of a report,
\* or by the call that gives the batch up.
LEMMA CallFailsIs ==
    ASSUME Types, NEW p \in Procs, CallFails(p)
    PROVE  \E new \in ProcType :
             /\ proc[p].todo \in Seq(CallType) /\ proc[p].todo # <<>>
             /\ Becomes(p, new)
             /\ new.step = proc[p].step /\ new.msg = proc[p].msg
             /\ \/ new.todo = <<>>
                \/ new.todo = Tail(proc[p].todo) /\ proc[p].step = "report"
                \/ new.todo = <<Call("cancel")>> /\ proc[p].step = "dispatch"
                \/ new.todo = <<Call("delete")>> /\ proc[p].step = "terminate"
<1>1. PICK me \in ProcType : me = proc[p]
  BY DEF Types
<1>2. me.todo \in Seq(CallType) /\ me.todo # <<>>
  BY <1>1 DEF ProcType, CallFails
<1>3. PICK calls : calls = AfterError(me.step, Head(me.todo), Tail(me.todo))
  OBVIOUS
<1>4. \/ calls = <<>>
      \/ calls = Tail(me.todo) /\ me.step = "report"
      \/ calls = <<Call("cancel")>> /\ me.step = "dispatch"
      \/ calls = <<Call("delete")>> /\ me.step = "terminate"
  BY SMT, <1>3 DEF AfterError
<1>5. calls \in Seq(CallType)
  <2>1. Tail(me.todo) \in Seq(CallType)
    BY <1>2, TailOf
  <2>2. QED
    <3>1. <<Call("cancel")>> \in Seq(CallType) /\ <<Call("delete")>> \in Seq(CallType)
      BY ShortElems, CallTypes
    <3>2. QED
      BY <1>4, <2>1, <3>1, ShortElems
<1>6. PICK new \in ProcType : new = [me EXCEPT !.erred = TRUE, !.todo = calls]
  BY <1>5, TodoIs
<1>7. new.todo = calls /\ new.step = me.step /\ new.msg = me.msg
  BY <1>5, <1>6, TodoIs
<1>8. proc' = [proc EXCEPT ![p] = new]
  BY <1>1, <1>3, <1>6 DEF CallFails
<1>9. Becomes(p, new)
  BY <1>8, BecomesBy
<1>10. WITNESS new \in ProcType
<1>11. QED
  BY <1>1, <1>2, <1>4, <1>7, <1>9

\* What follows a link, or the batch itself.
LEMMA ChainCallsIs ==
    ASSUME NEW i \in Nat, NEW failing \in BOOLEAN
    PROVE  /\ ChainCalls(i, failing) \in Seq(CallType) /\ Distinct(ChainCalls(i, failing))
           /\ Elems(ChainCalls(i, failing)) \subseteq {Callback("ChainCatch"), <<"link", i + 1>>}
<1>1. i + 1 \in Nat
  BY SMT
<1>2. \A c \in {Callback("ChainCatch"), <<"link", i + 1>>} :
        <<c>> \in Seq(CallType) /\ Elems(<<c>>) = {c} /\ Distinct(<<c>>)
  BY <1>1, ShortElems, CallTypes DEF Callbacks
<1>3. \/ ChainCalls(i, failing) = <<>>
      \/ ChainCalls(i, failing) = <<Callback("ChainCatch")>>
      \/ ChainCalls(i, failing) = <<<<"link", i + 1>>>>
  BY SMT DEF ChainCalls
<1>4. QED
  BY <1>2, <1>3, ShortElems

\* A delivery: a job will be reported, a link goes on with the chain.
LEMMA DeliverIs ==
    ASSUME Types, NEW w \in Workers, NEW m \in Messages, Deliver(w, m)
    PROVE  \E new \in ProcType :
             /\ Becomes(w, new) /\ new.step \in {"find", "report"}
             /\ new.step = "find" => m \in Jobs /\ new.msg = m
             /\ Distinct(new.todo)
             /\ \A c \in Elems(new.todo) : \E n \in Nat : n # 0 /\ c \in {Callback("ChainCatch"), <<"link", n + 1>>}
<1>1. attempts'[m] \in Nat
  BY SMT DEF Deliver, Types
<1>2. PICK outcome \in {"ok", "retried", "final"} : proc' = [proc EXCEPT ![w] = Handled(m, outcome, attempts'[m])]
  BY DEF Deliver, Outcomes
<1>3. PICK try \in Nat : try = attempts'[m]
  BY <1>1
<1>4. PICK delivery : delivery = [Idle EXCEPT !.msg = m, !.try = try, !.failing = (outcome = "final")]
  OBVIOUS
<1>5. delivery \in ProcType /\ delivery.todo = <<>> /\ delivery.msg = m
  BY <1>4, IdleIs DEF ProcType
<1>6. PICK new : new = Handled(m, outcome, try)
  OBVIOUS
<1>7. w \in Procs /\ proc' = [proc EXCEPT ![w] = new]
  BY <1>2, <1>3, <1>6, Constants
<1>8. CASE outcome = "retried"
  <2>1. new = [delivery EXCEPT !.step = "report", !.erred = TRUE]
    BY <1>4, <1>6, <1>8 DEF Handled
  <2>2. new \in ProcType /\ new.step = "report" /\ new.todo = <<>>
    BY <1>5, <2>1 DEF ProcType
  <2>3. QED
    BY <1>7, <2>2, BecomesBy, ShortElems
<1>9. CASE outcome # "retried" /\ m \in Jobs
  <2>1. new = [delivery EXCEPT !.step = "find"]
    BY <1>4, <1>6, <1>9 DEF Handled
  <2>2. new \in ProcType /\ new.step = "find" /\ new.todo = <<>> /\ new.msg = m
    BY <1>5, <2>1 DEF ProcType
  <2>3. QED
    BY <1>7, <1>9, <2>2, BecomesBy, ShortElems
<1>10. CASE outcome # "retried" /\ m \notin Jobs
  <2>1. m \in LinkMessages
    BY <1>10 DEF Messages
  <2>2. PICK n \in Nat : n = m[1] /\ n # 0
    BY SMT, <2>1 DEF LinkMessages
  <2>3. PICK calls : calls = ChainCalls(n, outcome = "final")
    OBVIOUS
  <2>4. /\ calls \in Seq(CallType) /\ Distinct(calls)
        /\ Elems(calls) \subseteq {Callback("ChainCatch"), <<"link", n + 1>>}
    BY <2>2, <2>3, ChainCallsIs
  <2>5. new = [delivery EXCEPT !.step = "report", !.todo = calls]
    BY <1>4, <1>6, <1>10, <2>2, <2>3 DEF Handled
  <2>6. new \in ProcType /\ new.step = "report" /\ new.todo = calls
    BY <1>5, <2>4, <2>5 DEF ProcType
  <2>7. QED
    BY <1>7, <2>2, <2>4, <2>6, BecomesBy
<1>11. QED
  BY <1>8, <1>9, <1>10

\* A report is in: what it triggers is the new list.
LEMMA ReportedIs ==
    ASSUME Types, NEW w \in Workers, NEW counts, Reported(w, counts)
    PROVE  \E new \in ProcType :
             /\ Becomes(w, new) /\ new.step = "report"
             /\ new.todo = IF proc[w].failing THEN RecordFailedJob(counts) ELSE RecordSuccessfulJob(counts)
<1>1. PICK me \in ProcType : me = proc[w] /\ w \in Procs
  BY Constants DEF Types
<1>2. PICK calls : calls = IF me.failing THEN RecordFailedJob(counts) ELSE RecordSuccessfulJob(counts)
  OBVIOUS
<1>3. calls \in Seq(CallType)
  <2>1. RecordSuccessfulJob(counts) \in Seq(CallType)
    BY SuccessCalls
  <2>2. RecordFailedJob(counts) \in Seq(CallType)
    BY FailureCalls
  <2>3. CASE me.failing
    BY <1>2, <2>2, <2>3
  <2>4. CASE ~me.failing
    BY <1>2, <2>1, <2>4
  <2>5. QED
    BY <2>3, <2>4
<1>4. PICK new : new = [me EXCEPT !.step = "report", !.before = NoCounts, !.todo = calls]
  OBVIOUS
<1>5. new \in ProcType /\ new.step = "report" /\ new.todo = calls
  BY <1>3, <1>4, IdleIs DEF ProcType
<1>6. proc' = [proc EXCEPT ![w] = new]
  BY <1>1, <1>2, <1>4 DEF Reported
<1>7. QED
  BY <1>1, <1>2, <1>5, <1>6, BecomesBy

\* A report that has not been written yet.
LEMMA ReportingIs ==
    ASSUME Types, NEW me \in ProcType
    PROVE  /\ [me EXCEPT !.step = "report", !.erred = TRUE] \in ProcType
           /\ [me EXCEPT !.step = "report", !.erred = TRUE].todo = me.todo
           /\ [me EXCEPT !.step = "report", !.erred = TRUE].step = "report"
           /\ [me EXCEPT !.step = "write", !.before = Counts] \in ProcType
           /\ [me EXCEPT !.step = "write", !.before = Counts].todo = me.todo
           /\ [me EXCEPT !.step = "write", !.before = Counts].msg = me.msg
           /\ [me EXCEPT !.step = "write", !.before = Counts].step = "write"
           /\ [me EXCEPT !.step = "find", !.before = NoCounts] \in ProcType
           /\ [me EXCEPT !.step = "find", !.before = NoCounts].todo = me.todo
           /\ [me EXCEPT !.step = "find", !.before = NoCounts].msg = me.msg
           /\ [me EXCEPT !.step = "find", !.before = NoCounts].step = "find"
<1>1. Counts \in CountType
  BY DEF Types, RowType, Counts, CountType
<1>2. QED
  BY <1>1, IdleIs DEF ProcType

----------------------------------------------------------------------------
(* The type invariant                                                       *)

\* What a call leaves of the row.
LEMMA RowAfterIs ==
    ASSUME SetFacts, Types, NEW call \in CallType
    PROVE  /\ RowAfter(call) \in RowType
           /\ call[1] = "store" =>
                /\ RowAfter(call).exists /\ ~RowAfter(call).finished
                /\ RowAfter(call).total = Cardinality(Described)
                /\ RowAfter(call).pending = Cardinality(Described) /\ RowAfter(call).failed = {}
           /\ call[1] = "raise" =>
                /\ RowAfter(call).exists = row.exists /\ ~RowAfter(call).finished
                /\ RowAfter(call).total = row.total + call[2]
                /\ RowAfter(call).pending = row.pending + call[2] /\ RowAfter(call).failed = row.failed
           /\ call[1] \notin {"store", "raise", "delete"} =>
                /\ RowAfter(call).exists = row.exists /\ RowAfter(call).total = row.total
                /\ RowAfter(call).pending = row.pending /\ RowAfter(call).failed = row.failed
                /\ RowAfter(call).finished /\ ~RowAfter(call).cancelled =>
                     call[1] = "finish" \/ (row.finished /\ ~row.cancelled)
                /\ RowAfter(call).finished => call[1] \in {"finish", "cancel"} \/ row.finished
           /\ call[1] = "delete" => ~RowAfter(call).exists /\ ~RowAfter(call).finished
<1>1. row \in RowType
  BY DEF Types
<1>2. CASE call[1] = "store"
  <2>1. RowAfter(call) = [NoRow EXCEPT !.exists = TRUE, !.total = Cardinality(Described),
                                       !.pending = Cardinality(Described)]
    BY SMT, <1>2 DEF RowAfter
  <2>2. Cardinality(Described) \in Nat /\ Cardinality(Described) \in Int
    BY SMT, SetupFacts DEF Types
  <2>3. 0 \in Nat /\ 0 \in Int
    BY SMT
  <2>4. NoRow \in RowType /\ NoRow.failed = {} /\ ~NoRow.finished
    BY <2>3 DEF NoRow, RowType
  <2>5. RowAfter(call) \in RowType
    BY <2>1, <2>2, <2>4 DEF RowType
  <2>6. QED
    BY <1>2, <2>1, <2>4, <2>5 DEF RowType
<1>3. CASE call[1] = "raise"
  <2>1. RowAfter(call) = [row EXCEPT !.total = row.total + call[2], !.pending = row.pending + call[2],
                                     !.finished = FALSE]
    BY SMT, <1>3 DEF RowAfter
  <2>2. call[2] \in Nat
    BY SMT, <1>3 DEF CallType
  <2>3. row.total + call[2] \in Nat /\ row.pending + call[2] \in Int
    BY SMT, <1>1, <2>2 DEF RowType
  <2>4. RowAfter(call) \in RowType
    BY <1>1, <2>1, <2>3 DEF RowType
  <2>5. QED
    BY <1>1, <1>3, <2>1, <2>4 DEF RowType
<1>4. CASE call[1] = "delete"
  <2>1. RowAfter(call) = NoRow
    BY SMT, <1>4 DEF RowAfter
  <2>2. 0 \in Nat /\ 0 \in Int
    BY SMT
  <2>3. NoRow \in RowType /\ ~NoRow.exists /\ ~NoRow.finished
    BY <2>2 DEF NoRow, RowType
  <2>4. QED
    BY <1>4, <2>1, <2>3
<1>5. CASE call[1] = "finish"
  <2>1. RowAfter(call) = [row EXCEPT !.finished = TRUE]
    BY SMT, <1>5 DEF RowAfter
  <2>2. QED
    BY <1>1, <1>5, <2>1 DEF RowType
<1>6. CASE call[1] = "cancel" /\ ~row.cancelled
  <2>1. RowAfter(call) = [row EXCEPT !.cancelled = TRUE, !.finished = TRUE]
    BY SMT, <1>6 DEF RowAfter
  <2>2. QED
    BY <1>1, <1>6, <2>1 DEF RowType
<1>7. CASE /\ call[1] \notin {"store", "raise", "delete", "finish"}
           /\ ~(call[1] = "cancel" /\ ~row.cancelled)
  <2>1. RowAfter(call) = row
    BY SMT, <1>7 DEF RowAfter
  <2>2. QED
    BY <1>1, <1>7, <2>1 DEF RowType
<1>8. QED
  BY <1>2, <1>3, <1>4, <1>5, <1>6, <1>7

\* The call that is made keeps the types.
LEMMA MakeCallTyped ==
    ASSUME SetFacts, Types, NEW p \in Procs, MakeCall(p)
    PROVE  Types'
<1>1. PICK call \in CallType, new \in ProcType :
        /\ row' = RowAfter(call)
        /\ status' = [m \in Messages |-> IF Queues(call, m) THEN "queued" ELSE status[m]]
        /\ fired' = [c \in Callbacks |-> fired[c] + IF call = Callback(c) THEN 1 ELSE 0]
        /\ UNCHANGED <<setup, attempts, holder, incidents, reports>>
        /\ Becomes(p, new)
  BY MakeCallIs
<1>2. row' \in RowType
  BY <1>1, RowAfterIs
<1>3. status' \in [Messages -> {"none", "queued", "held", "parked", "done"}]
  <2>1. \A m \in Messages : (IF Queues(call, m) THEN "queued" ELSE status[m])
                              \in {"none", "queued", "held", "parked", "done"}
    BY DEF Types
  <2>2. QED
    BY <1>1, <2>1
<1>4. fired' \in [Callbacks -> Nat]
  <2>1. \A n \in Nat : n + 1 \in Nat /\ n + 0 \in Nat
    BY SMT
  <2>2. \A c \in Callbacks : fired[c] \in Nat
    BY DEF Types
  <2>3. \A c \in Callbacks : (fired[c] + IF call = Callback(c) THEN 1 ELSE 0) \in Nat
    BY <2>1, <2>2
  <2>4. QED
    BY <1>1, <2>3
<1>5. QED
  BY <1>1, <1>2, <1>3, <1>4 DEF Types, Becomes

\* So does the one that fails, and a crash.
LEMMA FaultTyped ==
    ASSUME Types, NEW p \in Procs, CallFails(p) \/ Crash(p)
    PROVE  Types'
<1>1. CASE CallFails(p)
  <2>1. proc' \in [Procs -> ProcType]
    BY <1>1, CallFailsIs DEF Becomes
  <2>2. QED
    BY <1>1, <2>1 DEF Types, CallFails
<1>2. CASE Crash(p)
  <2>1. PICK new \in ProcType : proc' = [proc EXCEPT ![p] = new]
    <3>1. Begin("done", <<>>) \in ProcType
      BY BeginIs, ShortElems DEF ListSteps
    <3>2. QED
      BY <1>2, <3>1, IdleIs DEF Crash
  <2>2. proc' \in [Procs -> ProcType]
    BY <2>1, BecomesBy DEF Becomes
  <2>3. status' \in [Messages -> {"none", "queued", "held", "parked", "done"}] /\ DOMAIN holder' = Messages
    BY <1>2 DEF Crash, LeaseEnds, Types
  <2>4. QED
    BY <1>2, <2>2, <2>3 DEF Types, Crash, LeaseEnds
<1>3. QED
  BY <1>1, <1>2

\* The process that dispatches goes on with its next list.
LEMMA ProceedIs ==
    ASSUME SetFacts, Types, Dispatched \/ Terminating \/ Add
    PROVE  \E new \in ProcType :
             /\ Becomes(Request, new)
             /\ UNCHANGED <<setup, row, status, attempts, holder, fired, incidents, ghosts>>
             /\ \/ /\ proc[Request].step = "dispatch" /\ new.step \in {"report", "done", "idle"}
                   /\ \A c \in Elems(new.todo) :
                        c = Callback("ChainCatch") \/ (c = <<"link", 1>> /\ origin = "chainReported")
                \/ /\ proc[Request].step = "respond" /\ new.step = "terminate"
                   /\ new.todo = AddCalls(Described)
                \/ /\ proc[Request].step = "idle" /\ new.step = "add" /\ Extra # {}
                   /\ new.todo = AddCalls(Extra)
<1>1. Request \in Procs
  BY Constants
<1>2. \A jobs \in SUBSET Jobs : AddCalls(jobs) \in Seq(CallType)
  <2>1. ASSUME NEW jobs \in SUBSET Jobs
        PROVE  AddCalls(jobs) \in Seq(CallType)
    <3>1. PICK c \in CallType : c = <<"raise", Cardinality(jobs)>>
      BY JobSets, CallTypes
    <3>2. QED
      BY <3>1, Prefixed DEF AddCalls
  <2>2. QED
    BY <2>1
<1>3. CASE Dispatched
  <2>1. PICK calls \in Seq(CallType) :
          /\ proc' = [proc EXCEPT ![Request] = Begin("report", calls)]
             \/ proc' = [proc EXCEPT ![Request] = Begin("done", calls)]
             \/ proc' = [proc EXCEPT ![Request] = Begin("idle", calls)]
          /\ \A c \in Elems(calls) :
                c = Callback("ChainCatch") \/ (c = <<"link", 1>> /\ origin = "chainReported")
    <3>1. CASE origin = "chainReported"
      <4>1. PICK erred \in BOOLEAN : erred = proc[Request].erred
        BY <1>1 DEF Types, ProcType
      <4>2. 0 \in Nat /\ 0 + 1 = 1
        BY SMT
      <4>3. PICK zero \in Nat : zero = 0 /\ zero + 1 = 1
        BY <4>2
      <4>4. /\ ChainCalls(zero, erred) \in Seq(CallType)
            /\ Elems(ChainCalls(zero, erred)) \subseteq {Callback("ChainCatch"), <<"link", zero + 1>>}
        BY ChainCallsIs
      <4>5. proc' = [proc EXCEPT ![Request] = Begin("report", ChainCalls(zero, erred))]
        BY <1>3, <3>1, <4>1, <4>3 DEF Dispatched, Proceed
      <4>6. QED
        BY <3>1, <4>3, <4>4, <4>5
    <3>2. CASE origin # "chainReported"
      BY <1>3, <3>2, ShortElems DEF Dispatched, Proceed
    <3>3. QED
      BY <3>1, <3>2
  <2>2. PICK step \in {"report", "done", "idle"} : proc' = [proc EXCEPT ![Request] = Begin(step, calls)]
    BY <2>1
  <2>3. Begin(step, calls) \in ProcType /\ Begin(step, calls).step = step /\ Begin(step, calls).todo = calls
    <3>1. step \in ListSteps
      BY DEF ListSteps
    <3>2. QED
      BY <3>1, BeginIs
  <2>4. PICK new \in ProcType : new = Begin(step, calls)
    BY <2>3
  <2>5. Becomes(Request, new)
    BY <1>1, <2>2, <2>4, BecomesBy
  <2>6. UNCHANGED <<setup, row, status, attempts, holder, fired, incidents, ghosts>>
    BY <1>3 DEF Dispatched, Proceed
  <2>7. proc[Request].step = "dispatch"
    BY <1>3 DEF Dispatched, Through
  <2>8. new.step = step /\ new.todo = calls
    BY <2>3, <2>4
  <2>9. /\ proc[Request].step = "dispatch" /\ new.step \in {"report", "done", "idle"}
        /\ \A c \in Elems(new.todo) :
             c = Callback("ChainCatch") \/ (c = <<"link", 1>> /\ origin = "chainReported")
    BY <2>1, <2>7, <2>8
  <2>10. WITNESS new \in ProcType
  <2>11. QED
    BY <2>5, <2>6, <2>9
<1>4. CASE Terminating \/ Add
  <2>1. PICK step \in {"terminate", "add"}, jobs \in SUBSET Jobs :
          /\ proc' = [proc EXCEPT ![Request] = Begin(step, AddCalls(jobs))]
          /\ UNCHANGED <<setup, row, status, attempts, holder, fired, incidents, ghosts>>
          /\ \/ step = "terminate" /\ jobs = Described /\ proc[Request].step = "respond"
             \/ step = "add" /\ jobs = Extra /\ Extra # {} /\ proc[Request].step = "idle"
    <3>1. Described \in SUBSET Jobs /\ Extra \in SUBSET Jobs
      BY SetupFacts DEF Types
    <3>2. QED
      BY <1>4, <3>1 DEF Terminating, Add, Through, Proceed
  <2>2. PICK calls \in Seq(CallType) : calls = AddCalls(jobs)
    BY <1>2
  <2>3. Begin(step, calls) \in ProcType /\ Begin(step, calls).step = step /\ Begin(step, calls).todo = calls
    <3>1. step \in ListSteps
      BY DEF ListSteps
    <3>2. QED
      BY <3>1, BeginIs
  <2>4. PICK new \in ProcType : new = Begin(step, calls)
    BY <2>3
  <2>5. Becomes(Request, new)
    BY <1>1, <2>1, <2>2, <2>4, BecomesBy
  <2>6. new.step = step /\ new.todo = AddCalls(jobs)
    BY <2>2, <2>3, <2>4
  <2>7. \/ /\ proc[Request].step = "respond" /\ new.step = "terminate"
           /\ new.todo = AddCalls(Described)
        \/ /\ proc[Request].step = "idle" /\ new.step = "add" /\ Extra # {}
           /\ new.todo = AddCalls(Extra)
    BY <2>1, <2>6
  <2>8. WITNESS new \in ProcType
  <2>9. QED
    BY <2>1, <2>5, <2>7
<1>5. QED
  BY <1>3, <1>4

\* Its steps keep the types.
LEMMA ProceedTyped ==
    ASSUME SetFacts, Types, Dispatched \/ Terminating \/ Add
    PROVE  Types'
<1>1. /\ proc' \in [Procs -> ProcType]
      /\ UNCHANGED <<setup, row, status, attempts, holder, fired, incidents, ghosts>>
  BY ProceedIs DEF Becomes
<1>2. QED
  BY <1>1 DEF Types, ghosts

\* The counters after a report.
LEMMA AppliedIs ==
    ASSUME NEW counts \in CountType, NEW m \in Jobs, NEW failing \in BOOLEAN
    PROVE  /\ Applied(counts, m, failing) \in CountType
           /\ failing => /\ Applied(counts, m, failing).pending = counts.pending
                         /\ Applied(counts, m, failing).failed = counts.failed \cup {m}
           /\ ~failing => /\ Applied(counts, m, failing).pending = counts.pending - 1
                          /\ Applied(counts, m, failing).failed = counts.failed \ {m}
<1>1. counts.pending - 1 \in Int
  BY SMT DEF CountType
<1>2. QED
  BY <1>1 DEF Applied, CountType

\* A message that a worker holds is given to no other, and is not parked.
LEMMA WorkerTyped ==
    ASSUME Types, NEW w \in Workers, NEW m \in Messages, Deliver(w, m) \/ ParkExceeded(w, m)
    PROVE  Types'
<1>1. CASE Deliver(w, m)
  <2>1. proc' \in [Procs -> ProcType]
    BY <1>1, DeliverIs DEF Becomes
  <2>2. \A n \in Nat : n + 1 \in Nat
    BY SMT
  <2>3. attempts' \in [Messages -> Nat]
    BY <1>1, <2>2 DEF Deliver, Types
  <2>4. status' \in [Messages -> {"none", "queued", "held", "parked", "done"}] /\ DOMAIN holder' = Messages
    BY <1>1 DEF Deliver, Types
  <2>5. QED
    BY <1>1, <2>1, <2>3, <2>4 DEF Deliver, Types, ghosts
<1>2. CASE ParkExceeded(w, m)
  <2>1. 0 \in Nat
    BY SMT
  <2>2. attempts' \in [Messages -> Nat]
    BY <1>2, <2>1 DEF ParkExceeded, Types
  <2>3. status' \in [Messages -> {"none", "queued", "held", "parked", "done"}]
    BY <1>2 DEF ParkExceeded, Types
  <2>4. QED
    BY <1>2, <2>2, <2>3 DEF ParkExceeded, Types
<1>3. QED
  BY <1>1, <1>2

\* A report that is in keeps the types.
LEMMA ReportedTyped ==
    ASSUME Types, NEW w \in Workers, NEW counts, Reported(w, counts), row' \in RowType,
           UNCHANGED <<setup, status, attempts, holder, fired, incidents>>
    PROVE  Types'
<1>1. proc' \in [Procs -> ProcType]
  BY ReportedIs DEF Becomes
<1>2. reports' \in [Jobs -> {"none", "failed", "success"}]
  BY DEF Reported, Types
<1>3. QED
  BY <1>1, <1>2 DEF Types

\* The counters a report would leave, from those it has read and those there are.
LEMMA ReportIs ==
    ASSUME Types, NEW w \in Workers, proc[w].msg \in Jobs
    PROVE  /\ proc[w] \in ProcType /\ w \in Procs /\ proc[w].failing \in BOOLEAN
           /\ proc[w].before \in CountType /\ Counts \in CountType
           /\ Counts.pending = row.pending /\ Counts.failed = row.failed
           /\ Applied(Counts, proc[w].msg, proc[w].failing) \in CountType
           /\ Applied(proc[w].before, proc[w].msg, proc[w].failing) \in CountType
<1>1. proc[w] \in ProcType /\ w \in Procs
  BY Constants DEF Types
<1>2. proc[w].failing \in BOOLEAN /\ proc[w].before \in CountType
  BY <1>1 DEF ProcType
<1>3. Counts \in CountType /\ Counts.pending = row.pending /\ Counts.failed = row.failed
  BY DEF Types, RowType, Counts, CountType
<1>4. QED
  BY <1>1, <1>2, <1>3, AppliedIs

\* Find and Write, where they report nothing: the list of calls is the same.
LEMMA ReadsIs ==
    ASSUME Types, NEW w \in Workers, proc[w].msg \in Jobs, NEW new \in ProcType,
           \/ new = [proc[w] EXCEPT !.step = "report", !.erred = TRUE]
           \/ new = [proc[w] EXCEPT !.step = "write", !.before = Counts]
           \/ new = [proc[w] EXCEPT !.step = "find", !.before = NoCounts],
           proc' = [proc EXCEPT ![w] = new]
    PROVE  /\ Becomes(w, new) /\ new.todo = proc[w].todo
           /\ new.step \in {"find", "write", "report"}
           /\ new.step \in {"find", "write"} => new.msg = proc[w].msg
<1>1. PICK me \in ProcType : me = proc[w] /\ w \in Procs
  BY Constants DEF Types
<1>2. /\ new.todo = me.todo /\ new.step \in {"find", "write", "report"}
      /\ new.step \in {"find", "write"} => new.msg = me.msg
  <2>1. CASE new = [me EXCEPT !.step = "report", !.erred = TRUE]
    BY <2>1 DEF ProcType
  <2>2. CASE new = [me EXCEPT !.step = "write", !.before = Counts]
    BY <2>2 DEF ProcType
  <2>3. CASE new = [me EXCEPT !.step = "find", !.before = NoCounts]
    BY <2>3 DEF ProcType
  <2>4. QED
    BY <1>1, <2>1, <2>2, <2>3
<1>3. QED
  BY <1>1, <1>2, BecomesBy

\* A report is read, written or tried again.
LEMMA FindTyped ==
    ASSUME Types, NEW w \in Workers, proc[w].msg \in Jobs, Find(w) \/ Write(w)
    PROVE  Types'
<1>1. PICK me \in ProcType : me = proc[w]
  BY ReportIs
<1>2. CASE \E new \in ProcType :
             /\ \/ new = [me EXCEPT !.step = "report", !.erred = TRUE]
                \/ new = [me EXCEPT !.step = "write", !.before = Counts]
                \/ new = [me EXCEPT !.step = "find", !.before = NoCounts]
             /\ proc' = [proc EXCEPT ![w] = new]
             /\ UNCHANGED <<setup, row, status, attempts, holder, fired, incidents, ghosts>>
  <2>1. proc' \in [Procs -> ProcType]
    BY <1>1, <1>2, ReadsIs DEF Becomes
  <2>2. QED
    BY <1>2, <2>1 DEF Types, ghosts
<1>3. CASE Find(w)
  <2>1. CASE Reported(w, Applied(Counts, proc[w].msg, proc[w].failing))
    <3>1. row' \in RowType
      BY <1>3 DEF Find, Types
    <3>2. QED
      BY <1>3, <2>1, <3>1, ReportedTyped DEF Find
  <2>2. CASE ~Reported(w, Applied(Counts, proc[w].msg, proc[w].failing))
    <3>1. /\ proc' = [proc EXCEPT ![w] = [me EXCEPT !.step = "report", !.erred = TRUE]]
             \/ proc' = [proc EXCEPT ![w] = [me EXCEPT !.step = "write", !.before = Counts]]
          /\ UNCHANGED <<setup, row, status, attempts, holder, fired, incidents, ghosts>>
      BY <1>1, <1>3, <2>2 DEF Find
    <3>2. QED
      BY <1>2, <3>1, ReportingIs
  <2>3. QED
    BY <2>1, <2>2
<1>4. CASE Write(w)
  <2>1. PICK after \in CountType : after = Applied(proc[w].before, proc[w].msg, proc[w].failing)
    BY ReportIs
  <2>2. CASE row' = [row EXCEPT !.pending = after.pending, !.failed = after.failed] /\ Reported(w, after)
    <3>1. row' \in RowType
      BY <2>2 DEF Types, RowType, CountType
    <3>2. QED
      BY <1>4, <2>2, <3>1, ReportedTyped DEF Write
  <2>3. CASE ~(row' = [row EXCEPT !.pending = after.pending, !.failed = after.failed] /\ Reported(w, after))
    <3>1. /\ proc' = [proc EXCEPT ![w] = [me EXCEPT !.step = "find", !.before = NoCounts]]
          /\ UNCHANGED <<setup, row, status, attempts, holder, fired, incidents, ghosts>>
      BY <1>1, <1>4, <2>1, <2>3 DEF Write
    <3>2. QED
      BY <1>2, <3>1, ReportingIs
  <2>4. QED
    BY <2>2, <2>3
<1>5. QED
  BY <1>3, <1>4

\* A delivery is settled, or its lease ends.
LEMMA SettleTyped ==
    ASSUME Types, NEW w \in Workers, Settle(w) \/ Overrun(w)
    PROVE  Types'
<1>1. w \in Procs
  BY Constants
<1>2. CASE Settle(w)
  <2>1. proc' \in [Procs -> ProcType]
    BY <1>1, <1>2, IdleIs, BecomesBy DEF Becomes, Settle
  <2>2. PICK settled \in {"done", "parked", "queued"} :
          /\ status' = [m \in Messages |-> IF holder[m] = w THEN settled ELSE status[m]]
          /\ holder' = [m \in Messages |-> IF holder[m] = w THEN "none" ELSE holder[m]]
          /\ attempts' = [m \in Messages |-> IF holder[m] = w /\ settled # "queued" THEN 0
                                             ELSE attempts[m]]
    BY <1>2 DEF Settle
  <2>3. status' \in [Messages -> {"none", "queued", "held", "parked", "done"}] /\ DOMAIN holder' = Messages
    BY <2>2 DEF Types
  <2>4. 0 \in Nat
    BY SMT
  <2>5. attempts' \in [Messages -> Nat]
    BY <2>2, <2>4 DEF Types
  <2>6. QED
    BY <1>2, <2>1, <2>3, <2>5 DEF Settle, Types, ghosts
<1>3. CASE Overrun(w)
  <2>1. status' \in [Messages -> {"none", "queued", "held", "parked", "done"}] /\ DOMAIN holder' = Messages
    BY <1>3 DEF Overrun, LeaseEnds, Types
  <2>2. QED
    BY <1>3, <2>1 DEF Overrun, LeaseEnds, Types
<1>4. QED
  BY <1>2, <1>3

\* The operator's commands.
LEMMA OperatorTyped ==
    ASSUME SetFacts, Types, (\E m \in Messages : Retry(m)) \/ Cancel \/ Delete
    PROVE  Types'
<1>1. CASE \E m \in Messages : Retry(m)
  <2>1. status' \in [Messages -> {"none", "queued", "held", "parked", "done"}]
    BY <1>1 DEF Retry, Types
  <2>2. QED
    BY <1>1, <2>1 DEF Retry, Types, ghosts
<1>2. CASE Cancel
  <2>1. row' \in RowType
    BY <1>2, RowAfterIs, CallTypes DEF Cancel
  <2>2. QED
    BY <1>2, <2>1 DEF Cancel, Types, ghosts
<1>3. CASE Delete
  <2>1. row' \in RowType
    <3>1. 0 \in Nat /\ 0 \in Int
      BY SMT
    <3>2. QED
      BY <1>3, <3>1 DEF Delete, NoRow, RowType
  <2>2. QED
    BY <1>3, <2>1 DEF Delete, Types
<1>4. QED
  BY <1>1, <1>2, <1>3

----------------------------------------------------------------------------
(* The inductive invariant                                                  *)

Todo(p) == Elems(proc[p].todo)
Pushed == {j \in Jobs : status[j] # "none"}

\* The calls of workers that the properties count.
Watched == {Call("finish"), Callback("Then"), Callback("Catch"), Callback("Finally"), <<"link", 1>>}

\* What a worker's list is made of: no call twice, and one closing of the
\* batch, which is the next link in a chain and Finally out of it.
WorkerList(calls) ==
    /\ Distinct(calls)
    /\ Elems(calls) \subseteq {Call("finish"), Call("cancel")} \cup {Callback(c) : c \in Callbacks}
                              \cup {<<"link", n>> : n \in Nat}
    /\ Elems(calls) \cap {<<"link", 1>>, Callback("Finally")} \subseteq {FinallyCall}

\* A worker runs such a list, or reports a job that was pushed.
WorkerCalls ==
    \A w \in Workers :
        /\ WorkerList(proc[w].todo)
        /\ proc[w].step \in {"idle", "find", "write", "report"}
        /\ proc[w].step \in {"find", "write"} => proc[w].msg \in Pushed

\* Nothing has happened: no row, no message, no report, no call to make.
Fresh ==
    /\ row = NoRow
    /\ \A m \in Messages : status[m] = "none"
    /\ \A j \in Jobs : reports[j] = "none"
    /\ \A c \in Callbacks : fired[c] = 0
    /\ \A w \in Workers : Todo(w) = {}

\* The jobs that the request's list pushes.
Growth(step) == IF step = "add" THEN Extra ELSE Described

\* The request stores the row first, and raises the counters first.
RequestList(step, calls) ==
    /\ \A i \in 1..Len(calls) : calls[i][1] \in {"store", "raise"} => i = 1
    /\ \A c \in Elems(calls) :
         /\ c[1] \in {"store", "raise", "push", "cancel", "delete", "link", "callback"}
         /\ c[1] = "store" => Fresh /\ step \in {"dispatch", "respond"}
         /\ c[1] = "raise" => /\ step \in {"add", "terminate"}
                              /\ c[2] = Cardinality(Growth(step)) /\ c[2] # 0
         /\ c[1] = "push" => \E j \in Growth(step) : c = Push(j)
         /\ c[1] = "link" => origin = "chainReported"
         /\ c[1] = "callback" => c = Callback("ChainCatch")
RequestCalls == RequestList(proc[Request].step, proc[Request].todo)

Raises(calls) == \E c \in Elems(calls) : c[1] = "raise"

\* TotalJobs counts at least the jobs pushed so far.
TotalFits(step, calls) ==
    row.exists =>
        /\ row.total >= Cardinality(Described)
        /\ step \in {"dispatch", "respond", "idle"} \/ Raises(calls) => row.total = Cardinality(Described)
        /\ (step = "add" /\ ~Raises(calls) /\ Elems(calls) # {}) \/ ~(Pushed \subseteq Described) =>
             row.total = Cardinality(Described) + Cardinality(Extra)
Totals == TotalFits(proc[Request].step, proc[Request].todo)

\* Only jobs of the batch are pushed, held and reported.
PushedOnly == Pushed \subseteq Described \cup Extra
HoldersPushed == \A m \in Messages : holder[m] \in Procs => status[m] # "none"
ReportersPushed == \A j \in Jobs : reports[j] # "none" => j \in Pushed
FinishedExists == row.finished => row.exists

\* A worker that is about to mark the batch finished counted down to zero.
Finishing == \E w \in Workers : Call("finish") \in Todo(w)
PendingNone ==
    row.exists /\ Without({"doubled", "swapped", "overtaken"})
      /\ (Finishing \/ (row.finished /\ ~row.cancelled)) => row.pending = 0

\* The next link is not even about to be pushed before every job has reported.
Linking == \E w \in Workers : <<"link", 1>> \in Todo(w)
LinkReady ==
    origin # "chainReported" /\ (Linking \/ LinkPushed) /\ Without({"doubled", "swapped"}) =>
        \A j \in Described : reports[j] # "none"

\* The calls made, those some worker is about to make, and the one that the
\* counters still have in store.
Making(call) == {w \in Workers : call \in Todo(w)}
CloseMaking == {w \in Workers : FinallyCall \in Todo(w)}
ThenLeft == IF row.pending > 0 THEN 1 ELSE 0
CatchLeft == IF row.failed = {} THEN 1 ELSE 0
CloseLeft == IF row.pending > Cardinality(row.failed) THEN 1 ELSE 0
ThenOnce ==
    row.exists => fired["Then"] + Cardinality(Making(Callback("Then"))) + ThenLeft <= Allowed
CatchOnce ==
    row.exists /\ Without({"doubled", "again", "swapped"}) =>
        fired["Catch"] + Cardinality(Making(Callback("Catch"))) + CatchLeft <= 1
CloseOnce ==
    row.exists /\ origin # "chainReported" /\ Without({"doubled", "again", "swapped"}) =>
        Closings + Cardinality(CloseMaking) + CloseLeft <= Allowed

Jobsheets == PushedOnly /\ ReportersPushed /\ FinishedExists
Onces == ThenOnce /\ CatchOnce /\ CloseOnce
Counting == Jobsheets /\ CountersExact /\ PendingNone /\ LinkReady /\ Onces

BatchInv ==
    Types /\ WorkerCalls /\ RequestCalls /\ Totals /\ HoldersPushed /\ Counting

----------------------------------------------------------------------------
(* Steps that count nothing                                                 *)

\* Row, reports and callbacks stay, no message is new, and no worker is given
\* a call that the properties count.
Quiet ==
    /\ UNCHANGED <<setup, row, fired, reports>>
    /\ mishaps \subseteq mishaps'
    /\ \A m \in Messages : (status'[m] = "none") <=> (status[m] = "none")
    /\ \A w \in Workers : Elems(proc'[w].todo) \cap Watched \subseteq Elems(proc[w].todo)

\* The first link has messages, and they are no jobs.
LEMMA FirstLink ==
    /\ \A n \in 1..MaxCopies : <<1, n>> \in LinkMessages /\ <<1, n>> \in Messages
    /\ Jobs \subseteq Messages /\ FinallyCall \in {<<"link", 1>>, Callback("Finally")}
<1>1. 1 \in 1..Len(Links)
  BY SMT, BatchAssumption
<1>2. QED
  BY <1>1 DEF LinkMessages, Messages, FinallyCall

\* How often a callback is counted: numbers.
LEMMA Numbers ==
    ASSUME SetFacts, Types
    PROVE  /\ \A c \in Callbacks : fired[c] \in Nat
           /\ ThenLeft \in Nat /\ CatchLeft \in Nat /\ CloseLeft \in Nat /\ Allowed \in Nat
           /\ Closings \in Nat
           /\ Cardinality({n \in 1..MaxCopies : status[<<1, n>>] # "none"}) \in Nat
<1>1. 0 \in Nat /\ 1 \in Nat /\ 2 \in Nat
  BY SMT
<1>2. \A c \in Callbacks : fired[c] \in Nat
  BY DEF Types
<1>3. Cardinality({n \in 1..MaxCopies : status[<<1, n>>] # "none"}) \in Nat
  <2>1. IsFiniteSet(1..MaxCopies)
    BY SMT, Constants DEF SetFacts, Intervals
  <2>2. IsFiniteSet({n \in 1..MaxCopies : status[<<1, n>>] # "none"})
    BY <2>1 DEF SetFacts, Subsets
  <2>3. QED
    BY <2>2 DEF SetFacts, Enumerated
<1>4. Closings \in Nat
  <2>1. fired["Finally"] \in Nat
    BY <1>2 DEF Callbacks
  <2>2. \A a \in Nat, b \in Nat : a + b \in Nat
    BY SMT
  <2>3. QED
    BY <1>3, <2>1, <2>2 DEF Closings
<1>5. QED
  BY <1>1, <1>2, <1>3, <1>4 DEF ThenLeft, CatchLeft, CloseLeft, Allowed

\* Pending counts, what is pushed and what is reported stay as they are.
LEMMA QuietCounts ==
    ASSUME Types, Quiet, Counting
    PROVE  /\ Jobsheets' /\ CountersExact' /\ PendingNone' /\ LinkReady'
           /\ Pushed' = Pushed /\ LinkPushed' = LinkPushed
<1>1. Pushed' = Pushed
  BY FirstLink DEF Quiet, Pushed
<1>2. Jobsheets'
  BY <1>1 DEF Quiet, Counting, Jobsheets, PushedOnly, ReportersPushed, FinishedExists, Described, Extra
<1>3. CountersExact'
  BY DEF Quiet, Counting, CountersExact, Without
<1>4. PendingNone'
  <2>1. Finishing' => Finishing
    BY DEF Quiet, Finishing, Watched, Todo
  <2>2. Without({"doubled", "swapped", "overtaken"})' => Without({"doubled", "swapped", "overtaken"})
    BY DEF Quiet, Without
  <2>3. QED
    BY <2>1, <2>2 DEF Quiet, Counting, PendingNone
<1>5. LinkPushed' = LinkPushed
  BY FirstLink DEF Quiet, LinkPushed
<1>6. LinkReady'
  <2>1. Linking' => Linking
    BY DEF Quiet, Linking, Watched, Todo
  <2>2. Without({"doubled", "swapped"})' => Without({"doubled", "swapped"})
    BY DEF Quiet, Without
  <2>3. QED
    BY <1>5, <2>1, <2>2 DEF Quiet, Counting, LinkReady, origin, Described
<1>7. QED
  BY <1>1, <1>2, <1>3, <1>4, <1>5, <1>6

\* So do the callbacks.
LEMMA QuietOnces ==
    ASSUME SetFacts, Types, Types', Quiet, Counting
    PROVE  Onces'
<1>1. /\ ThenLeft' = ThenLeft /\ CatchLeft' = CatchLeft /\ CloseLeft' = CloseLeft
      /\ Allowed' = Allowed /\ row' = row /\ fired' = fired /\ setup' = setup
      /\ FinallyCall' = FinallyCall
  BY DEF Quiet, ThenLeft, CatchLeft, CloseLeft, Allowed, Raised, Described, FinallyCall, Chained, origin
<1>2. Closings' = Closings
  <2>1. {n \in 1..MaxCopies : status[<<1, n>>] # "none"}' = {n \in 1..MaxCopies : status[<<1, n>>] # "none"}
    BY FirstLink DEF Quiet
  <2>2. QED
    BY <1>1, <2>1 DEF Closings
<1>3. ASSUME NEW S \in SUBSET Workers, NEW T \in SUBSET S, NEW a \in Nat, NEW c \in Nat, NEW l \in Nat,
             Bounded(a, Cardinality(S), c, l)
      PROVE  Bounded(a, Cardinality(T), c, l)
  <2>1. Cardinality(S) \in Nat /\ Cardinality(T) \in Nat /\ Cardinality(T) <= Cardinality(S)
    BY WorkerSets
  <2>2. QED
    BY <1>3, <2>1, BoundReported
<1>4. ThenOnce'
  <2>1. Making(Callback("Then"))' \subseteq Making(Callback("Then"))
    BY DEF Quiet, Making, Todo, Watched
  <2>2. Making(Callback("Then")) \subseteq Workers
    BY DEF Making
  <2>3. fired["Then"] \in Nat /\ ThenLeft \in Nat /\ Allowed \in Nat
    BY Numbers DEF Callbacks
  <2>4. QED
    BY <1>1, <1>3, <2>1, <2>2, <2>3 DEF Counting, Onces, ThenOnce, Bounded
<1>5. CatchOnce'
  <2>1. Making(Callback("Catch"))' \subseteq Making(Callback("Catch"))
    BY DEF Quiet, Making, Todo, Watched
  <2>2. Making(Callback("Catch")) \subseteq Workers
    BY DEF Making
  <2>3. fired["Catch"] \in Nat /\ CatchLeft \in Nat
    BY Numbers DEF Callbacks
  <2>4. Without({"doubled", "again", "swapped"})' => Without({"doubled", "again", "swapped"})
    BY DEF Quiet, Without
  <2>5. 1 \in Nat
    BY SMT
  <2>6. QED
    BY <1>1, <1>3, <2>1, <2>2, <2>3, <2>4, <2>5 DEF Counting, Onces, CatchOnce, Bounded
<1>6. CloseOnce'
  <2>1. CloseMaking' \subseteq CloseMaking
    BY <1>1, FirstLink DEF Quiet, CloseMaking, Todo, Watched
  <2>2. CloseMaking \subseteq Workers
    BY DEF CloseMaking
  <2>3. Closings \in Nat /\ CloseLeft \in Nat /\ Allowed \in Nat
    BY Numbers
  <2>4. Without({"doubled", "again", "swapped"})' => Without({"doubled", "again", "swapped"})
    BY DEF Quiet, Without
  <2>5. QED
    BY <1>1, <1>2, <1>3, <2>1, <2>2, <2>3, <2>4 DEF Counting, Onces, CloseOnce, Bounded, origin
<1>7. QED
  BY <1>4, <1>5, <1>6 DEF Onces

\* The request's list and the total stay right when it does not move.
LEMMA RequestKept ==
    ASSUME RequestCalls, Totals, proc'[Request] = proc[Request], setup' = setup, Pushed' = Pushed,
           row'.exists => row.exists /\ row'.total = row.total, Fresh => Fresh'
    PROVE  RequestCalls' /\ Totals'
<1>1. Described' = Described /\ Extra' = Extra /\ origin' = origin
  BY DEF Described, Extra, origin
<1>2. \A step : Growth(step)' = Growth(step)
  BY <1>1 DEF Growth
<1>3. RequestCalls'
  BY <1>1, <1>2 DEF RequestCalls, RequestList
<1>4. Totals'
  BY <1>1 DEF Totals, TotalFits, Raises
<1>5. QED
  BY <1>3, <1>4

\* Lists of a worker: the empty one, the rest of one, what a delivered link
\* or a report triggers.
LEMMA WorkerLists ==
    /\ WorkerList(<<>>)
    /\ \A s \in Seq(CallType) : s # <<>> /\ WorkerList(s) => WorkerList(Tail(s))
    /\ \A counts : WorkerList(RecordSuccessfulJob(counts)) /\ WorkerList(RecordFailedJob(counts))
<1>1. WorkerList(<<>>)
  BY ShortElems DEF WorkerList
<1>2. ASSUME NEW s \in Seq(CallType), s # <<>>, WorkerList(s)
      PROVE  WorkerList(Tail(s))
  <2>1. Elems(Tail(s)) \subseteq Elems(s) /\ Distinct(Tail(s))
    BY <1>2, TailElems DEF WorkerList
  <2>2. QED
    BY <1>2, <2>1 DEF WorkerList
<1>3. /\ FinallyCall \in {Callback(c) : c \in Callbacks} \cup {<<"link", n>> : n \in Nat}
      /\ \A c \in {"Then", "Catch", "Finally"} : Callback(c) \in {Callback(d) : d \in Callbacks}
  <2>1. 1 \in Nat
    BY SMT
  <2>2. QED
    BY <2>1 DEF FinallyCall, Callbacks
<1>4. \A c \in {Call("finish"), Call("cancel"), Callback("Then"), Callback("Catch")} :
         c \notin {<<"link", 1>>, Callback("Finally")}
  BY SMT DEF Call, Callback
<1>5. ASSUME NEW counts
      PROVE  WorkerList(RecordSuccessfulJob(counts))
  <2>1. PICK s : s = RecordSuccessfulJob(counts)
    OBVIOUS
  <2>2. Distinct(s) /\ Elems(s) \subseteq {Call("finish"), Callback("Then"), FinallyCall}
    BY <2>1, SuccessCalls
  <2>3. WorkerList(s)
    BY <1>3, <1>4, <2>2 DEF WorkerList
  <2>4. QED
    BY <2>1, <2>3
<1>6. ASSUME NEW counts
      PROVE  WorkerList(RecordFailedJob(counts))
  <2>1. PICK s : s = RecordFailedJob(counts)
    OBVIOUS
  <2>2. Distinct(s) /\ Elems(s) \subseteq {Call("cancel"), Callback("Catch"), FinallyCall}
    BY <2>1, FailureCalls
  <2>3. WorkerList(s)
    BY <1>3, <1>4, <2>2 DEF WorkerList
  <2>4. QED
    BY <2>1, <2>3
<1>7. QED
  BY <1>1, <1>2, <1>5, <1>6

\* A worker goes on.
LEMMA WorkerMoved ==
    ASSUME WorkerCalls, setup' = setup, Pushed \subseteq Pushed',
           NEW w \in Workers, NEW new, Becomes(w, new),
           WorkerList(new.todo), new.step \in {"idle", "find", "write", "report"},
           new.step \in {"find", "write"} => new.msg \in Pushed'
    PROVE  WorkerCalls' /\ proc'[Request] = proc[Request]
<1>1. \A s : WorkerList(s)' <=> WorkerList(s)
  BY DEF WorkerList, FinallyCall, Chained, origin
<1>2. \A v \in Workers : v # w => proc'[v] = proc[v]
  BY Constants DEF Becomes
<1>3. proc'[w] = new /\ proc'[Request] = proc[Request]
  BY Constants DEF Becomes
<1>4. ASSUME NEW v \in Workers
      PROVE  /\ WorkerList(proc'[v].todo) /\ proc'[v].step \in {"idle", "find", "write", "report"}
             /\ proc'[v].step \in {"find", "write"} => proc'[v].msg \in Pushed'
  <2>1. CASE v = w
    BY <1>3, <2>1
  <2>2. CASE v # w
    <3>1. proc'[v] = proc[v]
      BY <1>2, <2>2
    <3>2. QED
      BY <3>1 DEF WorkerCalls
  <2>3. QED
    BY <2>1, <2>2
<1>5. QED
  BY <1>1, <1>3, <1>4 DEF WorkerCalls

\* The workers stay.
LEMMA WorkersKept ==
    ASSUME WorkerCalls, setup' = setup, Pushed \subseteq Pushed',
           \A w \in Workers : proc'[w] = proc[w]
    PROVE  WorkerCalls'
<1>1. \A s : WorkerList(s)' <=> WorkerList(s)
  BY DEF WorkerList, FinallyCall, Chained, origin
<1>2. QED
  BY <1>1 DEF WorkerCalls

\* A quiet step keeps the invariant.
LEMMA QuietInv ==
    ASSUME SetFacts, BatchInv, Types', Quiet, WorkerCalls', HoldersPushed', RequestCalls' /\ Totals'
    PROVE  BatchInv'
<1>1. Types /\ Counting
  BY DEF BatchInv
<1>2. Jobsheets' /\ CountersExact' /\ PendingNone' /\ LinkReady'
  BY <1>1, QuietCounts
<1>3. Onces'
  BY <1>1, QuietOnces
<1>4. QED
  BY <1>2, <1>3 DEF BatchInv, Counting

\* A quiet step of a worker does.
LEMMA WorkerQuiet ==
    ASSUME SetFacts, BatchInv, Types', Quiet, WorkerCalls', HoldersPushed',
           proc'[Request] = proc[Request], Fresh => \A w \in Workers : Elems(proc'[w].todo) = {}
    PROVE  BatchInv'
<1>1. Types /\ Counting /\ RequestCalls /\ Totals
  BY DEF BatchInv
<1>2. Pushed' = Pushed /\ setup' = setup /\ row' = row
  BY <1>1, QuietCounts DEF Quiet
<1>3. Fresh => Fresh'
  BY DEF Fresh, Quiet, Todo
<1>4. RequestCalls' /\ Totals'
  BY <1>1, <1>2, <1>3, RequestKept
<1>5. QED
  BY <1>4, QuietInv

\* When only leases change, who holds a message has one.
LEMMA LeaseQuiet ==
    ASSUME Types, HoldersPushed, NEW w \in Procs, NEW to, to # "none",
           status' = [m \in Messages |-> IF holder[m] = w THEN to ELSE status[m]],
           holder' = [m \in Messages |-> IF holder[m] = w THEN "none" ELSE holder[m]]
    PROVE  /\ HoldersPushed'
           /\ \A m \in Messages : (status'[m] = "none") <=> (status[m] = "none")
<1>1. \A m \in Messages : (status'[m] = "none") <=> (status[m] = "none")
  BY DEF HoldersPushed
<1>2. HoldersPushed'
  BY <1>1, Constants DEF HoldersPushed
<1>3. QED
  BY <1>1, <1>2

\* One worker's list loses calls, or gains some that the properties do not count.
LEMMA ListQuiet ==
    ASSUME NEW w \in Workers, NEW new, Becomes(w, new), Elems(new.todo) \cap Watched \subseteq Elems(proc[w].todo)
    PROVE  /\ \A v \in Workers : Elems(proc'[v].todo) \cap Watched \subseteq Elems(proc[v].todo)
           /\ Elems(new.todo) \subseteq Elems(proc[w].todo) /\ Fresh => \A v \in Workers : Elems(proc'[v].todo) = {}
<1>1. \A v \in Workers : v # w => proc'[v] = proc[v]
  BY Constants DEF Becomes
<1>2. proc'[w] = new
  BY DEF Becomes
<1>3. \A v \in Workers : Elems(proc'[v].todo) \cap Watched \subseteq Elems(proc[v].todo)
  <2>1. ASSUME NEW v \in Workers
        PROVE  Elems(proc'[v].todo) \cap Watched \subseteq Elems(proc[v].todo)
    <3>1. CASE v = w
      BY <1>2, <3>1
    <3>2. CASE v # w
      <4>1. proc'[v] = proc[v]
        BY <1>1, <3>2
      <4>2. QED
        BY <4>1
    <3>3. QED
      BY <3>1, <3>2
  <2>2. QED
    BY <2>1
<1>4. ASSUME Elems(new.todo) \subseteq Elems(proc[w].todo), Fresh, NEW v \in Workers
      PROVE  Elems(proc'[v].todo) = {}
  <2>1. Elems(proc[v].todo) = {} /\ Elems(proc[w].todo) = {}
    BY <1>4 DEF Fresh, Todo
  <2>2. CASE v = w
    BY <1>2, <1>4, <2>1, <2>2
  <2>3. CASE v # w
    <3>1. proc'[v] = proc[v]
      BY <1>1, <2>3
    <3>2. QED
      BY <2>1, <3>1
  <2>4. QED
    BY <2>2, <2>3
<1>5. QED
  BY <1>3, <1>4

\* A worker's call fails.
LEMMA CallFailsWorker ==
    ASSUME SetFacts, BatchInv, NEW w \in Workers, CallFails(w)
    PROVE  BatchInv'
<1>1. Types /\ WorkerCalls /\ HoldersPushed /\ w \in Procs
  BY Constants DEF BatchInv
<1>2. PICK new \in ProcType :
        /\ proc[w].todo \in Seq(CallType) /\ proc[w].todo # <<>>
        /\ Becomes(w, new) /\ new.step = proc[w].step /\ new.msg = proc[w].msg
        /\ \/ new.todo = <<>>
           \/ new.todo = Tail(proc[w].todo) /\ proc[w].step = "report"
           \/ new.todo = <<Call("cancel")>> /\ proc[w].step = "dispatch"
           \/ new.todo = <<Call("delete")>> /\ proc[w].step = "terminate"
  BY <1>1, CallFailsIs
<1>3. /\ WorkerList(proc[w].todo) /\ proc[w].step \in {"idle", "find", "write", "report"}
      /\ proc[w].step \in {"find", "write"} => proc[w].msg \in Pushed
  BY <1>1 DEF WorkerCalls
<1>4. new.todo = <<>> \/ new.todo = Tail(proc[w].todo)
  BY <1>2, <1>3
<1>5. Elems(new.todo) \subseteq Elems(proc[w].todo) /\ WorkerList(new.todo)
  <2>1. Elems(<<>>) = {} /\ WorkerList(<<>>)
    BY ShortElems, WorkerLists
  <2>2. Elems(Tail(proc[w].todo)) \subseteq Elems(proc[w].todo)
    BY <1>2, TailElems
  <2>3. WorkerList(Tail(proc[w].todo))
    BY <1>2, <1>3, WorkerLists
  <2>4. QED
    BY <1>4, <2>1, <2>2, <2>3
<1>6. /\ UNCHANGED <<setup, row, status, holder, fired, reports>>
      /\ mishaps \subseteq mishaps'
  BY DEF CallFails
<1>7. Types' /\ HoldersPushed' /\ Pushed' = Pushed
  BY <1>1, <1>6, FaultTyped DEF HoldersPushed, Pushed
<1>8. WorkerCalls' /\ proc'[Request] = proc[Request]
  <2>1. new.step \in {"find", "write"} => new.msg \in Pushed'
    BY <1>2, <1>3, <1>7
  <2>2. new.step \in {"idle", "find", "write", "report"}
    BY <1>2, <1>3
  <2>3. QED
    BY <1>1, <1>2, <1>5, <1>6, <1>7, <2>1, <2>2, WorkerMoved
<1>9. Quiet /\ (Fresh => \A v \in Workers : Elems(proc'[v].todo) = {})
  BY <1>2, <1>5, <1>6, ListQuiet DEF Quiet
<1>10. QED
  BY <1>7, <1>8, <1>9, WorkerQuiet

\* A worker crashes, or settles what it delivered.
LEMMA WorkerStops ==
    ASSUME SetFacts, BatchInv, NEW w \in Workers, Crash(w) \/ Settle(w)
    PROVE  BatchInv'
<1>1. Types /\ WorkerCalls /\ HoldersPushed /\ w \in Procs /\ w # Request
  BY Constants DEF BatchInv
<1>2. Types'
  BY <1>1, FaultTyped, SettleTyped
<1>3. Becomes(w, Idle) /\ UNCHANGED <<setup, row, fired, reports>> /\ mishaps \subseteq mishaps'
  <2>1. proc' = [proc EXCEPT ![w] = Idle]
    BY <1>1 DEF Crash, Settle
  <2>2. UNCHANGED <<setup, row, fired, reports>> /\ mishaps \subseteq mishaps'
    BY DEF Crash, Settle, LeaseEnds, ghosts
  <2>3. QED
    BY <1>1, <2>1, <2>2, IdleIs, BecomesBy
<1>4. PICK to \in {"queued", "done", "parked"} :
        /\ status' = [m \in Messages |-> IF holder[m] = w THEN to ELSE status[m]]
        /\ holder' = [m \in Messages |-> IF holder[m] = w THEN "none" ELSE holder[m]]
  <2>1. CASE Crash(w)
    BY <2>1 DEF Crash, LeaseEnds
  <2>2. CASE Settle(w)
    BY <2>2 DEF Settle
  <2>3. QED
    BY <2>1, <2>2
<1>5. /\ HoldersPushed'
      /\ \A m \in Messages : (status'[m] = "none") <=> (status[m] = "none")
  <2>1. to # "none"
    OBVIOUS
  <2>2. QED
    BY <1>1, <1>4, <2>1, LeaseQuiet
<1>6. Elems(Idle.todo) = {} /\ WorkerList(Idle.todo) /\ Idle.step = "idle"
  BY IdleIs, ShortElems, WorkerLists
<1>7. Quiet /\ (Fresh => \A v \in Workers : Elems(proc'[v].todo) = {})
  BY <1>3, <1>5, <1>6, ListQuiet DEF Quiet
<1>8. WorkerCalls' /\ proc'[Request] = proc[Request]
  <2>1. Pushed' = Pushed
    BY <1>5, FirstLink DEF Pushed
  <2>2. QED
    BY <1>1, <1>3, <1>6, <2>1, WorkerMoved
<1>9. QED
  BY <1>2, <1>5, <1>7, <1>8, WorkerQuiet

\* A lease ends, or an operator retries a parked message, or one is parked.
LEMMA LeasesOnly ==
    ASSUME SetFacts, BatchInv,
           \/ \E w \in Workers : Overrun(w)
           \/ \E m \in Messages : Retry(m)
           \/ \E w \in Workers, m \in Messages : ParkExceeded(w, m)
    PROVE  BatchInv'
<1>1. Types /\ WorkerCalls /\ HoldersPushed
  BY DEF BatchInv
<1>2. Types'
  BY <1>1, SettleTyped, OperatorTyped, WorkerTyped
<1>3. UNCHANGED <<setup, row, fired, reports, proc>> /\ mishaps \subseteq mishaps'
  BY DEF Overrun, LeaseEnds, Retry, ParkExceeded, ghosts
<1>4. /\ HoldersPushed'
      /\ \A m \in Messages : (status'[m] = "none") <=> (status[m] = "none")
  <2>1. CASE \E w \in Workers : Overrun(w)
    <3>1. PICK w \in Procs : Overrun(w)
      BY <2>1, Constants
    <3>2. "queued" # "none"
      OBVIOUS
    <3>3. QED
      BY <1>1, <3>1, <3>2, LeaseQuiet DEF Overrun, LeaseEnds
  <2>2. CASE \E m \in Messages : Retry(m)
    BY <1>1, <2>2 DEF Retry, HoldersPushed, Types
  <2>3. CASE \E w \in Workers, m \in Messages : ParkExceeded(w, m)
    <3>1. PICK w \in Workers, m \in Messages : ParkExceeded(w, m)
      BY <2>3
    <3>2. holder' = holder /\ status[m] = "queued" /\ status' = [status EXCEPT ![m] = "parked"]
      BY <3>1 DEF ParkExceeded
    <3>3. \A k \in Messages : (status'[k] = "none") <=> (status[k] = "none")
      <4>1. status \in [Messages -> {"none", "queued", "held", "parked", "done"}]
        BY <1>1 DEF Types
      <4>2. QED
        BY SMT, <3>2, <4>1
    <3>4. QED
      BY <3>2, <3>3, <1>1 DEF HoldersPushed
  <2>4. QED
    BY <2>1, <2>2, <2>3
<1>5. Quiet
  BY <1>3, <1>4 DEF Quiet
<1>6. WorkerCalls'
  <2>1. Pushed' = Pushed
    BY <1>4, FirstLink DEF Pushed
  <2>2. QED
    BY <1>1, <1>3, <2>1, WorkersKept
<1>7. QED
  BY <1>2, <1>3, <1>4, <1>5, <1>6, WorkerQuiet DEF Fresh, Todo

\* A message is delivered to a worker.
LEMMA Delivered ==
    ASSUME SetFacts, BatchInv, NEW w \in Workers, NEW m \in Messages, Deliver(w, m)
    PROVE  BatchInv'
<1>1. Types /\ WorkerCalls /\ HoldersPushed /\ w \in Procs
  BY Constants DEF BatchInv
<1>2. Types'
  BY <1>1, WorkerTyped
<1>3. PICK new \in ProcType :
        /\ Becomes(w, new) /\ new.step \in {"find", "report"}
        /\ new.step = "find" => m \in Jobs /\ new.msg = m
        /\ Distinct(new.todo)
        /\ \A c \in Elems(new.todo) : \E n \in Nat : n # 0 /\ c \in {Callback("ChainCatch"), <<"link", n + 1>>}
  BY <1>1, DeliverIs
<1>4. /\ status[m] = "queued" /\ UNCHANGED <<setup, row, fired, reports, mishaps>>
      /\ status' = [status EXCEPT ![m] = "held"] /\ holder' = [holder EXCEPT ![m] = w]
  BY DEF Deliver, ghosts
<1>5. \A k \in Messages : (status'[k] = "none") <=> (status[k] = "none")
  BY <1>1, <1>4 DEF Types
<1>6. HoldersPushed'
  BY <1>1, <1>4, <1>5 DEF HoldersPushed, Types
<1>7. Pushed' = Pushed /\ (m \in Jobs => m \in Pushed)
  BY <1>4, <1>5, FirstLink DEF Pushed
<1>8. Elems(new.todo) \subseteq {Callback("ChainCatch")} \cup {<<"link", n>> : n \in Nat \ {1}}
  <2>1. \A n \in Nat : n # 0 => n + 1 \in Nat \ {1}
    BY SMT
  <2>2. QED
    BY <1>3, <2>1
<1>9. Elems(new.todo) \cap Watched = {} /\ WorkerList(new.todo)
  <2>1. /\ Callback("ChainCatch") \notin Watched
        /\ \A n \in Nat \ {1} : <<"link", n>> \notin Watched
    BY SMT DEF Callback, Call, Watched
  <2>2. Callback("ChainCatch") \in {Callback(c) : c \in Callbacks}
    BY DEF Callbacks
  <2>3. {<<"link", 1>>, Callback("Finally")} \subseteq Watched
    BY DEF Watched
  <2>4. Elems(new.todo) \cap Watched = {}
    BY <1>8, <2>1
  <2>5. QED
    BY <1>3, <1>8, <2>2, <2>3, <2>4 DEF WorkerList
<1>10. WorkerCalls' /\ proc'[Request] = proc[Request]
  <2>1. new.step \in {"find", "write"} => new.msg \in Pushed'
    BY <1>3, <1>7
  <2>2. new.step \in {"idle", "find", "write", "report"}
    BY <1>3
  <2>3. QED
    BY <1>1, <1>3, <1>4, <1>7, <1>9, <2>1, <2>2, WorkerMoved
<1>11. Quiet
  <2>1. \A v \in Workers : Elems(proc'[v].todo) \cap Watched \subseteq Elems(proc[v].todo)
    BY <1>3, <1>9, ListQuiet
  <2>2. QED
    BY <1>4, <1>5, <2>1 DEF Quiet
<1>12. ~Fresh
  BY <1>4 DEF Fresh
<1>13. QED
  BY <1>2, <1>6, <1>10, <1>11, <1>12, WorkerQuiet

\* A report reads the row, or reads it again.
LEMMA ReadsQuiet ==
    ASSUME SetFacts, BatchInv, NEW w \in Workers, Types', proc[w].msg \in Pushed, NEW new \in ProcType,
           \/ new = [proc[w] EXCEPT !.step = "report", !.erred = TRUE]
           \/ new = [proc[w] EXCEPT !.step = "write", !.before = Counts]
           \/ new = [proc[w] EXCEPT !.step = "find", !.before = NoCounts],
           proc' = [proc EXCEPT ![w] = new],
           UNCHANGED <<setup, row, status, attempts, holder, fired, incidents, ghosts>>
    PROVE  BatchInv'
<1>1. Types /\ WorkerCalls /\ HoldersPushed /\ proc[w].msg \in Jobs
  BY DEF BatchInv, Pushed
<1>2. /\ Becomes(w, new) /\ new.todo = proc[w].todo
      /\ new.step \in {"find", "write", "report"}
      /\ new.step \in {"find", "write"} => new.msg = proc[w].msg
  BY <1>1, ReadsIs
<1>3. UNCHANGED <<setup, row, status, holder, fired, reports, mishaps>>
  BY DEF ghosts
<1>4. HoldersPushed' /\ Pushed' = Pushed
  BY <1>1, <1>3 DEF HoldersPushed, Pushed
<1>5. WorkerCalls' /\ proc'[Request] = proc[Request]
  <2>1. WorkerList(new.todo)
    BY <1>1, <1>2 DEF WorkerCalls
  <2>2. new.step \in {"find", "write"} => new.msg \in Pushed'
    BY <1>2, <1>4
  <2>3. new.step \in {"idle", "find", "write", "report"}
    BY <1>2
  <2>4. QED
    BY <1>1, <1>2, <1>3, <1>4, <2>1, <2>2, <2>3, WorkerMoved
<1>6. Quiet /\ (Fresh => \A v \in Workers : Elems(proc'[v].todo) = {})
  <2>1. /\ \A v \in Workers : Elems(proc'[v].todo) \cap Watched \subseteq Elems(proc[v].todo)
        /\ Fresh => \A v \in Workers : Elems(proc'[v].todo) = {}
    BY <1>2, ListQuiet
  <2>2. QED
    BY <1>3, <2>1 DEF Quiet
<1>7. QED
  BY <1>4, <1>5, <1>6, WorkerQuiet

----------------------------------------------------------------------------
(* The process that dispatches                                              *)

\* A call and the pushes after it.
Leads(c, jobs, s) ==
    /\ s \in Seq(CallType) /\ c \in Elems(s)
    /\ \A d \in Elems(s) : d = c \/ \E j \in jobs : d = Push(j)
    /\ \A i \in 1..Len(s) : s[i][1] \in {"store", "raise"} => i = 1

\* Such are the lists of Dispatch and Add.
LEMMA PrefixedElems ==
    ASSUME SetFacts, NEW c \in CallType, NEW jobs \in SUBSET Jobs
    PROVE  Leads(c, jobs, <<c>> \o Pushes(jobs))
<1>0. PICK s : s = <<c>> \o Pushes(jobs)
  OBVIOUS
<1>1. /\ s \in Seq(CallType) /\ s[1] = c
      /\ \A i \in 1..Len(s) : i # 1 => \E j \in jobs : s[i] = Push(j)
  BY <1>0, Prefixed
<1>2. 1 \in 1..Len(s)
  <2>1. Pushes(jobs) \in Seq(CallType) /\ Len(Pushes(jobs)) \in Nat
    BY SMT, PushesOf
  <2>2. Len(s) = 1 + Len(Pushes(jobs))
    BY SMT, <1>0, <2>1
  <2>3. QED
    BY SMT, <2>1, <2>2
<1>3. \A j : Push(j)[1] = "push"
  BY DEF Push
<1>4. Leads(c, jobs, s)
  BY <1>1, <1>2, <1>3 DEF Elems, Leads
<1>5. QED
  BY <1>0, <1>4

\* The process that dispatches moves, and what the workers count stays.
LEMMA RequestQuiet ==
    ASSUME SetFacts, BatchInv, Types', NEW new \in ProcType, Becomes(Request, new),
           UNCHANGED <<setup, row, fired, reports>>, mishaps \subseteq mishaps',
           \A m \in Messages : (status'[m] = "none") <=> (status[m] = "none"),
           HoldersPushed', RequestList(new.step, new.todo), TotalFits(new.step, new.todo)
    PROVE  BatchInv'
<1>1. Types /\ WorkerCalls /\ RequestCalls /\ Totals /\ Counting
  BY DEF BatchInv
<1>2. proc'[Request] = new /\ \A w \in Workers : proc'[w] = proc[w]
  BY Constants DEF Becomes
<1>3. Quiet
  BY <1>2 DEF Quiet
<1>4. Pushed' = Pushed
  BY <1>1, <1>3, QuietCounts
<1>5. WorkerCalls'
  BY <1>1, <1>2, <1>4, WorkersKept
<1>6. Described' = Described /\ Extra' = Extra /\ origin' = origin
  BY DEF Described, Extra, origin
<1>7. Fresh => Fresh'
  BY <1>2 DEF Fresh, Todo
<1>8. \A step : Growth(step)' = Growth(step)
  BY <1>6 DEF Growth
<1>9. RequestCalls'
  BY <1>2, <1>6, <1>7, <1>8 DEF RequestCalls, RequestList
<1>10. Totals'
  BY <1>2, <1>4, <1>6 DEF Totals, TotalFits, Raises
<1>11. QED
  BY <1>3, <1>5, <1>9, <1>10, QuietInv

\* It dies.
LEMMA RequestCrash ==
    ASSUME SetFacts, BatchInv, Crash(Request)
    PROVE  BatchInv'
<1>1. Types /\ HoldersPushed /\ Request \in Procs
  BY Constants DEF BatchInv
<1>2. PICK new \in ProcType : new = Begin("done", <<>>) /\ new.step = "done" /\ new.todo = <<>>
  <2>1. <<>> \in Seq(CallType) /\ "done" \in ListSteps
    BY ShortElems DEF ListSteps
  <2>2. QED
    BY <2>1, BeginIs
<1>3. Becomes(Request, new) /\ UNCHANGED <<setup, row, fired, reports>> /\ mishaps \subseteq mishaps'
  <2>1. proc' = [proc EXCEPT ![Request] = new]
    BY <1>2 DEF Crash
  <2>2. Becomes(Request, new)
    BY <1>1, <2>1, BecomesBy
  <2>3. QED
    BY <2>2 DEF Crash, LeaseEnds
<1>4. Types'
  BY <1>1, FaultTyped
<1>5. /\ HoldersPushed'
      /\ \A m \in Messages : (status'[m] = "none") <=> (status[m] = "none")
  <2>1. "queued" # "none"
    OBVIOUS
  <2>2. QED
    BY <1>1, <2>1, LeaseQuiet DEF Crash, LeaseEnds
<1>6. Elems(new.todo) = {} /\ 1..Len(new.todo) = {}
  BY <1>2, ShortElems
<1>7. RequestList(new.step, new.todo)
  BY <1>6 DEF RequestList
<1>8. TotalFits(new.step, new.todo)
  BY <1>2, <1>6 DEF BatchInv, Totals, TotalFits, Raises
<1>9. QED
  BY <1>3, <1>4, <1>5, <1>7, <1>8, RequestQuiet

\* One of its calls fails.
LEMMA RequestFails ==
    ASSUME SetFacts, BatchInv, CallFails(Request)
    PROVE  BatchInv'
<1>1. Types /\ HoldersPushed /\ RequestCalls /\ Totals /\ Request \in Procs
  BY Constants DEF BatchInv
<1>2. PICK new \in ProcType :
        /\ proc[Request].todo \in Seq(CallType) /\ proc[Request].todo # <<>>
        /\ Becomes(Request, new) /\ new.step = proc[Request].step
        /\ \/ new.todo = <<>>
           \/ new.todo = Tail(proc[Request].todo) /\ proc[Request].step = "report"
           \/ new.todo = <<Call("cancel")>> /\ proc[Request].step = "dispatch"
           \/ new.todo = <<Call("delete")>> /\ proc[Request].step = "terminate"
  BY <1>1, CallFailsIs
<1>3. /\ UNCHANGED <<setup, row, status, holder, fired, reports>>
      /\ mishaps \subseteq mishaps'
  BY DEF CallFails
<1>4. Types' /\ HoldersPushed'
  BY <1>1, <1>3, FaultTyped DEF HoldersPushed
<1>5. PICK step, old, calls : step = proc[Request].step /\ old = proc[Request].todo /\ calls = new.todo
  OBVIOUS
<1>6. RequestList(step, old) /\ TotalFits(step, old) /\ old \in Seq(CallType) /\ old # <<>>
  BY <1>1, <1>2, <1>5 DEF RequestCalls, Totals
<1>7. RequestList(step, calls) /\ TotalFits(step, calls)
  <2>1. CASE calls = <<>>
    <3>1. Elems(calls) = {} /\ 1..Len(calls) = {}
      BY <2>1, ShortElems
    <3>2. QED
      BY <1>6, <3>1 DEF RequestList, TotalFits, Raises
  <2>2. CASE calls = Tail(old) /\ step = "report"
    <3>1. Elems(calls) \subseteq Elems(old)
      BY <1>6, <2>2, TailElems
    <3>2. \A i \in 1..Len(calls) : calls[i] \in Elems(calls)
      BY DEF Elems
    <3>3. \A c \in Elems(calls) : c[1] \notin {"store", "raise"}
      BY <1>6, <2>2, <3>1 DEF RequestList
    <3>4. RequestList(step, calls)
      BY <1>6, <3>1, <3>2, <3>3 DEF RequestList
    <3>5. TotalFits(step, calls)
      BY <1>6, <2>2, <3>3 DEF TotalFits, Raises
    <3>6. QED
      BY <3>4, <3>5
  <2>3. CASE calls \in {<<Call("cancel")>>, <<Call("delete")>>} /\ step # "add"
    <3>1. PICK c \in {Call("cancel"), Call("delete")} : calls = <<c>>
      BY <2>3
    <3>2. Elems(calls) = {c}
      BY <3>1, CallTypes, ShortElems
    <3>3. c[1] \in {"cancel", "delete"}
      BY CallNames
    <3>4. \A i \in 1..Len(calls) : calls[i] \in Elems(calls)
      BY DEF Elems
    <3>5. RequestList(step, calls)
      BY <3>2, <3>3, <3>4 DEF RequestList
    <3>6. TotalFits(step, calls)
      BY <1>6, <2>3, <3>2, <3>3 DEF TotalFits, Raises
    <3>7. QED
      BY <3>5, <3>6
  <2>4. QED
    BY <1>2, <1>5, <2>1, <2>2, <2>3
<1>8. RequestList(new.step, new.todo) /\ TotalFits(new.step, new.todo)
  BY <1>2, <1>5, <1>7
<1>9. QED
  BY <1>2, <1>3, <1>4, <1>8, RequestQuiet

\* It goes on with its next list.
LEMMA RequestProceeds ==
    ASSUME SetFacts, BatchInv, Dispatched \/ Terminating \/ Add
    PROVE  BatchInv'
<1>1. Types /\ HoldersPushed /\ TotalFits(proc[Request].step, proc[Request].todo) /\ setup \in Setups
  BY DEF BatchInv, Totals, Types
<1>2. PICK new \in ProcType :
        /\ Becomes(Request, new)
        /\ UNCHANGED <<setup, row, status, attempts, holder, fired, incidents, ghosts>>
        /\ \/ /\ proc[Request].step = "dispatch" /\ new.step \in {"report", "done", "idle"}
              /\ \A c \in Elems(new.todo) :
                   c = Callback("ChainCatch") \/ (c = <<"link", 1>> /\ origin = "chainReported")
           \/ /\ proc[Request].step = "respond" /\ new.step = "terminate"
              /\ new.todo = AddCalls(Described)
           \/ /\ proc[Request].step = "idle" /\ new.step = "add" /\ Extra # {}
              /\ new.todo = AddCalls(Extra)
  BY <1>1, ProceedIs
<1>3. UNCHANGED <<setup, row, status, holder, fired, reports, mishaps>>
  BY <1>2 DEF ghosts
<1>4. Types' /\ HoldersPushed'
  BY <1>1, <1>3, ProceedTyped DEF HoldersPushed
<1>5. /\ row.exists => row.total >= Cardinality(Described) /\ row.total = Cardinality(Described)
      /\ row.exists /\ ~(Pushed \subseteq Described) => row.total = Cardinality(Described) + Cardinality(Extra)
  BY <1>1, <1>2 DEF TotalFits
<1>6. PICK step, calls : step = new.step /\ calls = new.todo
  OBVIOUS
<1>7. RequestList(step, calls) /\ TotalFits(step, calls)
  <2>1. CASE /\ step \in {"report", "done", "idle"}
             /\ \A c \in Elems(calls) :
                  c = Callback("ChainCatch") \/ (c = <<"link", 1>> /\ origin = "chainReported")
    <3>1. \A c \in Elems(calls) :
            /\ c[1] = "callback" => c = Callback("ChainCatch")
            /\ c[1] = "link" => origin = "chainReported"
            /\ c[1] \in {"callback", "link"}
      <4>1. ASSUME NEW c \in Elems(calls)
            PROVE  /\ c[1] = "callback" => c = Callback("ChainCatch")
                   /\ c[1] = "link" => origin = "chainReported"
                   /\ c[1] \in {"callback", "link"}
        <5>1. CASE c = Callback("ChainCatch")
          <6>1. c[1] = "callback"
            BY <5>1, CallNames
          <6>2. QED
            BY <5>1, <6>1
        <5>2. CASE c = <<"link", 1>> /\ origin = "chainReported"
          <6>1. c[1] = "link"
            BY <5>2, CallNames
          <6>2. QED
            BY <5>2, <6>1
        <5>3. QED
          BY <2>1, <5>1, <5>2
      <4>2. QED
        BY <4>1
    <3>2. \A i \in 1..Len(calls) : calls[i] \in Elems(calls)
      BY DEF Elems
    <3>3. RequestList(step, calls)
      BY <3>1, <3>2 DEF RequestList
    <3>4. TotalFits(step, calls)
      BY <1>5, <2>1, <3>1 DEF TotalFits, Raises
    <3>5. QED
      BY <3>3, <3>4
  <2>2. CASE \E jobs \in SUBSET Jobs :
               /\ calls = AddCalls(jobs) /\ jobs = Growth(step) /\ step \in {"add", "terminate"}
               /\ Cardinality(jobs) \in Nat \ {0}
    <3>1. PICK jobs \in SUBSET Jobs :
               /\ calls = AddCalls(jobs) /\ jobs = Growth(step) /\ step \in {"add", "terminate"}
               /\ Cardinality(jobs) \in Nat \ {0}
      BY <2>2
    <3>2. PICK raise \in CallType : raise = <<"raise", Cardinality(jobs)>>
      BY <3>1, CallTypes
    <3>3. /\ calls \in Seq(CallType) /\ raise \in Elems(calls)
          /\ \A d \in Elems(calls) : d = raise \/ \E j \in jobs : d = Push(j)
          /\ \A i \in 1..Len(calls) : calls[i][1] \in {"store", "raise"} => i = 1
      <4>1. calls = <<raise>> \o Pushes(jobs)
        BY <3>1, <3>2 DEF AddCalls
      <4>2. Leads(raise, jobs, calls)
        BY <4>1, PrefixedElems
      <4>3. QED
        BY <4>2 DEF Leads
    <3>4. raise[1] = "raise" /\ raise[2] = Cardinality(Growth(step)) /\ raise[2] # 0
      BY <3>1, <3>2
    <3>5. \A j : Push(j)[1] = "push"
      BY DEF Push
    <3>6. RequestList(step, calls)
      <4>1. ASSUME NEW c \in Elems(calls)
            PROVE  /\ c[1] \in {"raise", "push"}
                   /\ c[1] = "raise" => c[2] = Cardinality(Growth(step)) /\ c[2] # 0
                   /\ c[1] = "push" => \E j \in Growth(step) : c = Push(j)
        <5>1. CASE c = raise
          BY <3>4, <5>1
        <5>2. CASE \E j \in jobs : c = Push(j)
          BY <3>1, <3>5, <5>2
        <5>3. QED
          BY <3>3, <5>1, <5>2
      <4>2. QED
        BY <3>1, <3>3, <4>1 DEF RequestList
    <3>7. TotalFits(step, calls)
      BY <1>5, <3>3, <3>4 DEF TotalFits, Raises
    <3>8. QED
      BY <3>6, <3>7
  <2>3. Described \in SUBSET Jobs /\ Extra \in SUBSET Jobs /\ Cardinality(Described) \in Nat \ {0}
        /\ (Extra # {} => Cardinality(Extra) \in Nat \ {0})
    BY <1>1, SetupFacts
  <2>4. QED
    BY <1>2, <1>6, <2>1, <2>2, <2>3 DEF Growth
<1>8. RequestList(new.step, new.todo) /\ TotalFits(new.step, new.todo)
  BY <1>6, <1>7
<1>9. QED
  BY <1>2, <1>3, <1>4, <1>8, RequestQuiet

----------------------------------------------------------------------------
(* A call is made                                                           *)

\* Process p makes a call of its list, and what the call does.
Calling(p, call) ==
    /\ call \in CallType /\ call \in Todo(p) /\ ~Refused(call)
    /\ row' = RowAfter(call)
    /\ status' = [m \in Messages |-> IF Queues(call, m) THEN "queued" ELSE status[m]]
    /\ fired' = [c \in Callbacks |-> fired[c] + IF call = Callback(c) THEN 1 ELSE 0]
    /\ mishaps' = mishaps \cup (IF Overtakes(call) THEN {"overtaken"} ELSE {})
    /\ UNCHANGED <<setup, holder, reports>>
    /\ \A w \in Workers : Elems(proc'[w].todo) \subseteq Elems(proc[w].todo)
    /\ p \in Workers => call \notin Elems(proc'[p].todo)

\* Who makes which calls.
Made(p, call) ==
    /\ p \in Workers =>
         /\ call \in {Call("finish"), Call("cancel")} \cup {Callback(c) : c \in Callbacks}
                       \cup {<<"link", n>> : n \in Nat}
         /\ call \in {<<"link", 1>>, Callback("Finally")} => call = FinallyCall
    /\ p = Request =>
         /\ call[1] \in {"store", "raise", "push", "cancel", "delete", "link", "callback"}
         /\ call[1] = "store" => Fresh /\ proc[Request].step \in {"dispatch", "respond"}
         /\ call[1] = "raise" => /\ proc[Request].step \in {"add", "terminate"}
                                 /\ call[2] = Cardinality(Growth(proc[Request].step)) /\ call[2] # 0
         /\ call[1] = "push" => \E j \in Growth(proc[Request].step) : call = Push(j)
         /\ call[1] = "link" => origin = "chainReported"
         /\ call[1] = "callback" => call = Callback("ChainCatch")

\* So it is.
LEMMA Makes ==
    ASSUME BatchInv, NEW p \in Procs, MakeCall(p)
    PROVE  \E call \in CallType, new \in ProcType :
             /\ Calling(p, call) /\ Made(p, call)
             /\ Becomes(p, new) /\ new.step = proc[p].step /\ new.msg = proc[p].msg
             /\ new.todo = Tail(proc[p].todo) /\ proc[p].todo \in Seq(CallType) /\ proc[p].todo # <<>>
             /\ call = Head(proc[p].todo)
<1>1. Types /\ WorkerCalls /\ RequestCalls
  BY DEF BatchInv
<1>2. PICK call \in CallType, new \in ProcType :
        /\ proc[p].todo \in Seq(CallType) /\ proc[p].todo # <<>> /\ call = Head(proc[p].todo)
        /\ ~Refused(call) /\ row' = RowAfter(call)
        /\ status' = [m \in Messages |-> IF Queues(call, m) THEN "queued" ELSE status[m]]
        /\ fired' = [c \in Callbacks |-> fired[c] + IF call = Callback(c) THEN 1 ELSE 0]
        /\ mishaps' = mishaps \cup (IF Overtakes(call) THEN {"overtaken"} ELSE {})
        /\ UNCHANGED <<setup, attempts, holder, incidents, reports>>
        /\ Becomes(p, new) /\ new.todo = Tail(proc[p].todo)
        /\ new.step = proc[p].step /\ new.msg = proc[p].msg
  BY <1>1, MakeCallIs
<1>3. PICK old : old = proc[p].todo /\ old \in Seq(CallType) /\ old # <<>>
  BY <1>2
<1>4. call \in Elems(old) /\ Elems(new.todo) \subseteq Elems(old)
  BY <1>2, <1>3, TailElems
<1>5. Distinct(old) => call \notin Elems(new.todo)
  BY <1>2, <1>3, TailElems
<1>6. proc'[p] = new /\ \A q \in Procs : q # p => proc'[q] = proc[q]
  BY <1>2 DEF Becomes
<1>7. \A w \in Workers : Elems(proc'[w].todo) \subseteq Elems(proc[w].todo)
  <2>1. ASSUME NEW w \in Workers
        PROVE  Elems(proc'[w].todo) \subseteq Elems(proc[w].todo)
    <3>1. CASE w = p
      BY <1>3, <1>4, <1>6, <3>1
    <3>2. CASE w # p
      <4>1. proc'[w] = proc[w]
        BY <1>6, <3>2, Constants
      <4>2. QED
        BY <4>1
    <3>3. QED
      BY <3>1, <3>2
  <2>2. QED
    BY <2>1
<1>8. p \in Workers => WorkerList(old)
  BY <1>1, <1>3 DEF WorkerCalls
<1>9. p \in Workers => call \notin Elems(proc'[p].todo)
  BY <1>5, <1>6, <1>8 DEF WorkerList
<1>10. Calling(p, call)
  BY <1>2, <1>3, <1>4, <1>7, <1>9 DEF Calling, Todo
<1>11. p = Request => RequestList(proc[Request].step, old)
  BY <1>1, <1>3 DEF RequestCalls
<1>12. Made(p, call)
  <2>1. CASE p \in Workers
    BY <1>4, <1>8, <2>1, Constants DEF WorkerList, Made
  <2>2. CASE p = Request
    BY <1>4, <1>11, <2>2, Constants DEF RequestList, Made
  <2>3. QED
    BY <2>1, <2>2, Constants
<1>13. WITNESS call \in CallType, new \in ProcType
<1>14. QED
  BY <1>2, <1>10, <1>12

\* The calls that only a worker makes, and those that only the request does.
LEMMA Kinds ==
    ASSUME NEW p \in Procs, NEW call \in CallType, Made(p, call)
    PROVE  /\ call[1] = "finish" => p \in Workers /\ call = Call("finish")
           /\ \A c \in {"Then", "Catch", "Finally"} : call = Callback(c) => p \in Workers
           /\ call = <<"link", 1>> /\ origin # "chainReported" => p \in Workers
           /\ call[1] \in {"store", "raise", "push", "delete"} => p = Request
           /\ call \in {<<"link", 1>>, Callback("Finally")} /\ origin # "chainReported" => call = FinallyCall
           /\ call[1] = "link" => call = <<"link", call[2]>>
<1>1. CASE p \in Workers
  <2>1. \A c \in Callbacks : Callback(c)[1] \notin {"finish", "store", "raise", "push", "delete", "link"}
    BY CallNames
  <2>2. \A n \in Nat : /\ <<"link", n>>[1] \notin {"finish", "store", "raise", "push", "delete"}
                       /\ <<"link", n>> = <<"link", <<"link", n>>[2]>>
    BY CallNames
  <2>3. /\ Call("finish")[1] \notin {"store", "raise", "push", "delete", "link"}
        /\ Call("cancel")[1] \notin {"finish", "store", "raise", "push", "delete", "link"}
    BY CallNames
  <2>4. call \in {Call("finish"), Call("cancel")} \cup {Callback(c) : c \in Callbacks}
                       \cup {<<"link", n>> : n \in Nat}
    BY <1>1 DEF Made
  <2>5. /\ call[1] \notin {"store", "raise", "push", "delete"}
        /\ call[1] = "finish" => call = Call("finish")
        /\ call[1] = "link" => call = <<"link", call[2]>>
    <3>1. CASE call \in {Call("finish"), Call("cancel")}
      BY <2>3, <3>1
    <3>2. CASE call \in {Callback(c) : c \in Callbacks}
      <4>1. PICK c \in Callbacks : call = Callback(c)
        BY <3>2
      <4>2. QED
        BY <2>1, <4>1
    <3>3. CASE call \in {<<"link", n>> : n \in Nat}
      <4>1. PICK n \in Nat : call = <<"link", n>>
        BY <3>3
      <4>2. QED
        BY <2>2, <4>1
    <3>4. QED
      BY <2>4, <3>1, <3>2, <3>3
  <2>6. QED
    BY <1>1, <2>5 DEF Made
<1>2. CASE p = Request
  <2>1. \A c \in {"Then", "Catch", "Finally"} : Callback(c) # Callback("ChainCatch")
    BY SMT DEF Callback
  <2>2. /\ \A c : Callback(c)[1] = "callback"
        /\ <<"link", 1>>[1] = "link"
    BY CallNames
  <2>3. call[1] # "finish" /\ (call[1] = "callback" => call = Callback("ChainCatch"))
        /\ (call[1] = "link" => origin = "chainReported")
    BY <1>2 DEF Made
  <2>4. \A c \in {"Then", "Catch", "Finally"} : call # Callback(c)
    BY <2>1, <2>2, <2>3
  <2>5. call = <<"link", 1>> => origin = "chainReported"
    BY <2>2, <2>3
  <2>6. call[1] = "link" => call = <<"link", call[2]>>
    BY CallNames
  <2>7. QED
    BY <1>2, <2>3, <2>4, <2>5, <2>6
<1>3. QED
  BY <1>1, <1>2, Constants

\* Which messages a call puts on the queue.
LEMMA NewMessages ==
    ASSUME SetFacts, Types, NEW p \in Procs, NEW call \in CallType, Calling(p, call), Made(p, call)
    PROVE  /\ \A m \in Messages : status[m] # "none" => status'[m] # "none"
           /\ \A m \in Messages : status'[m] # "none" => status[m] # "none" \/ Queues(call, m)
           /\ Pushed' = Pushed \cup {j \in Jobs : call = Push(j)}
           /\ \A n \in 1..MaxCopies : Queues(call, <<1, n>>) =>
                /\ call = <<"link", 1>>
                /\ \A k \in 1..MaxCopies : status[<<1, k>>] = "none" <=> k >= n
<1>1. \A m \in Messages : status'[m] = IF Queues(call, m) THEN "queued" ELSE status[m]
  BY DEF Calling
<1>2. \A j \in Jobs : Queues(call, j) <=> call = Push(j)
  BY Constants DEF Queues
<1>3. Pushed' = Pushed \cup {j \in Jobs : call = Push(j)}
  BY <1>1, <1>2, FirstLink DEF Pushed
<1>4. ASSUME NEW n \in 1..MaxCopies, Queues(call, <<1, n>>)
      PROVE  /\ call = <<"link", 1>>
             /\ \A k \in 1..MaxCopies : status[<<1, k>>] = "none" <=> k >= n
  <2>1. call # Push(<<1, n>>)
    <3>1. SUFFICES ASSUME call = Push(<<1, n>>)
                   PROVE  FALSE
      OBVIOUS
    <3>2. call[1] = "push"
      BY <3>1, CallNames
    <3>3. p = Request
      BY <3>2, Kinds
    <3>4. PICK j \in Growth(proc[Request].step) : call = Push(j)
      BY <3>2, <3>3 DEF Made
    <3>5. j \in Jobs
      BY SetupFacts DEF Types, Growth
    <3>6. j = <<1, n>>
      <4>1. Push(j)[2] = j /\ Push(<<1, n>>)[2] = <<1, n>>
        BY CallNames
      <4>2. QED
        BY <3>1, <3>4, <4>1
    <3>7. QED
      BY <3>5, <3>6, FirstLink, Constants
  <2>2. /\ call[1] = "link" /\ <<1, n>>[1] = call[2]
        /\ \A k \in 1..MaxCopies : status[<<<<1, n>>[1], k>>] = "none" <=> k >= <<1, n>>[2]
    BY <1>4, <2>1 DEF Queues
  <2>3. call[2] = 1
    BY <2>2
  <2>4. QED
    BY <2>2, <2>3, Kinds
<1>5. QED
  BY <1>1, <1>3, <1>4

\* The call that closes the batch does it once.
LEMMA NewClosings ==
    ASSUME SetFacts,
           Types, Types', NEW p \in Procs, NEW call \in CallType, Calling(p, call), Made(p, call)
    PROVE  /\ Closings \in Nat /\ Closings' \in Nat
           /\ Closings' = Closings \/ (Closings' = Closings + 1 /\ call \in {<<"link", 1>>, Callback("Finally")})
           /\ LinkPushed' => LinkPushed \/ call = <<"link", 1>>
<1>1. PICK old : old = {n \in 1..MaxCopies : status[<<1, n>>] # "none"}
  OBVIOUS
<1>2. PICK new : new = {n \in 1..MaxCopies : status'[<<1, n>>] # "none"}
  OBVIOUS
<1>3. IsFiniteSet(old) /\ Cardinality(old) \in Nat
  <2>1. IsFiniteSet(1..MaxCopies)
    BY SMT, Constants DEF SetFacts, Intervals
  <2>2. QED
    BY <1>1, <2>1 DEF SetFacts, Subsets, Enumerated
<1>4. PICK a \in Nat, b \in Nat :
        /\ a = fired["Finally"] /\ b = fired'["Finally"]
        /\ b = a + IF call = Callback("Finally") THEN 1 ELSE 0
  BY DEF Types, Calling, Callbacks
<1>5. Closings = a + Cardinality(old) /\ Closings' = b + Cardinality(new)
  BY <1>1, <1>2, <1>4 DEF Closings
<1>6. old \subseteq new
  BY <1>1, <1>2, NewMessages, FirstLink
<1>7. call # <<"link", 1>> => new = old
  BY <1>1, <1>2, <1>6, NewMessages, FirstLink
<1>8. \A n \in new \ old : \A k \in new \ old : n = k
  <2>1. ASSUME NEW n \in new \ old, NEW k \in new \ old
        PROVE  n = k
    <3>1. n \in 1..MaxCopies /\ k \in 1..MaxCopies
      BY <1>2
    <3>2. Queues(call, <<1, n>>) /\ Queues(call, <<1, k>>)
      BY <1>1, <1>2, <3>1, NewMessages, FirstLink
    <3>3. \A i \in 1..MaxCopies : (status[<<1, i>>] = "none" <=> i >= n) /\ (status[<<1, i>>] = "none" <=> i >= k)
      BY <3>1, <3>2, NewMessages
    <3>4. (n >= n <=> n >= k) /\ (k >= n <=> k >= k)
      BY <3>1, <3>3
    <3>5. QED
      BY <3>1, <3>4, Sums, Constants
  <2>2. QED
    BY <2>1
<1>9. /\ Cardinality(new) \in Nat
      /\ Cardinality(new) = Cardinality(old) \/ (Cardinality(new) = Cardinality(old) + 1 /\ call = <<"link", 1>>)
  <2>1. CASE new = old
    BY <1>3, <2>1
  <2>2. CASE new # old
    <3>1. PICK n : n \in new /\ n \notin old
      BY <1>6, <2>2
    <3>2. new = old \cup {n}
      BY <1>6, <1>8, <3>1
    <3>3. Cardinality(new) = Cardinality(old) + 1
      BY <1>3, <3>1, <3>2 DEF SetFacts, Adding
    <3>4. \A i \in Nat : i + 1 \in Nat
      BY SMT
    <3>5. QED
      BY <1>3, <1>7, <2>2, <3>3, <3>4
  <2>3. QED
    BY <2>1, <2>2
<1>10. <<"link", 1>> # Callback("Finally")
  BY SMT DEF Callback
<1>11. PICK x \in Nat, y \in Nat : x = Cardinality(old) /\ y = Cardinality(new)
  BY <1>3, <1>9
<1>12. /\ a + x \in Nat /\ b + y \in Nat
       /\ b + y = a + x \/ (b + y = (a + x) + 1 /\ call \in {<<"link", 1>>, Callback("Finally")})
  <2>1. a + x \in Nat /\ b + y \in Nat
    BY Sums
  <2>2. CASE call = Callback("Finally")
    <3>1. b = a + 1 /\ y = x
      BY <1>4, <1>9, <1>10, <1>11, <2>2
    <3>2. b + y = (a + x) + 1
      BY SMT, <2>2, <3>1
    <3>3. QED
      BY <2>1, <2>2, <3>2
  <2>3. CASE call # Callback("Finally") /\ y = x
    <3>1. b = a + 0
      BY <1>4, <2>3
    <3>2. b + y = a + x
      BY SMT, <2>3, <3>1
    <3>3. QED
      BY <2>1, <2>3, <3>2
  <2>4. CASE call = <<"link", 1>> /\ y = x + 1
    <3>1. b = a + 0
      BY <1>4, <1>10, <2>4
    <3>2. b + y = (a + x) + 1
      BY SMT, <2>4, <3>1
    <3>3. QED
      BY <2>1, <2>4, <3>2
  <2>5. QED
    BY <1>9, <1>11, <2>2, <2>3, <2>4
<1>13. LinkPushed' => LinkPushed \/ call = <<"link", 1>>
  BY <1>1, <1>2, <1>7 DEF LinkPushed
<1>14. QED
  BY <1>5, <1>11, <1>12, <1>13

\* What a call does to the row: by the call.
LEMMA CallOnRow ==
    ASSUME SetFacts, BatchInv, NEW p \in Procs, NEW call \in CallType, Calling(p, call), Made(p, call)
    PROVE  /\ call[1] = "store" => row = NoRow /\ Fresh
           /\ call[1] \in {"raise", "finish", "cancel"} => row.exists
           /\ row'.exists /\ call[1] # "store" => row.exists
           /\ row'.finished => row'.exists
<1>1. Types /\ FinishedExists
  BY DEF BatchInv, Counting, Jobsheets
<1>2. call[1] = "store" => row = NoRow /\ Fresh
  BY Kinds DEF Made, Fresh
<1>3. call[1] \in {"raise", "finish", "cancel"} => row.exists
  BY DEF Calling, Refused
<1>4. row' = RowAfter(call)
  BY DEF Calling
<1>5. CASE call[1] = "store"
  BY <1>1, <1>2, <1>3, <1>4, <1>5, RowAfterIs
<1>6. CASE call[1] = "raise"
  <2>1. row'.exists = row.exists /\ ~row'.finished
    BY <1>1, <1>4, <1>6, RowAfterIs
  <2>2. QED
    BY <1>2, <1>3, <1>6, <2>1
<1>7. CASE call[1] = "delete"
  <2>1. ~row'.exists /\ ~row'.finished
    BY <1>1, <1>4, <1>7, RowAfterIs
  <2>2. QED
    BY <1>2, <1>3, <2>1
<1>8. CASE call[1] \notin {"store", "raise", "delete"}
  <2>1. /\ row'.exists = row.exists
        /\ row'.finished => call[1] \in {"finish", "cancel"} \/ row.finished
    BY <1>1, <1>4, <1>8, RowAfterIs
  <2>2. QED
    BY <1>1, <1>2, <1>3, <2>1 DEF FinishedExists
<1>9. QED
  BY <1>5, <1>6, <1>7, <1>8

\* The counters and the reports stay together.
LEMMA CallCounts ==
    ASSUME SetFacts, BatchInv, NEW p \in Procs, NEW call \in CallType, Calling(p, call), Made(p, call)
    PROVE  CountersExact' /\ Jobsheets' /\ Pushed \subseteq Pushed'
<1>1. Types /\ CountersExact /\ Jobsheets
  BY DEF BatchInv, Counting
<1>2. Pushed' = Pushed \cup {j \in Jobs : call = Push(j)}
  BY <1>1, NewMessages
<1>3. Jobsheets'
  <2>1. \A j \in Jobs : call = Push(j) => j \in Described \cup Extra
    <3>1. ASSUME NEW j \in Jobs, call = Push(j)
          PROVE  j \in Described \cup Extra
      <4>1. call[1] = "push" /\ call[2] = j
        BY <3>1, CallNames
      <4>2. p = Request
        BY <4>1, Kinds
      <4>3. PICK k \in Growth(proc[Request].step) : call = Push(k)
        BY <4>1, <4>2 DEF Made
      <4>4. call[2] = k
        BY <4>3, CallNames
      <4>5. QED
        BY <4>1, <4>3, <4>4 DEF Growth
    <3>2. QED
      BY <3>1
  <2>2. PushedOnly'
    BY <1>1, <1>2, <2>1 DEF Jobsheets, PushedOnly, Calling, Described, Extra
  <2>3. ReportersPushed'
    BY <1>1, <1>2 DEF Jobsheets, ReportersPushed, Calling
  <2>4. FinishedExists'
    BY CallOnRow DEF FinishedExists
  <2>5. QED
    BY <2>2, <2>3, <2>4 DEF Jobsheets
<1>4. CountersExact'
  <2>1. SUFFICES ASSUME row'.exists, Without({"doubled", "swapped"})'
                 PROVE  /\ row'.pending = row'.total - Cardinality({j \in Jobs : reports[j] = "success"})
                        /\ row'.failed = {j \in Jobs : reports[j] = "failed"}
    BY DEF CountersExact, Calling
  <2>2. Without({"doubled", "swapped"})
    BY <2>1 DEF Without, Calling
  <2>3. row' = RowAfter(call) /\ row \in RowType
    BY <1>1 DEF Calling, Types
  <2>4. CASE call[1] = "store"
    <3>1. Fresh
      BY <2>4, CallOnRow
    <3>2. {j \in Jobs : reports[j] = "success"} = {} /\ {j \in Jobs : reports[j] = "failed"} = {}
      BY <3>1 DEF Fresh
    <3>3. /\ row'.total = Cardinality(Described) /\ row'.pending = Cardinality(Described)
          /\ row'.failed = {}
      BY <1>1, <2>3, <2>4, RowAfterIs
    <3>4. Cardinality({j \in Jobs : reports[j] = "success"}) = 0 /\ Cardinality(Described) \in Nat
      BY <1>1, <3>2, SetupFacts DEF Types, SetFacts, Emptiness
    <3>5. \A n \in Nat : n = n - 0
      BY SMT
    <3>6. QED
      BY <3>2, <3>3, <3>4, <3>5
  <2>5. CASE call[1] = "raise"
    <3>1. row.exists
      BY <2>5, CallOnRow
    <3>2. /\ row.pending = row.total - Cardinality({j \in Jobs : reports[j] = "success"})
          /\ row.failed = {j \in Jobs : reports[j] = "failed"}
      BY <1>1, <2>2, <3>1 DEF CountersExact
    <3>3. /\ row'.total = row.total + call[2]
          /\ row'.pending = row.pending + call[2] /\ row'.failed = row.failed
      BY <1>1, <2>3, <2>5, RowAfterIs
    <3>4. call[2] \in Nat /\ row.total \in Nat
      BY SMT, <2>3, <2>5 DEF CallType, RowType
    <3>5. PICK s \in Nat : s = Cardinality({j \in Jobs : reports[j] = "success"})
      BY JobSets
    <3>6. (row.total - s) + call[2] = (row.total + call[2]) - s
      BY SMT, <3>4, <3>5
    <3>7. QED
      BY <3>2, <3>3, <3>5, <3>6
  <2>6. CASE call[1] \notin {"store", "raise"}
    <3>1. row.exists /\ call[1] # "delete"
      BY <1>1, <2>1, <2>3, <2>6, CallOnRow, RowAfterIs
    <3>2. row'.total = row.total /\ row'.pending = row.pending /\ row'.failed = row.failed
      BY <1>1, <2>3, <2>6, <3>1, RowAfterIs
    <3>3. QED
      BY <1>1, <2>2, <3>1, <3>2 DEF CountersExact
  <2>7. QED
    BY <2>4, <2>5, <2>6
<1>5. QED
  BY <1>2, <1>3, <1>4

\* A batch that is about to be finished has nothing pending, and a link that
\* is about to be pushed has its jobs reported.
LEMMA CallReady ==
    ASSUME SetFacts,
           BatchInv, Types', NEW p \in Procs, NEW call \in CallType, Calling(p, call), Made(p, call)
    PROVE  PendingNone' /\ LinkReady'
<1>1. Types /\ PendingNone /\ LinkReady
  BY DEF BatchInv, Counting
<1>2. PendingNone'
  <2>1. SUFFICES ASSUME row'.exists, Without({"doubled", "swapped", "overtaken"})',
                        Finishing' \/ (row'.finished /\ ~row'.cancelled)
                 PROVE  row'.pending = 0
    BY DEF PendingNone
  <2>2. Without({"doubled", "swapped", "overtaken"}) /\ ~Overtakes(call)
    BY <2>1 DEF Without, Calling
  <2>3. row' = RowAfter(call)
    BY DEF Calling
  <2>4. Finishing' => Finishing
    BY DEF Finishing, Calling, Todo
  <2>5. call[1] # "store"
    <3>1. SUFFICES ASSUME call[1] = "store"
                   PROVE  FALSE
      OBVIOUS
    <3>2. ~row'.finished
      BY <1>1, <2>3, <3>1, RowAfterIs
    <3>3. Fresh
      BY <3>1, CallOnRow
    <3>4. ~Finishing
      BY <3>3 DEF Fresh, Finishing
    <3>5. QED
      BY <2>1, <2>4, <3>2, <3>4
  <2>6. call[1] # "raise"
    <3>1. SUFFICES ASSUME call[1] = "raise"
                   PROVE  FALSE
      OBVIOUS
    <3>2. ~row'.finished
      BY <1>1, <2>3, <3>1, RowAfterIs
    <3>3. PICK w \in Workers : Call("finish") \in Elems(proc[w].todo)
      BY <2>1, <2>4, <3>2 DEF Finishing, Todo
    <3>4. Call("finish") \in Range(proc[w].todo)
      <4>1. proc[w].todo \in Seq(CallType)
        BY <1>1, Constants DEF Types, ProcType
      <4>2. DOMAIN proc[w].todo = 1..Len(proc[w].todo)
        BY <4>1, ShortElems
      <4>3. QED
        BY <3>3, <4>2 DEF Range, Elems
    <3>5. QED
      BY <2>2, <3>1, <3>4 DEF Overtakes
  <2>7. row.exists /\ call[1] # "delete"
    BY <1>1, <2>1, <2>3, <2>5, CallOnRow, RowAfterIs
  <2>8. /\ row'.pending = row.pending
        /\ row'.finished /\ ~row'.cancelled => call[1] = "finish" \/ (row.finished /\ ~row.cancelled)
    BY <1>1, <2>3, <2>5, <2>6, <2>7, RowAfterIs
  <2>9. call[1] = "finish" => Finishing
    BY Kinds DEF Finishing, Calling
  <2>10. QED
    BY <1>1, <2>1, <2>2, <2>4, <2>7, <2>8, <2>9 DEF PendingNone
<1>3. LinkReady'
  <2>1. Linking' => Linking
    BY DEF Linking, Calling, Todo
  <2>2. LinkPushed' => LinkPushed \/ call = <<"link", 1>>
    BY <1>1, NewClosings
  <2>3. call = <<"link", 1>> /\ origin # "chainReported" => Linking
    BY Kinds DEF Linking, Calling
  <2>4. Without({"doubled", "swapped"})' => Without({"doubled", "swapped"})
    BY DEF Without, Calling
  <2>5. origin' = origin /\ Described' = Described /\ reports' = reports
    BY DEF Calling, origin, Described
  <2>6. QED
    BY <1>1, <2>1, <2>2, <2>3, <2>4, <2>5 DEF LinkReady
<1>4. QED
  BY <1>2, <1>3

\* What is left to be called, and how often it may be.
LEMMA CallLeft ==
    ASSUME SetFacts,
           BatchInv, NEW p \in Procs, NEW call \in CallType, Calling(p, call), Made(p, call), row'.exists
    PROVE  \/ call[1] = "store" /\ Fresh /\ Allowed' = 1
           \/ call[1] = "raise" /\ row.exists /\ Allowed = 1 /\ Allowed' = 2 /\ CatchLeft' = CatchLeft
           \/ /\ call[1] \notin {"store", "raise"} /\ row.exists /\ Allowed' = Allowed
              /\ ThenLeft' = ThenLeft /\ CatchLeft' = CatchLeft /\ CloseLeft' = CloseLeft
<1>1. Types /\ Totals /\ row' = RowAfter(call) /\ Described' = Described /\ row \in RowType
  BY DEF BatchInv, Calling, Described, Types
<1>2. Cardinality(Described) \in Nat
  BY <1>1, SetupFacts DEF Types
<1>3. ~(Cardinality(Described) > Cardinality(Described))
  BY SMT, <1>2
<1>4. CASE call[1] = "store"
  <2>1. row'.total = Cardinality(Described)
    BY <1>1, <1>4, RowAfterIs
  <2>2. QED
    BY <1>1, <1>3, <1>4, <2>1, CallOnRow DEF Allowed, Raised
<1>5. CASE call[1] = "raise"
  <2>1. p = Request /\ row.exists
    BY <1>5, Kinds, CallOnRow
  <2>2. call[2] # 0 /\ call[2] \in Nat
    <3>1. call[2] \in Nat
      BY SMT, <1>5 DEF CallType
    <3>2. QED
      BY <1>5, <2>1, <3>1 DEF Made
  <2>3. row.total = Cardinality(Described)
    <3>1. Raises(proc[Request].todo)
      BY <1>5, <2>1 DEF Raises, Calling, Todo
    <3>2. QED
      BY <1>1, <2>1, <3>1 DEF Totals, TotalFits
  <2>4. row'.total = row.total + call[2] /\ row'.failed = row.failed
    BY <1>1, <1>5, RowAfterIs
  <2>5. Cardinality(Described) + call[2] > Cardinality(Described)
    BY SMT, <1>2, <2>2
  <2>6. Allowed = 1 /\ Allowed' = 2 /\ CatchLeft' = CatchLeft
    BY <1>1, <1>3, <2>3, <2>4, <2>5 DEF Allowed, Raised, CatchLeft
  <2>7. QED
    BY <1>5, <2>1, <2>6
<1>6. CASE call[1] \notin {"store", "raise"}
  <2>1. row.exists /\ call[1] # "delete"
    BY <1>1, <1>6, CallOnRow, RowAfterIs
  <2>2. row'.total = row.total /\ row'.pending = row.pending /\ row'.failed = row.failed
    BY <1>1, <1>6, <2>1, RowAfterIs
  <2>3. QED
    BY <1>1, <1>6, <2>1, <2>2 DEF Allowed, Raised, ThenLeft, CatchLeft, CloseLeft
<1>7. QED
  BY <1>4, <1>5, <1>6

\* How often a callback was pushed, and who is about to push it.
LEMMA CallMakes ==
    ASSUME SetFacts,
           Types, Types', NEW p \in Procs, NEW call \in CallType, Calling(p, call), Made(p, call)
    PROVE  /\ \A x \in {"Then", "Catch"} :
                /\ Making(Callback(x)) \in SUBSET Workers
                /\ {w \in Workers : Callback(x) \in Elems(proc'[w].todo)} \in SUBSET Making(Callback(x))
                /\ fired[x] \in Nat /\ fired'[x] \in Nat
                /\ \/ fired'[x] = fired[x]
                   \/ /\ fired'[x] = fired[x] + 1
                      /\ \E v \in Making(Callback(x)) :
                           v \notin {w \in Workers : Callback(x) \in Elems(proc'[w].todo)}
           /\ CloseMaking \in SUBSET Workers /\ CloseMaking' \in SUBSET CloseMaking
           /\ Closings \in Nat /\ Closings' \in Nat
           /\ origin # "chainReported" =>
                \/ Closings' = Closings
                \/ Closings' = Closings + 1 /\ \E v \in CloseMaking : v \notin CloseMaking'
<1>1. \A w \in Workers : Elems(proc'[w].todo) \subseteq Elems(proc[w].todo)
  BY DEF Calling
<1>2. p \in Workers => call \in Elems(proc[p].todo) /\ call \notin Elems(proc'[p].todo)
  BY DEF Calling, Todo
<1>3. ASSUME NEW x \in {"Then", "Catch"}
      PROVE  /\ Making(Callback(x)) \in SUBSET Workers
             /\ {w \in Workers : Callback(x) \in Elems(proc'[w].todo)} \in SUBSET Making(Callback(x))
             /\ fired[x] \in Nat /\ fired'[x] \in Nat
             /\ \/ fired'[x] = fired[x]
                \/ /\ fired'[x] = fired[x] + 1
                   /\ \E v \in Making(Callback(x)) :
                        v \notin {w \in Workers : Callback(x) \in Elems(proc'[w].todo)}
  <2>1. x \in Callbacks
    BY DEF Callbacks
  <2>2. fired[x] \in Nat /\ fired'[x] \in Nat
    BY <2>1 DEF Types
  <2>3. fired'[x] = fired[x] + IF call = Callback(x) THEN 1 ELSE 0
    BY <2>1 DEF Calling
  <2>4. fired[x] + 0 = fired[x]
    BY <2>2, Sums
  <2>5. call = Callback(x) => p \in Workers
    BY Kinds
  <2>6. QED
    BY <1>1, <1>2, <2>2, <2>3, <2>4, <2>5 DEF Making, Todo
<1>4. FinallyCall' = FinallyCall
  BY DEF Calling, FinallyCall, Chained, origin
<1>5. CloseMaking \in SUBSET Workers /\ CloseMaking' \in SUBSET CloseMaking
  BY <1>1, <1>4 DEF CloseMaking, Todo
<1>6. /\ Closings \in Nat /\ Closings' \in Nat
      /\ Closings' = Closings \/ (Closings' = Closings + 1 /\ call \in {<<"link", 1>>, Callback("Finally")})
  BY NewClosings
<1>7. ASSUME origin # "chainReported", call \in {<<"link", 1>>, Callback("Finally")}
      PROVE  \E v \in CloseMaking : v \notin CloseMaking'
  <2>1. p \in Workers /\ call = FinallyCall
    BY <1>7, Kinds
  <2>2. QED
    BY <1>2, <1>4, <2>1 DEF CloseMaking, Todo
<1>8. QED
  BY <1>3, <1>5, <1>6, <1>7

\* The callbacks stay within their limits.
LEMMA CallOnces ==
    ASSUME SetFacts,
           BatchInv, Types', NEW p \in Procs, NEW call \in CallType, Calling(p, call), Made(p, call)
    PROVE  Onces'
<1>1. Types /\ Onces
  BY DEF BatchInv, Counting
<1>2. ThenLeft \in Bit /\ CatchLeft \in Bit /\ CloseLeft \in Bit
      /\ ThenLeft' \in Bit /\ CatchLeft' \in Bit /\ CloseLeft' \in Bit
  BY DEF ThenLeft, CatchLeft, CloseLeft, Bit
<1>3. Allowed \in Nat /\ Allowed' \in Nat /\ 1 \in Nat
  <2>1. 1 \in Nat /\ 2 \in Nat
    BY SMT
  <2>2. QED
    BY <2>1 DEF Allowed
<1>4. Fresh => /\ fired["Then"] = 0 /\ fired["Catch"] = 0 /\ Closings = 0
               /\ Making(Callback("Then")) = {} /\ Making(Callback("Catch")) = {} /\ CloseMaking = {}
  <2>1. ASSUME Fresh
        PROVE  Closings = 0
    <3>1. {n \in 1..MaxCopies : status[<<1, n>>] # "none"} = {} /\ fired["Finally"] = 0
      BY <2>1, FirstLink DEF Fresh, Callbacks
    <3>2. Cardinality({n \in 1..MaxCopies : status[<<1, n>>] # "none"}) = 0
      BY <3>1 DEF SetFacts, Emptiness
    <3>3. 0 + 0 = 0
      BY SMT
    <3>4. QED
      BY <3>1, <3>2, <3>3 DEF Closings
  <2>2. QED
    BY <2>1 DEF Fresh, Callbacks, Making, CloseMaking
<1>5. row'.exists =>
        \/ call[1] = "store" /\ Fresh /\ Allowed' = 1
        \/ call[1] = "raise" /\ row.exists /\ Allowed = 1 /\ Allowed' = 2 /\ CatchLeft' = CatchLeft
        \/ /\ call[1] \notin {"store", "raise"} /\ row.exists /\ Allowed' = Allowed
           /\ ThenLeft' = ThenLeft /\ CatchLeft' = CatchLeft /\ CloseLeft' = CloseLeft
  BY CallLeft
<1>6. Without({"doubled", "again", "swapped"})' => Without({"doubled", "again", "swapped"})
  BY DEF Without, Calling
<1>7. ThenOnce'
  <2>1. SUFFICES ASSUME row'.exists
                 PROVE  Bounded(fired'["Then"], Cardinality(Making(Callback("Then"))'), ThenLeft', Allowed')
    BY DEF ThenOnce, Bounded
  <2>2. row.exists => Bounded(fired["Then"], Cardinality(Making(Callback("Then"))), ThenLeft, Allowed)
    BY <1>1 DEF Onces, ThenOnce, Bounded
  <2>3. PICK S \in SUBSET Workers, T \in SUBSET Workers :
          S = Making(Callback("Then")) /\ T = Making(Callback("Then"))' /\ T \subseteq S
    BY <1>1, CallMakes DEF Making, Todo
  <2>4. PICK a \in Nat, a2 \in Nat : a = fired["Then"] /\ a2 = fired'["Then"]
    BY <1>1, CallMakes
  <2>5. a2 = a \/ (a2 = a + 1 /\ \E w \in S : w \notin T)
    BY <1>1, <2>3, <2>4, CallMakes DEF Making, Todo
  <2>6. Limits(a, S, ThenLeft, Allowed, ThenLeft', Allowed')
    BY <1>4, <1>5, <2>1, <2>2, <2>3, <2>4 DEF Limits
  <2>7. Bounded(a2, Cardinality(T), ThenLeft', Allowed')
    BY <1>2, <1>3, <2>3, <2>5, <2>6, CallBound
  <2>8. QED
    BY <2>3, <2>4, <2>7
<1>8. CatchOnce'
  <2>1. SUFFICES ASSUME row'.exists, Without({"doubled", "again", "swapped"})
                 PROVE  Bounded(fired'["Catch"], Cardinality(Making(Callback("Catch"))'), CatchLeft', 1)
    BY <1>6 DEF CatchOnce, Bounded
  <2>2. row.exists => Bounded(fired["Catch"], Cardinality(Making(Callback("Catch"))), CatchLeft, 1)
    BY <1>1, <2>1 DEF Onces, CatchOnce, Bounded
  <2>3. PICK S \in SUBSET Workers, T \in SUBSET Workers :
          S = Making(Callback("Catch")) /\ T = Making(Callback("Catch"))' /\ T \subseteq S
    BY <1>1, CallMakes DEF Making, Todo
  <2>4. PICK a \in Nat, a2 \in Nat : a = fired["Catch"] /\ a2 = fired'["Catch"]
    BY <1>1, CallMakes
  <2>5. a2 = a \/ (a2 = a + 1 /\ \E w \in S : w \notin T)
    BY <1>1, <2>3, <2>4, CallMakes DEF Making, Todo
  <2>6. Limits(a, S, CatchLeft, 1, CatchLeft', 1)
    BY <1>4, <1>5, <2>1, <2>2, <2>3, <2>4 DEF Limits
  <2>7. Bounded(a2, Cardinality(T), CatchLeft', 1)
    BY <1>2, <1>3, <2>3, <2>5, <2>6, CallBound
  <2>8. QED
    BY <2>3, <2>4, <2>7
<1>9. CloseOnce'
  <2>1. SUFFICES ASSUME row'.exists, origin # "chainReported", Without({"doubled", "again", "swapped"})
                 PROVE  Bounded(Closings', Cardinality(CloseMaking'), CloseLeft', Allowed')
    BY <1>6 DEF CloseOnce, Bounded, origin, Calling
  <2>2. row.exists => Bounded(Closings, Cardinality(CloseMaking), CloseLeft, Allowed)
    BY <1>1, <2>1 DEF Onces, CloseOnce, Bounded
  <2>3. PICK S \in SUBSET Workers, T \in SUBSET Workers : S = CloseMaking /\ T = CloseMaking' /\ T \subseteq S
    BY <1>1, CallMakes
  <2>4. PICK a \in Nat, a2 \in Nat : a = Closings /\ a2 = Closings'
    BY <1>1, CallMakes
  <2>5. a2 = a \/ (a2 = a + 1 /\ \E w \in S : w \notin T)
    BY <1>1, <2>1, <2>3, <2>4, CallMakes
  <2>6. Limits(a, S, CloseLeft, Allowed, CloseLeft', Allowed')
    BY <1>4, <1>5, <2>1, <2>2, <2>3, <2>4 DEF Limits
  <2>7. Bounded(a2, Cardinality(T), CloseLeft', Allowed')
    BY <1>2, <1>3, <2>3, <2>5, <2>6, CallBound
  <2>8. QED
    BY <2>3, <2>4, <2>7
<1>10. QED
  BY <1>7, <1>8, <1>9 DEF Onces

\* The rest of the request's list stores and raises nothing.
LEMMA RestOfList ==
    ASSUME NEW step, NEW old \in Seq(CallType), old # <<>>, RequestList(step, old)
    PROVE  /\ Elems(Tail(old)) \subseteq Elems(old) /\ Elems(old) # {}
           /\ \A c \in Elems(Tail(old)) : c[1] \notin {"store", "raise"}
           /\ Raises(old) => Head(old)[1] = "raise"
<1>1. /\ Head(old) = old[1]
      /\ \A i \in 1..Len(Tail(old)) : i + 1 \in 1..Len(old) /\ i + 1 # 1 /\ Tail(old)[i] = old[i + 1]
  BY TailOf
<1>2. \A i \in 1..Len(old) : old[i][1] \in {"store", "raise"} => i = 1
  BY DEF RequestList
<1>3. \A c \in Elems(Tail(old)) : c[1] \notin {"store", "raise"}
  BY <1>1, <1>2 DEF Elems
<1>4. Raises(old) => Head(old)[1] = "raise"
  BY <1>1, <1>2 DEF Raises, Elems
<1>5. QED
  BY <1>3, <1>4, TailElems

\* After a call of the request, its list and the total are right.
LEMMA CallRequest ==
    ASSUME SetFacts, BatchInv, NEW call \in CallType, Calling(Request, call), Made(Request, call),
           NEW new \in ProcType, Becomes(Request, new), new.step = proc[Request].step,
           new.todo = Tail(proc[Request].todo), proc[Request].todo \in Seq(CallType),
           proc[Request].todo # <<>>, call = Head(proc[Request].todo)
    PROVE  RequestCalls' /\ Totals'
<1>1. Types /\ RequestCalls /\ Totals /\ PushedOnly /\ setup \in Setups /\ Request \in Procs
  BY Constants DEF BatchInv, Counting, Jobsheets, Types
<1>2. PICK step, old, calls : step = proc[Request].step /\ old = proc[Request].todo /\ calls = Tail(old)
  OBVIOUS
<1>3. RequestList(step, old) /\ TotalFits(step, old) /\ old \in Seq(CallType) /\ old # <<>> /\ call = Head(old)
  BY <1>1, <1>2 DEF RequestCalls, Totals
<1>4. proc'[Request].step = step /\ proc'[Request].todo = calls
  BY <1>2 DEF Becomes
<1>5. Described' = Described /\ Extra' = Extra /\ origin' = origin
  BY DEF Calling, Described, Extra, origin
<1>6. /\ Elems(calls) \subseteq Elems(old) /\ Elems(old) # {}
      /\ \A c \in Elems(calls) : c[1] \notin {"store", "raise"}
      /\ Raises(old) => call[1] = "raise"
  BY <1>2, <1>3, RestOfList
<1>7. \A i \in 1..Len(calls) : calls[i] \in Elems(calls)
  BY DEF Elems
<1>8. \A s : Growth(s)' = Growth(s)
  BY <1>5 DEF Growth
<1>9. RequestCalls'
  <2>1. \A i \in 1..Len(calls) : calls[i][1] \notin {"store", "raise"}
    BY <1>6, <1>7
  <2>2. \A c \in Elems(calls) :
          /\ c[1] \in {"store", "raise", "push", "cancel", "delete", "link", "callback"}
          /\ c[1] \notin {"store", "raise"}
          /\ c[1] = "push" => \E j \in Growth(step) : c = Push(j)
          /\ c[1] = "link" => origin = "chainReported"
          /\ c[1] = "callback" => c = Callback("ChainCatch")
    BY <1>3, <1>6 DEF RequestList
  <2>3. QED
    BY <1>4, <1>5, <1>8, <2>1, <2>2 DEF RequestCalls, RequestList
<1>10. Pushed' = Pushed \cup {j \in Jobs : call = Push(j)}
  BY <1>1, NewMessages
<1>11. call[1] # "push" => Pushed' = Pushed
  <2>1. \A j : Push(j)[1] = "push"
    BY DEF Push
  <2>2. QED
    BY <1>10, <2>1
<1>12. ~Raises(calls)
  BY <1>6 DEF Raises
<1>13. row' = RowAfter(call) /\ row \in RowType
  BY <1>1 DEF Calling, Types
<1>14. PICK d \in Nat, e \in Nat, t \in Nat :
         d = Cardinality(Described) /\ e = Cardinality(Extra) /\ t = row.total /\ (e = 0 => Extra = {})
  BY <1>1, <1>13, SetupFacts DEF RowType
<1>15. ASSUME row'.exists
       PROVE  /\ row'.total >= d
              /\ step \in {"dispatch", "respond", "idle"} => row'.total = d
              /\ step = "add" \/ ~(Pushed' \subseteq Described) => row'.total = d + e
  <2>1. CASE call[1] = "store"
    <3>1. Fresh /\ step \in {"dispatch", "respond"}
      BY <1>2, <2>1 DEF Made
    <3>2. Pushed' \subseteq Described
      BY <1>11, <2>1, <3>1, FirstLink DEF Pushed, Fresh
    <3>3. row'.total = d
      BY <1>1, <1>13, <1>14, <2>1, RowAfterIs
    <3>4. QED
      BY <3>1, <3>2, <3>3, Sums
  <2>2. CASE call[1] = "raise"
    <3>1. step \in {"add", "terminate"} /\ call[2] = Cardinality(Growth(step)) /\ row.exists
      BY <1>1, <1>2, <2>2, CallOnRow DEF Made
    <3>2. t = d
      <4>1. Raises(old)
        BY <1>2, <2>2 DEF Raises, Calling, Todo
      <4>2. QED
        BY <1>3, <1>14, <3>1, <4>1 DEF TotalFits
    <3>3. Pushed' \subseteq Described \/ step = "add"
      <4>1. SUFFICES ASSUME ~(Pushed' \subseteq Described)
                     PROVE  FALSE
        OBVIOUS
      <4>2. ~(Pushed \subseteq Described)
        BY <1>11, <2>2, <4>1
      <4>3. t = d + e
        BY <1>3, <1>14, <3>1, <4>2 DEF TotalFits
      <4>4. e = 0
        BY SMT, <3>2, <4>3
      <4>5. QED
        BY <1>1, <1>14, <4>2, <4>4 DEF PushedOnly
    <3>4. row'.total = t + call[2]
      BY <1>1, <1>13, <1>14, <2>2, RowAfterIs
    <3>5. call[2] \in {d, e} /\ (step = "add" => call[2] = e)
      BY <1>14, <3>1 DEF Growth
    <3>6. t + call[2] >= d
      BY SMT, <3>2, <3>5
    <3>7. QED
      BY <3>1, <3>2, <3>3, <3>4, <3>5, <3>6
  <2>3. CASE call[1] \notin {"store", "raise"}
    <3>1. row.exists /\ call[1] # "delete"
      BY <1>1, <1>13, <1>15, <2>3, CallOnRow, RowAfterIs
    <3>2. row'.total = t
      BY <1>1, <1>13, <1>14, <2>3, <3>1, RowAfterIs
    <3>3. /\ t >= d
          /\ step \in {"dispatch", "respond", "idle"} => t = d
          /\ step = "add" \/ ~(Pushed \subseteq Described) => t = d + e
      BY <1>3, <1>6, <1>14, <2>3, <3>1 DEF TotalFits
    <3>4. step = "add" \/ (Pushed \subseteq Described => Pushed' \subseteq Described)
      <4>1. CASE call[1] = "push"
        <5>1. PICK j \in Growth(step) : call = Push(j)
          BY <1>2, <4>1 DEF Made
        <5>2. \A k : call = Push(k) => k = j
          <6>1. \A k : Push(k)[2] = k
            BY CallNames
          <6>2. call[2] = j
            BY <5>1, <6>1
          <6>3. QED
            BY <6>1, <6>2
        <5>3. QED
          BY <1>10, <5>1, <5>2 DEF Growth
      <4>2. QED
        BY <1>11, <4>1
    <3>5. QED
      BY <3>2, <3>3, <3>4
  <2>4. QED
    BY <2>1, <2>2, <2>3
<1>16. Totals'
  BY <1>4, <1>5, <1>12, <1>14, <1>15 DEF Totals, TotalFits, Raises
<1>17. QED
  BY <1>9, <1>16

\* A call that is made keeps the invariant.
LEMMA CallKept ==
    ASSUME SetFacts, BatchInv, NEW p \in Procs, MakeCall(p)
    PROVE  BatchInv'
<1>1. Types /\ WorkerCalls /\ RequestCalls /\ Totals /\ HoldersPushed
  BY DEF BatchInv
<1>2. Types'
  BY <1>1, MakeCallTyped
<1>3. PICK call \in CallType, new \in ProcType :
        /\ Calling(p, call) /\ Made(p, call)
        /\ Becomes(p, new) /\ new.step = proc[p].step /\ new.msg = proc[p].msg
        /\ new.todo = Tail(proc[p].todo) /\ proc[p].todo \in Seq(CallType) /\ proc[p].todo # <<>>
        /\ call = Head(proc[p].todo)
  BY Makes
<1>4. CountersExact' /\ Jobsheets' /\ Pushed \subseteq Pushed'
  BY <1>3, CallCounts
<1>5. PendingNone' /\ LinkReady'
  BY <1>2, <1>3, CallReady
<1>6. Onces'
  BY <1>2, <1>3, CallOnces
<1>7. setup' = setup /\ holder' = holder
  BY <1>3 DEF Calling
<1>8. HoldersPushed'
  <2>1. \A m \in Messages : status[m] # "none" => status'[m] # "none"
    BY <1>1, <1>3, NewMessages
  <2>2. QED
    BY <1>1, <1>7, <2>1 DEF HoldersPushed
<1>9. WorkerCalls' /\ RequestCalls' /\ Totals'
  <2>1. CASE p = Request
    <3>1. \A w \in Workers : proc'[w] = proc[w]
      BY <1>3, <2>1, Constants DEF Becomes
    <3>2. WorkerCalls'
      BY <1>1, <1>4, <1>7, <3>1, WorkersKept
    <3>3. RequestCalls' /\ Totals'
      BY <1>3, <2>1, CallRequest
    <3>4. QED
      BY <3>2, <3>3
  <2>2. CASE p \in Workers
    <3>1. /\ WorkerList(proc[p].todo) /\ proc[p].step \in {"idle", "find", "write", "report"}
          /\ proc[p].step \in {"find", "write"} => proc[p].msg \in Pushed
      BY <1>1, <2>2 DEF WorkerCalls
    <3>2. WorkerList(new.todo)
      BY <1>3, <3>1, WorkerLists
    <3>3. new.step \in {"idle", "find", "write", "report"}
      BY <1>3, <3>1
    <3>4. new.step \in {"find", "write"} => new.msg \in Pushed'
      BY <1>3, <1>4, <3>1
    <3>5. WorkerCalls' /\ proc'[Request] = proc[Request]
      BY <1>1, <1>3, <1>4, <1>7, <2>2, <3>2, <3>3, <3>4, WorkerMoved
    <3>6. call[1] \notin {"store", "raise", "push", "delete"}
      <4>1. p # Request
        BY <2>2, Constants
      <4>2. QED
        BY <1>3, <4>1, Kinds
    <3>7. Pushed' = Pushed
      <4>1. \A j : call = Push(j) => call[1] = "push"
        BY CallNames
      <4>2. Pushed' = Pushed \cup {j \in Jobs : call = Push(j)}
        BY <1>1, <1>3, NewMessages
      <4>3. QED
        BY <3>6, <4>1, <4>2
    <3>8. row'.exists => row.exists /\ row'.total = row.total
      <4>1. row' = RowAfter(call)
        BY <1>3 DEF Calling
      <4>2. RowAfter(call).exists = row.exists /\ RowAfter(call).total = row.total
        BY <1>1, <3>6, RowAfterIs
      <4>3. QED
        BY <4>1, <4>2
    <3>9. ~Fresh
      BY <1>3, <2>2 DEF Calling, Fresh
    <3>10. RequestCalls' /\ Totals'
      BY <1>1, <1>7, <3>5, <3>7, <3>8, <3>9, RequestKept
    <3>11. QED
      BY <3>5, <3>10
  <2>3. QED
    BY <2>1, <2>2, Constants
<1>10. QED
  BY <1>2, <1>4, <1>5, <1>6, <1>8, <1>9 DEF BatchInv, Counting

----------------------------------------------------------------------------
(* Operators                                                                *)

\* A batch that is cancelled or deleted keeps the invariant.
LEMMA OperatorKept ==
    ASSUME SetFacts, BatchInv, Cancel \/ Delete
    PROVE  BatchInv'
<1>1. Types /\ WorkerCalls /\ RequestCalls /\ Totals /\ HoldersPushed /\ Counting
  BY DEF BatchInv
<1>2. Types'
  BY <1>1, OperatorTyped
<1>3. UNCHANGED <<setup, status, holder, proc, fired, reports>> /\ mishaps \subseteq mishaps' /\ row.exists
  BY DEF Cancel, Delete, ghosts
<1>4. /\ row'.finished => row'.exists
      /\ row'.exists => /\ row'.total = row.total /\ row'.pending = row.pending /\ row'.failed = row.failed
                        /\ row'.finished /\ ~row'.cancelled => row.finished /\ ~row.cancelled
  <2>1. CASE Cancel
    <3>1. PICK call \in CallType : call = Call("cancel") /\ call[1] = "cancel" /\ row' = RowAfter(call)
      BY <2>1, CallTypes, CallNames DEF Cancel
    <3>2. call[1] \notin {"store", "raise", "delete"} /\ call[1] # "finish"
      BY <3>1
    <3>3. /\ RowAfter(call).exists = row.exists /\ RowAfter(call).total = row.total
          /\ RowAfter(call).pending = row.pending /\ RowAfter(call).failed = row.failed
          /\ RowAfter(call).finished /\ ~RowAfter(call).cancelled =>
               call[1] = "finish" \/ (row.finished /\ ~row.cancelled)
      BY <1>1, <3>2, RowAfterIs
    <3>4. QED
      BY <1>3, <3>1, <3>2, <3>3
  <2>2. CASE Delete
    BY <2>2 DEF Delete, NoRow
  <2>3. QED
    BY <2>1, <2>2
<1>5. Pushed' = Pushed /\ Finishing' = Finishing /\ Linking' = Linking /\ LinkPushed' = LinkPushed
      /\ Described' = Described /\ Extra' = Extra /\ origin' = origin /\ Closings' = Closings
  BY <1>3 DEF Pushed, Finishing, Linking, LinkPushed, Described, Extra, origin, Closings, Todo
<1>6. \A some : Without(some)' => Without(some)
  BY <1>3 DEF Without
<1>7. Jobsheets' /\ CountersExact'
  <2>1. Jobsheets'
    BY <1>1, <1>3, <1>4, <1>5 DEF Counting, Jobsheets, PushedOnly, ReportersPushed, FinishedExists
  <2>2. CountersExact'
    BY <1>1, <1>3, <1>4, <1>6 DEF Counting, CountersExact
  <2>3. QED
    BY <2>1, <2>2
<1>8. PendingNone' /\ LinkReady'
  BY <1>1, <1>3, <1>4, <1>5, <1>6 DEF Counting, PendingNone, LinkReady
<1>9. Onces'
  <2>1. row'.exists => /\ ThenLeft' = ThenLeft /\ CatchLeft' = CatchLeft /\ CloseLeft' = CloseLeft
                       /\ Allowed' = Allowed
    BY <1>4, <1>5 DEF ThenLeft, CatchLeft, CloseLeft, Allowed, Raised
  <2>2. /\ Making(Callback("Then"))' = Making(Callback("Then"))
        /\ Making(Callback("Catch"))' = Making(Callback("Catch"))
        /\ CloseMaking' = CloseMaking
    BY <1>3, <1>5 DEF Making, CloseMaking, Todo, FinallyCall, Chained
  <2>3. QED
    BY <1>1, <1>3, <1>5, <1>6, <2>1, <2>2 DEF Counting, Onces, ThenOnce, CatchOnce, CloseOnce
<1>10. HoldersPushed' /\ WorkerCalls'
  BY <1>1, <1>3, <1>5, WorkersKept DEF HoldersPushed
<1>11. ~Fresh
  <2>1. ~NoRow.exists
    BY DEF NoRow
  <2>2. QED
    BY <1>3, <2>1 DEF Fresh
<1>12. RequestCalls' /\ Totals'
  BY <1>1, <1>3, <1>4, <1>5, <1>11, RequestKept
<1>13. QED
  BY <1>2, <1>7, <1>8, <1>9, <1>10, <1>12 DEF BatchInv, Counting

----------------------------------------------------------------------------
(* Reports                                                                  *)

\* As many jobs as the batch counts are all that were pushed.
LEMMA Filled ==
    ASSUME SetFacts,
           Types, Totals, PushedOnly, row.exists, NEW S \in SUBSET Pushed, row.total <= Cardinality(S)
    PROVE  Pushed \subseteq S /\ Described \subseteq S
<1>1. /\ Described \subseteq Jobs /\ Extra \subseteq Jobs /\ Described \cap Extra = {}
      /\ IsFiniteSet(Described) /\ IsFiniteSet(Extra)
      /\ Cardinality(Described) \in Nat /\ Cardinality(Extra) \in Nat
  BY SetupFacts DEF Types
<1>2. S \subseteq Jobs /\ Cardinality(S) \in Nat /\ row.total \in Nat
  BY JobSets DEF Pushed, Types, RowType
<1>3. CASE Pushed \subseteq Described
  <2>1. row.total >= Cardinality(Described)
    BY DEF Totals, TotalFits
  <2>2. Cardinality(Described) <= Cardinality(S)
    BY <1>1, <1>2, <2>1, Tallies
  <2>3. \A T : T \subseteq Described /\ Cardinality(Described) <= Cardinality(T) => T = Described
    BY <1>1, JobCounts
  <2>4. S = Described
    BY <1>3, <2>2, <2>3
  <2>5. QED
    BY <1>3, <2>4
<1>4. CASE ~(Pushed \subseteq Described)
  <2>1. row.total = Cardinality(Described) + Cardinality(Extra)
    BY <1>4 DEF Totals, TotalFits
  <2>2. PICK all \in SUBSET Jobs : all = Described \cup Extra
    BY <1>1
  <2>3. Cardinality(all) = Cardinality(Described) + Cardinality(Extra)
    BY <1>1, <2>2, Disjoint
  <2>4. Cardinality(all) <= Cardinality(S)
    BY <2>1, <2>3
  <2>5. \A T : T \subseteq all /\ Cardinality(all) <= Cardinality(T) => T = all
    BY JobCounts
  <2>6. S = all
    BY <2>2, <2>4, <2>5 DEF PushedOnly
  <2>7. QED
    BY <2>2, <2>6 DEF PushedOnly
<1>5. QED
  BY <1>3, <1>4

\* What a report that is in did to the row, the reports and the mishaps,
Counted(w, m, after) ==
    /\ m = proc[w].msg /\ m \in Pushed
    /\ row.exists /\ row'.exists /\ row'.total = row.total
    /\ row'.finished = row.finished /\ row'.cancelled = row.cancelled
    /\ row'.pending = after.pending /\ row'.failed = after.failed
    /\ UNCHANGED <<setup, status, holder, fired>>
    /\ \A j \in Jobs : j # m => reports'[j] = reports[j]
    /\ mishaps \subseteq mishaps'
    /\ reports[m] = "success" => "doubled" \in mishaps'
    /\ reports[m] = "failed" => "again" \in mishaps'

\* by its kind,
Success(w, m, after) ==
    /\ ~proc[w].failing /\ after.pending = row.pending - 1
    /\ Without({"swapped"})' => after.failed = row.failed \ {m}
    /\ reports'[m] = "success"
Failing(w, m, after) ==
    /\ proc[w].failing /\ after.pending = row.pending
    /\ Without({"swapped"})' => after.failed = row.failed \cup {m}
    /\ reports'[m] = IF reports[m] = "success" THEN "success" ELSE "failed"

\* and the calls it left its worker to make.
Triggered(w, after) ==
    /\ \A v \in Workers : v # w => proc'[v] = proc[v]
    /\ Call("finish") \in Todo(w)' => after.pending = 0
    /\ Callback("Then") \in Todo(w)' => ~proc[w].failing /\ after.pending = 0
    /\ Callback("Catch") \in Todo(w)' => proc[w].failing /\ FirstFailure(after)
    /\ FinallyCall \in Todo(w)' => AllJobsHaveRanExactlyOnce(after)

\* A report counts its job: the counters are still the reports.
LEMMA ReportCounts ==
    ASSUME SetFacts, BatchInv, NEW w \in Workers, NEW m, NEW after, Counted(w, m, after),
           Success(w, m, after) \/ Failing(w, m, after)
    PROVE  CountersExact' /\ Jobsheets'
<1>1. Types /\ CountersExact /\ Jobsheets
  BY DEF BatchInv, Counting
<1>2. Pushed' = Pushed /\ Described' = Described /\ Extra' = Extra /\ m \in Jobs /\ m \in Pushed
  BY DEF Counted, Pushed, Described, Extra
<1>3. Jobsheets'
  <2>1. ReportersPushed'
    BY <1>1, <1>2 DEF Jobsheets, ReportersPushed, Counted
  <2>2. QED
    BY <1>1, <1>2, <2>1 DEF Jobsheets, PushedOnly, FinishedExists, Counted
<1>4. CountersExact'
  <2>1. SUFFICES ASSUME Without({"doubled", "swapped"})'
                 PROVE  /\ row'.pending = row'.total - Cardinality({j \in Jobs : reports'[j] = "success"})
                        /\ row'.failed = {j \in Jobs : reports'[j] = "failed"}
    BY DEF CountersExact
  <2>2. Without({"doubled", "swapped"}) /\ Without({"swapped"})' /\ reports[m] # "success"
    BY <2>1 DEF Without, Counted
  <2>3. PICK S \in SUBSET Jobs, T \in SUBSET Jobs :
          S = {j \in Jobs : reports[j] = "success"} /\ T = {j \in Jobs : reports'[j] = "success"}
    OBVIOUS
  <2>4. row.pending = row.total - Cardinality(S) /\ row.failed = {j \in Jobs : reports[j] = "failed"}
    BY <1>1, <2>2, <2>3 DEF CountersExact, Counted
  <2>5. Cardinality(S) \in Nat /\ Cardinality(T) \in Nat /\ row.total \in Nat /\ m \notin S
    BY <1>1, <2>2, <2>3, JobSets DEF Types, RowType
  <2>6. row'.total = row.total /\ row'.pending = after.pending /\ row'.failed = after.failed
    BY DEF Counted
  <2>7. CASE Success(w, m, after)
    <3>1. T = S \cup {m}
      BY <1>2, <2>3, <2>7 DEF Success, Counted
    <3>2. Cardinality(T) = Cardinality(S) + 1
      BY <1>2, <2>5, <3>1, JobCounts
    <3>3. after.pending = row.pending - 1 /\ after.failed = row.failed \ {m}
      BY <2>2, <2>7 DEF Success
    <3>4. row'.pending = row'.total - Cardinality(T)
      <4>1. (row.total - Cardinality(S)) - 1 = row.total - (Cardinality(S) + 1)
        BY <2>5, Tallies
      <4>2. QED
        BY <2>4, <2>6, <3>2, <3>3, <4>1
    <3>5. after.failed = {j \in Jobs : reports'[j] = "failed"}
      BY <2>4, <2>7, <3>3 DEF Success, Counted
    <3>6. QED
      BY <2>3, <2>6, <3>4, <3>5
  <2>8. CASE Failing(w, m, after)
    <3>1. T = S
      BY <1>2, <2>2, <2>3, <2>8 DEF Failing, Counted
    <3>2. after.pending = row.pending /\ after.failed = row.failed \cup {m}
      BY <2>2, <2>8 DEF Failing
    <3>3. after.failed = {j \in Jobs : reports'[j] = "failed"}
      BY <1>2, <2>2, <2>4, <2>8, <3>2 DEF Failing, Counted
    <3>4. QED
      BY <2>3, <2>4, <2>6, <3>1, <3>2, <3>3
  <2>9. QED
    BY <2>7, <2>8
<1>5. QED
  BY <1>3, <1>4

\* The batch is marked finished, and the next link pushed, when it is time.
LEMMA ReportReady ==
    ASSUME SetFacts, BatchInv, WorkerCalls', CountersExact', Jobsheets',
           NEW w \in Workers, NEW m, NEW after, Counted(w, m, after), Triggered(w, after),
           Success(w, m, after) \/ Failing(w, m, after)
    PROVE  PendingNone' /\ LinkReady'
<1>1. Types /\ Totals /\ CountersExact /\ Jobsheets /\ PendingNone /\ LinkReady
  BY DEF BatchInv, Counting
<1>2. Pushed' = Pushed /\ Described' = Described /\ origin' = origin /\ m \in Pushed
      /\ FinallyCall' = FinallyCall
  BY DEF Counted, Pushed, Described, origin, FinallyCall, Chained
<1>3. PushedOnly /\ row.exists /\ row.total \in Nat
  BY <1>1 DEF Jobsheets, Counted, Types, RowType
<1>4. PendingNone'
  <2>1. SUFFICES ASSUME Without({"doubled", "swapped", "overtaken"})',
                        Finishing' \/ (row'.finished /\ ~row'.cancelled), row'.pending # 0
                 PROVE  FALSE
    BY DEF PendingNone
  <2>2. /\ Without({"doubled", "swapped", "overtaken"}) /\ Without({"doubled", "swapped"})
        /\ reports[m] # "success"
    BY <2>1 DEF Without, Counted
  <2>3. Finishing' => Finishing
    <3>1. Call("finish") \notin Todo(w)'
      BY <2>1 DEF Triggered, Counted
    <3>2. QED
      BY <3>1 DEF Finishing, Todo, Triggered
  <2>4. row.pending = 0
    BY <1>1, <1>3, <2>1, <2>2, <2>3 DEF PendingNone, Counted
  <2>5. PICK S \in SUBSET Pushed : S = {j \in Jobs : reports[j] = "success"}
    BY <1>1 DEF Jobsheets, ReportersPushed
  <2>6. row.total <= Cardinality(S)
    <3>1. row.pending = row.total - Cardinality(S)
      BY <1>1, <1>3, <2>2, <2>5 DEF CountersExact
    <3>2. Cardinality(S) \in Nat
      BY JobSets DEF Pushed
    <3>3. QED
      BY <1>3, <2>4, <3>1, <3>2, Tallies
  <2>7. Pushed \subseteq S
    BY <1>1, <1>3, <2>6, Filled
  <2>8. QED
    BY <1>2, <2>2, <2>5, <2>7
<1>5. LinkReady'
  <2>1. SUFFICES ASSUME origin # "chainReported", Linking' \/ LinkPushed', Without({"doubled", "swapped"})'
                 PROVE  \A j \in Described : reports'[j] # "none"
    BY <1>2 DEF LinkReady
  <2>2. PICK S \in SUBSET Jobs, T \in SUBSET Jobs :
          S = {j \in Jobs : reports'[j] = "success"} /\ T = {j \in Jobs : reports'[j] = "failed"}
    OBVIOUS
  <2>3. row'.pending = row.total - Cardinality(S) /\ row'.failed = T
    BY <2>1, <2>2 DEF CountersExact, Counted
  <2>4. Described \subseteq Jobs
    BY <1>1, SetupFacts DEF Types
  <2>5. CASE <<"link", 1>> \in Todo(w)'
    <3>1. FinallyCall = <<"link", 1>>
      BY <1>2, <2>5 DEF WorkerCalls, WorkerList, Todo
    <3>2. after.pending - Cardinality(after.failed) = 0
      BY <2>5, <3>1 DEF Triggered, AllJobsHaveRanExactlyOnce
    <3>3. (row.total - Cardinality(S)) - Cardinality(T) = 0
      BY <2>3, <3>2 DEF Counted
    <3>4. Cardinality(S) \in Nat /\ Cardinality(T) \in Nat
      BY JobSets
    <3>5. row.total <= Cardinality(S) + Cardinality(T)
      BY <1>3, <3>3, <3>4, Tallies
    <3>6. PICK R \in SUBSET Pushed : R = S \cup T
      BY <1>2, <2>2 DEF Jobsheets, ReportersPushed
    <3>7. S \cap T = {}
      BY <2>2
    <3>8. Cardinality(R) = Cardinality(S) + Cardinality(T)
      BY <3>6, <3>7, Disjoint
    <3>9. row.total <= Cardinality(R)
      BY <3>5, <3>8
    <3>10. Described \subseteq R
      BY <1>1, <1>3, <3>9, Filled
    <3>11. QED
      BY <2>2, <3>6, <3>10
  <2>6. CASE <<"link", 1>> \notin Todo(w)'
    <3>1. Linking' => Linking
      BY <2>6 DEF Linking, Todo, Triggered
    <3>2. LinkPushed' => LinkPushed
      BY DEF LinkPushed, Counted
    <3>3. Without({"doubled", "swapped"})
      BY <2>1 DEF Without, Counted
    <3>4. \A j \in Described : reports[j] # "none"
      BY <1>1, <2>1, <3>1, <3>2, <3>3 DEF LinkReady
    <3>5. reports'[m] # "none"
      BY DEF Success, Failing
    <3>6. QED
      BY <2>4, <3>4, <3>5 DEF Counted
  <2>7. QED
    BY <2>5, <2>6
<1>6. QED
  BY <1>4, <1>5

\* What was left to be called is left still, or the reporting worker calls it.
LEMMA ReportLeft ==
    ASSUME SetFacts,
           BatchInv, Types', NEW w \in Workers, NEW m, NEW after, Counted(w, m, after), Triggered(w, after),
           Success(w, m, after) \/ Failing(w, m, after)
    PROVE  /\ Trades(w, Making(Callback("Then"))', ThenLeft, ThenLeft')
           /\ Without({"doubled", "again", "swapped"})' =>
                /\ Trades(w, Making(Callback("Catch"))', CatchLeft, CatchLeft')
                /\ Trades(w, CloseMaking', CloseLeft, CloseLeft')
<1>1. Types /\ CountersExact /\ row.pending \in Int /\ row.failed \in SUBSET Jobs /\ m \in Jobs
  BY DEF BatchInv, Counting, Types, RowType, Counted, Pushed
<1>2. row'.pending = after.pending /\ row'.failed = after.failed /\ row.exists /\ FinallyCall' = FinallyCall
  BY DEF Counted, FinallyCall, Chained, origin
<1>3. Trades(w, Making(Callback("Then"))', ThenLeft, ThenLeft')
  <2>1. w \in Making(Callback("Then"))' => ~proc[w].failing /\ after.pending = 0
    BY DEF Making, Todo, Triggered
  <2>2. CASE Success(w, m, after)
    <3>1. /\ row.pending - 1 = 0 => row.pending > 0 /\ ~(row.pending - 1 > 0)
          /\ row.pending - 1 > 0 => row.pending > 0
      BY <1>1, Tallies
    <3>2. row'.pending = row.pending - 1
      BY <1>2, <2>2 DEF Success
    <3>3. QED
      BY <1>2, <2>1, <3>1, <3>2 DEF Trades, ThenLeft
  <2>3. CASE Failing(w, m, after)
    BY <1>2, <2>1, <2>3 DEF Trades, ThenLeft, Failing
  <2>4. QED
    BY <2>2, <2>3
<1>4. ASSUME Without({"doubled", "again", "swapped"})'
      PROVE  /\ Trades(w, Making(Callback("Catch"))', CatchLeft, CatchLeft')
             /\ Trades(w, CloseMaking', CloseLeft, CloseLeft')
  <2>1. Without({"doubled", "swapped"}) /\ Without({"swapped"})' /\ reports[m] \notin {"success", "failed"}
    BY <1>4 DEF Without, Counted
  <2>2. m \notin row.failed
    BY <1>1, <1>2, <2>1 DEF CountersExact
  <2>3. Cardinality(row.failed) \in Nat
    BY <1>1, JobSets
  <2>4. w \in Making(Callback("Catch"))' => proc[w].failing /\ Cardinality(after.failed) = 1
    BY DEF Making, Todo, Triggered, FirstFailure
  <2>5. w \in CloseMaking' => after.pending - Cardinality(after.failed) = 0
    BY <1>2 DEF CloseMaking, Todo, Triggered, AllJobsHaveRanExactlyOnce
  <2>6. CASE Success(w, m, after)
    <3>1. ~proc[w].failing /\ row'.pending = row.pending - 1 /\ row'.failed = row.failed
      BY <1>2, <2>1, <2>2, <2>6 DEF Success
    <3>2. Trades(w, Making(Callback("Catch"))', CatchLeft, CatchLeft')
      BY <2>4, <3>1 DEF Trades, CatchLeft
    <3>3. PICK n \in Nat : n = Cardinality(row.failed)
      BY <2>3
    <3>4. /\ (row.pending - 1) - n = 0 => row.pending > n /\ ~(row.pending - 1 > n)
          /\ row.pending - 1 > n => row.pending > n
      BY <1>1, Tallies
    <3>5. Trades(w, CloseMaking', CloseLeft, CloseLeft')
      BY <1>2, <2>5, <3>1, <3>3, <3>4 DEF Trades, CloseLeft
    <3>6. QED
      BY <3>2, <3>5
  <2>7. CASE Failing(w, m, after)
    <3>1. row'.pending = row.pending /\ row'.failed = row.failed \cup {m} /\ row'.failed # {}
      BY <1>2, <2>1, <2>7 DEF Failing
    <3>2. PICK n \in Nat : n = Cardinality(row.failed)
      BY <2>3
    <3>3. Cardinality(row'.failed) = n + 1
      BY <1>1, <2>2, <3>1, <3>2, JobCounts
    <3>4. n = 0 => row.failed = {}
      BY <1>1, <3>2, JobSets DEF SetFacts, Emptiness
    <3>5. n + 1 = 1 => n = 0
      BY Tallies
    <3>6. Trades(w, Making(Callback("Catch"))', CatchLeft, CatchLeft')
      BY <1>2, <2>4, <3>1, <3>3, <3>4, <3>5 DEF Trades, CatchLeft
    <3>7. /\ row.pending - (n + 1) = 0 => row.pending > n /\ ~(row.pending > n + 1)
          /\ row.pending > n + 1 => row.pending > n
      BY <1>1, Tallies
    <3>8. Trades(w, CloseMaking', CloseLeft, CloseLeft')
      BY <1>2, <2>5, <3>1, <3>2, <3>3, <3>7 DEF Trades, CloseLeft
    <3>9. QED
      BY <3>6, <3>8
  <2>8. QED
    BY <2>6, <2>7
<1>5. QED
  BY <1>3, <1>4

\* So the callbacks stay within their limits.
LEMMA ReportOnces ==
    ASSUME SetFacts,
           BatchInv, Types', NEW w \in Workers, NEW m, NEW after, Counted(w, m, after), Triggered(w, after),
           Success(w, m, after) \/ Failing(w, m, after)
    PROVE  Onces'
<1>1. Types /\ Onces
  BY DEF BatchInv, Counting
<1>2. ThenLeft \in Bit /\ CatchLeft \in Bit /\ CloseLeft \in Bit
      /\ ThenLeft' \in Bit /\ CatchLeft' \in Bit /\ CloseLeft' \in Bit
  BY DEF ThenLeft, CatchLeft, CloseLeft, Bit
<1>3. /\ fired["Then"] \in Nat /\ fired["Catch"] \in Nat /\ Closings \in Nat /\ Allowed \in Nat /\ 1 \in Nat
      /\ fired' = fired /\ Closings' = Closings /\ Allowed' = Allowed /\ origin' = origin
      /\ FinallyCall' = FinallyCall /\ row.exists
  <2>1. fired["Then"] \in Nat /\ fired["Catch"] \in Nat /\ Closings \in Nat /\ Allowed \in Nat
    BY <1>1, Numbers DEF Callbacks
  <2>2. 1 \in Nat
    BY SMT
  <2>3. QED
    BY <2>1, <2>2 DEF Counted, Closings, Allowed, Raised, Described, origin, FinallyCall, Chained
<1>4. Without({"doubled", "again", "swapped"})' => Without({"doubled", "again", "swapped"})
  BY DEF Without, Counted
<1>5. /\ \A call : Making(call) \subseteq Workers /\ Making(call)' \subseteq Workers
      /\ \A call : Making(call)' \subseteq Making(call) \cup {w}
      /\ CloseMaking \subseteq Workers /\ CloseMaking' \subseteq Workers
      /\ CloseMaking' \subseteq CloseMaking \cup {w}
  <2>1. \A v \in Workers : v # w => Todo(v)' = Todo(v)
    BY DEF Triggered, Todo
  <2>2. QED
    BY <1>3, <2>1 DEF Making, CloseMaking
<1>6. ThenOnce'
  <2>1. PICK S \in SUBSET Workers, T \in SUBSET Workers :
          S = Making(Callback("Then")) /\ T = Making(Callback("Then"))' /\ T \subseteq S \cup {w}
    BY <1>5
  <2>2. Trades(w, T, ThenLeft, ThenLeft')
    BY <2>1, ReportLeft
  <2>3. Bounded(fired["Then"], Cardinality(S), ThenLeft, Allowed)
    BY <1>1, <1>3, <2>1 DEF Onces, ThenOnce, Bounded
  <2>4. PICK a \in Nat, l \in Nat, c \in Bit, c2 \in Bit :
          a = fired["Then"] /\ l = Allowed /\ c = ThenLeft /\ c2 = ThenLeft'
    BY <1>2, <1>3
  <2>5. Trades(w, T, c, c2) /\ Bounded(a, Cardinality(S), c, l)
    BY <2>2, <2>3, <2>4
  <2>6. Bounded(a, Cardinality(T), c2, l)
    BY <2>1, <2>5, ReportBound
  <2>7. QED
    BY <1>3, <2>1, <2>4, <2>6 DEF ThenOnce, Bounded
<1>7. CatchOnce'
  <2>1. SUFFICES ASSUME Without({"doubled", "again", "swapped"})'
                 PROVE  Bounded(fired["Catch"], Cardinality(Making(Callback("Catch"))'), CatchLeft', 1)
    BY <1>3 DEF CatchOnce, Bounded
  <2>2. PICK S \in SUBSET Workers, T \in SUBSET Workers :
          S = Making(Callback("Catch")) /\ T = Making(Callback("Catch"))' /\ T \subseteq S \cup {w}
    BY <1>5
  <2>3. Trades(w, T, CatchLeft, CatchLeft')
    BY <2>1, <2>2, ReportLeft
  <2>4. Bounded(fired["Catch"], Cardinality(S), CatchLeft, 1)
    BY <1>1, <1>3, <1>4, <2>1, <2>2 DEF Onces, CatchOnce, Bounded
  <2>5. PICK a \in Nat, l \in Nat, c \in Bit, c2 \in Bit :
          a = fired["Catch"] /\ l = 1 /\ c = CatchLeft /\ c2 = CatchLeft'
    BY <1>2, <1>3
  <2>6. Trades(w, T, c, c2) /\ Bounded(a, Cardinality(S), c, l)
    BY <2>3, <2>4, <2>5
  <2>7. Bounded(a, Cardinality(T), c2, l)
    BY <2>2, <2>6, ReportBound
  <2>8. QED
    BY <2>2, <2>5, <2>7
<1>8. CloseOnce'
  <2>1. SUFFICES ASSUME origin # "chainReported", Without({"doubled", "again", "swapped"})'
                 PROVE  Bounded(Closings, Cardinality(CloseMaking'), CloseLeft', Allowed)
    BY <1>3 DEF CloseOnce, Bounded
  <2>2. PICK S \in SUBSET Workers, T \in SUBSET Workers :
          S = CloseMaking /\ T = CloseMaking' /\ T \subseteq S \cup {w}
    BY <1>5
  <2>3. Trades(w, T, CloseLeft, CloseLeft')
    BY <2>1, <2>2, ReportLeft
  <2>4. Bounded(Closings, Cardinality(S), CloseLeft, Allowed)
    BY <1>1, <1>3, <1>4, <2>1, <2>2 DEF Onces, CloseOnce, Bounded
  <2>5. PICK a \in Nat, l \in Nat, c \in Bit, c2 \in Bit :
          a = Closings /\ l = Allowed /\ c = CloseLeft /\ c2 = CloseLeft'
    BY <1>2, <1>3
  <2>6. Trades(w, T, c, c2) /\ Bounded(a, Cardinality(S), c, l)
    BY <2>3, <2>4, <2>5
  <2>7. Bounded(a, Cardinality(T), c2, l)
    BY <2>2, <2>6, ReportBound
  <2>8. QED
    BY <2>2, <2>5, <2>7
<1>9. QED
  BY <1>6, <1>7, <1>8 DEF Onces

\* A report keeps the invariant.
LEMMA ReportKept ==
    ASSUME SetFacts,
           BatchInv, Types', NEW w \in Workers, NEW m, NEW after, Counted(w, m, after), Triggered(w, after),
           Success(w, m, after) \/ Failing(w, m, after),
           NEW new, Becomes(w, new), new.step = "report", WorkerList(new.todo)
    PROVE  BatchInv'
<1>1. Types /\ WorkerCalls /\ RequestCalls /\ Totals /\ HoldersPushed
  BY DEF BatchInv
<1>2. Pushed' = Pushed /\ setup' = setup /\ HoldersPushed'
  BY <1>1 DEF Counted, Pushed, HoldersPushed
<1>3. WorkerCalls' /\ proc'[Request] = proc[Request]
  BY <1>1, <1>2, WorkerMoved
<1>4. CountersExact' /\ Jobsheets'
  BY ReportCounts
<1>5. PendingNone' /\ LinkReady'
  BY <1>3, <1>4, ReportReady
<1>6. Onces'
  BY ReportOnces
<1>7. RequestCalls' /\ Totals'
  <2>1. ~NoRow.exists
    BY DEF NoRow
  <2>2. ~Fresh
    BY <2>1 DEF Fresh, Counted
  <2>3. row'.exists => row.exists /\ row'.total = row.total
    BY DEF Counted
  <2>4. QED
    BY <1>1, <1>2, <1>3, <2>2, <2>3, RequestKept
<1>8. QED
  BY <1>2, <1>3, <1>4, <1>5, <1>6, <1>7 DEF BatchInv, Counting

\* What Reported does to the worker's list, the reports and the mishaps.
LEMMA ReportedCalls ==
    ASSUME BatchInv, NEW w \in Workers, NEW after, Reported(w, after)
    PROVE  /\ Triggered(w, after)
           /\ \E new \in ProcType : Becomes(w, new) /\ new.step = "report" /\ WorkerList(new.todo)
<1>1. Types
  BY DEF BatchInv
<1>2. PICK new \in ProcType :
        /\ Becomes(w, new) /\ new.step = "report"
        /\ new.todo = IF proc[w].failing THEN RecordFailedJob(after) ELSE RecordSuccessfulJob(after)
  BY <1>1, ReportedIs
<1>3. WorkerList(new.todo)
  BY <1>2, WorkerLists
<1>4. /\ \A v \in Workers : v # w => proc'[v] = proc[v]
      /\ Todo(w)' = Elems(new.todo)
  BY <1>2, Constants DEF Becomes, Todo
<1>5. /\ Call("finish") # Callback("Catch") /\ Call("finish") # Call("cancel") /\ Callback("Then") # Callback("Catch")
      /\ Callback("Then") # Call("cancel") /\ FinallyCall # Call("finish") /\ FinallyCall # Callback("Then")
      /\ FinallyCall # Callback("Catch")
  BY CallsDiffer
<1>6. Triggered(w, after)
  <2>1. CASE proc[w].failing
    <3>1. Todo(w)' = Elems(RecordFailedJob(after))
      BY <1>2, <1>4, <2>1
    <3>2. /\ Todo(w)' \subseteq {Call("cancel"), Callback("Catch"), FinallyCall}
          /\ Callback("Catch") \in Todo(w)' => FirstFailure(after)
          /\ FinallyCall \in Todo(w)' => AllJobsHaveRanExactlyOnce(after)
      BY <3>1, FailureCalls
    <3>3. Call("finish") \notin Todo(w)' /\ Callback("Then") \notin Todo(w)'
      BY <1>5, <3>2
    <3>4. QED
      BY <1>4, <2>1, <3>2, <3>3 DEF Triggered
  <2>2. CASE ~proc[w].failing
    <3>1. Todo(w)' = Elems(RecordSuccessfulJob(after))
      BY <1>2, <1>4, <2>2
    <3>2. /\ Todo(w)' \subseteq {Call("finish"), Callback("Then"), FinallyCall}
          /\ Call("finish") \in Todo(w)' => after.pending = 0
          /\ Callback("Then") \in Todo(w)' => after.pending = 0
          /\ FinallyCall \in Todo(w)' => AllJobsHaveRanExactlyOnce(after)
      BY <3>1, SuccessCalls
    <3>3. Callback("Catch") \notin Todo(w)'
      BY <1>5, <3>2
    <3>4. QED
      BY <1>4, <2>2, <3>2, <3>3 DEF Triggered
  <2>3. QED
    BY <2>1, <2>2
<1>7. QED
  BY <1>2, <1>3, <1>6

\* A report that is in leaves its job reported, and a mishap when the job was
\* reported before (Reported, after the conditional UPDATE of database.go).
LEMMA ReportedGhosts ==
    ASSUME Types, NEW w \in Workers, NEW m \in Jobs, m = proc[w].msg, NEW after, Reported(w, after)
    PROVE  /\ \A j \in Jobs : j # m => reports'[j] = reports[j]
           /\ proc[w].failing => reports'[m] = IF reports[m] = "success" THEN "success" ELSE "failed"
           /\ ~proc[w].failing => reports'[m] = "success"
           /\ mishaps \subseteq mishaps'
           /\ reports[m] = "success" => "doubled" \in mishaps'
           /\ reports[m] = "failed" => "again" \in mishaps'
           /\ proc[w].step = "write" /\ Without({"swapped"})' => row.failed = proc[w].before.failed
<1>1. reports \in [Jobs -> {"none", "failed", "success"}]
  BY DEF Types
<1>2. reports' = [reports EXCEPT ![m] =
                    IF proc[w].failing /\ reports[m] # "success" THEN "failed" ELSE "success"]
  BY DEF Reported
<1>3. mishaps' = mishaps
        \cup (IF reports[m] = "success" THEN {"doubled"} ELSE {})
        \cup (IF reports[m] = "failed" THEN {"again"} ELSE {})
        \cup (IF proc[w].step = "write" /\ row.failed # proc[w].before.failed THEN {"swapped"} ELSE {})
  BY DEF Reported
<1>4. /\ \A j \in Jobs : j # m => reports'[j] = reports[j]
      /\ proc[w].failing => reports'[m] = IF reports[m] = "success" THEN "success" ELSE "failed"
      /\ ~proc[w].failing => reports'[m] = "success"
  BY <1>1, <1>2
<1>5. QED
  BY <1>3, <1>4 DEF Without

\* Find and Write, where they report: the counters are those they read, and
\* so is the failed list unless it was exchanged.
LEMMA ReportCounted ==
    ASSUME BatchInv, NEW w \in Workers, NEW m \in Pushed, m = proc[w].msg,
           NEW counts \in CountType, NEW after, after = Applied(counts, m, proc[w].failing),
           Reported(w, after), row.exists, row' \in RowType,
           row'.exists /\ row'.total = row.total /\ row'.finished = row.finished /\ row'.cancelled = row.cancelled,
           row'.pending = after.pending, row'.failed = after.failed,
           UNCHANGED <<setup, status, holder, fired>>,
           counts.pending = row.pending, Without({"swapped"})' => counts.failed = row.failed
    PROVE  Counted(w, m, after) /\ (Success(w, m, after) \/ Failing(w, m, after))
<1>1. Types /\ m \in Jobs /\ proc[w].failing \in BOOLEAN
  BY ReportIs DEF BatchInv, Pushed
<1>2. /\ \A j \in Jobs : j # m => reports'[j] = reports[j]
      /\ proc[w].failing => reports'[m] = IF reports[m] = "success" THEN "success" ELSE "failed"
      /\ ~proc[w].failing => reports'[m] = "success"
      /\ mishaps \subseteq mishaps'
      /\ reports[m] = "success" => "doubled" \in mishaps'
      /\ reports[m] = "failed" => "again" \in mishaps'
  BY <1>1, ReportedGhosts
<1>3. Counted(w, m, after)
  BY <1>2 DEF Counted
<1>4. /\ proc[w].failing => after.pending = counts.pending /\ after.failed = counts.failed \cup {m}
      /\ ~proc[w].failing => after.pending = counts.pending - 1 /\ after.failed = counts.failed \ {m}
  <2>1. PICK failing \in BOOLEAN : failing = proc[w].failing
    BY <1>1
  <2>2. ASSUME failing
        PROVE  /\ Applied(counts, m, failing).pending = counts.pending
               /\ Applied(counts, m, failing).failed = counts.failed \cup {m}
    BY <2>2 DEF Applied, CountType
  <2>3. ASSUME ~failing
        PROVE  /\ Applied(counts, m, failing).pending = counts.pending - 1
               /\ Applied(counts, m, failing).failed = counts.failed \ {m}
    BY <2>3 DEF Applied
  <2>4. QED
    BY <2>1, <2>2, <2>3
<1>5. CASE proc[w].failing
  <2>1. Failing(w, m, after)
    BY <1>2, <1>4, <1>5 DEF Failing
  <2>2. QED
    BY <1>3, <2>1
<1>6. CASE ~proc[w].failing
  <2>1. Success(w, m, after)
    BY <1>2, <1>4, <1>6 DEF Success
  <2>2. QED
    BY <1>3, <2>1
<1>7. QED
  BY <1>5, <1>6

\* A worker that reads the row to report keeps the invariant.
LEMMA FindKept ==
    ASSUME SetFacts, BatchInv, NEW w \in Workers, Find(w)
    PROVE  BatchInv'
<1>1. Types /\ WorkerCalls /\ proc[w].msg \in Pushed /\ proc[w].msg \in Jobs
  BY DEF BatchInv, WorkerCalls, Find, Pushed
<1>2. Types'
  BY <1>1, FindTyped
<1>3. PICK me \in ProcType : me = proc[w]
  BY <1>1, ReportIs
<1>4. PICK m \in Pushed : m = proc[w].msg /\ m \in Jobs
  BY <1>1
<1>5. PICK after : after = Applied(Counts, m, proc[w].failing)
  OBVIOUS
<1>6. CASE row.exists /\ SameCounters(Counts, after) /\ Reported(w, after)
  <2>1. /\ Counts \in CountType /\ Counts.pending = row.pending /\ Counts.failed = row.failed
        /\ proc[w].failing \in BOOLEAN /\ row \in RowType /\ row.pending \in Int /\ row.failed \subseteq Jobs
    BY <1>1, ReportIs DEF Types, RowType
  <2>2. UNCHANGED <<setup, row, status, holder, fired>>
    BY DEF Find
  <2>3. after.pending = row.pending /\ Cardinality(after.failed) = Cardinality(row.failed)
    BY <1>6, <2>1 DEF SameCounters
  <2>4. proc[w].failing
    <3>1. ~proc[w].failing => after.pending = Counts.pending - 1
      BY <1>5 DEF Applied
    <3>2. row.pending - 1 # row.pending
      BY <2>1, Tallies
    <3>3. QED
      BY <2>1, <2>3, <3>1, <3>2
  <2>5. after.failed = row.failed \cup {m}
    <3>1. PICK failing \in BOOLEAN : failing = proc[w].failing /\ failing
      BY <2>1, <2>4
    <3>2. Applied(Counts, m, failing).failed = Counts.failed \cup {m}
      BY <1>4, <2>1, <3>1, AppliedIs
    <3>3. QED
      BY <1>5, <2>1, <3>1, <3>2
  <2>6. m \in row.failed
    BY <1>4, <2>1, <2>3, <2>5, JobCounts
  <2>7. after.failed = row.failed
    BY <2>5, <2>6
  <2>8. Counted(w, m, after) /\ (Success(w, m, after) \/ Failing(w, m, after))
    BY <1>4, <1>5, <1>6, <2>1, <2>2, <2>3, <2>7, ReportCounted
  <2>9. Triggered(w, after)
    BY <1>6, ReportedCalls
  <2>10. PICK new \in ProcType : Becomes(w, new) /\ new.step = "report" /\ WorkerList(new.todo)
    BY <1>6, ReportedCalls
  <2>11. QED
    BY <1>2, <2>8, <2>9, <2>10, ReportKept
<1>7. CASE ~(row.exists /\ SameCounters(Counts, after) /\ Reported(w, after))
  <2>1. /\ proc' = [proc EXCEPT ![w] = [me EXCEPT !.step = "report", !.erred = TRUE]]
           \/ proc' = [proc EXCEPT ![w] = [me EXCEPT !.step = "write", !.before = Counts]]
        /\ UNCHANGED <<setup, row, status, attempts, holder, fired, incidents, ghosts>>
    BY <1>3, <1>4, <1>5, <1>7 DEF Find
  <2>2. CASE proc' = [proc EXCEPT ![w] = [me EXCEPT !.step = "report", !.erred = TRUE]]
    <3>1. PICK new \in ProcType : new = [me EXCEPT !.step = "report", !.erred = TRUE]
      BY <1>1, ReportingIs
    <3>2. QED
      BY <1>1, <1>2, <1>3, <2>1, <2>2, <3>1, ReadsQuiet
  <2>3. CASE proc' = [proc EXCEPT ![w] = [me EXCEPT !.step = "write", !.before = Counts]]
    <3>1. PICK new \in ProcType : new = [me EXCEPT !.step = "write", !.before = Counts]
      BY <1>1, ReportingIs
    <3>2. QED
      BY <1>1, <1>2, <1>3, <2>1, <2>3, <3>1, ReadsQuiet
  <2>4. QED
    BY <2>1, <2>2, <2>3
<1>8. QED
  BY <1>6, <1>7

\* The compare-and-set of a report keeps the invariant, whether it finds the
\* row as it was read or has to read it again.
LEMMA WriteKept ==
    ASSUME SetFacts, BatchInv, NEW w \in Workers, Write(w)
    PROVE  BatchInv'
<1>1. Types /\ WorkerCalls /\ proc[w].msg \in Pushed /\ proc[w].msg \in Jobs
  BY DEF BatchInv, WorkerCalls, Write, Pushed
<1>2. Types'
  BY <1>1, FindTyped
<1>3. PICK me \in ProcType : me = proc[w]
  BY <1>1, ReportIs
<1>4. PICK m \in Pushed : m = proc[w].msg /\ m \in Jobs
  BY <1>1
<1>5. PICK before \in CountType : before = proc[w].before
  BY <1>1, ReportIs
<1>6. PICK after : after = Applied(before, m, proc[w].failing)
  OBVIOUS
<1>7. CASE /\ Unmoved(before) /\ Reported(w, after)
           /\ row' = [row EXCEPT !.pending = after.pending, !.failed = after.failed]
  <2>1. row.exists /\ SameCounters(Counts, before)
    BY <1>7 DEF Unmoved
  <2>2. before.pending = row.pending
    <3>1. Counts.pending = row.pending
      BY <1>1, ReportIs
    <3>2. QED
      BY <2>1, <3>1 DEF SameCounters
  <2>3. UNCHANGED <<setup, status, holder, fired>> /\ proc[w].step = "write"
    BY DEF Write
  <2>4. Without({"swapped"})' => before.failed = row.failed
    <3>1. proc[w].step = "write" /\ Without({"swapped"})' => row.failed = proc[w].before.failed
      BY <1>1, <1>4, <1>7, ReportedGhosts
    <3>2. QED
      BY <1>5, <2>3, <3>1
  <2>5. /\ row' \in RowType /\ row'.exists /\ row'.total = row.total
        /\ row'.finished = row.finished /\ row'.cancelled = row.cancelled
        /\ row'.pending = after.pending /\ row'.failed = after.failed
    BY <1>1, <1>2, <1>7, <2>1 DEF Types, RowType
  <2>6. Counted(w, m, after) /\ (Success(w, m, after) \/ Failing(w, m, after))
    BY <1>4, <1>6, <1>7, <2>1, <2>2, <2>3, <2>4, <2>5, ReportCounted
  <2>7. Triggered(w, after)
    BY <1>7, ReportedCalls
  <2>8. PICK new \in ProcType : Becomes(w, new) /\ new.step = "report" /\ WorkerList(new.todo)
    BY <1>7, ReportedCalls
  <2>9. QED
    BY <1>2, <2>6, <2>7, <2>8, ReportKept
<1>8. CASE ~(/\ Unmoved(before) /\ Reported(w, after)
             /\ row' = [row EXCEPT !.pending = after.pending, !.failed = after.failed])
  <2>1. /\ proc' = [proc EXCEPT ![w] = [me EXCEPT !.step = "find", !.before = NoCounts]]
        /\ UNCHANGED <<setup, row, status, attempts, holder, fired, incidents, ghosts>>
    BY <1>3, <1>4, <1>5, <1>6, <1>8 DEF Write
  <2>2. PICK new \in ProcType : new = [me EXCEPT !.step = "find", !.before = NoCounts]
    BY <1>1, ReportingIs
  <2>3. QED
    BY <1>1, <1>2, <1>3, <2>1, <2>2, ReadsQuiet
<1>9. QED
  BY <1>7, <1>8

----------------------------------------------------------------------------
(* The theorems                                                             *)

\* The request's list begins with the call that stores the row.
LEMMA FirstList ==
    ASSUME SetFacts, setup \in Setups, Fresh, NEW step \in {"dispatch", "respond"}, NEW calls,
           calls = <<Call("store")>> \/ calls = DispatchCalls
    PROVE  calls \in Seq(CallType) /\ RequestList(step, calls)
<1>1. PICK store \in CallType : store = Call("store") /\ store[1] = "store"
  BY CallTypes, CallNames
<1>2. Described \in SUBSET Jobs /\ Growth(step) = Described
  BY SetupFacts DEF Growth
<1>3. Leads(store, Described, calls)
  <2>1. CASE calls = <<Call("store")>>
    <3>1. calls = <<store>>
      BY <1>1, <2>1
    <3>2. calls \in Seq(CallType) /\ Elems(calls) = {store}
      BY <3>1, ShortElems
    <3>3. \A i \in 1..Len(calls) : i = 1
      BY <3>1, ShortElems
    <3>4. QED
      BY <3>2, <3>3 DEF Leads
  <2>2. CASE calls = DispatchCalls
    <3>1. calls = <<store>> \o Pushes(Described)
      BY <1>1, <2>2 DEF DispatchCalls
    <3>2. QED
      BY <1>2, <3>1, PrefixedElems
  <2>3. QED
    BY <2>1, <2>2
<1>4. ASSUME NEW c \in Elems(calls)
      PROVE  /\ c[1] \in {"store", "push"}
             /\ c[1] = "push" => \E j \in Growth(step) : c = Push(j)
  <2>1. CASE c = store
    BY <1>1, <2>1
  <2>2. CASE \E j \in Described : c = Push(j)
    <3>1. \A j : Push(j)[1] = "push"
      BY DEF Push
    <3>2. QED
      BY <1>2, <2>2, <3>1
  <2>3. QED
    BY <1>3, <2>1, <2>2 DEF Leads
<1>5. QED
  BY <1>3, <1>4 DEF Leads, RequestList

\* The invariant holds before the batch is dispatched.
LEMMA InitInv ==
    ASSUME SetFacts
    PROVE  Init => BatchInv
<1>1. SUFFICES ASSUME Init
               PROVE  BatchInv
  OBVIOUS
<1>2. setup \in Setups /\ row = NoRow /\ 0 \in Nat /\ 0 \in Int
  <2>1. 0 \in Nat /\ 0 \in Int
    BY SMT
  <2>2. QED
    BY <1>1, <2>1 DEF Init
<1>3. ~NoRow.exists /\ ~NoRow.finished /\ NoRow \in RowType
  BY <1>2 DEF NoRow, RowType
<1>4. \A w \in Workers : proc[w] = Idle
  BY <1>1, Constants DEF Init
<1>5. Fresh
  <2>1. \A m \in Messages : status[m] = "none"
    BY <1>1 DEF Init
  <2>2. \A j \in Jobs : reports[j] = "none"
    BY <1>1 DEF Init
  <2>3. \A c \in Callbacks : fired[c] = 0
    BY <1>1 DEF Init
  <2>4. \A w \in Workers : Todo(w) = {}
    <3>1. \A w \in Workers : proc[w].todo = <<>>
      BY <1>4, IdleIs
    <3>2. Elems(<<>>) = {}
      BY ShortElems
    <3>3. QED
      BY <3>1, <3>2 DEF Todo
  <2>5. QED
    BY <1>2, <2>1, <2>2, <2>3, <2>4 DEF Fresh
<1>6. PICK step \in {"dispatch", "respond"}, calls \in {<<Call("store")>>, DispatchCalls} :
        proc[Request] = Begin(step, calls)
  <2>1. CASE origin = "afterResponse"
    <3>1. proc[Request] = Begin("respond", <<Call("store")>>)
      BY <1>1, <2>1, Constants DEF Init
    <3>2. QED
      BY <3>1
  <2>2. CASE origin # "afterResponse"
    <3>1. proc[Request] = Begin("dispatch", DispatchCalls)
      BY <1>1, <2>2, Constants DEF Init
    <3>2. QED
      BY <3>1
  <2>3. QED
    BY <2>1, <2>2
<1>7. calls \in Seq(CallType) /\ RequestList(step, calls)
  BY <1>2, <1>5, <1>6, FirstList
<1>8. proc[Request] \in ProcType /\ proc[Request].step = step /\ proc[Request].todo = calls
  <2>1. step \in ListSteps
    BY DEF ListSteps
  <2>2. /\ Begin(step, calls) \in ProcType
        /\ Begin(step, calls).step = step /\ Begin(step, calls).todo = calls
    BY <1>7, <2>1, BeginIs
  <2>3. QED
    BY <1>6, <2>2
<1>9. Types
  <2>1. proc \in [Procs -> ProcType]
    <3>1. \A p \in Procs : proc[p] \in ProcType
      BY <1>4, <1>8, IdleIs, Constants
    <3>2. proc = [p \in Procs |-> proc[p]]
      BY <1>1 DEF Init
    <3>3. QED
      BY <3>1, <3>2
  <2>2. /\ status \in [Messages -> {"none", "queued", "held", "parked", "done"}]
        /\ attempts \in [Messages -> Nat] /\ DOMAIN holder = Messages
        /\ fired \in [Callbacks -> Nat] /\ reports \in [Jobs -> {"none", "failed", "success"}]
    BY <1>1, <1>2 DEF Init
  <2>3. QED
    BY <1>2, <1>3, <2>1, <2>2 DEF Types
<1>10. WorkerCalls
  BY <1>4, IdleIs, WorkerLists DEF WorkerCalls
<1>11. RequestCalls /\ Totals
  BY <1>2, <1>3, <1>7, <1>8 DEF RequestCalls, Totals, TotalFits
<1>12. HoldersPushed
  BY <1>1, Constants DEF Init, HoldersPushed
<1>13. Jobsheets
  BY <1>2, <1>3, <1>5 DEF Jobsheets, PushedOnly, ReportersPushed, FinishedExists, Pushed, Fresh, Messages
<1>14. LinkReady
  <2>1. ~Linking
    BY <1>5 DEF Fresh, Linking
  <2>2. ~LinkPushed
    BY <1>5, FirstLink DEF Fresh, LinkPushed
  <2>3. QED
    BY <2>1, <2>2 DEF LinkReady
<1>15. CountersExact /\ PendingNone /\ Onces
  BY <1>2, <1>3 DEF CountersExact, PendingNone, Onces, ThenOnce, CatchOnce, CloseOnce
<1>16. QED
  BY <1>9, <1>10, <1>11, <1>12, <1>13, <1>14, <1>15 DEF BatchInv, Counting

\* Every step keeps the invariant: one case per action of Next.
LEMMA NextInv ==
    ASSUME SetFacts
    PROVE  BatchInv /\ [Next]_vars => BatchInv'
<1>1. SUFFICES ASSUME BatchInv, [Next]_vars
               PROVE  BatchInv'
  OBVIOUS
<1>2. ASSUME NEW p \in Procs, MakeCall(p)
      PROVE  BatchInv'
  BY <1>1, <1>2, CallKept
<1>3. ASSUME NEW p \in Procs, CallFails(p)
      PROVE  BatchInv'
  BY <1>1, <1>3, RequestFails, CallFailsWorker, Constants
<1>4. ASSUME NEW p \in Procs, Crash(p)
      PROVE  BatchInv'
  BY <1>1, <1>4, RequestCrash, WorkerStops, Constants
<1>5. CASE Dispatched \/ Terminating \/ Add
  BY <1>1, <1>5, RequestProceeds
<1>6. ASSUME NEW w \in Workers, WorkerStep(w)
      PROVE  BatchInv'
  <2>1. ASSUME NEW m \in Messages, Deliver(w, m)
        PROVE  BatchInv'
    BY <1>1, <2>1, Delivered
  <2>2. ASSUME NEW m \in Messages, ParkExceeded(w, m)
        PROVE  BatchInv'
    BY <1>1, <2>2, LeasesOnly
  <2>3. CASE Find(w)
    BY <1>1, <2>3, FindKept
  <2>4. CASE Write(w)
    BY <1>1, <2>4, WriteKept
  <2>5. CASE Settle(w)
    BY <1>1, <2>5, WorkerStops
  <2>6. QED
    BY <1>6, <2>1, <2>2, <2>3, <2>4, <2>5 DEF WorkerStep
<1>7. ASSUME NEW w \in Workers, Overrun(w)
      PROVE  BatchInv'
  BY <1>1, <1>7, LeasesOnly
<1>8. ASSUME NEW m \in Messages, Retry(m)
      PROVE  BatchInv'
  BY <1>1, <1>8, LeasesOnly
<1>9. CASE Cancel \/ Delete
  BY <1>1, <1>9, OperatorKept
<1>10. CASE UNCHANGED vars
  <2>1. UNCHANGED <<setup, row, status, attempts, holder, proc, fired, reports, mishaps>>
    BY <1>10 DEF vars
  <2>2. Types /\ WorkerCalls /\ RequestCalls /\ Totals /\ HoldersPushed
    BY <1>1 DEF BatchInv
  <2>3. Types' /\ HoldersPushed' /\ Pushed' = Pushed
    BY <2>1, <2>2 DEF Types, HoldersPushed, Pushed
  <2>4. Quiet
    BY <2>1 DEF Quiet
  <2>5. WorkerCalls'
    BY <2>1, <2>2, <2>3, WorkersKept
  <2>6. RequestCalls' /\ Totals'
    <3>1. Fresh => Fresh'
      BY <2>1 DEF Fresh, Todo
    <3>2. QED
      BY <2>1, <2>2, <2>3, <3>1, RequestKept
  <2>7. QED
    BY <1>1, <2>3, <2>4, <2>5, <2>6, QuietInv
<1>11. QED
  BY <1>1, <1>2, <1>3, <1>4, <1>5, <1>6, <1>7, <1>8, <1>9, <1>10 DEF Next

\* A batch that counted down to zero has no job on the queue left to succeed.
LEMMA FinishedAll ==
    ASSUME SetFacts
    PROVE  BatchInv => FinishedMeansSucceeded
<1>1. SUFFICES ASSUME BatchInv, row.finished, ~row.cancelled, Without({"doubled", "swapped", "overtaken"})
               PROVE  \A j \in Jobs : status[j] # "none" => reports[j] = "success"
  BY DEF FinishedMeansSucceeded
<1>2. Types /\ Totals /\ Jobsheets /\ CountersExact /\ PendingNone
  BY <1>1 DEF BatchInv, Counting
<1>3. PushedOnly /\ row.exists /\ row.total \in Nat
  BY <1>1, <1>2 DEF Jobsheets, FinishedExists, Types, RowType
<1>4. row.pending = 0
  BY <1>1, <1>2, <1>3 DEF PendingNone
<1>5. PICK S \in SUBSET Pushed : S = {j \in Jobs : reports[j] = "success"}
  BY <1>2 DEF Jobsheets, ReportersPushed
<1>6. row.total <= Cardinality(S)
  <2>1. Without({"doubled", "swapped"})
    BY <1>1 DEF Without
  <2>2. row.pending = row.total - Cardinality(S)
    BY <1>2, <1>3, <1>5, <2>1 DEF CountersExact
  <2>3. Cardinality(S) \in Nat
    BY JobSets DEF Pushed
  <2>4. QED
    BY <1>3, <1>4, <2>2, <2>3, Tallies
<1>7. Pushed \subseteq S
  BY <1>2, <1>3, <1>6, Filled
<1>8. QED
  BY <1>5, <1>7 DEF Pushed

\* The calls made so far are within the limits.
LEMMA CalledOnce ==
    ASSUME SetFacts
    PROVE  BatchInv => (origin # "chainReported" => CallbacksOnce)
<1>1. SUFFICES ASSUME BatchInv, origin # "chainReported", row.exists
               PROVE  /\ fired["Then"] <= Allowed
                      /\ Without({"doubled", "again", "swapped"}) => fired["Catch"] <= 1 /\ Closings <= Allowed
  BY DEF CallbacksOnce
<1>2. Types /\ ThenOnce /\ CatchOnce /\ CloseOnce
  BY <1>1 DEF BatchInv, Counting, Onces
<1>3. /\ fired["Then"] \in Nat /\ fired["Catch"] \in Nat /\ Closings \in Nat /\ Allowed \in Nat /\ 1 \in Nat
      /\ ThenLeft \in Nat /\ CatchLeft \in Nat /\ CloseLeft \in Nat
  <2>1. 1 \in Nat
    BY SMT
  <2>2. QED
    BY <1>2, <2>1, Numbers DEF Callbacks
<1>4. /\ Cardinality(Making(Callback("Then"))) \in Nat /\ Cardinality(Making(Callback("Catch"))) \in Nat
      /\ Cardinality(CloseMaking) \in Nat
  <2>1. Making(Callback("Then")) \subseteq Workers /\ Making(Callback("Catch")) \subseteq Workers
        /\ CloseMaking \subseteq Workers
    BY DEF Making, CloseMaking
  <2>2. QED
    BY <2>1, WorkerSets
<1>5. fired["Then"] <= Allowed
  <2>1. Bounded(fired["Then"], Cardinality(Making(Callback("Then"))), ThenLeft, Allowed)
    BY <1>1, <1>2 DEF ThenOnce, Bounded
  <2>2. QED
    BY <1>3, <1>4, <2>1, BoundMade
<1>6. ASSUME Without({"doubled", "again", "swapped"})
      PROVE  fired["Catch"] <= 1 /\ Closings <= Allowed
  <2>1. Bounded(fired["Catch"], Cardinality(Making(Callback("Catch"))), CatchLeft, 1)
    BY <1>1, <1>2, <1>6 DEF CatchOnce, Bounded
  <2>2. Bounded(Closings, Cardinality(CloseMaking), CloseLeft, Allowed)
    BY <1>1, <1>2, <1>6 DEF CloseOnce, Bounded
  <2>3. fired["Catch"] <= 1
    BY <1>3, <1>4, <2>1, BoundMade
  <2>4. Closings <= Allowed
    BY <1>3, <1>4, <2>2, BoundMade
  <2>5. QED
    BY <2>3, <2>4
<1>7. QED
  BY <1>5, <1>6

----------------------------------------------------------------------------
(* The theorems                                                             *)

INSTANCE FiniteSetTheorems

\* The facts about finite sets.
LEMMA SetFactsHold == SetFacts
<1>1. Subsets
  BY FS_Subset DEF Subsets
<1>2. Enumerated
  BY FS_CardinalityType DEF Enumerated
<1>3. Adding
  BY FS_AddElement DEF Adding
<1>4. Removing
  BY FS_RemoveElement DEF Removing
<1>5. Uniting
  BY FS_Union DEF Uniting
<1>6. Emptiness
  BY FS_EmptySet DEF Emptiness
<1>7. Intervals
  BY FS_Interval DEF Intervals
<1>8. QED
  BY <1>1, <1>2, <1>3, <1>4, <1>5, <1>6, <1>7 DEF SetFacts

\* The invariant holds in every reachable state.
THEOREM BatchInvariant == Spec => []BatchInv
<1>1. Init => BatchInv
  BY SetFactsHold, InitInv
<1>2. BatchInv /\ [Next]_vars => BatchInv'
  BY SetFactsHold, NextInv
<1>3. QED
  BY <1>1, <1>2, PTL DEF Spec

\* pending_jobs and failed_job_ids are the reports (the compare-and-set of
\* DatabaseBatchRepository.update), whatever workers report at the same time,
\* crash or retry, unless a job that had succeeded is reported again or the
\* failed list was exchanged under equal counters.
THEOREM CountersAreTheReports == Spec => []CountersExact
<1>1. BatchInv => CountersExact
  BY DEF BatchInv, Counting
<1>2. QED
  BY <1>1, BatchInvariant, PTL

\* A batch that is marked finished and was not cancelled has no job on the
\* queue that did not succeed, also when jobs were added to it on the way
\* (Batch.Add), but for an Add between the last report and MarkAsFinished.
THEOREM FinishedBatchesSucceeded == Spec => []FinishedMeansSucceeded
<1>1. BatchInv => FinishedMeansSucceeded
  BY SetFactsHold, FinishedAll
<1>2. QED
  BY <1>1, BatchInvariant, PTL

\* Then, Catch and Finally, or the next link, are pushed once, and Then and
\* Finally once more when jobs were added; where the middleware does not
\* report the ChainedBatch job as a link of its chain, which pushes the next
\* link at once.
THEOREM CallbacksPushedOnce == Spec => [](origin # "chainReported" => CallbacksOnce)
<1>1. BatchInv => (origin # "chainReported" => CallbacksOnce)
  BY SetFactsHold, CalledOnce
<1>2. QED
  BY <1>1, BatchInvariant, PTL

\* There, the chain goes on after every job of the batch has reported.
THEOREM ChainWaitsForBatch == Spec => [](origin # "chainReported" => LinkAfterBatch)
<1>1. BatchInv => (origin # "chainReported" => LinkAfterBatch)
  BY DEF BatchInv, Counting, LinkReady, LinkAfterBatch
<1>2. QED
  BY <1>1, BatchInvariant, PTL
=============================================================================
