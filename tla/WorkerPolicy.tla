---------------------------- MODULE WorkerPolicy ----------------------------
(***************************************************************************)
(* What queue/worker.go decides about one delivery of a job, as pure       *)
(* operators: the try limit that applies, whether a failure is the job's   *)
(* last, and whether a job has used up its deliveries before it is run.    *)
(*                                                                         *)
(* Attributes are the settings a job carries (queue/attributes).  A tries  *)
(* of 0 leaves the limit to the worker and a negative one asks for no      *)
(* limit at all; a retryUntil of 0 is the zero time, "no deadline".        *)
(***************************************************************************)
EXTENDS Integers

CONSTANT MaxTries      \* WorkerOptions.MaxTries

(* WorkerOptions.withDefaults replaces a MaxTries of zero or less by 5. *)
ASSUME MaxTriesAssumption == MaxTries \in Nat \ {0}

(* The kinds of error a handler returns, as far as shouldFail tells them   *)
(* apart.  ErrManuallyFailed and ErrHandlerPanicked are both believed on   *)
(* the first delivery: "fatal" stands for either.  "timeout" is an error   *)
(* that wraps context.DeadlineExceeded, "error" any other.                 *)
Causes == {"error", "timeout", "fatal"}

Attributes ==
  [tries: Int, maxExceptions: Nat, retryUntil: Nat, failOnTimeout: BOOLEAN]

(* What a job pushed without settings carries. *)
ZeroAttributes ==
  [tries |-> 0, maxExceptions |-> 0, retryUntil |-> 0, failOnTimeout |-> FALSE]

maxTriesFor(a) == IF a.tries # 0 THEN a.tries ELSE MaxTries

(* A retry deadline replaces every limit below it. *)
shouldFail(a, attempts, exceptions, cause, now) ==
  \/ cause = "fatal"
  \/ IF a.retryUntil # 0
     THEN now >= a.retryUntil
     ELSE \/ a.failOnTimeout /\ cause = "timeout"
          \/ a.maxExceptions > 0 /\ exceptions >= a.maxExceptions
          \/ maxTriesFor(a) > 0 /\ attempts >= maxTriesFor(a)

(* MarkJobAsFailedIfAlreadyExceedsMaxAttempts parks such a job unrun. *)
alreadyExceedsMaxAttempts(a, attempts, now) ==
  IF a.retryUntil # 0
  THEN now >= a.retryUntil
  ELSE maxTriesFor(a) > 0 /\ attempts > maxTriesFor(a)

=============================================================================
