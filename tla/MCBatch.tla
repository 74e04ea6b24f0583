------------------------------ MODULE MCBatch ------------------------------
(* Batches of up to three jobs, and the ways to dispatch them. *)
EXTENDS Batch, TLC

CONSTANTS a, b, d, w1, w2, request

Setup(from, allow, described, extra) ==
  [origin |-> from, allowFailures |-> allow, described |-> described, extra |-> extra]

MCLinks == <<"second", "third">>
MCSetups == {Setup("dispatch", FALSE, {a, b}, {}), Setup("dispatch", TRUE, {a}, {d}),
             Setup("chain", TRUE, {a, b}, {}), Setup("afterResponse", FALSE, {a}, {})}
Growing == {Setup("dispatch", TRUE, {a, b}, {d})}
AfterResponse == {Setup("afterResponse", TRUE, {a, b}, {})}
Chain == {Setup("chainReported", FALSE, {a, b}, {})}

=============================================================================
