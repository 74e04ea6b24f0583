------------------------------ MODULE OneTime ------------------------------
(* Single-use codes for one purpose and subject (Codes), kept in a shared   *)
(* cache.  Issue and Consume are sequences of calls to the store, each      *)
(* atomic; any number of them interleave, time passes between the calls and *)
(* a call may fail.                                                         *)
EXTENDS Integers

CONSTANTS
    Consumers,      \* requests presenting a code
    Issuers,        \* requests asking for one
    Ttl, Cooldown, MaxAttempts, MaxFailures, FailureWindow,
    MaxIssues,      \* codes issued in a behaviour (a bound)
    MaxCalls,       \* calls of Consume in a behaviour (a bound)
    MaxErrors       \* calls of the store that fail (a bound)

ASSUME OneTimeAssumption ==
    /\ {Ttl, Cooldown, MaxAttempts, MaxFailures, FailureWindow} \subseteq Nat \ {0}
    /\ {MaxIssues, MaxCalls, MaxErrors} \subseteq Nat

VARIABLES
    record,     \* the outstanding record
    attempts,   \* the attempt counter of every nonce
    failures,   \* the failure counter of the purpose and subject
    spent,      \* how long the marker of every nonce is still there
    issuer,     \* the record an Issue under way will put
    consumer,   \* Consume under way
    issued,     \* nonces drawn
    calls,      \* calls of Consume, and errors, so far
    used,       \* per nonce: codes compared, and spent, before the deadline
    window      \* wrong codes the present failure window let through, and counts
                \* taken back in it that an earlier one made

vars == <<record, attempts, failures, spent, issuer, consumer, issued, calls, used, window>>

Nonces == 1..MaxIssues

Sooner(n) == IF n > 0 THEN n - 1 ELSE 0

\* code: how far ExpiresAt is; since: the wait still to go; life: the store's expiry.
NoRecord == [nonce |-> 0, code |-> 0, since |-> 0, life |-> 0]

NoIssue == [nonce |-> 0, code |-> 0, since |-> 0]

NoCounter == [n |-> 0, left |-> 0]

NoUse == [compared |-> 0, spent |-> 0]

Idle == [at |-> "idle"]

Init ==
    /\ record = NoRecord
    /\ attempts = [n \in Nonces |-> NoCounter]
    /\ failures = NoCounter
    /\ spent = [n \in Nonces |-> 0]
    /\ issuer = [i \in Issuers |-> NoIssue]
    /\ consumer = [c \in Consumers |-> Idle]
    /\ issued = 0
    /\ calls = [consume |-> 0, errors |-> 0]
    /\ used = [n \in Nonces |-> NoUse]
    /\ window = [wrong |-> 0, owed |-> 0]

----------------------------------------------------------------------------
(* Issue                                                                    *)

\* The cooldown is read off the outstanding record, a nonce is drawn and both
\* deadlines are set from this moment ...
Issue(i) ==
    /\ issuer[i] = NoIssue /\ issued < MaxIssues
    /\ record.since = 0
    /\ issued' = issued + 1
    /\ issuer' = [issuer EXCEPT ![i] = [nonce |-> issued + 1, code |-> Ttl, since |-> Cooldown]]
    /\ UNCHANGED <<record, attempts, failures, spent, consumer, calls, used, window>>

\* The entry is kept for whichever deadline is longer.
Stored(fresh) ==
    [nonce |-> fresh.nonce, code |-> fresh.code, since |-> fresh.since,
     life |-> IF Cooldown > Ttl THEN Cooldown ELSE Ttl]

\* A resend that starts the failures again.
PutResets(i) ==
    /\ issuer[i] # NoIssue
    /\ record' = Stored(issuer[i])
    /\ issuer' = [issuer EXCEPT ![i] = NoIssue]
    /\ failures' = NoCounter
    /\ UNCHANGED <<attempts, spent, consumer, issued, calls, used, window>>

\* ... and Put replaces the record.
Put(i) ==
    /\ issuer[i] # NoIssue
    /\ record' = Stored(issuer[i])
    /\ issuer' = [issuer EXCEPT ![i] = NoIssue]
    /\ UNCHANGED <<attempts, failures, spent, consumer, issued, calls, used, window>>

\* Put reports an error, or the process dies: the code is not handed out.
IssueFails(i) ==
    /\ issuer[i] # NoIssue /\ calls.errors < MaxErrors
    /\ calls' = [calls EXCEPT !.errors = @ + 1]
    /\ record' \in {record, Stored(issuer[i])}
    /\ issuer' = [issuer EXCEPT ![i] = NoIssue]
    /\ UNCHANGED <<attempts, failures, spent, consumer, issued, used, window>>

----------------------------------------------------------------------------
(* Consume                                                                  *)

At(c, step) == consumer[c].at = step

Goto(c, step) == consumer' = [consumer EXCEPT ![c].at = step]

Refuse(c) == consumer' = [consumer EXCEPT ![c] = Idle]

\* Store.Increment: the expiry is set when the key is created.
Increment(counter, delta, ttl) ==
    IF counter.left = 0 THEN [n |-> delta, left |-> ttl] ELSE [counter EXCEPT !.n = @ + delta]

\* Consume reads the record: there is one, and its code has not expired.
Consume(c, code) ==
    /\ At(c, "idle") /\ calls.consume < MaxCalls
    /\ record.code > 0
    /\ calls' = [calls EXCEPT !.consume = @ + 1]
    /\ consumer' = [consumer EXCEPT ![c] =
           [at |-> "failure", nonce |-> record.nonce, right |-> code = record.nonce,
            remaining |-> record.code, left |-> record.code, current |-> FALSE]]
    /\ UNCHANGED <<record, attempts, failures, spent, issuer, issued, used, window>>

\* The failure is counted first, for the purpose and subject.
CountFailure(c) ==
    LET counter == Increment(failures, 1, FailureWindow) IN
    /\ At(c, "failure")
    /\ failures' = counter
    /\ IF counter.n > MaxFailures THEN Refuse(c)
       ELSE consumer' = [consumer EXCEPT ![c] = [@ EXCEPT !.at = "attempt", !.current = TRUE]]
    /\ UNCHANGED <<record, attempts, spent, issuer, issued, calls, used, window>>

\* One comparison too many.
ComparesOneMore(n) == n <= MaxAttempts + 1

Compares(n) == n <= MaxAttempts

\* The attempt is counted, for the code that was read, and only then is the
\* code compared: a wrong one ends here.
CountAttempt(c) ==
    LET n == consumer[c].nonce
        counter == Increment(attempts[n], 1, consumer[c].remaining)
        compares == Compares(counter.n)
    IN
    /\ At(c, "attempt")
    /\ attempts' = [attempts EXCEPT ![n] = counter]
    /\ IF compares /\ consumer[c].right THEN Goto(c, "right") ELSE Refuse(c)
    /\ used' = IF compares /\ consumer[c].left > 0 THEN [used EXCEPT ![n].compared = @ + 1] ELSE used
    /\ window' = IF compares /\ ~consumer[c].right /\ consumer[c].current
                 THEN [window EXCEPT !.wrong = @ + 1] ELSE window
    /\ UNCHANGED <<record, failures, spent, issuer, issued, calls>>

\* A right code takes its failure back.
TakeBack(c) ==
    /\ At(c, "right")
    /\ failures' = Increment(failures, -1, FailureWindow)
    /\ window' = IF consumer[c].current THEN window ELSE [window EXCEPT !.owed = @ + 1]
    /\ Goto(c, "burn")
    /\ UNCHANGED <<record, attempts, spent, issuer, issued, calls, used>>

\* Spending without asking whether the marker was there.
PutMarker(n) == TRUE

\* Store.Add: written only if it is absent, and the answer says so.
AddMarker(n) == spent[n] = 0

\* The burn: of several right attempts one is told that it wrote the marker.
Burn(c) ==
    LET n == consumer[c].nonce IN
    /\ At(c, "burn")
    /\ IF AddMarker(n)
       THEN /\ spent' = [spent EXCEPT ![n] = consumer[c].remaining]
            /\ used' = IF consumer[c].left > 0 THEN [used EXCEPT ![n].spent = @ + 1] ELSE used
            /\ Goto(c, "forget")
       ELSE Refuse(c) /\ UNCHANGED <<spent, used>>
    /\ UNCHANGED <<record, attempts, failures, issuer, issued, calls, window>>

\* Whatever record is there goes, and Consume answers nil.
Forget(c) ==
    /\ At(c, "forget")
    /\ record' = NoRecord
    /\ Refuse(c)
    /\ UNCHANGED <<attempts, failures, spent, issuer, issued, calls, used, window>>

\* The store answers an error or the process dies: the call is refused, except
\* that taking the failure back may fail and the burn still follows.
StoreFails(c) ==
    /\ ~At(c, "idle") /\ calls.errors < MaxErrors
    /\ calls' = [calls EXCEPT !.errors = @ + 1]
    /\ Refuse(c) \/ (At(c, "right") /\ Goto(c, "burn"))
    /\ UNCHANGED <<record, attempts, failures, spent, issuer, issued, used, window>>

----------------------------------------------------------------------------

\* A tick.  What expired is as if it had never been.
Elapse ==
    LET counter(k) == IF k.left > 1 THEN [k EXCEPT !.left = @ - 1] ELSE NoCounter
        closes == failures.left = 1
    IN
    /\ record' = IF record.life > 1
                 THEN [record EXCEPT !.code = Sooner(@), !.since = Sooner(@), !.life = @ - 1]
                 ELSE NoRecord
    /\ attempts' = [n \in Nonces |-> counter(attempts[n])]
    /\ failures' = counter(failures)
    /\ spent' = [n \in Nonces |-> Sooner(spent[n])]
    /\ consumer' = [c \in Consumers |->
           IF At(c, "idle") THEN Idle
           ELSE [consumer[c] EXCEPT !.left = Sooner(@), !.current = @ /\ ~closes]]
    /\ issuer' = [i \in Issuers |->
           [issuer[i] EXCEPT !.code = Sooner(@), !.since = Sooner(@)]]
    /\ window' = IF closes THEN [wrong |-> 0, owed |-> 0] ELSE window
    \* Nothing more is counted for a code past its deadline.
    /\ used' = [n \in Nonces |->
           IF \/ record.nonce = n /\ record.code > 1
              \/ \E c \in Consumers : ~At(c, "idle") /\ consumer[c].nonce = n /\ consumer[c].left > 1
           THEN used[n] ELSE NoUse]
    /\ UNCHANGED <<issued, calls>>

Step(c) == CountFailure(c) \/ CountAttempt(c) \/ TakeBack(c) \/ Burn(c) \/ Forget(c)

Next ==
    \/ \E i \in Issuers : Issue(i) \/ Put(i) \/ IssueFails(i)
    \/ \E c \in Consumers : Step(c) \/ StoreFails(c) \/ \E code \in 0..issued : Consume(c, code)
    \/ Elapse

Spec == Init /\ [][Next]_vars

----------------------------------------------------------------------------
(* Properties                                                               *)

\* "Exactly one of the two Consume calls returns nil": of the Consume calls
\* that reach the burn before the code's deadline, one spends it, whatever else
\* was issued, refused or lost.  (A call that read the record in time and burns
\* after the deadline is not counted: the marker may have expired by then.)
SpentOnce == \A n \in Nonces : used[n].spent <= 1

\* MaxAttempts: a code is compared at most that often before its deadline,
\* although each call read its own remaining time for the counter.
AttemptsLimited == \A n \in Nonces : used[n].compared <= MaxAttempts

\* MaxFailures: a window lets at most that many wrong codes through, across the
\* codes issued in it, and one more for every count of an earlier window that a
\* slow right code took back in this one.
FailuresLimited == window.wrong <= MaxFailures + window.owed
=============================================================================
