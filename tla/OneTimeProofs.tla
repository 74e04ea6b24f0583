--------------------------- MODULE OneTimeProofs ---------------------------
(* That a code is spent once and compared at most MaxAttempts times before  *)
(* its deadline, and that a window lets at most MaxFailures wrong codes     *)
(* through, for any number of requests and any ttl, limit and window.       *)
EXTENDS OneTime, FiniteSetTheorems, TLAPS

Steps == {"failure", "attempt", "right", "burn", "forget"}

BusyType == [at: Steps, nonce: Nonces, right: BOOLEAN, remaining: Nat, left: Nat, current: BOOLEAN]

Types ==
    /\ issued \in 0..MaxIssues
    /\ record \in [nonce: {0} \union Nonces, code: Nat, since: Nat, life: Nat]
    /\ attempts \in [Nonces -> [n: Nat, left: Nat]]
    /\ spent \in [Nonces -> Nat]
    /\ issuer \in [Issuers -> [nonce: {0} \union Nonces, code: Nat, since: Nat]]
    /\ used \in [Nonces -> [compared: Nat, spent: Nat]]
    /\ consumer \in [Consumers -> {Idle} \union BusyType]

Active(c) == consumer[c].at # "idle"

\* Nobody can have seen the code of this nonce.
Untouched(n) ==
    /\ used[n] = NoUse
    /\ attempts[n].left = 0
    /\ record.nonce # n
    /\ \A c \in Consumers : Active(c) => consumer[c].nonce # n

\* A nonce not drawn yet, or not put yet, is untouched, and drawn once.
Waits ==
    /\ \A n \in Nonces : n > issued \/ (\E i \in Issuers : issuer[i].nonce = n) => Untouched(n)
    /\ \A i \in Issuers : issuer[i] # NoIssue => issuer[i].nonce \in 1..issued
    /\ \A i, j \in Issuers : i # j /\ issuer[i].nonce = issuer[j].nonce => issuer[i].nonce = 0
    /\ record.code > 0 => record.nonce # 0

\* Whoever read the record of a code is as far from its deadline as all others,
\* and gives the marker and the counter at least that long.
Agree ==
    /\ \A c \in Consumers : Active(c) =>
          /\ consumer[c].left <= consumer[c].remaining
          /\ record.nonce = consumer[c].nonce => record.code = consumer[c].left
    /\ \A c, d \in Consumers : Active(c) /\ Active(d) /\ consumer[c].nonce = consumer[d].nonce =>
          consumer[c].left = consumer[d].left

\* While the code is x > 0 from its deadline, its marker and its counter last
\* that long, once there is a spending or a comparison they must remember.
Remembered(n, x) ==
    x > 0 =>
        /\ used[n].spent = 0 \/ x <= spent[n]
        /\ \/ attempts[n].left = 0 /\ used[n].compared = 0
           \/ x <= attempts[n].left /\ used[n].compared <= attempts[n].n

Within ==
    /\ \A c \in Consumers : Active(c) => Remembered(consumer[c].nonce, consumer[c].left)
    /\ record.nonce # 0 => Remembered(record.nonce, record.code)

CodeInv == Types /\ Waits /\ Agree /\ Within /\ SpentOnce /\ AttemptsLimited

----------------------------------------------------------------------------

\* The constants, one by one.
LEMMA Constants == /\ Ttl \in Nat \ {0} /\ Cooldown \in Nat \ {0} /\ MaxAttempts \in Nat \ {0}
                   /\ MaxIssues \in Nat
BY OneTimeAssumption

\* What a call under way is.
LEMMA Busy ==
    ASSUME Types, NEW c \in Consumers, Active(c)
    PROVE  consumer[c] \in BusyType
BY DEF Types, Active, Idle

\* The initial state has no code at all.
LEMMA CodeInvInit == Init => CodeInv
<1> SUFFICES ASSUME Init PROVE CodeInv
  OBVIOUS
<1>1. Types
  BY Constants DEF Init, Types, NoRecord, NoCounter, NoIssue, NoUse
<1>2. \A c \in Consumers : ~Active(c)
  BY Zenon DEF Init, Active, Idle
<1>3. Waits
  <2>1. \A n \in Nonces : Untouched(n)
    BY <1>2 DEF Init, Untouched, NoRecord, NoCounter, Nonces
  <2>2. QED
    BY <2>1 DEF Init, Waits, NoIssue, NoRecord
<1>4. Agree /\ Within
  BY <1>2 DEF Init, Agree, Within, NoRecord
<1>5. SpentOnce /\ AttemptsLimited
  BY Constants DEF Init, SpentOnce, AttemptsLimited, NoUse
<1>6. QED
  BY <1>1, <1>3, <1>4, <1>5 DEF CodeInv

\* The calls under way, and the record, are those of before or fewer.
Fewer ==
    /\ \A c \in Consumers : Active(c)' =>
          /\ Active(c)
          /\ consumer'[c].nonce = consumer[c].nonce
          /\ consumer'[c].left = consumer[c].left
          /\ consumer'[c].remaining = consumer[c].remaining
    /\ record' \in {record, NoRecord}
    /\ UNCHANGED <<issuer, issued>>

\* A step that only takes calls and the record away keeps what is said of them.
LEMMA FewerKeeps ==
    ASSUME CodeInv, Fewer
    PROVE  /\ Agree'
           /\ UNCHANGED <<attempts, used>> => Waits'
<1>1. NoRecord.nonce = 0 /\ NoRecord.code = 0
  BY DEF NoRecord
<1>2. Agree'
  <2>1. \A c \in Consumers : Active(c) => consumer[c].nonce # 0
    BY Busy DEF CodeInv, BusyType, Nonces
  <2>2. QED
    BY <1>1, <2>1 DEF Fewer, CodeInv, Agree
<1>3. ASSUME UNCHANGED <<attempts, used>>, NEW n \in Nonces, Untouched(n) PROVE Untouched(n)'
  BY <1>1, <1>3 DEF Fewer, Untouched, Nonces
<1>4. ASSUME UNCHANGED <<attempts, used>> PROVE Waits'
  BY <1>1, <1>3, <1>4 DEF Fewer, CodeInv, Waits, Types, Nonces
<1>5. QED
  BY <1>2, <1>4

\* A step for the code of nonce n, which is x from its deadline, says something
\* new of that code only.
LEMMA WithinKept ==
    ASSUME CodeInv, Fewer, NEW c \in Consumers, Active(c), NEW n \in Nonces, NEW x \in Nat,
           n = consumer[c].nonce, x = consumer[c].left,
           Remembered(n, x)',
           \A m \in Nonces, z \in Nat : m # n /\ Remembered(m, z) => Remembered(m, z)'
    PROVE  Within'
<1>1. ASSUME NEW d \in Consumers, Active(d)'
      PROVE  Remembered(consumer[d].nonce, consumer[d].left)'
  <2>1. /\ Active(d) /\ consumer'[d].nonce = consumer[d].nonce /\ consumer'[d].left = consumer[d].left
    BY <1>1 DEF Fewer
  <2>2. PICK m \in Nonces, z \in Nat : m = consumer[d].nonce /\ z = consumer[d].left
    BY <2>1, Busy DEF CodeInv, BusyType
  <2>3. Remembered(m, z) /\ (m = n => z = x)
    BY <2>1, <2>2 DEF CodeInv, Within, Agree
  <2>4. Remembered(m, z)'
    BY <2>3
  <2>5. QED
    BY <2>1, <2>2, <2>4 DEF Remembered
<1>2. ASSUME record'.nonce # 0 PROVE Remembered(record.nonce, record.code)'
  <2>1. record' = record
    BY <1>2 DEF Fewer, NoRecord
  <2>2. PICK m \in Nonces, z \in Nat : m = record.nonce /\ z = record.code
    BY <1>2, <2>1 DEF CodeInv, Types
  <2>3. Remembered(m, z) /\ (m = n => z = x)
    BY <1>2, <2>1, <2>2 DEF CodeInv, Within, Agree
  <2>4. Remembered(m, z)'
    BY <2>3
  <2>5. QED
    BY <2>1, <2>2, <2>4 DEF Remembered
<1>3. QED
  BY <1>1, <1>2 DEF Within

\* A step of one call that touches neither marker nor counter.
LEMMA QuietStep ==
    ASSUME CodeInv, NEW c \in Consumers, NEW v,
           consumer' = [consumer EXCEPT ![c] = v],
           \/ v = Idle
           \/ /\ Active(c) /\ v \in BusyType
              /\ v.nonce = consumer[c].nonce /\ v.left = consumer[c].left
              /\ v.remaining = consumer[c].remaining,
           record' \in {record, NoRecord},
           UNCHANGED <<issuer, issued, attempts, spent, used>>
    PROVE  CodeInv'
<1>1. Types'
  BY DEF CodeInv, Types, NoRecord
<1>2. Fewer
  <2>1. \A d \in Consumers : consumer'[d] = IF d = c THEN v ELSE consumer[d]
    BY DEF CodeInv, Types
  <2>2. v = Idle => v.at = "idle"
    BY DEF Idle
  <2>3. QED
    BY <2>1, <2>2 DEF Fewer, Active
<1>3. Agree' /\ Waits'
  BY <1>2, FewerKeeps, ZenonT(15)
<1>4. Within'
  BY <1>2 DEF CodeInv, Within, Fewer, Remembered, NoRecord
<1>5. SpentOnce' /\ AttemptsLimited'
  BY DEF CodeInv, SpentOnce, AttemptsLimited
<1>6. QED
  BY <1>1, <1>3, <1>4, <1>5 DEF CodeInv

\* A nonce is drawn: the next one, which nobody has.
LEMMA IssueKeeps ==
    ASSUME CodeInv, NEW i \in Issuers, Issue(i)
    PROVE  CodeInv'
<1> DEFINE fresh == [nonce |-> issued + 1, code |-> Ttl, since |-> Cooldown]
<1>1. /\ issuer[i] = NoIssue /\ issued < MaxIssues /\ issued' = issued + 1
      /\ issuer' = [issuer EXCEPT ![i] = fresh]
      /\ UNCHANGED <<record, attempts, spent, consumer, used>>
  BY DEF Issue
<1>2. issued \in Nat /\ MaxIssues \in Nat /\ issued + 1 \in Nonces
  BY <1>1, Constants DEF CodeInv, Types, Nonces
<1>3. Types'
  <2>1. fresh \in [nonce: {0} \union Nonces, code: Nat, since: Nat]
    BY <1>2, Constants
  <2>2. issued' \in 0..MaxIssues
    BY <1>1, <1>2
  <2>3. QED
    BY <1>1, <2>1, <2>2 DEF CodeInv, Types
<1>4. \A n \in Nonces : Untouched(n)' <=> Untouched(n)
  BY <1>1 DEF Untouched, Active
<1>5. Untouched(issued + 1)
  BY <1>2 DEF CodeInv, Waits
<1>6. \A j \in Issuers : issuer'[j] = IF j = i THEN fresh ELSE issuer[j]
  BY <1>1 DEF CodeInv, Types
<1>7. \A j \in Issuers : issuer[j].nonce # issued + 1
  BY <1>2 DEF CodeInv, Waits, NoIssue
<1>8. Waits'
  <2>1. ASSUME NEW n \in Nonces, n > issued' \/ (\E j \in Issuers : issuer'[j].nonce = n)
        PROVE  Untouched(n)'
    <3>1. n > issued \/ (\E j \in Issuers : issuer[j].nonce = n)
      BY <1>1, <1>2, <1>6, <2>1 DEF Nonces
    <3>2. QED
      BY <1>4, <3>1 DEF CodeInv, Waits
  <2>2. \A j \in Issuers : issuer'[j] # NoIssue => issuer'[j].nonce \in 1..issued'
    BY <1>1, <1>2, <1>6 DEF CodeInv, Waits
  <2>3. \A j, k \in Issuers : j # k /\ issuer'[j].nonce = issuer'[k].nonce => issuer'[j].nonce = 0
    BY <1>6, <1>7 DEF CodeInv, Waits
  <2>4. QED
    BY <1>1, <2>1, <2>2, <2>3 DEF CodeInv, Waits
<1>9. Agree' /\ Within' /\ SpentOnce' /\ AttemptsLimited'
  BY <1>1 DEF CodeInv, Agree, Within, Active, Remembered, SpentOnce, AttemptsLimited
<1>10. QED
  BY <1>3, <1>8, <1>9 DEF CodeInv

\* The record of an untouched nonce is put, and its Issue over.
LEMMA PutKeeps ==
    ASSUME CodeInv, NEW i \in Issuers, issuer[i] # NoIssue,
           record' \in {record, Stored(issuer[i])},
           issuer' = [issuer EXCEPT ![i] = NoIssue],
           UNCHANGED <<attempts, spent, consumer, issued, used>>
    PROVE  CodeInv'
<1> DEFINE n0 == issuer[i].nonce
<1>1. n0 \in 1..issued /\ n0 \in Nonces /\ Untouched(n0)
  <2>1. n0 \in 1..issued
    BY DEF CodeInv, Waits
  <2>2. n0 \in Nonces
    BY <2>1, Constants DEF CodeInv, Types, Nonces
  <2>3. QED
    BY <2>1, <2>2 DEF CodeInv, Waits
<1>2. /\ Stored(issuer[i]).nonce = n0 /\ Stored(issuer[i]).code = issuer[i].code
      /\ Stored(issuer[i]) \in [nonce: {0} \union Nonces, code: Nat, since: Nat, life: Nat]
  BY <1>1, Constants DEF Stored, CodeInv, Types
<1>3. Types'
  BY <1>2 DEF CodeInv, Types, NoIssue
<1>4. \A j \in Issuers : issuer'[j] = IF j = i THEN NoIssue ELSE issuer[j]
  BY DEF CodeInv, Types
<1>5. ASSUME NEW n \in Nonces, n # n0, Untouched(n) PROVE Untouched(n)'
  BY <1>2, <1>5 DEF Untouched, Active
<1>6. Waits'
  <2>1. ASSUME NEW n \in Nonces, n > issued' \/ (\E j \in Issuers : issuer'[j].nonce = n)
        PROVE  Untouched(n)'
    <3>1. n # n0
      <4>1. n # 0 /\ issued \in Nat /\ n \in Nat
        BY DEF Nonces, CodeInv, Types
      <4>2. CASE n > issued'
        BY <1>1, <4>1, <4>2
      <4>3. CASE \E j \in Issuers : issuer'[j].nonce = n
        BY <1>4, <4>1, <4>3 DEF CodeInv, Waits, NoIssue
      <4>4. QED
        BY <2>1, <4>2, <4>3
    <3>2. n > issued \/ (\E j \in Issuers : issuer[j].nonce = n)
      BY <1>4, <2>1 DEF NoIssue, Nonces
    <3>3. QED
      BY <1>5, <3>1, <3>2 DEF CodeInv, Waits
  <2>2. record'.code > 0 => record'.nonce # 0
    BY <1>1, <1>2 DEF CodeInv, Waits, Nonces
  <2>3. \A j, k \in Issuers : j # k /\ issuer'[j].nonce = issuer'[k].nonce => issuer'[j].nonce = 0
    BY <1>4 DEF CodeInv, Waits, NoIssue
  <2>4. QED
    BY <1>4, <2>1, <2>2, <2>3 DEF CodeInv, Waits
<1>7. Agree'
  BY <1>1, <1>2, ZenonT(15) DEF CodeInv, Agree, Active, Untouched
<1>8. Within'
  BY <1>1, <1>2 DEF CodeInv, Within, Active, Remembered, Untouched, NoUse
<1>9. SpentOnce' /\ AttemptsLimited'
  BY DEF CodeInv, SpentOnce, AttemptsLimited
<1>10. QED
  BY <1>3, <1>6, <1>7, <1>8, <1>9 DEF CodeInv

\* A call begins with what the record says.
LEMMA ConsumeKeeps ==
    ASSUME CodeInv, NEW c \in Consumers, NEW code, Consume(c, code)
    PROVE  CodeInv'
<1> DEFINE v == [at |-> "failure", nonce |-> record.nonce, right |-> code = record.nonce,
                 remaining |-> record.code, left |-> record.code, current |-> FALSE]
<1>1. /\ record.code > 0 /\ consumer' = [consumer EXCEPT ![c] = v]
      /\ UNCHANGED <<record, attempts, spent, issuer, issued, used>>
  BY DEF Consume
<1>2. record.nonce # 0 /\ record.nonce \in Nonces /\ record.code \in Nat
  BY <1>1 DEF CodeInv, Waits, Types
<1>3. /\ v \in BusyType /\ v.at = "failure" /\ v.nonce = record.nonce /\ v.left = record.code
      /\ v.remaining = record.code
  BY <1>2 DEF BusyType, Steps
<1> HIDE DEF v
<1>4. \A d \in Consumers : consumer'[d] = IF d = c THEN v ELSE consumer[d]
  BY <1>1 DEF CodeInv, Types
<1>5. Types'
  BY <1>1, <1>3 DEF CodeInv, Types
<1>6. \A n \in Nonces : Untouched(n) => Untouched(n)'
  BY <1>1, <1>3, <1>4 DEF Untouched, Active
<1>7. Waits'
  BY <1>1, <1>6, Constants DEF CodeInv, Waits, Nonces, Types
<1>8. Agree'
  BY <1>1, <1>2, <1>3, <1>4 DEF CodeInv, Agree, Active
<1>9. Within'
  BY <1>1, <1>2, <1>3, <1>4 DEF CodeInv, Within, Active, Remembered
<1>10. SpentOnce' /\ AttemptsLimited'
  BY <1>1 DEF CodeInv, SpentOnce, AttemptsLimited
<1>11. QED
  BY <1>5, <1>7, <1>8, <1>9, <1>10 DEF CodeInv

\* The attempt is counted, and the code compared within the limit.
LEMMA CountAttemptKeeps ==
    ASSUME CodeInv, NEW c \in Consumers, CountAttempt(c)
    PROVE  CodeInv'
<1>1. Active(c) /\ consumer[c] \in BusyType
  BY Busy DEF CountAttempt, At, Active, CodeInv
<1>2. PICK n \in Nonces, x \in Nat, y \in Nat :
          n = consumer[c].nonce /\ x = consumer[c].left /\ y = consumer[c].remaining
  BY <1>1 DEF BusyType
<1> DEFINE counter == Increment(attempts[n], 1, y)
<1>3. /\ attempts' = [attempts EXCEPT ![n] = counter]
      /\ UNCHANGED <<record, spent, issuer, issued>>
      /\ \/ used' = used
         \/ /\ counter.n <= MaxAttempts /\ x > 0
            /\ used' = [used EXCEPT ![n].compared = @ + 1]
  BY <1>2 DEF CountAttempt, Compares
<1>4. PICK v : /\ consumer' = [consumer EXCEPT ![c] = v]
               /\ \/ v = Idle
                  \/ /\ v \in BusyType /\ v.nonce = n /\ v.left = x
                     /\ v.remaining = y
  <2>1. CASE Refuse(c)
    BY <2>1, Zenon DEF Refuse
  <2>2. CASE Goto(c, "right")
    <3>1. consumer' = [consumer EXCEPT ![c] = [consumer[c] EXCEPT !.at = "right"]]
      BY <2>2 DEF Goto
    <3>2. [consumer[c] EXCEPT !.at = "right"] \in BusyType
      BY <1>1 DEF BusyType, Steps
    <3>3. QED
      <4>1. LET v == [consumer[c] EXCEPT !.at = "right"] IN
                v.nonce = consumer[c].nonce /\ v.left = consumer[c].left /\ v.remaining = consumer[c].remaining
        BY <1>1 DEF BusyType
      <4>2. QED
        BY <1>2, <3>1, <3>2, <4>1, Zenon
  <2>3. QED
    BY <2>1, <2>2 DEF CountAttempt
<1>5. /\ counter \in [n: Nat, left: Nat]
      /\ counter.n = IF attempts[n].left = 0 THEN 1 ELSE attempts[n].n + 1
      /\ counter.left = IF attempts[n].left = 0 THEN y ELSE attempts[n].left
  BY <1>2 DEF Increment, CodeInv, Types
<1> HIDE DEF counter
<1>6. Types'
  <2>1. used' \in [Nonces -> [compared: Nat, spent: Nat]]
    BY <1>2, <1>3 DEF CodeInv, Types
  <2>2. consumer' \in [Consumers -> {Idle} \union BusyType]
    BY <1>4 DEF CodeInv, Types
  <2>3. QED
    BY <1>3, <1>5, <2>1, <2>2, Zenon DEF CodeInv, Types
<1>7. Fewer
  <2>1. \A d \in Consumers : consumer'[d] = IF d = c THEN v ELSE consumer[d]
    BY <1>4 DEF CodeInv, Types
  <2>2. v = Idle => v.at = "idle"
    BY DEF Idle
  <2>3. QED
    BY <1>1, <1>2, <1>3, <1>4, <2>1, <2>2 DEF Fewer, Active
<1>8. Agree'
  BY <1>7, FewerKeeps
<1>9. /\ \A m \in Nonces : m # n => attempts'[m] = attempts[m] /\ used'[m] = used[m]
      /\ attempts'[n] = counter
      /\ used'[n].spent = used[n].spent
      /\ \/ used'[n].compared = used[n].compared
         \/ /\ used'[n].compared = used[n].compared + 1
            /\ counter.n <= MaxAttempts /\ x > 0
  BY <1>2, <1>3 DEF CodeInv, Types
<1>10. Waits'
  <2>1. ~Untouched(n)
    BY <1>1, <1>2 DEF Untouched
  <2>2. ASSUME NEW m \in Nonces, Untouched(m) PROVE Untouched(m)'
    <3>1. m # n /\ attempts'[m] = attempts[m] /\ used'[m] = used[m]
      BY <1>9, <2>1, <2>2
    <3>2. QED
      BY <1>3, <1>7, <2>2, <3>1 DEF Untouched, Fewer
  <2>3. QED
    BY <1>3, <2>2 DEF CodeInv, Waits
<1>11. Remembered(n, x) /\ x <= y
  BY <1>1, <1>2 DEF CodeInv, Within, Agree
<1>12. Remembered(n, x)'
  <2>1. /\ attempts[n].left \in Nat /\ attempts[n].n \in Nat
        /\ used[n].compared \in Nat
    BY <1>2 DEF CodeInv, Types
  <2>2. QED
    BY <1>3, <1>5, <1>9, <1>11, <2>1 DEF Remembered
<1>13. ASSUME NEW m \in Nonces, m # n, NEW z, Remembered(m, z) PROVE Remembered(m, z)'
  BY <1>3, <1>9, <1>13 DEF Remembered
<1>14. Within'
  BY <1>1, <1>2, <1>7, <1>12, <1>13, WithinKept
<1>15. SpentOnce' /\ AttemptsLimited'
  <2>1. used'[n].compared <= MaxAttempts
    <3>1. CASE used'[n].compared = used[n].compared
      BY <1>2, <3>1 DEF CodeInv, AttemptsLimited
    <3>2. CASE /\ used'[n].compared = used[n].compared + 1
               /\ counter.n <= MaxAttempts /\ x > 0
      <4>1. used'[n].compared <= counter.n \/ used'[n].compared = 0
        BY <1>9, <1>12, <3>2 DEF Remembered
      <4>2. used'[n].compared \in Nat /\ counter.n \in Nat
        BY <1>2, <1>5, <3>2 DEF CodeInv, Types
      <4>3. QED
        BY <3>2, <4>1, <4>2, Constants
    <3>3. QED
      BY <1>9, <3>1, <3>2
  <2>2. QED
    BY <1>2, <1>9, <2>1 DEF CodeInv, SpentOnce, AttemptsLimited
<1>16. QED
  BY <1>6, <1>8, <1>10, <1>14, <1>15 DEF CodeInv

\* The burn: the marker is written only where there is none.
LEMMA BurnKeeps ==
    ASSUME CodeInv, NEW c \in Consumers, Burn(c)
    PROVE  CodeInv'
<1>1. Active(c) /\ consumer[c] \in BusyType
  BY Busy DEF Burn, At, Active, CodeInv
<1>2. PICK n \in Nonces, x \in Nat, y \in Nat :
          n = consumer[c].nonce /\ x = consumer[c].left /\ y = consumer[c].remaining
  BY <1>1 DEF BusyType
<1>3. UNCHANGED <<record, attempts, issuer, issued>>
  BY DEF Burn
<1>4. CASE spent[n] # 0
  BY <1>2, <1>3, <1>4, QuietStep DEF Burn, AddMarker, Refuse
<1>5. CASE spent[n] = 0
  <2>1. /\ spent' = [spent EXCEPT ![n] = y]
        /\ used' = IF x > 0 THEN [used EXCEPT ![n].spent = @ + 1] ELSE used
        /\ consumer' = [consumer EXCEPT ![c] = [consumer[c] EXCEPT !.at = "forget"]]
    BY <1>2, <1>5 DEF Burn, AddMarker, Goto
  <2>2. [consumer[c] EXCEPT !.at = "forget"] \in BusyType
    BY <1>1 DEF BusyType, Steps
  <2>3. Types'
    <3>1. used' \in [Nonces -> [compared: Nat, spent: Nat]]
      BY <1>2, <2>1 DEF CodeInv, Types
    <3>2. QED
      BY <1>2, <1>3, <2>1, <2>2, <3>1 DEF CodeInv, Types
  <2>4. Fewer
    <3>1. \A d \in Consumers : consumer'[d] = IF d = c THEN [consumer[c] EXCEPT !.at = "forget"] ELSE consumer[d]
      BY <2>1 DEF CodeInv, Types
    <3>2. LET v == [consumer[c] EXCEPT !.at = "forget"] IN
              v.nonce = consumer[c].nonce /\ v.left = consumer[c].left /\ v.remaining = consumer[c].remaining
      BY <1>1 DEF BusyType
    <3>3. QED
      BY <1>1, <1>3, <3>1, <3>2, Zenon DEF Fewer, Active
  <2>5. Agree'
    BY <2>4, FewerKeeps
  <2>6. /\ \A m \in Nonces : m # n => spent'[m] = spent[m] /\ used'[m] = used[m]
        /\ spent'[n] = y
        /\ used'[n].compared = used[n].compared
        /\ used'[n].spent = IF x > 0 THEN used[n].spent + 1 ELSE used[n].spent
    BY <1>2, <2>1 DEF CodeInv, Types
  <2>7. Waits'
    <3>1. ~Untouched(n)
      BY <1>1, <1>2 DEF Untouched
    <3>2. ASSUME NEW m \in Nonces, Untouched(m) PROVE Untouched(m)'
      <4>1. m # n /\ used'[m] = used[m]
        BY <2>6, <3>1, <3>2
      <4>2. QED
        BY <1>3, <2>4, <3>2, <4>1 DEF Untouched, Fewer
    <3>3. QED
      BY <1>3, <3>2 DEF CodeInv, Waits
  <2>8. Remembered(n, x) /\ x <= y
    BY <1>1, <1>2 DEF CodeInv, Within, Agree
  <2>9. Remembered(n, x)'
    BY <1>3, <2>6, <2>8 DEF Remembered
  <2>10. ASSUME NEW m \in Nonces, m # n, NEW z, Remembered(m, z) PROVE Remembered(m, z)'
    BY <1>3, <2>6, <2>10 DEF Remembered
  <2>11. Within'
    BY <1>1, <1>2, <2>4, <2>9, <2>10, WithinKept
  <2>12. SpentOnce'
    <3>1. used'[n].spent <= 1
      BY <1>2, <1>5, <2>6, <2>8 DEF CodeInv, SpentOnce, Remembered
    <3>2. QED
      BY <2>6, <3>1 DEF CodeInv, SpentOnce
  <2>13. AttemptsLimited'
    BY <1>2, <2>6 DEF CodeInv, AttemptsLimited
  <2>14. QED
    BY <2>3, <2>5, <2>7, <2>11, <2>12, <2>13 DEF CodeInv
<1>6. QED
  BY <1>4, <1>5

\* A tick brings the deadline, the marker and the counter one nearer alike.
LEMMA ElapseKeeps ==
    ASSUME CodeInv, Elapse
    PROVE  CodeInv'
<1> DEFINE aged(k) == IF k.left > 1 THEN [k EXCEPT !.left = k.left - 1] ELSE NoCounter
           remains(n) == \/ record.nonce = n /\ record.code > 1
                         \/ \E c \in Consumers : ~At(c, "idle") /\ consumer[c].nonce = n /\ consumer[c].left > 1
<1>a. /\ issued' = issued
      /\ spent' = [n \in Nonces |-> Sooner(spent[n])]
      /\ attempts' = [n \in Nonces |-> aged(attempts[n])]
      /\ used' = [n \in Nonces |-> IF remains(n) THEN used[n] ELSE NoUse]
  BY ZenonT(30) DEF Elapse
<1>b. record' = IF record.life > 1
                THEN [record EXCEPT !.code = Sooner(record.code), !.since = Sooner(record.since),
                                    !.life = record.life - 1]
                ELSE NoRecord
  BY ZenonT(30) DEF Elapse
<1>c. issuer' = [i \in Issuers |-> [issuer[i] EXCEPT !.code = Sooner(issuer[i].code),
                                                     !.since = Sooner(issuer[i].since)]]
  BY Zenon DEF Elapse
<1>d. \A k \in Nat : Sooner(k) \in Nat
  BY DEF Sooner
<1>1. ASSUME NEW n \in Nonces
      PROVE  /\ attempts'[n] \in [n: Nat, left: Nat]
             /\ attempts'[n].left = Sooner(attempts[n].left)
             /\ attempts[n].left > 1 => attempts'[n].n = attempts[n].n
             /\ used'[n] = used[n] \/ used'[n] = NoUse
  <2>1. attempts'[n] = aged(attempts[n]) /\ attempts[n] \in [n: Nat, left: Nat]
    BY <1>a DEF CodeInv, Types
  <2>2. used'[n] = used[n] \/ used'[n] = NoUse
    <3> HIDE DEF remains
    <3> QED BY <1>a
  <2>3. CASE attempts[n].left > 1
    <3>1. PICK l \in Nat : l = attempts[n].left - 1
      BY <2>1, <2>3
    <3>2. attempts'[n] = [attempts[n] EXCEPT !.left = l]
      BY <2>1, <2>3, <3>1
    <3>3. QED
      BY <2>1, <2>2, <2>3, <3>1, <3>2 DEF Sooner
  <2>4. CASE ~(attempts[n].left > 1)
    <3>1. attempts'[n] = NoCounter
      BY <2>1, <2>4
    <3>2. QED
      BY <2>1, <2>2, <2>4, <3>1 DEF Sooner, NoCounter
  <2>5. QED
    BY <2>3, <2>4
<1> HIDE DEF remains, aged
<1>2. \A c \in Consumers :
          /\ ~Active(c) => consumer'[c] = Idle
          /\ Active(c) => /\ consumer'[c] \in BusyType /\ Active(c)'
                          /\ consumer'[c].nonce = consumer[c].nonce
                          /\ consumer'[c].remaining = consumer[c].remaining
                          /\ consumer'[c].left = Sooner(consumer[c].left)
  <2>1. SUFFICES ASSUME NEW c \in Consumers, Active(c)
                 PROVE  /\ consumer'[c] \in BusyType /\ Active(c)'
                        /\ consumer'[c].nonce = consumer[c].nonce
                        /\ consumer'[c].remaining = consumer[c].remaining
                        /\ consumer'[c].left = Sooner(consumer[c].left)
    BY Zenon DEF Elapse, At, Active
  <2>2. consumer[c] \in BusyType
    BY <2>1, Busy DEF CodeInv
  <2>3. PICK b \in BOOLEAN :
            consumer'[c] = [consumer[c] EXCEPT !.left = Sooner(consumer[c].left), !.current = b]
    BY <2>1, <2>2, Zenon DEF Elapse, At, Active, BusyType
  <2>4. Sooner(consumer[c].left) \in Nat
    BY <2>2 DEF BusyType, Sooner
  <2>5. QED
    BY <2>1, <2>2, <2>3, <2>4, ZenonT(30) DEF BusyType, Active
<1>3. /\ record' \in [nonce: {0} \union Nonces, code: Nat, since: Nat, life: Nat]
      /\ \/ record'.nonce = record.nonce /\ record'.code = Sooner(record.code)
         \/ record'.nonce = 0 /\ record'.code = 0
  <2>1. record \in [nonce: {0} \union Nonces, code: Nat, since: Nat, life: Nat]
    BY DEF CodeInv, Types
  <2>2. CASE record.life > 1
    <3>1. PICK a \in Nat, b \in Nat, l \in Nat :
              a = Sooner(record.code) /\ b = Sooner(record.since) /\ l = record.life - 1
      BY <1>d, <2>1, <2>2
    <3>2. record' = [record EXCEPT !.code = a, !.since = b, !.life = l]
      BY <1>b, <2>2, <3>1
    <3>3. QED
      BY <2>1, <3>1, <3>2, Zenon
  <2>3. CASE ~(record.life > 1)
    BY <1>b, <2>3 DEF NoRecord
  <2>4. QED
    BY <2>2, <2>3
<1>4. /\ issuer' \in [Issuers -> [nonce: {0} \union Nonces, code: Nat, since: Nat]]
      /\ \A i \in Issuers : /\ issuer'[i].nonce = issuer[i].nonce
                            /\ issuer[i] = NoIssue => issuer'[i] = NoIssue
  <2>1. ASSUME NEW i \in Issuers
        PROVE  /\ issuer'[i] \in [nonce: {0} \union Nonces, code: Nat, since: Nat]
               /\ issuer'[i].nonce = issuer[i].nonce
               /\ issuer[i] = NoIssue => issuer'[i] = NoIssue
    <3>1. issuer[i] \in [nonce: {0} \union Nonces, code: Nat, since: Nat]
      BY DEF CodeInv, Types
    <3>2. PICK a \in Nat, b \in Nat : a = Sooner(issuer[i].code) /\ b = Sooner(issuer[i].since)
      BY <1>d, <3>1
    <3>3. issuer'[i] = [issuer[i] EXCEPT !.code = a, !.since = b]
      BY <1>c, <3>2, Zenon
    <3>4. issuer[i] = NoIssue => a = 0 /\ b = 0
      BY <3>2 DEF Sooner, NoIssue
    <3>5. issuer[i] = NoIssue => issuer'[i] = NoIssue
      <4>1. SUFFICES ASSUME issuer[i] = NoIssue PROVE issuer'[i] = NoIssue
        OBVIOUS
      <4>2. /\ issuer'[i] \in [nonce: {0} \union Nonces, code: Nat, since: Nat]
            /\ issuer'[i].nonce = issuer[i].nonce /\ issuer'[i].code = a /\ issuer'[i].since = b
        BY <3>1, <3>3, Zenon
      <4>3. issuer'[i].nonce = 0 /\ issuer'[i].code = 0 /\ issuer'[i].since = 0
        BY <3>4, <4>1, <4>2 DEF NoIssue
      <4>4. QED
        BY <4>2, <4>3 DEF NoIssue
    <3>6. QED
      BY <3>1, <3>3, <3>5, Zenon
  <2>2. QED
    BY <1>c, <2>1, Zenon
<1>5. Types'
  <2>1. consumer' \in [Consumers -> {Idle} \union BusyType]
    <3>1. consumer' = [c \in Consumers |-> consumer'[c]]
      BY Zenon DEF Elapse
    <3>2. QED
      BY <1>2, <3>1
  <2>2. \A n \in Nonces : attempts'[n] \in [n: Nat, left: Nat]
    BY <1>1
  <2>3. \A n \in Nonces : used'[n] \in [compared: Nat, spent: Nat]
    BY <1>1 DEF CodeInv, Types, NoUse
  <2>4. spent' \in [Nonces -> Nat]
    BY <1>a, <1>d DEF CodeInv, Types
  <2>5. attempts' \in [Nonces -> [n: Nat, left: Nat]]
    BY <1>a, <2>2
  <2>6. used' \in [Nonces -> [compared: Nat, spent: Nat]]
    BY <1>a, <2>3
  <2>7. QED
    BY <1>a, <1>3, <1>4, <2>1, <2>4, <2>5, <2>6 DEF CodeInv, Types
<1>6. \A c \in Consumers : Active(c)' => Active(c)
  BY <1>2 DEF Active, Idle
<1>7. ASSUME NEW n \in Nonces, Untouched(n) PROVE Untouched(n)'
  <2>1. used'[n] = NoUse /\ attempts'[n].left = 0
    BY <1>1, <1>7 DEF Untouched, Sooner
  <2>2. record'.nonce # n
    BY <1>3, <1>7 DEF Untouched, Nonces
  <2>3. QED
    BY <1>2, <1>6, <1>7, <2>1, <2>2 DEF Untouched
<1>8. Waits'
  <2>1. record'.code > 0 => record'.nonce # 0
    BY <1>3 DEF CodeInv, Waits, Sooner, Types
  <2>2. QED
    <3>1. ASSUME NEW n \in Nonces, n > issued' \/ (\E i \in Issuers : issuer'[i].nonce = n)
          PROVE  Untouched(n)'
      <4>1. n > issued \/ (\E i \in Issuers : issuer[i].nonce = n)
        BY <1>a, <1>4, <3>1
      <4>2. QED
        BY <1>7, <4>1 DEF CodeInv, Waits
    <3>2. \A i \in Issuers : issuer'[i] # NoIssue => issuer'[i].nonce \in 1..issued'
      BY <1>a, <1>4 DEF CodeInv, Waits
    <3>3. \A i, j \in Issuers : i # j /\ issuer'[i].nonce = issuer'[j].nonce => issuer'[i].nonce = 0
      BY <1>4 DEF CodeInv, Waits
    <3>4. QED
      BY <2>1, <3>1, <3>2, <3>3 DEF Waits
<1>9. Agree'
  <2>1. \A c \in Consumers : Active(c) =>
            /\ consumer[c].nonce # 0 /\ consumer[c].left \in Nat /\ consumer[c].remaining \in Nat
    BY Busy DEF CodeInv, BusyType, Nonces
  <2>2. ASSUME NEW c \in Consumers, Active(c)'
        PROVE  /\ consumer'[c].left <= consumer'[c].remaining
               /\ record'.nonce = consumer'[c].nonce => record'.code = consumer'[c].left
    <3>1. /\ consumer[c].left <= consumer[c].remaining
          /\ record.nonce = consumer[c].nonce => record.code = consumer[c].left
      BY <1>6, <2>2 DEF CodeInv, Agree
    <3>2. QED
      BY <1>2, <1>3, <1>6, <2>1, <2>2, <3>1 DEF Sooner
  <2>3. QED
    BY <1>2, <1>6, <2>2 DEF CodeInv, Agree
<1>10. ASSUME NEW n \in Nonces, NEW x \in Nat, NEW z \in Nat, z = Sooner(x), Remembered(n, x)
       PROVE  Remembered(n, z)'
  <2>1. SUFFICES ASSUME z > 0 PROVE Remembered(n, z)'
    BY DEF Remembered
  <2>2. x > 0 /\ z = x - 1
    BY <1>10, <2>1 DEF Sooner
  <2>3. used'[n].spent = 0 \/ z <= spent'[n]
    BY <1>a, <1>1, <1>10, <2>1, <2>2 DEF Remembered, Sooner, NoUse, CodeInv, Types
  <2>4. \/ attempts'[n].left = 0 /\ used'[n].compared = 0
        \/ z <= attempts'[n].left /\ used'[n].compared <= attempts'[n].n
    <3>1. /\ attempts[n] \in [n: Nat, left: Nat] /\ used[n] \in [compared: Nat, spent: Nat]
          /\ used'[n].compared = used[n].compared \/ used'[n].compared = 0
      BY <1>1 DEF CodeInv, Types, NoUse
    <3>2. CASE attempts[n].left = 0 /\ used[n].compared = 0
      BY <1>1, <3>1, <3>2 DEF Sooner
    <3>3. CASE x <= attempts[n].left /\ used[n].compared <= attempts[n].n
      <4>1. attempts[n].left > 1
        BY <2>1, <2>2, <3>1, <3>3
      <4>2. attempts'[n].left = attempts[n].left - 1 /\ attempts'[n].n = attempts[n].n
        BY <1>1, <3>1, <4>1 DEF Sooner
      <4>3. QED
        BY <2>2, <3>1, <3>3, <4>2
    <3>4. QED
      BY <1>10, <2>2, <3>2, <3>3 DEF Remembered
  <2>5. QED
    BY <2>3, <2>4 DEF Remembered
<1>11. Within'
  <2>1. ASSUME NEW d \in Consumers, Active(d)'
        PROVE  Remembered(consumer[d].nonce, consumer[d].left)'
    <3>1. Active(d)
      BY <1>6, <2>1
    <3>2. PICK m \in Nonces, x \in Nat : m = consumer[d].nonce /\ x = consumer[d].left
      BY <3>1, Busy DEF CodeInv, BusyType
    <3>3. PICK z \in Nat : z = Sooner(x)
      BY DEF Sooner
    <3>4. Remembered(m, z)'
      BY <1>10, <3>1, <3>2, <3>3 DEF CodeInv, Within
    <3>5. consumer'[d].nonce = m /\ consumer'[d].left = z
      BY <1>2, <3>1, <3>2, <3>3
    <3>6. QED
      BY <3>4, <3>5 DEF Remembered
  <2>2. ASSUME record'.nonce # 0 PROVE Remembered(record.nonce, record.code)'
    <3>1. PICK m \in Nonces, x \in Nat : m = record.nonce /\ x = record.code
      BY <1>3, <2>2 DEF CodeInv, Types
    <3>2. PICK z \in Nat : z = Sooner(x)
      BY DEF Sooner
    <3>3. Remembered(m, x)
      BY <1>3, <2>2, <3>1 DEF CodeInv, Within
    <3>4. Remembered(m, z)' /\ record'.nonce = m /\ record'.code = z
      BY <1>3, <1>10, <2>2, <3>1, <3>2, <3>3
    <3>5. QED
      BY <3>4 DEF Remembered
  <2>3. QED
    BY <2>1, <2>2 DEF Within
<1>12. SpentOnce' /\ AttemptsLimited'
  BY <1>1, Constants DEF CodeInv, SpentOnce, AttemptsLimited, NoUse
<1>13. QED
  BY <1>5, <1>8, <1>9, <1>11, <1>12, ZenonT(15) DEF CodeInv

\* Every step keeps the invariant, one case per action.
LEMMA CodeInvStep == CodeInv /\ [Next]_vars => CodeInv'
<1> SUFFICES ASSUME CodeInv, [Next]_vars PROVE CodeInv'
  BY ZenonT(15)
<1>1. CASE UNCHANGED vars
  BY <1>1, SMTT(20) DEF vars, CodeInv, Types, Waits, Untouched, Agree, Within, Remembered, Active, SpentOnce,
              AttemptsLimited
<1>2. ASSUME NEW i \in Issuers, Issue(i) PROVE CodeInv'
  BY <1>2, IssueKeeps
<1>3. ASSUME NEW i \in Issuers, Put(i) PROVE CodeInv'
  BY <1>3, PutKeeps, Zenon DEF Put
<1>4. ASSUME NEW i \in Issuers, IssueFails(i) PROVE CodeInv'
  BY <1>4, PutKeeps, Zenon DEF IssueFails
<1>5. ASSUME NEW c \in Consumers, NEW code, Consume(c, code) PROVE CodeInv'
  BY <1>5, ConsumeKeeps
<1>6. ASSUME NEW c \in Consumers, CountFailure(c) PROVE CodeInv'
  <2>1. Active(c) /\ consumer[c] \in BusyType
    BY <1>6, Busy DEF CountFailure, At, Active, CodeInv
  <2>2. UNCHANGED <<record, issuer, issued, attempts, spent, used>>
    BY <1>6 DEF CountFailure
  <2>3. CASE Refuse(c)
    BY <2>2, <2>3, QuietStep, Zenon DEF Refuse
  <2>4. CASE consumer' = [consumer EXCEPT ![c] = [consumer[c] EXCEPT !.at = "attempt", !.current = TRUE]]
    <3>1. LET v == [consumer[c] EXCEPT !.at = "attempt", !.current = TRUE] IN
              /\ v \in BusyType /\ v.nonce = consumer[c].nonce /\ v.left = consumer[c].left
              /\ v.remaining = consumer[c].remaining
      BY <2>1, Zenon DEF BusyType, Steps
    <3>2. QED
      BY <2>1, <2>2, <2>4, <3>1, QuietStep, Zenon
  <2>5. QED
    BY <1>6, <2>3, <2>4 DEF CountFailure
<1>7. ASSUME NEW c \in Consumers, CountAttempt(c) PROVE CodeInv'
  BY <1>7, CountAttemptKeeps
<1>8. ASSUME NEW c \in Consumers, Active(c), Goto(c, "burn"),
             UNCHANGED <<record, issuer, issued, attempts, spent, used>>
      PROVE  CodeInv'
  <2>1. consumer[c] \in BusyType
    BY <1>8, Busy DEF CodeInv
  <2>2. LET v == [consumer[c] EXCEPT !.at = "burn"] IN
            /\ v \in BusyType /\ v.nonce = consumer[c].nonce /\ v.left = consumer[c].left
            /\ v.remaining = consumer[c].remaining
    BY <2>1 DEF BusyType, Steps
  <2>3. consumer' = [consumer EXCEPT ![c] = [consumer[c] EXCEPT !.at = "burn"]]
    BY <1>8 DEF Goto
  <2>4. QED
    BY <1>8, <2>2, <2>3, QuietStep, Zenon
<1>9. ASSUME NEW c \in Consumers, TakeBack(c) PROVE CodeInv'
  BY <1>8, <1>9 DEF TakeBack, At, Active
<1>10. ASSUME NEW c \in Consumers, Burn(c) PROVE CodeInv'
  BY <1>10, BurnKeeps
<1>11. ASSUME NEW c \in Consumers, Forget(c) PROVE CodeInv'
  BY <1>11, QuietStep, Zenon DEF Forget, Refuse
<1>12. ASSUME NEW c \in Consumers, StoreFails(c) PROVE CodeInv'
  <2>1. CASE Refuse(c)
    BY <1>12, <2>1, QuietStep, Zenon DEF StoreFails, Refuse
  <2>2. CASE At(c, "right") /\ Goto(c, "burn")
    BY <1>8, <1>12, <2>2 DEF StoreFails, At, Active
  <2>3. QED
    BY <1>12, <2>1, <2>2 DEF StoreFails
<1>13. CASE Elapse
  BY <1>13, ElapseKeeps
<1>14. QED
  BY <1>1, <1>2, <1>3, <1>4, <1>5, <1>6, <1>7, <1>9, <1>10, <1>11, <1>12, <1>13 DEF Next, Step

\* The invariant holds in every state.
LEMMA CodeInvHolds == Spec => []CodeInv
BY CodeInvInit, CodeInvStep, PTL DEF Spec

\* A code is spent at most once before its deadline, however many requests
\* present it at the same time and whatever fails or is issued meanwhile.
THEOREM CodeSpentOnce == Spec => []SpentOnce
<1>1. CodeInv => SpentOnce
  BY DEF CodeInv
<1>2. QED
  BY <1>1, CodeInvHolds, PTL

\* A code is compared at most MaxAttempts times before its deadline: no request
\* gives its counter less time than the code has.
THEOREM CodeAttemptsLimited == Spec => []AttemptsLimited
<1>1. CodeInv => AttemptsLimited
  BY DEF CodeInv
<1>2. QED
  BY <1>1, CodeInvHolds, PTL

----------------------------------------------------------------------------
(* The failure window                                                       *)

\* The calls whose failure the present window counts, and whose code is not
\* compared yet or was right.
Counting ==
    {c \in Consumers : Active(c) /\ consumer[c].current /\ consumer[c].at \in {"attempt", "right"}}

\* What the counter has to account for.
Due == Cardinality(Counting) + window.wrong - window.owed

\* The counter may be ahead (a call that was refused or died leaves its count
\* behind) and is never behind; a closed window owes nothing.
WindowInv ==
    /\ failures \in [n: Int, left: Nat]
    /\ window \in [wrong: Nat, owed: Nat]
    /\ IsFiniteSet(Counting)
    /\ failures.left = 0 => Counting = {} /\ window.wrong = 0 /\ window.owed = 0
    /\ failures.left > 0 => Due <= failures.n
    /\ Due <= MaxFailures

\* The constants of the window.
LEMMA WindowConstants == MaxFailures \in Nat \ {0} /\ FailureWindow \in Nat \ {0}
BY OneTimeAssumption

\* No window is open at first.
LEMMA WindowInit == Init => WindowInv
<1> SUFFICES ASSUME Init PROVE WindowInv
  OBVIOUS
<1>1. Counting = {}
  BY DEF Init, Counting, Active, Idle
<1>2. IsFiniteSet(Counting) /\ Cardinality(Counting) = 0
  BY <1>1, FS_EmptySet
<1>3. failures = [n |-> 0, left |-> 0] /\ window = [wrong |-> 0, owed |-> 0]
  BY ZenonT(15) DEF Init, NoCounter
<1>4. QED
  BY <1>1, <1>2, <1>3, WindowConstants DEF WindowInv, Due

\* A step of one call changes what is counted by that call.
LEMMA CountingMoves ==
    ASSUME WindowInv, NEW c \in Consumers, \A d \in Consumers \ {c} : consumer'[d] = consumer[d]
    PROVE  /\ IsFiniteSet(Counting') /\ Cardinality(Counting) \in Nat /\ Cardinality(Counting') \in Nat
           /\ c \in Counting /\ c \notin Counting' => Cardinality(Counting') = Cardinality(Counting) - 1
           /\ c \notin Counting /\ c \in Counting' => Cardinality(Counting') = Cardinality(Counting) + 1
           /\ (c \in Counting <=> c \in Counting') => Counting' = Counting
           /\ c \notin Counting' => Counting' \subseteq Counting
<1>1. \A d \in Consumers \ {c} : d \in Counting' <=> d \in Counting
  BY DEF Counting, Active
<1>2. IsFiniteSet(Counting) /\ Counting \subseteq Consumers /\ Counting' \subseteq Consumers
  BY DEF WindowInv, Counting
<1>3. CASE c \in Counting /\ c \notin Counting'
  <2>1. Counting' = Counting \ {c}
    BY <1>1, <1>2, <1>3
  <2>2. QED
    BY <1>2, <1>3, <2>1, FS_RemoveElement, FS_CardinalityType
<1>4. CASE c \notin Counting /\ c \in Counting'
  <2>1. Counting' = Counting \cup {c}
    BY <1>1, <1>2, <1>4, ZenonT(15)
  <2>2. QED
    BY <1>2, <1>4, <2>1, FS_AddElement, FS_CardinalityType
<1>5. CASE c \in Counting <=> c \in Counting'
  <2>1. Counting' = Counting
    BY <1>1, <1>2, <1>5
  <2>2. QED
    BY <1>2, <1>5, <2>1, FS_CardinalityType
<1>6. QED
  BY <1>3, <1>4, <1>5

\* A step that counts nothing: a call may stop being counted.
LEMMA WindowQuiet ==
    ASSUME WindowInv, NEW c \in Consumers, \A d \in Consumers \ {c} : consumer'[d] = consumer[d],
           c \in Counting' => c \in Counting, UNCHANGED <<failures, window>>
    PROVE  WindowInv'
<1>1. IsFiniteSet(Counting') /\ Cardinality(Counting') <= Cardinality(Counting)
      /\ Cardinality(Counting) \in Nat /\ Cardinality(Counting') \in Nat
  BY CountingMoves
<1>2. Counting' \subseteq Counting
  BY CountingMoves
<1>3. QED
  BY <1>1, <1>2, WindowConstants DEF WindowInv, Due

\* No call moves.
LEMMA WindowStill ==
    ASSUME WindowInv, UNCHANGED <<consumer, failures, window>>
    PROVE  WindowInv'
<1>1. Counting' = Counting
  BY DEF Counting, Active
<1>2. QED
  BY <1>1 DEF WindowInv, Due

\* The failure is counted before the code is compared, so who gets through was
\* counted within the limit.
LEMMA WindowCountFailure ==
    ASSUME Types, WindowInv, NEW c \in Consumers, CountFailure(c)
    PROVE  WindowInv'
<1>1. /\ At(c, "failure") /\ window' = window
      /\ failures' = Increment(failures, 1, FailureWindow)
      /\ consumer[c] \in BusyType
  BY Busy DEF CountFailure, Active, At
<1>2. c \notin Counting
  BY <1>1 DEF Counting, At
<1>3. failures \in [n: Int, left: Nat] /\ window \in [wrong: Nat, owed: Nat]
  BY DEF WindowInv
<1>4. /\ failures' \in [n: Int, left: Nat] /\ failures'.left > 0
      /\ failures.left = 0 => failures'.n = 1
      /\ failures.left > 0 => failures'.n = failures.n + 1
  BY <1>1, <1>3, WindowConstants DEF Increment
<1>5. CASE failures'.n > MaxFailures
  <2>1. consumer' = [consumer EXCEPT ![c] = Idle]
    BY <1>1, <1>5 DEF CountFailure, Refuse
  <2>2. /\ \A d \in Consumers \ {c} : consumer'[d] = consumer[d]
        /\ consumer'[c] = Idle
    BY <2>1 DEF Types
  <2>3. c \notin Counting'
    BY <2>2 DEF Counting, Active, Idle
  <2>4. Counting' = Counting
    BY <1>2, <2>2, <2>3, CountingMoves
  <2>5. IsFiniteSet(Counting) /\ Cardinality(Counting) \in Nat
    BY <2>2, CountingMoves DEF WindowInv
  <2>6. failures.left = 0 => Cardinality(Counting) = 0
    BY FS_EmptySet DEF WindowInv
  <2>7. Due' = Due /\ Due \in Int
    BY <1>1, <1>3, <2>4, <2>5 DEF Due
  <2>8. Due' <= failures'.n
    BY <1>3, <1>4, <2>6, <2>7 DEF WindowInv, Due
  <2>9. QED
    BY <1>1, <1>3, <1>4, <2>4, <2>5, <2>7, <2>8 DEF WindowInv
<1>6. CASE ~(failures'.n > MaxFailures)
  <2>1. consumer' = [consumer EXCEPT ![c] = [consumer[c] EXCEPT !.at = "attempt", !.current = TRUE]]
    BY <1>1, <1>6 DEF CountFailure
  <2>2. /\ \A d \in Consumers \ {c} : consumer'[d] = consumer[d]
        /\ consumer'[c].at = "attempt" /\ consumer'[c].current
    BY <1>1, <2>1 DEF Types, BusyType
  <2>3. c \in Counting'
    BY <2>2 DEF Counting, Active
  <2>4. /\ Cardinality(Counting') = Cardinality(Counting) + 1 /\ IsFiniteSet(Counting')
        /\ Cardinality(Counting) \in Nat
    BY <1>2, <2>2, <2>3, CountingMoves
  <2>5. failures.left = 0 => Cardinality(Counting) = 0
    BY FS_EmptySet DEF WindowInv
  <2>6. Due' = Due + 1 /\ Due \in Int
    BY <1>1, <1>3, <2>4 DEF Due
  <2>7. Due' <= failures'.n
    BY <1>3, <1>4, <2>5, <2>6 DEF WindowInv, Due
  <2>8. Due' <= MaxFailures
    BY <1>4, <1>6, <2>6, <2>7, WindowConstants
  <2>9. QED
    BY <1>1, <1>3, <1>4, <2>4, <2>7, <2>8 DEF WindowInv
<1>7. QED
  BY <1>5, <1>6

\* A wrong code leaves the counted calls and is counted as wrong.
LEMMA WindowCountAttempt ==
    ASSUME Types, WindowInv, NEW c \in Consumers, CountAttempt(c)
    PROVE  WindowInv'
<1>1. /\ At(c, "attempt") /\ failures' = failures /\ consumer[c] \in BusyType
  BY Busy DEF CountAttempt, Active, At
<1>2. failures \in [n: Int, left: Nat] /\ window \in [wrong: Nat, owed: Nat]
  BY DEF WindowInv
<1>3. \/ consumer' = [consumer EXCEPT ![c].at = "right"] /\ window' = window
      \/ /\ consumer' = [consumer EXCEPT ![c] = Idle]
         /\ \/ window' = window
            \/ consumer[c].current /\ window' = [window EXCEPT !.wrong = @ + 1]
  BY DEF CountAttempt, Goto, Refuse
<1>4. \A d \in Consumers \ {c} : consumer'[d] = consumer[d]
  BY <1>3 DEF Types
<1>5. CASE window' = window
  <2>1. c \in Counting' => c \in Counting
    <3>1. CASE consumer' = [consumer EXCEPT ![c].at = "right"]
      <4>1. consumer'[c].current = consumer[c].current
        BY <1>1, <3>1 DEF Types, BusyType
      <4>2. QED
        BY <1>1, <4>1 DEF Counting, Active, At
    <3>2. CASE consumer' = [consumer EXCEPT ![c] = Idle]
      BY <3>2 DEF Types, Counting, Active, Idle
    <3>3. QED
      BY <1>3, <3>1, <3>2
  <2>2. QED
    BY <1>1, <1>4, <1>5, <2>1, WindowQuiet
<1>6. CASE consumer' = [consumer EXCEPT ![c] = Idle] /\ consumer[c].current
           /\ window' = [window EXCEPT !.wrong = @ + 1]
  <2>1. c \in Counting
    BY <1>1, <1>6 DEF Counting, Active, At
  <2>2. c \notin Counting'
    BY <1>6, ZenonT(15) DEF Types, Counting, Active, Idle
  <2>3. /\ Cardinality(Counting') = Cardinality(Counting) - 1 /\ IsFiniteSet(Counting')
        /\ Cardinality(Counting) \in Nat
    BY <1>4, <2>1, <2>2, CountingMoves
  <2>4. window' \in [wrong: Nat, owed: Nat] /\ window'.wrong = window.wrong + 1 /\ window'.owed = window.owed
    BY <1>2, <1>6
  <2>5. Due' = Due
    BY <1>2, <2>3, <2>4 DEF Due
  <2>6. failures.left # 0
    BY <2>1 DEF WindowInv
  <2>7. QED
    BY <1>1, <2>3, <2>4, <2>5, <2>6 DEF WindowInv
<1>7. QED
  BY <1>3, <1>5, <1>6

\* A right code takes back the count of this window, or one is owed.
LEMMA WindowTakeBack ==
    ASSUME Types, WindowInv, NEW c \in Consumers, TakeBack(c)
    PROVE  WindowInv'
<1>1. /\ At(c, "right") /\ consumer[c] \in BusyType
      /\ failures' = Increment(failures, -1, FailureWindow)
      /\ consumer' = [consumer EXCEPT ![c].at = "burn"]
  BY Busy DEF TakeBack, Active, At, Goto
<1>2. failures \in [n: Int, left: Nat] /\ window \in [wrong: Nat, owed: Nat]
  BY DEF WindowInv
<1>3. /\ failures' \in [n: Int, left: Nat] /\ failures'.left > 0
      /\ failures.left = 0 => failures'.n = -1
      /\ failures.left > 0 => failures'.n = failures.n - 1
  BY <1>1, <1>2, WindowConstants DEF Increment
<1>4. \A d \in Consumers \ {c} : consumer'[d] = consumer[d]
  BY <1>1 DEF Types
<1>5. c \notin Counting'
  BY <1>1 DEF Types, Counting, BusyType
<1>6. CASE consumer[c].current
  <2>1. c \in Counting
    BY <1>1, <1>6 DEF Counting, Active, At
  <2>2. /\ Cardinality(Counting') = Cardinality(Counting) - 1 /\ IsFiniteSet(Counting')
        /\ Cardinality(Counting) \in Nat
    BY <1>4, <1>5, <2>1, CountingMoves
  <2>3. window' = window
    BY <1>6 DEF TakeBack
  <2>4. Due' = Due - 1 /\ Due \in Int
    BY <1>2, <2>2, <2>3 DEF Due
  <2>5. failures.left > 0
    BY <1>2, <2>1 DEF WindowInv
  <2>6. QED
    BY <1>2, <1>3, <2>2, <2>3, <2>4, <2>5, WindowConstants DEF WindowInv
<1>7. CASE ~consumer[c].current
  <2>1. c \notin Counting
    BY <1>7 DEF Counting
  <2>2. Counting' = Counting /\ IsFiniteSet(Counting') /\ Cardinality(Counting) \in Nat
    BY <1>4, <1>5, <2>1, CountingMoves
  <2>3. window' = [window EXCEPT !.owed = @ + 1]
    BY <1>7 DEF TakeBack
  <2>4. window' \in [wrong: Nat, owed: Nat] /\ window'.wrong = window.wrong /\ window'.owed = window.owed + 1
    BY <1>2, <2>3
  <2>5. Due' = Due - 1 /\ Due \in Int
    BY <1>2, <2>2, <2>4 DEF Due
  <2>6. failures.left = 0 => Due = 0
    BY FS_EmptySet DEF WindowInv, Due
  <2>7. Due' <= failures'.n
    BY <1>2, <1>3, <2>5, <2>6 DEF WindowInv
  <2>8. QED
    BY <1>3, <2>2, <2>4, <2>5, <2>7, WindowConstants DEF WindowInv
<1>8. QED
  BY <1>6, <1>7

\* When the window closes nobody is counted in it any more.
LEMMA WindowElapse ==
    ASSUME Types, WindowInv, Elapse
    PROVE  WindowInv'
<1>1. failures \in [n: Int, left: Nat] /\ window \in [wrong: Nat, owed: Nat]
  BY ZenonT(15) DEF WindowInv
<1>2. failures' = IF failures.left > 1 THEN [failures EXCEPT !.left = @ - 1] ELSE NoCounter
  BY ZenonT(30) DEF Elapse
<1>3. window' = IF failures.left = 1 THEN [wrong |-> 0, owed |-> 0] ELSE window
  BY Zenon DEF Elapse
<1>4. ASSUME NEW c \in Consumers, c \in Counting'
      PROVE  c \in Counting /\ failures.left # 1
  <2>1. consumer'[c] = IF At(c, "idle") THEN Idle
          ELSE [consumer[c] EXCEPT !.left = Sooner(@), !.current = @ /\ ~(failures.left = 1)]
    BY Zenon DEF Elapse
  <2>2. Active(c) /\ consumer[c] \in BusyType
    BY <1>4, <2>1, Busy DEF Counting, Active, At, Idle
  <2>3. /\ consumer'[c].at = consumer[c].at
        /\ consumer'[c].current = (consumer[c].current /\ ~(failures.left = 1))
    BY <2>1, <2>2, ZenonT(15) DEF Active, At, BusyType
  <2>4. QED
    BY <1>4, <2>2, <2>3, Zenon DEF Counting, BusyType
<1>5. Counting' \subseteq Counting /\ IsFiniteSet(Counting)
  BY <1>4 DEF Counting, WindowInv
<1>6. /\ IsFiniteSet(Counting') /\ Cardinality(Counting') <= Cardinality(Counting)
      /\ Cardinality(Counting) \in Nat /\ Cardinality(Counting') \in Nat
  BY <1>5, FS_Subset, FS_CardinalityType
<1>7. CASE failures.left <= 1
  <2>1. failures' = [n |-> 0, left |-> 0]
    BY <1>1, <1>2, <1>7 DEF NoCounter
  <2>2. Counting' = {} /\ window'.wrong = 0 /\ window'.owed = 0 /\ window' \in [wrong: Nat, owed: Nat]
    BY <1>1, <1>3, <1>4, <1>5, <1>7 DEF WindowInv, Counting
  <2>3. Due' = 0
    BY <2>2, FS_EmptySet DEF Due
  <2>4. QED
    BY <1>6, <2>1, <2>2, <2>3, WindowConstants DEF WindowInv
<1>8. CASE failures.left > 1
  <2>1. failures' \in [n: Int, left: Nat] /\ failures'.left > 0 /\ failures'.n = failures.n /\ window' = window
    BY <1>1, <1>2, <1>3, <1>8
  <2>2. Due' <= Due /\ Due \in Int /\ Due' \in Int
    BY <1>1, <1>6, <2>1 DEF Due
  <2>3. QED
    BY <1>1, <1>6, <1>8, <2>1, <2>2, WindowConstants DEF WindowInv
<1>9. QED
  BY <1>1, <1>7, <1>8

\* Every step keeps the account of the window.
LEMMA WindowStep ==
    ASSUME Types, WindowInv, [Next]_vars
    PROVE  WindowInv'
<1>1. ASSUME NEW i \in Issuers, Issue(i) \/ Put(i) \/ IssueFails(i) PROVE WindowInv'
  BY <1>1, WindowStill DEF Issue, Put, IssueFails
<1>2. ASSUME NEW c \in Consumers, CountFailure(c) \/ CountAttempt(c) \/ TakeBack(c) PROVE WindowInv'
  BY <1>2, WindowCountFailure, WindowCountAttempt, WindowTakeBack
<1>3. ASSUME NEW c \in Consumers, Refuse(c), UNCHANGED <<failures, window>> PROVE WindowInv'
  <2>1. (\A d \in Consumers \ {c} : consumer'[d] = consumer[d]) /\ consumer'[c] = Idle
    BY <1>3 DEF Refuse, Types
  <2>2. c \notin Counting'
    BY <2>1 DEF Counting, Active, Idle
  <2>3. QED
    BY <1>3, <2>1, <2>2, WindowQuiet
<1>4. ASSUME NEW c \in Consumers, Active(c), NEW step \in {"burn", "forget"}, Goto(c, step),
             UNCHANGED <<failures, window>>
      PROVE  WindowInv'
  <2>1. consumer[c] \in BusyType
    BY <1>4, Busy
  <2>2. (\A d \in Consumers \ {c} : consumer'[d] = consumer[d]) /\ consumer'[c].at = step
    BY <1>4, <2>1 DEF Goto, Types, BusyType
  <2>3. c \notin Counting'
    BY <2>2 DEF Counting
  <2>4. QED
    BY <1>4, <2>2, <2>3, WindowQuiet
<1>5. ASSUME NEW c \in Consumers, Burn(c) \/ Forget(c) \/ StoreFails(c) PROVE WindowInv'
  BY <1>3, <1>4, <1>5 DEF Burn, Forget, StoreFails, At, Active
<1>6. ASSUME NEW c \in Consumers, NEW code \in 0..issued, Consume(c, code) PROVE WindowInv'
  <2>1. /\ \A d \in Consumers \ {c} : consumer'[d] = consumer[d]
        /\ consumer'[c].at = "failure"
    BY <1>6 DEF Consume, Types
  <2>2. c \notin Counting'
    BY <2>1 DEF Counting
  <2>3. QED
    BY <1>6, <2>1, <2>2, WindowQuiet DEF Consume
<1>7. CASE UNCHANGED vars
  BY <1>7, WindowStill DEF vars
<1>8. QED
  BY <1>1, <1>2, <1>5, <1>6, <1>7, WindowElapse DEF Next, Step

\* A failure window lets at most MaxFailures wrong codes through, and one more
\* for each count of an earlier window that was taken back in it: every call
\* that gets to compare was counted within the limit, whatever the order in
\* which calls count, compare, take back and die.
THEOREM WindowFailuresLimited == Spec => []FailuresLimited
<1>1. Init => WindowInv
  BY WindowInit
<1>2. CodeInv => Types
  BY DEF CodeInv
<1>3. CodeInv /\ WindowInv /\ [Next]_vars => WindowInv'
  BY <1>2, WindowStep
<1>4. WindowInv => FailuresLimited
  <2>1. WindowInv => Cardinality(Counting) \in Nat
    BY FS_CardinalityType DEF WindowInv
  <2>2. QED
    BY <2>1, WindowConstants DEF WindowInv, Due, FailuresLimited
<1>5. QED
  BY <1>1, <1>3, <1>4, CodeInvHolds, PTL DEF Spec
=============================================================================
